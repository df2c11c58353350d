--------------------------- MODULE Profiling_proofs ---------------------------
(***************************************************************************)
(* The invariants of Profiling, for every set of keys, bound of the        *)
(* profile, kind of adapter and number of generations, frames and passes.  *)
(*                                                                         *)
(* A sum of counts is the number of pairs <<index, unit>> (Units), so that *)
(* one more call is one more element of a finite set.  The fold over the   *)
(* records of a frame then keeps the books: what is not yet added to a     *)
(* stage is owed (Balanced).  IInv ties each record to its pass and its    *)
(* query, the buffer to the queries, and the log to the generations.       *)
(***************************************************************************)
EXTENDS Profiling, SequenceTheorems, WellFoundedInduction, FiniteSetTheorems,
        TLAPS

-----------------------------------------------------------------------------
(* Induction over numbers, and the values of a fold, step by step.
   The theorems of the library take a property as an operator: here it is a
   set, T == {n \in Nat : P(n)}. *)

\* Every nonempty set of natural numbers has a least element.
LEMMA LeastElement ==
  ASSUME NEW T, T \subseteq Nat, T # {}
  PROVE  \E x \in T : \A y \in T : x <= y
<1> DEFINE R == OpToRel(<,Nat)
<1>1. IsWellFoundedOn(R, Nat)
  BY NatLessThanWellFounded
<1>2. \A x, y \in Nat : <<y, x>> \in R <=> y < x
  BY DEF OpToRel
<1> HIDE DEF R
<1>3. PICK x \in T : \A y \in T : ~ (<<y, x>> \in R)
  BY <1>1, WFMin
<1>4. \A y \in T : ~(y < x)
  BY <1>2, <1>3
<1>5. \A y \in T : y \in Nat /\ x \in Nat
  OBVIOUS
<1>6. \A y \in T : x <= y
  BY <1>4, <1>5
<1>7. QED
  BY <1>6

\* A set that holds 0 and every successor of its numbers holds them all.
LEMMA Induction ==
  ASSUME NEW T, 0 \in T, \A n \in Nat : n \in T => n + 1 \in T
  PROVE  Nat \subseteq T
<1> DEFINE C == {n \in Nat : n \notin T}
<1>1. SUFFICES ASSUME C # {} PROVE FALSE
  OBVIOUS
<1>2. PICK x \in C : \A y \in C : x <= y
  <2>1. C \subseteq Nat OBVIOUS
  <2> HIDE DEF C
  <2>2. QED BY <1>1, <2>1, LeastElement
<1>3. x # 0 /\ x \in Nat
  OBVIOUS
<1>4. x - 1 \in Nat /\ x - 1 \notin C
  BY <1>2, <1>3
<1>5. QED
  BY <1>4, <1>3

\* The largest element of a set of positive numbers that holds the bound.
LEMMA MaxIsLargest ==
  ASSUME NEW n \in Nat, NEW s \in SUBSET (1 .. n + 1), n + 1 \in s
  PROVE  Max(s) = n + 1
<1>1. \A y \in s : y \in Nat /\ n + 1 >= y
  OBVIOUS
<1>2. \A x \in s : (\A y \in s : x >= y) => x = n + 1
  BY <1>1
<1>3. QED
  BY <1>1, <1>2 DEF Max

\* A nonempty set of numbers up to n holds its largest element.
LEMMA MaxExists ==
  ASSUME NEW n \in Nat, NEW s \in SUBSET (1 .. n), s # {}
  PROVE  Max(s) \in s /\ \A y \in s : Max(s) >= y
<1> DEFINE T == {k \in Nat : n - k \in s}
<1>1. T \subseteq Nat /\ T # {}
  <2>1. PICK y \in s : TRUE
    OBVIOUS
  <2>2. n - y \in Nat /\ n - (n - y) = y
    OBVIOUS
  <2>3. QED
    BY <2>2
<1>2. PICK k \in T : \A j \in T : k <= j
  <2> HIDE DEF T
  <2>1. QED
    BY <1>1, LeastElement
<1>3. n - k \in s
  OBVIOUS
<1>4. ASSUME NEW y \in s PROVE n - k >= y
  <2>1. n - y \in T
    OBVIOUS
  <2>2. k <= n - y
    BY <1>2, <2>1
  <2>3. k \in Nat /\ y \in Nat
    OBVIOUS
  <2> HIDE DEF T
  <2>4. QED
    BY <2>2, <2>3
<1>5. \E x \in s : \A y \in s : x >= y
  BY <1>3, <1>4
<1>6. QED
  BY <1>5 DEF Max

\* f folds step over every subset of 1 .. n, its largest element last.
FoldsOver(f, A, base, step, n) ==
  /\ f \in [SUBSET (1 .. n) -> A]
  /\ \A s \in SUBSET (1 .. n) :
       f[s] = IF s = {} THEN base ELSE step[<<f[s \ {Max(s)}], Max(s)>>]

\* Such an f exists, for every length.
LEMMA FoldExists ==
  ASSUME NEW A, NEW base \in A, NEW step \in [A \X Nat -> A]
  PROVE  \A n \in Nat : \E f : FoldsOver(f, A, base, step, n)
<1> DEFINE T == {n \in Nat : \E f : FoldsOver(f, A, base, step, n)}
<1>1. 0 \in T
  <2> DEFINE f == [s \in SUBSET (1 .. 0) |-> base]
  <2>1. 1 .. 0 = {}
    OBVIOUS
  <2>2. FoldsOver(f, A, base, step, 0)
    BY <2>1 DEF FoldsOver
  <2>3. QED
    BY <2>2
<1>2. ASSUME NEW n \in Nat, n \in T PROVE n + 1 \in T
  <2>1. PICK g : FoldsOver(g, A, base, step, n)
    BY <1>2
  <2> DEFINE S == SUBSET (1 .. n)
             S1 == SUBSET (1 .. n + 1)
             f == [s \in S1 |-> IF n + 1 \in s THEN step[<<g[s \ {n + 1}], n + 1>>] ELSE g[s]]
  <2>2. \A s \in S1 : s \ {n + 1} \in S
    OBVIOUS
  <2>3. \A s \in S1 : n + 1 \notin s => s \in S
    OBVIOUS
  <2>4. \A s \in S : g[s] \in A
    BY <2>1 DEF FoldsOver
  <2>5. f \in [S1 -> A]
    <3>1. ASSUME NEW s \in S1
          PROVE  (IF n + 1 \in s THEN step[<<g[s \ {n + 1}], n + 1>>] ELSE g[s]) \in A
      <4>1. CASE n + 1 \in s
        <5>1. g[s \ {n + 1}] \in A
          BY <2>2, <2>4
        <5>2. QED
          BY <5>1, <4>1
      <4>2. CASE n + 1 \notin s
        BY <4>2, <2>3, <2>4
      <4>3. QED
        BY <4>1, <4>2
    <3>2. QED
      BY <3>1
  <2>6. ASSUME NEW s \in S1
        PROVE  f[s] = IF s = {} THEN base ELSE step[<<f[s \ {Max(s)}], Max(s)>>]
    <3>1. CASE n + 1 \in s
      <4>1. Max(s) = n + 1
        BY <3>1, MaxIsLargest
      <4>2. s \ {n + 1} \in S1 /\ n + 1 \notin s \ {n + 1}
        OBVIOUS
      <4>3. f[s \ {n + 1}] = g[s \ {n + 1}]
        BY <4>2
      <4>4. f[s] = step[<<g[s \ {n + 1}], n + 1>>]
        BY <3>1
      <4>5. QED
        BY <3>1, <4>1, <4>3, <4>4
    <3>2. CASE n + 1 \notin s
      <4>1. s \in S /\ f[s] = g[s]
        BY <3>2, <2>3
      <4>2. f[s \ {Max(s)}] = g[s \ {Max(s)}]
        BY <3>2
      <4>3. QED
        BY <4>1, <4>2, <2>1 DEF FoldsOver
    <3>3. QED
      BY <3>1, <3>2
  <2>7. FoldsOver(f, A, base, step, n + 1)
    BY <2>5, <2>6 DEF FoldsOver
  <2>8. QED
    BY <2>7
<1>3. Nat \subseteq T
  <2> HIDE DEF T
  <2>1. QED
    BY <1>1, <1>2, Induction
<1>4. QED
  BY <1>3

\* Peeling the largest number off 1 .. k leaves 1 .. k - 1.
LEMMA PrefixIsPeeled ==
  ASSUME NEW n \in Nat, NEW k \in 1 .. n
  PROVE  1 .. k # {} /\ Max(1 .. k) = k /\ (1 .. k) \ {k} = 1 .. (k - 1)
<1>1. /\ k - 1 \in Nat /\ 1 .. k \in SUBSET (1 .. (k - 1) + 1)
      /\ (k - 1) + 1 \in 1 .. k /\ (k - 1) + 1 = k
  OBVIOUS
<1>2. Max(1 .. k) = (k - 1) + 1
  BY <1>1, MaxIsLargest
<1>3. QED
  BY <1>1, <1>2

\* The values of a fold after each of its steps.
FoldValues(F, A, base, step, n) ==
  /\ F \in [0 .. n -> A]
  /\ F[0] = base
  /\ \A i \in 1 .. n : F[i] = step[<<F[i - 1], i>>]

\* They exist.
LEMMA ValuesExist ==
  ASSUME NEW A, NEW base \in A, NEW step \in [A \X Nat -> A], NEW n \in Nat
  PROVE  \E F : FoldValues(F, A, base, step, n)
<1>1. PICK f : FoldsOver(f, A, base, step, n)
  BY FoldExists
<1> DEFINE F == [k \in 0 .. n |-> f[1 .. k]]
<1>2. \A k \in 0 .. n : 1 .. k \in SUBSET (1 .. n)
  OBVIOUS
<1>3. F \in [0 .. n -> A]
  BY <1>1, <1>2 DEF FoldsOver
<1>4. F[0] = base
  <2>1. 1 .. 0 = {}
    OBVIOUS
  <2>2. F[0] = f[{}]
    BY <2>1
  <2>3. QED
    BY <2>2, <1>1 DEF FoldsOver
<1>5. ASSUME NEW i \in 1 .. n PROVE F[i] = step[<<F[i - 1], i>>]
  <2>1. 1 .. i # {} /\ Max(1 .. i) = i /\ (1 .. i) \ {i} = 1 .. (i - 1)
    BY PrefixIsPeeled
  <2>2. 1 .. i \in SUBSET (1 .. n) /\ i \in 0 .. n /\ i - 1 \in 0 .. n
    OBVIOUS
  <2>3. f[1 .. i] = step[<<f[1 .. (i - 1)], i>>]
    BY <1>1, <2>1, <2>2 DEF FoldsOver
  <2>4. QED
    BY <2>2, <2>3
<1>6. QED
  BY <1>3, <1>4, <1>5 DEF FoldValues

\* A function that takes each step from a typed value, whatever it is
\* elsewhere: what the CHOOSE in the definition of a fold is shown to be.
PeelsOff(g, A, base, step, n) ==
  /\ g[{}] = base
  /\ \A s \in SUBSET (1 .. n) :
       s # {} /\ g[s \ {Max(s)}] \in A => g[s] = step[<<g[s \ {Max(s)}], Max(s)>>]

\* On the intervals from 1 it has the values of the fold.
LEMMA PeelingHasValues ==
  ASSUME NEW A, NEW base, NEW step, NEW n \in Nat, NEW g, NEW F,
         PeelsOff(g, A, base, step, n), FoldValues(F, A, base, step, n)
  PROVE  g[1 .. n] = F[n]
<1> DEFINE T == {k \in Nat : k <= n => g[1 .. k] = F[k]}
<1>1. 0 \in T
  <2>1. 1 .. 0 = {}
    OBVIOUS
  <2>2. g[1 .. 0] = base
    BY <2>1 DEF PeelsOff
  <2>3. QED
    BY <2>2 DEF FoldValues
<1>2. ASSUME NEW k \in Nat, k \in T PROVE k + 1 \in T
  <2>1. SUFFICES ASSUME k + 1 <= n PROVE g[1 .. k + 1] = F[k + 1]
    OBVIOUS
  <2>2. k + 1 \in 1 .. n /\ (k + 1) - 1 = k /\ k \in 0 .. n /\ k <= n
    BY <2>1
  <2>3. 1 .. k + 1 # {} /\ Max(1 .. k + 1) = k + 1 /\ (1 .. k + 1) \ {k + 1} = 1 .. k
    BY <2>2, PrefixIsPeeled
  <2>4. 1 .. k + 1 \in SUBSET (1 .. n)
    BY <2>2
  <2>5. g[1 .. k] = F[k] /\ F[k] \in A
    BY <1>2, <2>2 DEF FoldValues
  <2>6. g[1 .. k + 1] = step[<<g[1 .. k], k + 1>>]
    BY <2>3, <2>4, <2>5 DEF PeelsOff
  <2>7. F[k + 1] = step[<<F[k], k + 1>>]
    BY <2>2 DEF FoldValues
  <2>8. QED
    BY <2>5, <2>6, <2>7
<1>3. Nat \subseteq T
  <2> HIDE DEF T
  <2>1. QED
    BY <1>1, <1>2, Induction
<1>4. QED
  BY <1>3

-----------------------------------------------------------------------------
(* Sums of counts                                                          *)

\* A sum as a set: f[x] units for each x in s.
Units(f, s) == {p \in s \X Nat : 1 <= p[2] /\ p[2] <= f[p[1]]}

\* An index adds its own units to those of the others.
LEMMA UnitsOfElement ==
  ASSUME NEW S, NEW f \in [S -> Nat], NEW s \in SUBSET S, NEW x \in s,
         IsFiniteSet(Units(f, s \ {x}))
  PROVE  /\ IsFiniteSet(Units(f, s))
         /\ Cardinality(Units(f, s)) = f[x] + Cardinality(Units(f, s \ {x}))
<1> DEFINE A == Units(f, s \ {x})
           B == {x} \X (1 .. f[x])
<1>1. f[x] \in Nat
  OBVIOUS
<1>2. Units(f, s) = A \cup B
  <2>1. ASSUME NEW p \in A PROVE p \in Units(f, s)
    BY DEF Units
  <2>2. ASSUME NEW p \in B PROVE p \in Units(f, s)
    BY <1>1 DEF Units
  <2>3. ASSUME NEW p \in Units(f, s) PROVE p \in A \cup B
    <3>1. p \in s \X Nat /\ 1 <= p[2] /\ p[2] <= f[p[1]]
      BY DEF Units
    <3>2. CASE p[1] = x
      <4>1. p[2] \in 1 .. f[x] /\ p = <<p[1], p[2]>>
        BY <1>1, <3>1, <3>2
      <4>2. QED
        BY <3>2, <4>1
    <3>3. CASE p[1] # x
      BY <3>1, <3>3 DEF Units
    <3>4. QED
      BY <3>2, <3>3
  <2>4. QED
    BY <2>1, <2>2, <2>3
<1>3. A \cap B = {}
  BY DEF Units
<1>4. IsFiniteSet(B) /\ Cardinality(B) = f[x]
  <2>1. IsFiniteSet(1 .. f[x]) /\ Cardinality(1 .. f[x]) = f[x]
    <3>1. 1 \in Int /\ f[x] \in Int
      BY <1>1
    <3>2. /\ IsFiniteSet(1 .. f[x])
          /\ Cardinality(1 .. f[x]) = IF 1 > f[x] THEN 0 ELSE f[x] - 1 + 1
      BY <3>1, FS_Interval
    <3>3. QED
      BY <1>1, <3>2
  <2>2. IsFiniteSet({x}) /\ Cardinality({x}) = 1
    BY FS_Singleton
  <2>3. IsFiniteSet(B) /\ Cardinality(B) = Cardinality({x}) * Cardinality(1 .. f[x])
    BY <2>1, <2>2, FS_Product
  <2> HIDE DEF B
  <2>4. QED
    BY <1>1, <2>1, <2>2, <2>3
<1>5. /\ IsFiniteSet(A \cup B)
      /\ Cardinality(A \cup B) = Cardinality(A) + Cardinality(B) - Cardinality(A \cap B)
  <2> HIDE DEF A, B
  <2>1. IsFiniteSet(A)
    BY DEF A
  <2>2. QED
    BY <1>4, <2>1, FS_Union
<1>6. Cardinality(A \cap B) = 0 /\ Cardinality(A) \in Nat
  <2> HIDE DEF B
  <2>1. QED
    BY <1>3, FS_EmptySet, FS_CardinalityType
<1> HIDE DEF A, B
<1>7. Cardinality(Units(f, s)) = f[x] + Cardinality(A)
  BY <1>1, <1>2, <1>4, <1>5, <1>6
<1>8. QED
  BY <1>2, <1>5, <1>7 DEF A

\* Finitely many numbers have finitely many units.
LEMMA UnitsFinite ==
  ASSUME NEW S, IsFiniteSet(S), NEW f \in [S -> Nat]
  PROVE  \A s \in SUBSET S : IsFiniteSet(Units(f, s))
<1> DEFINE T == {n \in Nat : \A s \in SUBSET S :
                               Cardinality(s) = n => IsFiniteSet(Units(f, s))}
<1>1. 0 \in T
  <2>1. ASSUME NEW s \in SUBSET S, Cardinality(s) = 0 PROVE IsFiniteSet(Units(f, s))
    <3>1. s = {}
      BY <2>1, FS_Subset, FS_EmptySet
    <3>2. Units(f, s) = {}
      BY <3>1 DEF Units
    <3>3. QED
      BY <3>2, FS_EmptySet
  <2>2. QED
    BY <2>1
<1>2. ASSUME NEW n \in Nat, n \in T PROVE n + 1 \in T
  <2>1. ASSUME NEW s \in SUBSET S, Cardinality(s) = n + 1 PROVE IsFiniteSet(Units(f, s))
    <3>1. IsFiniteSet(s) /\ s # {}
      BY <2>1, FS_Subset, FS_EmptySet
    <3>2. PICK x \in s : TRUE
      BY <3>1
    <3>3. Cardinality(s \ {x}) = n
      <4>1. Cardinality(s \ {x}) = Cardinality(s) - 1
        BY <3>1, <3>2, FS_RemoveElement
      <4> HIDE DEF T
      <4>2. QED
        BY <2>1, <4>1
    <3>4. IsFiniteSet(Units(f, s \ {x}))
      BY <1>2, <3>3
    <3>5. QED
      BY <3>2, <3>4, UnitsOfElement
  <2>2. QED
    BY <2>1
<1>3. Nat \subseteq T
  <2> HIDE DEF T
  <2>1. QED
    BY <1>1, <1>2, Induction
<1>4. QED
  BY <1>3, FS_Subset, FS_CardinalityType

\* SumFunction counts the units, in whatever order it takes the indices.
LEMMA SumIsCardinality ==
  ASSUME NEW S, IsFiniteSet(S), NEW f \in [S -> Nat]
  PROVE  SumFunction(f) = Cardinality(Units(f, S)) /\ IsFiniteSet(Units(f, S))
<1> DEFINE One(s) == CHOOSE x \in s : TRUE
           IsIter(g) == g = [s \in SUBSET S |-> IF s = {} THEN 0
                                                ELSE f[One(s)] + g[s \ {One(s)}]]
           Steps(g) == \A s \in SUBSET S : g[s] = IF s = {} THEN 0
                                                ELSE f[One(s)] + g[s \ {One(s)}]
           iter == CHOOSE g : IsIter(g)
           count == [s \in SUBSET S |-> Cardinality(Units(f, s))]
<1>1. SumFunction(f) = iter[S]
  <2>1. DOMAIN f = S
    OBVIOUS
  <2>2. QED
    BY <2>1 DEF SumFunction, SumFunctionOnSet, FoldFunctionOnSet, MapThenFoldSet
<1>2. \A s \in SUBSET S : IsFiniteSet(Units(f, s)) /\ IsFiniteSet(s)
  BY UnitsFinite, FS_Subset
<1>3. \A s \in SUBSET S : s # {} => One(s) \in s /\ s \ {One(s)} \in SUBSET S
  OBVIOUS
<1> HIDE DEF One
<1>4. Units(f, {}) = {}
  BY DEF Units
<1>5. Cardinality({}) = 0
  BY FS_EmptySet
<1>6. \A s \in SUBSET S : s # {} =>
        Cardinality(Units(f, s)) = f[One(s)] + Cardinality(Units(f, s \ {One(s)}))
  BY <1>2, <1>3, UnitsOfElement
<1>7. IsIter(count)
  <2>1. ASSUME NEW s \in SUBSET S
        PROVE  count[s] = IF s = {} THEN 0 ELSE f[One(s)] + count[s \ {One(s)}]
    BY <1>3, <1>4, <1>5, <1>6
  <2>2. count = [s \in SUBSET S |-> count[s]]
    OBVIOUS
  <2> HIDE DEF count
  <2>3. QED
    BY <2>1, <2>2
<1>8. Steps(iter)
  <2>1. \A g : IsIter(g) => Steps(g)
    OBVIOUS
  <2>2. IsIter(iter)
    <3> HIDE DEF IsIter, count
    <3>1. QED
      BY <1>7
  <2> HIDE DEF IsIter, Steps, iter
  <2>3. QED
    BY <2>1, <2>2
<1> HIDE DEF iter, count
<1> DEFINE T == {n \in Nat : \A s \in SUBSET S :
                               Cardinality(s) = n => iter[s] = Cardinality(Units(f, s))}
<1>9. 0 \in T
  <2>1. ASSUME NEW s \in SUBSET S, Cardinality(s) = 0 PROVE iter[s] = Cardinality(Units(f, s))
    <3>1. s = {}
      BY <1>2, <2>1, FS_EmptySet
    <3>2. QED
      BY <1>4, <1>5, <1>8, <3>1
  <2>2. QED
    BY <2>1
<1>10. ASSUME NEW n \in Nat, n \in T PROVE n + 1 \in T
  <2>1. ASSUME NEW s \in SUBSET S, Cardinality(s) = n + 1
        PROVE  iter[s] = Cardinality(Units(f, s))
    <3>1. s # {} /\ IsFiniteSet(s)
      <4>1. n + 1 # 0
        OBVIOUS
      <4> HIDE DEF T, Steps
      <4>2. QED
        BY <1>2, <1>5, <2>1, <4>1
    <3>2. One(s) \in s /\ s \ {One(s)} \in SUBSET S
      BY <1>3, <3>1
    <3>3. Cardinality(s \ {One(s)}) = n
      <4>1. Cardinality(s \ {One(s)}) = Cardinality(s) - 1
        BY <3>1, <3>2, FS_RemoveElement
      <4> HIDE DEF T, Steps
      <4>2. QED
        BY <2>1, <4>1
    <3>4. iter[s \ {One(s)}] = Cardinality(Units(f, s \ {One(s)}))
      BY <1>10, <3>2, <3>3
    <3>5. iter[s] = f[One(s)] + iter[s \ {One(s)}]
      BY <1>8, <3>1
    <3>6. QED
      BY <1>6, <3>1, <3>4, <3>5
  <2>2. QED
    BY <2>1
<1>11. Nat \subseteq T
  <2> HIDE DEF T
  <2>1. QED
    BY <1>9, <1>10, Induction
<1>12. iter[S] = Cardinality(Units(f, S))
  <2>1. Cardinality(S) \in Nat /\ S \in SUBSET S
    BY FS_CardinalityType
  <2>2. Cardinality(S) \in T
    BY <1>11, <2>1
  <2>3. QED
    BY <2>1, <2>2
<1>13. QED
  BY <1>1, <1>2, <1>12

\* A sum of nothing.
LEMMA SumOfNothing ==
  ASSUME NEW f \in [{} -> Nat]
  PROVE  SumFunction(f) = 0
<1>1. IsFiniteSet({})
  BY FS_EmptySet
<1>2. Units(f, {}) = {}
  BY DEF Units
<1>3. QED
  BY <1>1, <1>2, SumIsCardinality, FS_EmptySet

\* g is f with one more at x, which may be a new index.
OneMore(f, S, x, g) ==
  /\ g \in [S \cup {x} -> Nat]
  /\ g[x] = (IF x \in S THEN f[x] ELSE 0) + 1
  /\ \A y \in S : y # x => g[y] = f[y]

\* Its sum is one more.
LEMMA SumGrows ==
  ASSUME NEW S, IsFiniteSet(S), NEW f \in [S -> Nat], NEW x, NEW g, OneMore(f, S, x, g)
  PROVE  SumFunction(f) \in Nat /\ SumFunction(g) = SumFunction(f) + 1
<1> DEFINE A == Units(f, S)
           B == Units(g, S \cup {x})
           u == <<x, g[x]>>
<1>1. g \in [S \cup {x} -> Nat] /\ g[x] \in Nat /\ g[x] >= 1
  BY DEF OneMore
<1>2. B = A \cup {u}
  <2>1. ASSUME NEW p \in A PROVE p \in B
    <3>1. p[1] \in S /\ p[2] \in Nat /\ 1 <= p[2] /\ p[2] <= f[p[1]] /\ p = <<p[1], p[2]>>
      BY DEF Units
    <3>2. p[2] <= g[p[1]]
      BY <3>1 DEF OneMore
    <3>3. QED
      BY <3>1, <3>2 DEF Units
  <2>2. u \in B
    BY <1>1 DEF Units
  <2>3. ASSUME NEW p \in B, p # u PROVE p \in A
    <3>1. /\ p[1] \in S \cup {x} /\ p[2] \in Nat /\ 1 <= p[2] /\ p[2] <= g[p[1]]
          /\ p = <<p[1], p[2]>>
      BY DEF Units
    <3>2. p[1] \in S /\ p[2] <= f[p[1]]
      <4>1. CASE p[1] = x
        <5>1. p[2] # g[x]
          BY <2>3, <3>1, <4>1
        <5>2. p[2] < g[x]
          BY <1>1, <3>1, <4>1, <5>1
        <5>3. CASE x \in S
          <6>1. g[x] = f[x] + 1 /\ f[x] \in Nat
            BY <5>3 DEF OneMore
          <6>2. QED
            BY <3>1, <4>1, <5>2, <5>3, <6>1
        <5>4. CASE x \notin S
          <6>1. g[x] = 1
            BY <5>4 DEF OneMore
          <6>2. QED
            BY <3>1, <5>2, <6>1
        <5>5. QED
          BY <5>3, <5>4
      <4>2. CASE p[1] # x
        BY <3>1, <4>2 DEF OneMore
      <4>3. QED
        BY <4>1, <4>2
    <3>3. QED
      BY <3>1, <3>2 DEF Units
  <2> HIDE DEF A, B, u
  <2>4. QED
    BY <2>1, <2>2, <2>3
<1>3. u \notin A
  <2>1. ASSUME x \in S PROVE ~(g[x] <= f[x])
    <3>1. g[x] = f[x] + 1 /\ f[x] \in Nat
      BY <2>1 DEF OneMore
    <3>2. QED
      BY <3>1
  <2>2. QED
    BY <2>1 DEF Units
<1>4. SumFunction(f) = Cardinality(A) /\ IsFiniteSet(A)
  BY SumIsCardinality
<1>5. SumFunction(g) = Cardinality(B)
  <2>1. IsFiniteSet(S \cup {x})
    BY FS_AddElement
  <2>2. QED
    BY <1>1, <2>1, SumIsCardinality
<1> HIDE DEF A, B, u
<1>6. Cardinality(B) = Cardinality(A) + 1
  BY <1>2, <1>3, <1>4, FS_AddElement
<1>7. Cardinality(A) \in Nat
  BY <1>4, FS_CardinalityType
<1>8. QED
  BY <1>4, <1>5, <1>6, <1>7

-----------------------------------------------------------------------------
(* Types                                                                   *)

\* A compute pass: which forward pass it belongs to, and its place there.
PassNames == Nat \X Nat

\* Why a pass has no time.
Reasons == {"HostOnly", "DeviceFeatureRequestFailed", "Unsupported", "Capacity",
            "InvalidTimestamp", "ReadbackTimeout"}

Counts == UNION {[K -> Nat] : K \in FiniteSubsetsOf(Reasons)}

Stage == [calls : Nat, times : FiniteSubsetsOf(PassNames \X PassNames), missing : Counts]

Stages == UNION {[K -> Stage] : K \in FiniteSubsetsOf(Keys)}

DataType == [forwards : Nat, passes : Nat, stages : Stages, dropped : Nat, error : BOOLEAN]

Record == [key : Keys, query : Nat, pass : PassNames, time : PassNames \cup {NoTime},
           missing : Reasons]

\* Counts are a function with a finite domain.
LEMMA CountsAre ==
  \A f : f \in Counts <=>
    /\ DOMAIN f \in SUBSET Reasons /\ IsFiniteSet(DOMAIN f) /\ f \in [DOMAIN f -> Nat]
<1>1. ASSUME NEW f, f \in Counts
      PROVE  DOMAIN f \in SUBSET Reasons /\ IsFiniteSet(DOMAIN f) /\ f \in [DOMAIN f -> Nat]
  <2>1. PICK K \in FiniteSubsetsOf(Reasons) : f \in [K -> Nat]
    BY <1>1 DEF Counts
  <2>2. DOMAIN f = K
    BY <2>1
  <2>3. QED
    BY <2>1, <2>2 DEF FiniteSubsetsOf
<1>2. ASSUME NEW f, DOMAIN f \in SUBSET Reasons, IsFiniteSet(DOMAIN f), f \in [DOMAIN f -> Nat]
      PROVE  f \in Counts
  <2>1. DOMAIN f \in FiniteSubsetsOf(Reasons)
    BY <1>2 DEF FiniteSubsetsOf
  <2>2. QED
    BY <1>2, <2>1 DEF Counts
<1>3. QED
  BY <1>1, <1>2

\* The stages of a profile are a function with a finite domain.
LEMMA StagesAre ==
  \A f : f \in Stages <=>
    /\ DOMAIN f \in SUBSET Keys /\ IsFiniteSet(DOMAIN f) /\ f \in [DOMAIN f -> Stage]
<1>1. ASSUME NEW f, f \in Stages
      PROVE  DOMAIN f \in SUBSET Keys /\ IsFiniteSet(DOMAIN f) /\ f \in [DOMAIN f -> Stage]
  <2>1. PICK K \in FiniteSubsetsOf(Keys) : f \in [K -> Stage]
    BY <1>1 DEF Stages
  <2>2. DOMAIN f = K
    BY <2>1
  <2>3. QED
    BY <2>1, <2>2 DEF FiniteSubsetsOf
<1>2. ASSUME NEW f, DOMAIN f \in SUBSET Keys, IsFiniteSet(DOMAIN f), f \in [DOMAIN f -> Stage]
      PROVE  f \in Stages
  <2>1. DOMAIN f \in FiniteSubsetsOf(Keys)
    BY <1>2 DEF FiniteSubsetsOf
  <2>2. QED
    BY <1>2, <2>1 DEF Stages
<1>3. QED
  BY <1>1, <1>2

\* The empty function counts nothing and has no stages.
LEMMA EmptyCounts ==
  << >> \in Counts /\ << >> \in Stages /\ SumFunction(<< >>) = 0
<1>1. << >> = [x \in {} |-> 0] /\ DOMAIN << >> = {}
  OBVIOUS
<1>2. << >> \in [{} -> Nat] /\ << >> \in [{} -> Stage]
  BY <1>1
<1>3. IsFiniteSet({})
  BY FS_EmptySet
<1>4. QED
  BY <1>1, <1>2, <1>3, CountsAre, StagesAre, SumOfNothing

-----------------------------------------------------------------------------
(* One sample                                                              *)

\* Counting a reason adds one to the sum.
LEMMA CountGrows ==
  ASSUME NEW f \in Counts, NEW x \in Reasons
  PROVE  /\ Count(f, x) \in Counts
         /\ SumFunction(f) \in Nat /\ SumFunction(Count(f, x)) = SumFunction(f) + 1
<1> DEFINE S == DOMAIN f
           g == Count(f, x)
<1>1. S \in SUBSET Reasons /\ IsFiniteSet(S) /\ f \in [S -> Nat]
  BY CountsAre
<1>2. OneMore(f, S, x, g)
  BY <1>1 DEF OneMore, Count
<1>3. IsFiniteSet(S \cup {x})
  BY <1>1, FS_AddElement
<1>4. g \in Counts
  <2>1. g \in [S \cup {x} -> Nat]
    BY <1>2 DEF OneMore
  <2>2. DOMAIN g = S \cup {x}
    BY <2>1
  <2> HIDE DEF g, S
  <2>3. QED
    BY <1>1, <1>3, <2>1, <2>2, CountsAre
<1> HIDE DEF S, g
<1>5. QED
  BY <1>1, <1>2, <1>4, SumGrows DEF g

\* The passes before the place k of the forward pass n.
Before(p, n, k) == p[1] < n \/ (p[1] = n /\ p[2] <= k)

\* Each call of a stage has its own time or a reason, and the times are of
\* passes already recorded.
StageOK(s, n, k) ==
  /\ s.calls = Cardinality(s.times) + SumFunction(s.missing)
  /\ \A t \in s.times : t[1] = t[2] /\ Before(t[1], n, k)

\* A stage remains one when a sample is added.
LEMMA AddSampleType ==
  ASSUME NEW s \in Stage, NEW r \in Record
  PROVE  /\ AddSample(s, r) \in Stage /\ AddSample(s, r).calls = s.calls + 1
         /\ AddSample(s, r).times = IF r.time = NoTime THEN s.times
                                    ELSE s.times \cup {<<r.pass, r.time>>}
         /\ AddSample(s, r).missing = IF r.time = NoTime THEN Count(s.missing, r.missing)
                                      ELSE s.missing
<1> DEFINE times == IF r.time = NoTime THEN s.times ELSE s.times \cup {<<r.pass, r.time>>}
           missing == IF r.time = NoTime THEN Count(s.missing, r.missing) ELSE s.missing
<1>1. /\ s.calls \in Nat /\ s.missing \in Counts
      /\ s.times \in SUBSET (PassNames \X PassNames) /\ IsFiniteSet(s.times)
  BY DEF Stage, FiniteSubsetsOf
<1>2. r.missing \in Reasons /\ r.pass \in PassNames /\ r.time \in PassNames \cup {NoTime}
  BY DEF Record
<1>3. AddSample(s, r) = [calls |-> s.calls + 1, times |-> times, missing |-> missing]
  <2>1. AddSample(s, r) = [s EXCEPT !.calls = s.calls + 1, !.times = times, !.missing = missing]
    BY DEF AddSample
  <2>2. s \in [calls : Nat, times : FiniteSubsetsOf(PassNames \X PassNames), missing : Counts]
    BY DEF Stage
  <2> HIDE DEF times, missing
  <2>3. QED
    BY <2>1, <2>2
<1>4. missing \in Counts
  BY <1>1, <1>2, CountGrows
<1>5. times \in SUBSET (PassNames \X PassNames)
  BY <1>1, <1>2
<1>6. IsFiniteSet(times)
  BY <1>1, FS_AddElement
<1>7. times \in FiniteSubsetsOf(PassNames \X PassNames)
  <2> HIDE DEF times
  <2>1. QED
    BY <1>5, <1>6 DEF FiniteSubsetsOf
<1>8. [calls |-> s.calls + 1, times |-> times, missing |-> missing] \in Stage
  <2>1. s.calls + 1 \in Nat
    BY <1>1
  <2> HIDE DEF times, missing
  <2>2. QED
    BY <1>4, <1>7, <2>1 DEF Stage
<1>9. AddSample(s, r) \in Stage
  BY <1>3, <1>8
<1>10. /\ AddSample(s, r).calls = s.calls + 1 /\ AddSample(s, r).times = times
       /\ AddSample(s, r).missing = missing
  <2> HIDE DEF times, missing
  <2>1. QED
    BY <1>3
<1>11. QED
  BY <1>9, <1>10

\* Its books stay in order: the next pass of the frame is none of those
\* that the stage has a time of.
LEMMA AddSampleKeeps ==
  ASSUME NEW s \in Stage, NEW r \in Record, NEW n \in Nat, NEW k \in Nat,
         StageOK(s, n, k), r.pass = <<n, k + 1>>, r.time \in {NoTime, r.pass}
  PROVE  StageOK(AddSample(s, r), n, k + 1)
<1> DEFINE new == AddSample(s, r)
           u == <<r.pass, r.time>>
<1>1. /\ s.calls \in Nat /\ s.missing \in Counts
      /\ s.times \in SUBSET (PassNames \X PassNames) /\ IsFiniteSet(s.times)
      /\ r.missing \in Reasons
  BY DEF Stage, FiniteSubsetsOf, Record
<1>2. /\ new.calls = s.calls + 1
      /\ new.times = IF r.time = NoTime THEN s.times ELSE s.times \cup {u}
      /\ new.missing = IF r.time = NoTime THEN Count(s.missing, r.missing) ELSE s.missing
  BY AddSampleType
<1>3. \A t \in s.times : t[1] = t[2] /\ Before(t[1], n, k)
  BY DEF StageOK
<1>4. \A t \in s.times : Before(t[1], n, k + 1)
  <2>1. ASSUME NEW t \in s.times PROVE Before(t[1], n, k + 1)
    <3>1. t[1] \in Nat \X Nat /\ Before(t[1], n, k)
      BY <1>1, <1>3 DEF PassNames
    <3>2. t[1][1] \in Nat /\ t[1][2] \in Nat
      BY <3>1
    <3>3. QED
      BY <3>1, <3>2 DEF Before
  <2>2. QED
    BY <2>1
<1>5. u \notin s.times
  <2>1. ~Before(r.pass, n, k)
    <3>1. r.pass[1] = n /\ r.pass[2] = k + 1
      OBVIOUS
    <3>2. ~(n < n) /\ ~(k + 1 <= k)
      OBVIOUS
    <3>3. QED
      BY <3>1, <3>2 DEF Before
  <2>2. u[1] = r.pass
    OBVIOUS
  <2> HIDE DEF u
  <2>3. QED
    BY <1>3, <2>1, <2>2
<1>6. SumFunction(s.missing) \in Nat /\ Cardinality(s.times) \in Nat
  BY <1>1, CountGrows, FS_CardinalityType
<1>7. s.calls = Cardinality(s.times) + SumFunction(s.missing)
  BY DEF StageOK
<1> HIDE DEF new
<1>8. CASE r.time = NoTime
  <2>1. SumFunction(new.missing) = SumFunction(s.missing) + 1 /\ new.times = s.times
    BY <1>1, <1>2, <1>8, CountGrows
  <2>2. new.calls = Cardinality(new.times) + SumFunction(new.missing)
    BY <1>2, <1>6, <1>7, <2>1
  <2>3. StageOK(new, n, k + 1)
    BY <1>3, <1>4, <2>1, <2>2 DEF StageOK
  <2>4. QED
    BY <2>3 DEF new
<1>9. CASE r.time # NoTime
  <2>1. u[1] = u[2] /\ Before(u[1], n, k + 1)
    <3>1. r.time = r.pass /\ r.pass[1] = n /\ r.pass[2] = k + 1
      BY <1>9
    <3>2. k + 1 <= k + 1
      OBVIOUS
    <3>3. QED
      BY <3>1, <3>2 DEF Before
  <2> HIDE DEF u
  <2>2. new.times = s.times \cup {u} /\ new.missing = s.missing
    BY <1>2, <1>9
  <2>3. Cardinality(new.times) = Cardinality(s.times) + 1
    BY <1>1, <1>5, <2>2, FS_AddElement
  <2>4. new.calls = Cardinality(new.times) + SumFunction(new.missing)
    BY <1>2, <1>6, <1>7, <2>2, <2>3
  <2>5. StageOK(new, n, k + 1)
    BY <1>3, <1>4, <2>1, <2>2, <2>4 DEF StageOK
  <2>6. QED
    BY <2>5 DEF new
<1>10. QED
  BY <1>8, <1>9

-----------------------------------------------------------------------------
(* The records of a frame                                                  *)

CallsOf(d) == [k \in DOMAIN d.stages |-> d.stages[k].calls]

\* The books of a profile: every pass is dropped, a call of a stage, or one of
\* the records still owed to the stages.
Balanced(d, n, k, owed) ==
  /\ d.passes = d.dropped + SumFunction(CallsOf(d)) + owed
  /\ \A key \in DOMAIN d.stages : StageOK(d.stages[key], n, k)

\* The fields of a profile.
LEMMA DataFields ==
  ASSUME NEW d \in DataType
  PROVE  /\ d.forwards \in Nat /\ d.passes \in Nat /\ d.dropped \in Nat
         /\ d.error \in BOOLEAN /\ d.stages \in Stages
         /\ DOMAIN d.stages \in SUBSET Keys /\ IsFiniteSet(DOMAIN d.stages)
         /\ d.stages \in [DOMAIN d.stages -> Stage]
         /\ CallsOf(d) \in [DOMAIN d.stages -> Nat]
         /\ SumFunction(CallsOf(d)) \in Nat
<1>1. /\ d.forwards \in Nat /\ d.passes \in Nat /\ d.dropped \in Nat
      /\ d.error \in BOOLEAN /\ d.stages \in Stages
  BY DEF DataType
<1>2. /\ DOMAIN d.stages \in SUBSET Keys /\ IsFiniteSet(DOMAIN d.stages)
      /\ d.stages \in [DOMAIN d.stages -> Stage]
  BY <1>1, StagesAre
<1>3. CallsOf(d) \in [DOMAIN d.stages -> Nat]
  BY <1>2 DEF CallsOf, Stage
<1>4. SumFunction(CallsOf(d)) \in Nat
  BY <1>2, <1>3, SumIsCardinality, FS_CardinalityType
<1>5. QED
  BY <1>1, <1>2, <1>3, <1>4

\* The stage a sample goes to, or a new one.
OldStage(d, key) == IF key \in DOMAIN d.stages THEN d.stages[key] ELSE NoStage

\* It is a stage.
LEMMA OldStageType ==
  ASSUME NEW d \in DataType, NEW key
  PROVE  OldStage(d, key) \in Stage
<1>1. d.stages \in [DOMAIN d.stages -> Stage]
  BY DataFields
<1>2. {} \in FiniteSubsetsOf(PassNames \X PassNames)
  BY FS_EmptySet DEF FiniteSubsetsOf
<1>3. NoStage \in Stage
  BY <1>2, EmptyCounts DEF NoStage, Stage
<1>4. QED
  BY <1>1, <1>3 DEF OldStage

\* The two ways a sample is taken: it is dropped, or added to its stage.
Dropped(d, e) ==
  /\ e.stages = d.stages /\ e.dropped = d.dropped + 1

Added(d, r, e) ==
  /\ DOMAIN e.stages = DOMAIN d.stages \cup {r.key}
  /\ e.stages[r.key] = AddSample(OldStage(d, r.key), r)
  /\ \A k \in DOMAIN d.stages : k # r.key => e.stages[k] = d.stages[k]
  /\ e.dropped = d.dropped

\* A profile remains one when a sample is recorded.
LEMMA RecordSampleType ==
  ASSUME NEW d \in DataType, NEW r \in Record
  PROVE  LET e == RecordSample(d, r) IN
         /\ e \in DataType
         /\ e.forwards = d.forwards /\ e.passes = d.passes /\ e.error = d.error
         /\ Dropped(d, e) \/ Added(d, r, e)
<1> DEFINE e == RecordSample(d, r)
           K == DOMAIN d.stages \cup {r.key}
           stages == [k \in K |-> IF k = r.key THEN AddSample(OldStage(d, k), r)
                                  ELSE OldStage(d, k)]
           full == Cardinality(DOMAIN d.stages) >= MaxKeys /\ r.key \notin DOMAIN d.stages
<1>1. /\ d.forwards \in Nat /\ d.passes \in Nat /\ d.dropped \in Nat
      /\ d.error \in BOOLEAN /\ d.stages \in Stages
      /\ DOMAIN d.stages \in SUBSET Keys /\ IsFiniteSet(DOMAIN d.stages)
      /\ d.stages \in [DOMAIN d.stages -> Stage]
  BY DataFields
<1>2. d \in [forwards : Nat, passes : Nat, stages : Stages, dropped : Nat, error : BOOLEAN]
  BY DEF DataType
<1>3. e = IF full THEN [d EXCEPT !.dropped = d.dropped + 1] ELSE [d EXCEPT !.stages = stages]
  <2>1. stages = [k \in K |-> LET old == OldStage(d, k)
                              IN IF k = r.key THEN AddSample(old, r) ELSE old]
    OBVIOUS
  <2>2. QED
    BY DEF RecordSample, OldStage
<1>4. r.key \in Keys
  BY DEF Record
<1>5. K \in SUBSET Keys /\ IsFiniteSet(K)
  <2>1. K \in SUBSET Keys
    BY <1>1, <1>4
  <2>2. IsFiniteSet(DOMAIN d.stages \cup {r.key})
    BY <1>1, FS_AddElement
  <2>3. QED
    BY <2>1, <2>2
<1>6. stages \in [K -> Stage]
  BY OldStageType, AddSampleType
<1>7. DOMAIN stages = K
  OBVIOUS
<1>8. stages[r.key] = AddSample(OldStage(d, r.key), r)
  OBVIOUS
<1>9. \A k \in DOMAIN d.stages : k # r.key => stages[k] = d.stages[k]
  BY DEF OldStage
<1> HIDE DEF stages, e, full, K
<1>10. stages \in Stages
  BY <1>5, <1>6, <1>7, StagesAre
<1>11. CASE full
  <2>1. /\ e.forwards = d.forwards /\ e.passes = d.passes /\ e.error = d.error
        /\ e.stages = d.stages /\ e.dropped = d.dropped + 1
    BY <1>2, <1>3, <1>11
  <2>2. e \in [forwards : Nat, passes : Nat, stages : Stages, dropped : Nat, error : BOOLEAN]
    BY <1>1, <1>2, <1>3, <1>11
  <2>3. Dropped(d, e)
    BY <2>1 DEF Dropped
  <2>4. QED
    BY <2>1, <2>2, <2>3 DEF e, DataType
<1>12. CASE ~full
  <2>1. /\ e.forwards = d.forwards /\ e.passes = d.passes /\ e.error = d.error
        /\ e.stages = stages /\ e.dropped = d.dropped
    BY <1>2, <1>3, <1>12
  <2>2. e \in [forwards : Nat, passes : Nat, stages : Stages, dropped : Nat, error : BOOLEAN]
    BY <1>2, <1>3, <1>10, <1>12
  <2>3. Added(d, r, e)
    BY <1>7, <1>8, <1>9, <2>1 DEF Added, K
  <2>4. QED
    BY <2>1, <2>2, <2>3 DEF e, DataType
<1>13. QED
  BY <1>11, <1>12

\* A stage in order stays so when later passes are recorded.
LEMMA StageLater ==
  ASSUME NEW s \in Stage, NEW n \in Nat, NEW k \in Nat, StageOK(s, n, k)
  PROVE  StageOK(s, n, k + 1) /\ StageOK(s, n + 1, 0)
<1>1. s.times \in SUBSET (PassNames \X PassNames)
  BY DEF Stage, FiniteSubsetsOf
<1>2. ASSUME NEW t \in s.times
      PROVE  t[1] = t[2] /\ Before(t[1], n, k + 1) /\ Before(t[1], n + 1, 0)
  <2>1. t[1] \in Nat \X Nat /\ Before(t[1], n, k) /\ t[1] = t[2]
    BY <1>1 DEF PassNames, StageOK
  <2>2. t[1][1] \in Nat /\ t[1][2] \in Nat
    BY <2>1
  <2>3. QED
    BY <2>1, <2>2 DEF Before
<1>3. QED
  BY <1>2 DEF StageOK

\* One record less is owed.
LEMMA RecordSampleKeeps ==
  ASSUME NEW d \in DataType, NEW r \in Record, NEW n \in Nat, NEW k \in Nat, NEW owed \in Nat,
         Balanced(d, n, k, owed + 1), r.pass = <<n, k + 1>>, r.time \in {NoTime, r.pass}
  PROVE  Balanced(RecordSample(d, r), n, k + 1, owed)
<1> DEFINE e == RecordSample(d, r)
           S == DOMAIN d.stages
<1>1. /\ e \in DataType /\ e.passes = d.passes
      /\ Dropped(d, e) \/ Added(d, r, e)
  BY RecordSampleType
<1>2. /\ d.dropped \in Nat /\ IsFiniteSet(S) /\ d.stages \in [S -> Stage]
      /\ CallsOf(d) \in [S -> Nat] /\ SumFunction(CallsOf(d)) \in Nat
  BY DataFields
<1>3. d.passes = d.dropped + SumFunction(CallsOf(d)) + (owed + 1)
  BY DEF Balanced
<1>4. \A key \in S : StageOK(d.stages[key], n, k)
  BY DEF Balanced
<1>5. \A key \in S : StageOK(d.stages[key], n, k + 1)
  BY <1>2, <1>4, StageLater
<1> SUFFICES Balanced(e, n, k + 1, owed)
  OBVIOUS
<1> HIDE DEF e, S
<1>6. CASE Dropped(d, e)
  <2>1. e.stages = d.stages /\ e.dropped = d.dropped + 1 /\ CallsOf(e) = CallsOf(d)
    BY <1>6 DEF Dropped, CallsOf
  <2>2. e.passes = e.dropped + SumFunction(CallsOf(e)) + owed
    BY <1>1, <1>2, <1>3, <2>1
  <2>3. QED
    BY <1>5, <2>1, <2>2 DEF Balanced, S
<1>7. CASE Added(d, r, e)
  <2> DEFINE old == OldStage(d, r.key)
  <2>1. /\ DOMAIN e.stages = S \cup {r.key}
        /\ e.stages[r.key] = AddSample(old, r)
        /\ \A key \in S : key # r.key => e.stages[key] = d.stages[key]
        /\ e.dropped = d.dropped
    BY <1>7 DEF Added, S
  <2>2. old \in Stage
    BY OldStageType
  <2>3. StageOK(old, n, k)
    <3>1. CASE r.key \in S
      BY <1>4, <3>1 DEF OldStage, S
    <3>2. CASE r.key \notin S
      <4>1. old = NoStage
        BY <3>2 DEF OldStage, S
      <4>2. StageOK(NoStage, n, k)
        BY EmptyCounts, FS_EmptySet DEF StageOK, NoStage
      <4>3. QED
        BY <4>1, <4>2
    <3>3. QED
      BY <3>1, <3>2
  <2>4. StageOK(AddSample(old, r), n, k + 1) /\ AddSample(old, r).calls = old.calls + 1
    <3> HIDE DEF old
    <3>1. QED
      BY <2>2, <2>3, AddSampleKeeps, AddSampleType
  <2>5. old.calls = IF r.key \in S THEN CallsOf(d)[r.key] ELSE 0
    BY DEF OldStage, CallsOf, NoStage, S
  <2> HIDE DEF old
  <2>6. \A key \in DOMAIN e.stages : StageOK(e.stages[key], n, k + 1)
    BY <1>5, <2>1, <2>4
  <2>7. OneMore(CallsOf(d), S, r.key, CallsOf(e))
    <3>1. CallsOf(e) \in [S \cup {r.key} -> Nat]
      BY <1>1, <2>1, DataFields
    <3>2. CallsOf(e)[r.key] = (IF r.key \in S THEN CallsOf(d)[r.key] ELSE 0) + 1
      BY <2>1, <2>4, <2>5 DEF CallsOf
    <3>3. \A y \in S : y # r.key => CallsOf(e)[y] = CallsOf(d)[y]
      BY <2>1 DEF CallsOf, S
    <3>4. QED
      BY <3>1, <3>2, <3>3 DEF OneMore
  <2>8. SumFunction(CallsOf(e)) = SumFunction(CallsOf(d)) + 1
    BY <1>2, <2>7, SumGrows
  <2>9. e.passes = e.dropped + SumFunction(CallsOf(e)) + owed
    BY <1>1, <1>2, <1>3, <2>1, <2>8
  <2>10. QED
    BY <2>6, <2>9 DEF Balanced
<1>8. QED
  BY <1>1, <1>6, <1>7

-----------------------------------------------------------------------------
(* All records of a frame                                                  *)

\* One step of the fold over the records, as a function.
SampleStep(rs) == [p \in DataType \X Nat |->
                     IF p[2] \in 1 .. Len(rs) THEN RecordSample(p[1], rs[p[2]]) ELSE p[1]]

\* Its type and its value on a record.
LEMMA SampleStepIs ==
  ASSUME NEW rs \in Seq(Record)
  PROVE  /\ SampleStep(rs) \in [DataType \X Nat -> DataType]
         /\ \A d \in DataType, i \in 1 .. Len(rs) :
              SampleStep(rs)[<<d, i>>] = RecordSample(d, rs[i])
<1> DEFINE A == DataType
<1>1. \A i \in 1 .. Len(rs) : rs[i] \in Record
  OBVIOUS
<1>2. ASSUME NEW p \in A \X Nat
      PROVE  (IF p[2] \in 1 .. Len(rs) THEN RecordSample(p[1], rs[p[2]]) ELSE p[1]) \in A
  <2>1. p[1] \in A
    OBVIOUS
  <2>2. ASSUME p[2] \in 1 .. Len(rs) PROVE RecordSample(p[1], rs[p[2]]) \in A
    BY <1>1, <2>1, <2>2, RecordSampleType
  <2> HIDE DEF A
  <2>3. QED
    BY <2>1, <2>2
<1>3. SampleStep(rs) \in [A \X Nat -> A]
  <2> HIDE DEF A
  <2>1. QED
    BY <1>2 DEF SampleStep, A
<1>4. ASSUME NEW d \in A, NEW i \in 1 .. Len(rs)
      PROVE  SampleStep(rs)[<<d, i>>] = RecordSample(d, rs[i])
  <2> DEFINE p == <<d, i>>
  <2>1. p \in A \X Nat /\ p[1] = d /\ p[2] = i
    OBVIOUS
  <2>2. SampleStep(rs) = [q \in A \X Nat |->
                            IF q[2] \in 1 .. Len(rs) THEN RecordSample(q[1], rs[q[2]]) ELSE q[1]]
    BY DEF SampleStep
  <2> HIDE DEF p, A
  <2>3. SampleStep(rs)[p] = RecordSample(d, rs[i])
    BY <2>1, <2>2
  <2>4. QED
    BY <2>3 DEF p
<1>5. QED
  BY <1>3, <1>4

\* The fold of RecordForward takes these steps.
LEMMA SamplesAreFold ==
  ASSUME NEW d \in DataType, NEW rs \in Seq(Record), NEW F,
         FoldValues(F, DataType, d, SampleStep(rs), Len(rs))
  PROVE  FoldLeft(RecordSample, d, rs) = F[Len(rs)]
<1> DEFINE A == DataType
           n == Len(rs)
           D == SUBSET (1 .. n)
           IsIter(f) == f = [x \in D |-> IF x = {} THEN d
                                         ELSE RecordSample(f[x \ {Max(x)}], rs[Max(x)])]
           Steps(f) == \A x \in D : f[x] = IF x = {} THEN d
                                         ELSE RecordSample(f[x \ {Max(x)}], rs[Max(x)])
           iter == CHOOSE f : IsIter(f)
<1>1. FoldLeft(RecordSample, d, rs) = iter[1 .. n]
  <2>1. DOMAIN rs = 1 .. n
    OBVIOUS
  <2>2. QED
    BY <2>1 DEF FoldLeft, MapThenFoldSet
<1>2. n \in Nat
  OBVIOUS
<1>3. \A x \in D : x # {} => Max(x) \in 1 .. n
  <2> HIDE DEF n
  <2>1. QED
    BY <1>2, MaxExists
<1>4. PICK f : FoldsOver(f, A, d, SampleStep(rs), n)
  <2> HIDE DEF A
  <2>1. QED
    BY <1>2, SampleStepIs, FoldExists DEF A
<1>5. IsIter(f)
  <2>1. ASSUME NEW x \in D, x # {}
        PROVE  f[x] = RecordSample(f[x \ {Max(x)}], rs[Max(x)])
    <3>1. f[x \ {Max(x)}] \in A /\ f[x] = SampleStep(rs)[<<f[x \ {Max(x)}], Max(x)>>]
      BY <2>1, <1>4 DEF FoldsOver
    <3>2. QED
      BY <1>3, <2>1, <3>1, SampleStepIs
  <2>2. f \in [D -> A] /\ f[{}] = d
    BY <1>4 DEF FoldsOver
  <2>3. QED
    BY <2>1, <2>2
<1>6. Steps(iter)
  <2>1. \A g : IsIter(g) => Steps(g)
    OBVIOUS
  <2>2. IsIter(iter)
    <3> HIDE DEF IsIter
    <3>1. QED
      BY <1>5
  <2> HIDE DEF IsIter, Steps, iter
  <2>3. QED
    BY <2>1, <2>2
<1> HIDE DEF iter
<1>7. PeelsOff(iter, A, d, SampleStep(rs), n)
  <2>1. iter[{}] = d
    BY <1>6
  <2>2. ASSUME NEW x \in D, x # {}, iter[x \ {Max(x)}] \in A
        PROVE  iter[x] = SampleStep(rs)[<<iter[x \ {Max(x)}], Max(x)>>]
    <3>1. iter[x] = RecordSample(iter[x \ {Max(x)}], rs[Max(x)])
      BY <1>6, <2>2
    <3>2. QED
      BY <3>1, <1>3, <2>2, SampleStepIs
  <2>3. QED
    BY <2>1, <2>2 DEF PeelsOff
<1>8. iter[1 .. n] = F[n]
  <2>1. SampleStep(rs) \in [A \X Nat -> A] /\ FoldValues(F, A, d, SampleStep(rs), n)
    BY SampleStepIs
  <2> HIDE DEF A, n, Steps
  <2>2. QED
    BY <1>2, <1>7, <2>1, PeelingHasValues
<1>9. QED
  BY <1>1, <1>8

\* The records of a frame, each with its own time or none.
OwnRecords(rs, n) ==
  \A i \in 1 .. Len(rs) : rs[i].pass = <<n, i>> /\ rs[i].time \in {NoTime, rs[i].pass}

\* After the fold nothing is owed: each record has found a stage or was
\* counted as dropped.
LEMMA FoldKeeps ==
  ASSUME NEW d \in DataType, NEW rs \in Seq(Record), NEW n \in Nat, OwnRecords(rs, n),
         Balanced(d, n, 0, Len(rs))
  PROVE  LET e == FoldLeft(RecordSample, d, rs) IN
         /\ e \in DataType /\ Balanced(e, n, Len(rs), 0)
         /\ e.forwards = d.forwards /\ e.passes = d.passes /\ e.error = d.error
<1> DEFINE m == Len(rs)
<1>1. PICK F : FoldValues(F, DataType, d, SampleStep(rs), m)
  <2>1. m \in Nat
    OBVIOUS
  <2>2. SampleStep(rs) \in [DataType \X Nat -> DataType]
    BY SampleStepIs
  <2> HIDE DEF m
  <2>3. QED
    BY <2>1, <2>2, ValuesExist
<1>2. FoldLeft(RecordSample, d, rs) = F[m]
  BY <1>1, SamplesAreFold
<1> DEFINE Good(k) == /\ F[k] \in DataType /\ Balanced(F[k], n, k, m - k)
                      /\ F[k].forwards = d.forwards /\ F[k].passes = d.passes
                      /\ F[k].error = d.error
           T == {k \in Nat : k <= m => Good(k)}
<1>3. 0 \in T
  <2>1. F[0] = d /\ m - 0 = m
    BY <1>1 DEF FoldValues
  <2>2. QED
    BY <2>1
<1>4. ASSUME NEW k \in Nat, k \in T PROVE k + 1 \in T
  <2> HIDE DEF m
  <2>1. SUFFICES ASSUME k + 1 <= m PROVE Good(k + 1)
    OBVIOUS
  <2> DEFINE r == rs[k + 1]
             owed == m - (k + 1)
  <2>2. m \in Nat
    BY DEF m
  <2>3. k <= m /\ owed \in Nat /\ m - k = owed + 1 /\ k + 1 \in 1 .. m /\ (k + 1) - 1 = k
    BY <2>1, <2>2
  <2>4. Good(k)
    BY <1>4, <2>3
  <2>5. r \in Record /\ r.pass = <<n, k + 1>> /\ r.time \in {NoTime, r.pass}
    BY <2>3 DEF OwnRecords, m
  <2>6. F[k + 1] = SampleStep(rs)[<<F[k], k + 1>>]
    BY <1>1, <2>3 DEF FoldValues
  <2>7. F[k + 1] = RecordSample(F[k], r)
    BY <2>3, <2>4, <2>6, SampleStepIs DEF m
  <2>8. Balanced(F[k], n, k, owed + 1) /\ F[k] \in DataType
    BY <2>3, <2>4
  <2> HIDE DEF r, owed
  <2>9. Balanced(RecordSample(F[k], r), n, k + 1, owed)
    BY <2>3, <2>5, <2>8, RecordSampleKeeps
  <2>10. /\ F[k + 1] \in DataType /\ F[k + 1].forwards = F[k].forwards
         /\ F[k + 1].passes = F[k].passes /\ F[k + 1].error = F[k].error
    BY <2>5, <2>7, <2>8, RecordSampleType
  <2>11. QED
    BY <2>4, <2>7, <2>9, <2>10 DEF owed
<1>5. Nat \subseteq T
  <2> HIDE DEF T
  <2>1. QED
    BY <1>3, <1>4, Induction
<1>6. Good(m)
  <2>1. m \in Nat /\ m <= m
    OBVIOUS
  <2> HIDE DEF m, Good
  <2>2. QED
    BY <1>5, <2>1
<1>7. m - m = 0
  OBVIOUS
<1> HIDE DEF m
<1>8. QED
  BY <1>2, <1>6, <1>7 DEF m

\* A whole forward pass is recorded.
LEMMA RecordForwardKeeps ==
  ASSUME NEW d \in DataType, NEW rs \in Seq(Record), NEW passes \in Nat, NEW n \in Nat,
         OwnRecords(rs, n), Balanced(d, n, 0, 0), Len(rs) <= passes
  PROVE  LET e == RecordForward(d, rs, passes) IN
         /\ e \in DataType /\ Balanced(e, n + 1, 0, 0)
         /\ e.forwards = d.forwards + 1 /\ e.passes = d.passes + passes /\ e.error = d.error
<1> DEFINE c == [d EXCEPT !.forwards = @ + 1, !.passes = @ + passes,
                          !.dropped = @ + (passes - Len(rs))]
           e == FoldLeft(RecordSample, c, rs)
<1>1. /\ d.forwards \in Nat /\ d.passes \in Nat /\ d.dropped \in Nat /\ Len(rs) \in Nat
      /\ SumFunction(CallsOf(d)) \in Nat
  BY DataFields
<1>2. passes - Len(rs) \in Nat
  BY <1>1
<1>3. /\ c.forwards = d.forwards + 1 /\ c.passes = d.passes + passes
      /\ c.dropped = d.dropped + (passes - Len(rs))
      /\ c.stages = d.stages /\ c.error = d.error
  BY DEF DataType
<1>4. c \in DataType
  <2> DEFINE x == d.forwards + 1
             y == d.passes + passes
             z == d.dropped + (passes - Len(rs))
  <2>1. x \in Nat /\ y \in Nat /\ z \in Nat
    <3>1. x \in Nat
      BY <1>1
    <3>2. y \in Nat
      BY <1>1
    <3>3. z \in Nat
      BY <1>1, <1>2
    <3>4. QED
      BY <3>1, <3>2, <3>3
  <2>2. c = [d EXCEPT !.forwards = x, !.passes = y, !.dropped = z]
    OBVIOUS
  <2> HIDE DEF c, x, y, z
  <2>3. QED
    BY <2>1, <2>2 DEF DataType
<1>5. RecordForward(d, rs, passes) = e
  BY DEF RecordForward
<1> HIDE DEF c
<1>6. Balanced(c, n, 0, Len(rs))
  <2>1. CallsOf(c) = CallsOf(d)
    BY <1>3 DEF CallsOf
  <2>2. d.passes = d.dropped + SumFunction(CallsOf(d)) + 0
    BY DEF Balanced
  <2>3. c.passes = c.dropped + SumFunction(CallsOf(c)) + Len(rs)
    BY <1>1, <1>3, <2>1, <2>2
  <2>4. QED
    BY <1>3, <2>3 DEF Balanced
<1>7. /\ e \in DataType /\ Balanced(e, n, Len(rs), 0)
      /\ e.forwards = c.forwards /\ e.passes = c.passes /\ e.error = c.error
  BY <1>4, <1>6, FoldKeeps
<1> HIDE DEF e
<1>8. Balanced(e, n + 1, 0, 0)
  <2>1. e.stages \in [DOMAIN e.stages -> Stage]
    BY <1>7, DataFields
  <2>2. \A key \in DOMAIN e.stages : StageOK(e.stages[key], n + 1, 0)
    BY <1>1, <1>7, <2>1, StageLater DEF Balanced
  <2>3. QED
    BY <1>7, <2>2 DEF Balanced
<1>9. QED
  BY <1>3, <1>5, <1>7, <1>8

-----------------------------------------------------------------------------
(* The inductive invariant                                                 *)

DuringPass == pc \in {"encode", "outputs", "finish"}

Pool == [there : BOOLEAN, next : Nat, query : Seq(PassNames), buffer : Seq(PassNames),
         map : {"unmapped", "pending", "mapped"}]

FrameType == [passes : Nat, records : Seq(Record), pool : Pool,
              answer : {"none", "waiting", "mapped", "failed"}]

EventNames == {"load_start", "load_end", "generation_start", "generation_summary"}
Statuses   == {"none", "complete", "error", "aborted"}
Results    == {"none", "Ok", "Err", "Panic"}

TypeInv ==
  /\ log \in Seq([event : EventNames, id : Nat, status : Statuses])
  /\ id \in Nat \ {0} /\ done \in BOOLEAN
  /\ data \in DataType /\ slot \in Pool /\ frame \in FrameType
  /\ truth \in [forwards : Nat, passes : Nat, failed : BOOLEAN, result : Results]

\* What the running pass has still to add to the profile, and no more.
BooksInv ==
  /\ Balanced(data, data.forwards + 1, 0, 0)
  /\ data.error = truth.failed
  /\ DuringPass => /\ truth.forwards = data.forwards + 1
                   /\ truth.passes = data.passes + frame.passes
  /\ ~DuringPass => /\ truth.forwards = data.forwards /\ truth.passes = data.passes
                    /\ frame = NoFrame

\* A record is of the pass at its place, and its query was written by that pass.
RecordOK(r, i, n, pool) ==
  /\ r.pass = <<n, i>> /\ r.time = NoTime
  /\ r.query <= pool.next /\ (r.query # NoQuery => pool.query[r.query] = r.pass)

\* The records are the first passes of the frame, the queries those of this
\* frame only, and the buffer holds what they hold.
FrameInv ==
  /\ Len(frame.records) <= frame.passes /\ Len(frame.records) <= MaxPairs
  /\ Len(frame.records) < MaxPairs => Len(frame.records) = frame.passes
  /\ \A i \in 1 .. Len(frame.records) :
       RecordOK(frame.records[i], i, truth.forwards, frame.pool)
  /\ frame.pool.next # 0 => Len(frame.pool.query) = frame.pool.next
  /\ frame.answer \in {"waiting", "mapped"} =>
       \A i \in 1 .. frame.pool.next : frame.pool.buffer[i] = frame.pool.query[i]
  /\ pc = "encode" => frame.pool.map = "unmapped" /\ frame.answer = "none"

\* The pool a frame leaves to the next one is free.
SlotInv == slot.next = 0 /\ slot.map = "unmapped" /\ pc # "refused"

\* EventsOf, Told and Truthful, of any log and history.
EventsIn(l, n) == {i \in DOMAIN l : l[i].id = n}

ToldIn(l, n, i, j) ==
  /\ EventsIn(l, n) = {i, j} /\ i < j
  /\ l[i].event = "generation_start" /\ l[j].event = "generation_summary"

Fits(status, t) ==
  /\ status = "complete" <=> t.result = "Ok" /\ ~t.failed
  /\ status = "aborted"  <=> t.result = "Panic" /\ ~t.failed

\* What the log says of the generations that are over and of the running one.
LogInv ==
  /\ pc \in {"unloaded", "loading"} => id = 1
  /\ \A i \in DOMAIN log : log[i].id <= id
  /\ \A n \in 1 .. id - 1 : \E i, j \in DOMAIN log :
       ToldIn(log, n, i, j) /\ (pc \in {"idle", "stopped"} /\ n = id - 1 => Fits(log[j].status, truth))
  /\ pc \in {"unloaded", "loading", "idle", "stopped"} => EventsIn(log, id) = {}
  /\ pc \in {"generate", "encode", "outputs", "finish", "fail", "unwind"} =>
       ~done /\ \E i \in DOMAIN log : EventsIn(log, id) = {i} /\ log[i].event = "generation_start"
  /\ pc = "drop" =>
       /\ done /\ truth.result \in {"Ok", "Err"}
       /\ \E i, j \in DOMAIN log : ToldIn(log, id, i, j) /\ Fits(log[j].status, truth)

IInv == TypeInv /\ BooksInv /\ FrameInv /\ SlotInv /\ LogInv

-----------------------------------------------------------------------------
(* The start                                                               *)

\* Nothing has been observed, so the books are empty.
LEMMA NoDataIsBalanced ==
  NoData \in DataType /\ \A n, k : Balanced(NoData, n, k, 0)
<1>1. << >> \in Stages /\ SumFunction(<< >>) = 0
  BY EmptyCounts
<1>2. CallsOf(NoData) = << >> /\ DOMAIN NoData.stages = {}
  BY DEF CallsOf, NoData
<1>3. NoData \in DataType
  BY <1>1 DEF NoData, DataType
<1>4. NoData.passes = 0 /\ NoData.dropped = 0
  BY DEF NoData
<1>5. \A n, k : Balanced(NoData, n, k, 0)
  BY <1>1, <1>2, <1>4 DEF Balanced
<1>6. QED
  BY <1>3, <1>5

\* An empty pool, and a frame that has not begun.
LEMMA EmptyFrame ==
  /\ NoPool \in Pool /\ NewPool \in Pool
  /\ NoPool.next = 0 /\ NewPool.next = 0 /\ NoPool.map = "unmapped" /\ NewPool.map = "unmapped"
  /\ \A pool \in Pool : [NoFrame EXCEPT !.pool = pool] \in FrameType
  /\ NoFrame \in FrameType
  /\ NoFrame.passes = 0 /\ NoFrame.records = <<>> /\ NoFrame.pool = NoPool
  /\ NoFrame.answer = "none"
<1>1. <<>> \in Seq(PassNames) /\ <<>> \in Seq(Record)
  OBVIOUS
<1>2. NoPool \in Pool /\ NoPool.next = 0 /\ NoPool.map = "unmapped"
  BY <1>1 DEF NoPool, Pool
<1>3. NewPool \in Pool /\ NewPool.next = 0 /\ NewPool.map = "unmapped"
  BY <1>1 DEF NewPool, NoPool, Pool
<1>4. ASSUME NEW pool \in Pool
      PROVE  [NoFrame EXCEPT !.pool = pool] \in FrameType
  <2>1. [NoFrame EXCEPT !.pool = pool]
          = [passes |-> 0, records |-> <<>>, pool |-> pool, answer |-> "none"]
    BY DEF NoFrame
  <2>2. "none" \in {"none", "waiting", "mapped", "failed"}
    OBVIOUS
  <2>3. [passes |-> 0, records |-> <<>>, pool |-> pool, answer |-> "none"] \in FrameType
    BY <1>1, <2>2 DEF FrameType
  <2>4. QED
    BY <2>1, <2>3
<1>5. NoFrame \in FrameType
  BY <1>1, <1>2 DEF NoFrame, FrameType
<1>6. QED
  BY <1>2, <1>3, <1>4, <1>5 DEF NoFrame

\* The invariant of a frame with no pass yet, over any free pool.
LEMMA FreshFrame ==
  ASSUME NEW pool, pool.next = 0, pool.map = "unmapped",
         frame' = [NoFrame EXCEPT !.pool = pool]
  PROVE  FrameInv'
<1>1. /\ frame'.passes = 0 /\ frame'.records = <<>> /\ frame'.pool = pool
      /\ frame'.answer = "none"
  BY DEF NoFrame
<1>2. Len(frame'.records) = 0
  BY <1>1
<1>3. MaxPairs \in Nat
  BY ProfileLimits
<1>4. QED
  BY <1>1, <1>2, <1>3 DEF FrameInv

\* The same between two frames.
LEMMA IdleFrame ==
  ASSUME frame' = NoFrame
  PROVE  FrameInv'
<1>1. frame' = [NoFrame EXCEPT !.pool = NoPool]
  BY DEF NoFrame
<1>2. QED
  BY <1>1, EmptyFrame, FreshFrame

\* The invariant holds initially.
LEMMA InitIInv ==
  ASSUME Init
  PROVE  IInv
<1>1. /\ pc = "unloaded" /\ log = <<>> /\ id = 1 /\ data = NoData /\ done = FALSE
      /\ slot = NoPool /\ frame = NoFrame /\ truth = NoTruth
  BY DEF Init
<1>2. TypeInv
  <2>1. <<>> \in Seq([event : EventNames, id : Nat, status : Statuses])
    OBVIOUS
  <2>2. NoTruth \in [forwards : Nat, passes : Nat, failed : BOOLEAN, result : Results]
    BY DEF NoTruth, Results
  <2>3. id \in Nat \ {0}
    BY <1>1
  <2>4. done \in BOOLEAN
    BY <1>1, Zenon
  <2>5. QED
    BY <1>1, <2>1, <2>2, <2>3, <2>4, EmptyFrame, NoDataIsBalanced DEF TypeInv
<1>3. BooksInv
  BY <1>1, NoDataIsBalanced DEF BooksInv, DuringPass, NoData, NoTruth
<1>4. FrameInv
  <2>1. /\ frame.passes = 0 /\ frame.records = <<>> /\ frame.pool.next = 0
        /\ frame.answer = "none" /\ frame.pool.map = "unmapped"
    BY <1>1, EmptyFrame
  <2>2. Len(frame.records) = 0
    BY <2>1
  <2>3. MaxPairs \in Nat
    BY ProfileLimits
  <2>4. QED
    BY <2>1, <2>2, <2>3 DEF FrameInv
<1>5. SlotInv
  BY <1>1, EmptyFrame DEF SlotInv
<1>6. LogInv
  <2>1. DOMAIN log = {} /\ 1 .. id - 1 = {}
    BY <1>1
  <2>2. EventsIn(log, id) = {}
    BY <2>1 DEF EventsIn
  <2>3. QED
    BY <1>1, <2>1, <2>2 DEF LogInv
<1>7. QED
  BY <1>2, <1>3, <1>4, <1>5, <1>6 DEF IInv

-----------------------------------------------------------------------------
(* The log                                                                 *)

EventType == [event : EventNames, id : Nat, status : Statuses]

\* Where a generation is under way, and where there is none.
Running == {"generate", "encode", "outputs", "finish", "fail", "unwind"}
Between == {"unloaded", "loading", "idle", "stopped"}

\* The log l2 is l with the event e at the place k.
Grown(l, e, l2, k) ==
  /\ l2 \in Seq(EventType) /\ DOMAIN l2 = DOMAIN l \cup {k}
  /\ l2[k] = e /\ \A i \in DOMAIN l : l2[i] = l[i] /\ i < k
  /\ \A n : EventsIn(l2, n) = IF e.id = n THEN EventsIn(l, n) \cup {k} ELSE EventsIn(l, n)

\* An event appended to a log is one more of its generation.
LEMMA LogGrows ==
  ASSUME NEW e \in EventType, NEW l \in Seq(EventType), NEW l2, l2 = Append(l, e)
  PROVE  Grown(l, e, l2, Len(l) + 1)
<1> DEFINE k == Len(l) + 1
<1>1. Len(l) \in Nat /\ DOMAIN l = 1 .. Len(l)
  OBVIOUS
<1>2. /\ l2 \in Seq(EventType) /\ Len(l2) = k
      /\ l2[k] = e /\ \A i \in 1 .. Len(l) : l2[i] = l[i]
  BY AppendProperties
<1>3. DOMAIN l2 = DOMAIN l \cup {k}
  <2>1. DOMAIN l2 = 1 .. k
    BY <1>2
  <2>2. 1 .. k = (1 .. Len(l)) \cup {k}
    BY <1>1
  <2>3. QED
    BY <1>1, <2>1, <2>2
<1>4. \A i \in DOMAIN l : l2[i] = l[i] /\ i < k
  BY <1>1, <1>2
<1>5. k \notin DOMAIN l
  BY <1>1
<1> HIDE DEF k
<1>6. ASSUME NEW n
      PROVE  EventsIn(l2, n) = IF e.id = n THEN EventsIn(l, n) \cup {k} ELSE EventsIn(l, n)
  BY <1>2, <1>3, <1>4, <1>5 DEF EventsIn
<1>7. QED
  BY <1>2, <1>3, <1>4, <1>6 DEF k, Grown

\* A generation that is over stays told when an event of another one follows.
LEMMA ToldStays ==
  ASSUME NEW e \in EventType, NEW l \in Seq(EventType), NEW l2, l2 = Append(l, e),
         NEW n, e.id # n, NEW i \in DOMAIN l, NEW j \in DOMAIN l, ToldIn(l, n, i, j)
  PROVE  ToldIn(l2, n, i, j) /\ i \in DOMAIN l2 /\ j \in DOMAIN l2
<1>1. PICK k : Grown(l, e, l2, k)
  BY LogGrows
<1>2. EventsIn(l2, n) = EventsIn(l, n)
  BY <1>1 DEF Grown
<1>3. l2[i] = l[i] /\ l2[j] = l[j] /\ i \in DOMAIN l2 /\ j \in DOMAIN l2
  BY <1>1 DEF Grown
<1>4. QED
  BY <1>2, <1>3 DEF ToldIn

\* A step inside a generation that leaves the log alone.
LEMMA LogQuiet ==
  ASSUME LogInv, UNCHANGED <<log, id, done>>, pc \in Running, pc' \in Running
  PROVE  LogInv'
<1>1. /\ pc' \notin Between /\ pc' # "drop"
      /\ pc' \notin {"idle", "stopped"}
  BY DEF Running, Between
<1>2. \A i \in DOMAIN log' : log'[i].id <= id'
  BY DEF LogInv
<1>3. \A n \in 1 .. id' - 1 : \E i, j \in DOMAIN log' : ToldIn(log', n, i, j)
  BY DEF LogInv
<1>4. ~done' /\ \E i \in DOMAIN log' : EventsIn(log', id') = {i} /\ log'[i].event = "generation_start"
  <2>1. ~done /\ \E i \in DOMAIN log : EventsIn(log, id) = {i} /\ log[i].event = "generation_start"
    BY DEF LogInv, Running
  <2>2. QED
    BY <2>1
<1>5. QED
  BY <1>1, <1>2, <1>3, <1>4 DEF LogInv, Between

\* The events of the load are of no generation.
LEMMA LogOfLoad ==
  ASSUME TypeInv, LogInv, BeginLoad \/ EndLoad
  PROVE  LogInv' /\ log' \in Seq(EventType)
<1>1. PICK e \in EventType : log' = Append(log, e) /\ e.id = 0
  <2>1. CASE BeginLoad
    <3>1. Event("load_start", 0, "none") \in EventType
      BY DEF Event, EventType, EventNames, Statuses
    <3>2. QED
      BY <2>1, <3>1 DEF BeginLoad, Event
  <2>2. CASE EndLoad
    <3>1. /\ Event("load_end", 0, "complete") \in EventType
          /\ Event("load_end", 0, "error") \in EventType
      BY DEF Event, EventType, EventNames, Statuses
    <3>2. QED
      BY <2>2, <3>1 DEF EndLoad, Event
  <2>3. QED
    BY <2>1, <2>2
<1>2. /\ pc \in {"unloaded", "loading"} /\ pc' \in {"loading", "idle", "stopped"}
      /\ id' = id /\ truth' = truth
  BY DEF BeginLoad, EndLoad
<1>3. log \in Seq(EventType) /\ id \in Nat \ {0}
  BY DEF TypeInv, EventType
<1> DEFINE k == Len(log) + 1
<1>4. Grown(log, e, log', k)
  BY <1>1, <1>3, LogGrows
<1> HIDE DEF k
<1>5. \A i \in DOMAIN log' : log'[i].id <= id'
  <2>1. ASSUME NEW i \in DOMAIN log' PROVE log'[i].id <= id'
    <3>1. CASE i \in DOMAIN log
      BY <1>2, <1>4, <3>1 DEF LogInv, Grown
    <3>2. CASE i = k
      BY <1>1, <1>2, <1>3, <1>4, <3>2 DEF Grown
    <3>3. QED
      BY <1>4, <3>1, <3>2 DEF Grown
  <2>2. QED
    BY <2>1
<1>6. id' = 1
  BY <1>2 DEF LogInv
<1>7. EventsIn(log', id') = {}
  <2>1. EventsIn(log, id) = {}
    BY <1>2 DEF LogInv
  <2>2. EventsIn(log', id') = EventsIn(log, id')
    BY <1>1, <1>6, <1>4 DEF Grown
  <2>3. QED
    BY <1>2, <2>1, <2>2
<1>8. 1 .. id' - 1 = {}
  BY <1>6
<1>9. log' \in Seq(EventType)
  BY <1>4 DEF Grown
<1>10. QED
  BY <1>2, <1>5, <1>6, <1>7, <1>8, <1>9 DEF LogInv

\* A generation begins with its start.
LEMMA LogOfBegin ==
  ASSUME TypeInv, LogInv, BeginGeneration
  PROVE  LogInv' /\ log' \in Seq(EventType)
<1> DEFINE e == Event("generation_start", id, "none")
           k == Len(log) + 1
<1>1. /\ pc = "idle" /\ pc' = "generate" /\ id' = id /\ done' = FALSE
      /\ log' = Append(log, e)
  BY DEF BeginGeneration
<1>2. log \in Seq(EventType) /\ id \in Nat \ {0}
  BY DEF TypeInv, EventType
<1>3. e \in EventType /\ e.id = id /\ e.event = "generation_start"
  BY <1>2 DEF Event, EventType, EventNames, Statuses
<1> HIDE DEF e
<1>4. /\ log' \in Seq(EventType) /\ DOMAIN log' = DOMAIN log \cup {k}
      /\ log'[k] = e /\ \A i \in DOMAIN log : log'[i] = log[i]
      /\ EventsIn(log', id') = EventsIn(log, id) \cup {k}
  <2>1. Grown(log, e, log', k)
    BY <1>1, <1>2, <1>3, LogGrows
  <2> HIDE DEF k
  <2>2. EventsIn(log', id') = EventsIn(log, id') \cup {k}
    BY <1>1, <1>3, <2>1 DEF Grown
  <2>3. QED
    BY <1>1, <2>1, <2>2 DEF Grown
<1> HIDE DEF k
<1>5. \A i \in DOMAIN log' : log'[i].id <= id'
  <2>1. ASSUME NEW i \in DOMAIN log' PROVE log'[i].id <= id'
    <3>1. CASE i \in DOMAIN log
      BY <1>1, <1>4, <3>1 DEF LogInv
    <3>2. CASE i = k
      BY <1>1, <1>2, <1>3, <1>4, <3>2
    <3>3. QED
      BY <1>4, <3>1, <3>2
  <2>2. QED
    BY <2>1
<1>6. ASSUME NEW n \in 1 .. id' - 1
      PROVE  \E i, j \in DOMAIN log' : ToldIn(log', n, i, j)
  <2>1. n # id /\ n \in 1 .. id - 1
    BY <1>1, <1>2
  <2>2. PICK i \in DOMAIN log, j \in DOMAIN log : ToldIn(log, n, i, j)
    BY <2>1 DEF LogInv
  <2>3. QED
    BY <1>1, <1>2, <1>3, <2>1, <2>2, ToldStays
<1>7. ~done' /\ k \in DOMAIN log' /\ EventsIn(log', id') = {k} /\ log'[k].event = "generation_start"
  <2>1. EventsIn(log, id) = {}
    BY <1>1 DEF LogInv
  <2>2. EventsIn(log', id') = {k}
    BY <1>4, <2>1
  <2>3. EventsIn(log', id') = {k}
    BY <1>1, <2>2
  <2>4. k \in DOMAIN log' /\ log'[k].event = "generation_start"
    BY <1>3, <1>4
  <2>5. ~done'
    BY <1>1, Zenon
  <2>6. QED
    BY <2>3, <2>4, <2>5
<1>8. QED
  BY <1>1, <1>4, <1>5, <1>6, <1>7 DEF LogInv

\* The summary is appended to a generation that has none yet.
LEMMA SummaryIsAppended ==
  ASSUME TypeInv, LogInv, pc \in Running, NEW status \in Statuses,
         log' = Append(log, Event("generation_summary", id, status))
  PROVE  /\ log' \in Seq(EventType)
         /\ \A i \in DOMAIN log' : log'[i].id <= id
         /\ \A n \in 1 .. id - 1 : \E i, j \in DOMAIN log' : ToldIn(log', n, i, j)
         /\ \E i, j \in DOMAIN log' : ToldIn(log', id, i, j) /\ log'[j].status = status
<1> DEFINE e == Event("generation_summary", id, status)
           k == Len(log) + 1
<1>1. log \in Seq(EventType) /\ id \in Nat \ {0}
  BY DEF TypeInv, EventType
<1>2. e \in EventType /\ e.id = id /\ e.event = "generation_summary" /\ e.status = status
  BY <1>1 DEF Event, EventType, EventNames
<1>3. log' = Append(log, e)
  OBVIOUS
<1> HIDE DEF e
<1>4. /\ log' \in Seq(EventType) /\ DOMAIN log' = DOMAIN log \cup {k}
      /\ log'[k] = e /\ \A i \in DOMAIN log : log'[i] = log[i] /\ i < k
      /\ EventsIn(log', id) = EventsIn(log, id) \cup {k}
  <2>1. Grown(log, e, log', k)
    BY <1>1, <1>2, <1>3, LogGrows
  <2> HIDE DEF k
  <2>2. QED
    BY <1>2, <2>1 DEF Grown
<1> HIDE DEF k
<1>5. \A i \in DOMAIN log' : log'[i].id <= id
  <2>1. ASSUME NEW i \in DOMAIN log' PROVE log'[i].id <= id
    <3>1. CASE i \in DOMAIN log
      BY <1>4, <3>1 DEF LogInv
    <3>2. CASE i = k
      BY <1>1, <1>2, <1>4, <3>2
    <3>3. QED
      BY <1>4, <3>1, <3>2
  <2>2. QED
    BY <2>1
<1>6. ASSUME NEW n \in 1 .. id - 1
      PROVE  \E i, j \in DOMAIN log' : ToldIn(log', n, i, j)
  <2>1. n # id
    BY <1>1
  <2>2. PICK i \in DOMAIN log, j \in DOMAIN log : ToldIn(log, n, i, j)
    BY DEF LogInv
  <2>3. QED
    BY <1>1, <1>2, <1>3, <2>1, <2>2, ToldStays
<1>7. PICK i \in DOMAIN log : EventsIn(log, id) = {i} /\ log[i].event = "generation_start"
  BY DEF LogInv, Running
<1>8. ToldIn(log', id, i, k) /\ log'[k].status = status /\ i \in DOMAIN log' /\ k \in DOMAIN log'
  <2>1. EventsIn(log', id) = {i, k} /\ i < k
    BY <1>4, <1>7
  <2>2. log'[i].event = "generation_start" /\ log'[k].event = "generation_summary"
    BY <1>2, <1>4, <1>7
  <2>3. ToldIn(log', id, i, k)
    BY <2>1, <2>2 DEF ToldIn
  <2>4. QED
    BY <1>2, <1>4, <2>3
<1>9. QED
  BY <1>4, <1>5, <1>6, <1>8

\* finish writes the summary, of what generate has returned.
LEMMA LogOfFinish ==
  ASSUME TypeInv, LogInv, data.error = truth.failed, Finish
  PROVE  LogInv' /\ log' \in Seq(EventType)
<1>1. /\ pc \in Running /\ pc \in {"generate", "fail"} /\ pc' = "drop" /\ done' = TRUE
      /\ id' = id
  BY DEF Finish, Running
<1>2. ~done
  BY <1>1 DEF LogInv, Running
<1>3. PICK ok \in BOOLEAN :
        /\ log' = Append(log, Summary(IF ok THEN "complete" ELSE "error"))
        /\ truth' = [truth EXCEPT !.result = IF ok THEN "Ok" ELSE "Err"]
  BY <1>2 DEF Finish
<1> DEFINE status == IF data.error THEN "error" ELSE IF ok THEN "complete" ELSE "error"
<1>4. log' = Append(log, Event("generation_summary", id, status))
  BY <1>3 DEF Summary
<1>5. status \in Statuses
  BY DEF Statuses
<1>6. truth \in [forwards : Nat, passes : Nat, failed : BOOLEAN, result : Results]
  BY DEF TypeInv
<1>7. truth'.failed = truth.failed /\ truth'.result = (IF ok THEN "Ok" ELSE "Err")
  BY <1>3, <1>6
<1>8. Fits(status, truth')
  <2>1. CASE data.error
    <3>1. truth'.failed /\ status = "error"
      BY <1>7, <2>1
    <3>2. QED
      BY <3>1 DEF Fits
  <2>2. CASE ~data.error
    <3>1. ~truth'.failed /\ status = (IF ok THEN "complete" ELSE "error")
      BY <1>7, <2>2
    <3>2. QED
      BY <1>7, <3>1 DEF Fits
  <2>3. QED
    BY <2>1, <2>2
<1> HIDE DEF status
<1>9. /\ log' \in Seq(EventType) /\ \A i \in DOMAIN log' : log'[i].id <= id
      /\ \A n \in 1 .. id - 1 : \E i, j \in DOMAIN log' : ToldIn(log', n, i, j)
      /\ \E i, j \in DOMAIN log' : ToldIn(log', id, i, j) /\ log'[j].status = status
  BY <1>1, <1>4, <1>5, SummaryIsAppended
<1>10. done'
  BY <1>1, Zenon
<1>11. truth'.result \in {"Ok", "Err"}
  BY <1>7
<1>12. \E i, j \in DOMAIN log' : ToldIn(log', id', i, j) /\ Fits(log'[j].status, truth')
  <2>1. PICK i \in DOMAIN log', j \in DOMAIN log' :
          ToldIn(log', id, i, j) /\ log'[j].status = status
    BY <1>9
  <2>2. Fits(log'[j].status, truth')
    BY <1>8, <2>1 DEF Fits
  <2>3. QED
    BY <1>1, <2>1, <2>2
<1>13. QED
  BY <1>1, <1>9, <1>10, <1>11, <1>12 DEF LogInv

\* The drop of the session writes it after a panic.
LEMMA LogOfDrop ==
  ASSUME TypeInv, LogInv, data.error = truth.failed, DropSession
  PROVE  LogInv' /\ log' \in Seq(EventType)
<1>1. /\ pc \in {"drop", "unwind"} /\ id' = id + 1 /\ id \in Nat \ {0}
      /\ pc' = IF pc = "unwind" THEN "stopped" ELSE "idle"
      /\ truth' = [truth EXCEPT !.result = IF pc = "unwind" THEN "Panic" ELSE @]
      /\ log' = IF done THEN log ELSE Append(log, Summary("aborted"))
  BY DEF DropSession, TypeInv
<1>2. truth \in [forwards : Nat, passes : Nat, failed : BOOLEAN, result : Results]
  BY DEF TypeInv
\* Both ways the generation is told, and its status fits.
<1>3. /\ log' \in Seq(EventType) /\ \A i \in DOMAIN log' : log'[i].id <= id
      /\ \A n \in 1 .. id - 1 : \E i, j \in DOMAIN log' : ToldIn(log', n, i, j)
      /\ \E i, j \in DOMAIN log' : ToldIn(log', id, i, j) /\ Fits(log'[j].status, truth')
  <2>1. CASE pc = "drop"
    <3>1. done /\ \E i, j \in DOMAIN log : ToldIn(log, id, i, j) /\ Fits(log[j].status, truth)
      BY <2>1 DEF LogInv
    <3>2. log' = log /\ truth' = truth
      BY <1>1, <1>2, <2>1, <3>1
    <3>3. log \in Seq(EventType)
      BY DEF TypeInv, EventType
    <3>4. /\ \A i \in DOMAIN log : log[i].id <= id
          /\ \A n \in 1 .. id - 1 : \E i, j \in DOMAIN log : ToldIn(log, n, i, j)
      BY DEF LogInv
    <3>5. QED
      BY <3>1, <3>2, <3>3, <3>4
  <2>2. CASE pc = "unwind"
    <3> DEFINE status == IF data.error THEN "error" ELSE "aborted"
    <3>1. ~done /\ pc \in Running
      BY <2>2 DEF LogInv, Running
    <3>2. log' = Append(log, Event("generation_summary", id, status))
      BY <1>1, <3>1 DEF Summary
    <3>3. status \in Statuses
      BY DEF Statuses
    <3>4. truth'.result = "Panic" /\ truth'.failed = truth.failed
      BY <1>1, <1>2, <2>2
    <3>5. Fits(status, truth')
      BY <3>4 DEF Fits
    <3> HIDE DEF status
    <3>6. /\ log' \in Seq(EventType) /\ \A i \in DOMAIN log' : log'[i].id <= id
          /\ \A n \in 1 .. id - 1 : \E i, j \in DOMAIN log' : ToldIn(log', n, i, j)
          /\ \E i, j \in DOMAIN log' : ToldIn(log', id, i, j) /\ log'[j].status = status
      BY <3>1, <3>2, <3>3, SummaryIsAppended
    <3>7. \E i, j \in DOMAIN log' : ToldIn(log', id, i, j) /\ Fits(log'[j].status, truth')
      BY <3>5, <3>6
    <3>8. QED
      BY <3>6, <3>7
  <2>3. QED
    BY <1>1, <2>1, <2>2
<1>4. \A i \in DOMAIN log' : log'[i].id \in Nat
  <2>1. \A i \in DOMAIN log' : log'[i] \in EventType
    BY <1>3
  <2>2. QED
    BY <2>1 DEF EventType
<1>5. \A i \in DOMAIN log' : log'[i].id <= id' /\ log'[i].id # id'
  BY <1>1, <1>3, <1>4
<1>6. EventsIn(log', id') = {}
  BY <1>5 DEF EventsIn
<1>7. ASSUME NEW n \in 1 .. id' - 1
      PROVE  \E i, j \in DOMAIN log' :
               ToldIn(log', n, i, j) /\ (n = id' - 1 => Fits(log'[j].status, truth'))
  <2>1. id' - 1 = id /\ (n = id \/ n \in 1 .. id - 1)
    BY <1>1
  <2>2. CASE n = id
    BY <1>3, <2>2
  <2>3. CASE n \in 1 .. id - 1
    <3>1. n # id
      BY <1>1, <2>3
    <3>2. QED
      BY <1>3, <2>1, <2>3, <3>1
  <2>4. QED
    BY <2>1, <2>2, <2>3
<1>8. pc' \in {"idle", "stopped"}
  BY <1>1
<1>9. QED
  BY <1>3, <1>5, <1>6, <1>7, <1>8 DEF LogInv

-----------------------------------------------------------------------------
(* The steps                                                               *)

\* The fields of a pool.
LEMMA PoolFields ==
  ASSUME NEW p \in Pool
  PROVE  /\ p.there \in BOOLEAN /\ p.next \in Nat /\ p.query \in Seq(PassNames)
         /\ p.buffer \in Seq(PassNames) /\ p.map \in {"unmapped", "pending", "mapped"}
BY DEF Pool

\* The types of the variables that steps change by a field.
LEMMA Fields ==
  ASSUME TypeInv
  PROVE  /\ truth \in [forwards : Nat, passes : Nat, failed : BOOLEAN, result : Results]
         /\ truth.forwards \in Nat /\ truth.passes \in Nat
         /\ frame \in [passes : Nat, records : Seq(Record), pool : Pool,
                       answer : {"none", "waiting", "mapped", "failed"}]
         /\ frame.passes \in Nat /\ frame.records \in Seq(Record) /\ frame.pool \in Pool
         /\ frame.pool.next \in Nat /\ Len(frame.records) \in Nat
         /\ data.forwards \in Nat /\ data.passes \in Nat
         /\ MaxPairs \in Nat
<1>1. truth \in [forwards : Nat, passes : Nat, failed : BOOLEAN, result : Results]
  BY DEF TypeInv
<1>2. frame \in [passes : Nat, records : Seq(Record), pool : Pool,
                 answer : {"none", "waiting", "mapped", "failed"}]
  BY DEF TypeInv, FrameType
<1>3. frame.records \in Seq(Record) /\ frame.pool \in Pool /\ frame.passes \in Nat
  BY <1>2
<1>4. Len(frame.records) \in Nat
  BY <1>3
<1>5. frame.pool.next \in Nat
  BY <1>3, PoolFields
<1>6. data.forwards \in Nat /\ data.passes \in Nat
  BY DataFields DEF TypeInv
<1>7. MaxPairs \in Nat
  BY ProfileLimits
<1>8. QED
  BY <1>1, <1>2, <1>3, <1>4, <1>5, <1>6, <1>7

\* What does not touch the profile, the frame, the pool or the history, and
\* neither enters nor leaves a pass.
LEMMA QuietKeeps ==
  ASSUME BooksInv, FrameInv, SlotInv, UNCHANGED <<data, slot, frame, truth>>,
         DuringPass' <=> DuringPass, pc' # "refused", pc' = "encode" => pc = "encode"
  PROVE  BooksInv' /\ FrameInv' /\ SlotInv'
<1>1. BooksInv'
  BY DEF BooksInv, Balanced, CallsOf, StageOK
<1>2. FrameInv'
  BY DEF FrameInv, RecordOK
<1>3. SlotInv'
  BY DEF SlotInv
<1>4. QED
  BY <1>1, <1>2, <1>3

\* A generation begins with an empty profile.
LEMMA BeginGenerationKeeps ==
  ASSUME BooksInv, BeginGeneration
  PROVE  /\ BooksInv' /\ FrameInv' /\ SlotInv'
         /\ data' \in DataType /\ slot' \in Pool
         /\ truth' \in [forwards : Nat, passes : Nat, failed : BOOLEAN, result : Results]
<1>1. /\ pc = "idle" /\ pc' = "generate" /\ data' = NoData /\ slot' = NoPool /\ truth' = NoTruth
      /\ frame' = frame
  BY DEF BeginGeneration
<1>2. frame' = NoFrame
  BY <1>1 DEF BooksInv, DuringPass
<1>3. ~DuringPass'
  BY <1>1 DEF DuringPass
<1>4. Balanced(NoData, NoData.forwards + 1, 0, 0) /\ NoData \in DataType
  BY NoDataIsBalanced
<1>5. /\ NoData.forwards = NoTruth.forwards /\ NoData.passes = NoTruth.passes
      /\ NoData.error = NoTruth.failed
  BY DEF NoData, NoTruth
<1>6. BooksInv'
  BY <1>1, <1>2, <1>3, <1>4, <1>5 DEF BooksInv
<1>7. NoTruth \in [forwards : Nat, passes : Nat, failed : BOOLEAN, result : Results]
  BY DEF NoTruth, Results
<1>8. FrameInv'
  BY <1>2, IdleFrame
<1>9. SlotInv'
  BY <1>1, EmptyFrame DEF SlotInv
<1>10. QED
  BY <1>1, <1>4, <1>6, <1>7, <1>8, <1>9, EmptyFrame

\* A frame takes the pool of the one before it.
LEMMA BeginFrameKeeps ==
  ASSUME TypeInv, BooksInv, SlotInv, BeginFrame
  PROVE  TypeInv' /\ BooksInv' /\ FrameInv' /\ SlotInv'
<1> DEFINE pool == IF slot.there THEN slot ELSE IF gpu = "timestamps" THEN NewPool ELSE NoPool
<1>1. /\ pc = "generate" /\ pc' = "encode" /\ frame' = [NoFrame EXCEPT !.pool = pool]
      /\ slot' = NoPool /\ truth' = [truth EXCEPT !.forwards = @ + 1]
      /\ UNCHANGED <<log, id, data, done>>
  BY DEF BeginFrame
<1>2. pool \in Pool /\ pool.next = 0 /\ pool.map = "unmapped"
  BY EmptyFrame DEF TypeInv, SlotInv
<1> HIDE DEF pool
<1>3. /\ truth \in [forwards : Nat, passes : Nat, failed : BOOLEAN, result : Results]
      /\ truth.forwards \in Nat /\ data.passes \in Nat
  BY Fields
<1>4. /\ truth' \in [forwards : Nat, passes : Nat, failed : BOOLEAN, result : Results]
      /\ truth'.forwards = truth.forwards + 1 /\ truth'.passes = truth.passes
      /\ truth'.failed = truth.failed
  BY <1>1, <1>3
<1>5. frame' \in FrameType /\ frame'.passes = 0
  BY <1>1, <1>2, EmptyFrame DEF NoFrame
<1>6. TypeInv'
  BY <1>1, <1>4, <1>5, EmptyFrame DEF TypeInv
<1>7. FrameInv'
  BY <1>1, <1>2, FreshFrame
<1>8. BooksInv'
  <2>1. ~DuringPass /\ DuringPass'
    BY <1>1 DEF DuringPass
  <2>2. truth.forwards = data.forwards /\ truth.passes = data.passes
    BY <2>1 DEF BooksInv
  <2>3. truth'.forwards = data'.forwards + 1 /\ truth'.passes = data'.passes + frame'.passes
    BY <1>1, <1>3, <1>4, <1>5, <2>2
  <2>4. Balanced(data', data'.forwards + 1, 0, 0) /\ data'.error = truth'.failed
    BY <1>1, <1>4 DEF BooksInv
  <2>5. QED
    BY <2>1, <2>3, <2>4 DEF BooksInv
<1>9. SlotInv'
  BY <1>1, EmptyFrame DEF SlotInv
<1>10. QED
  BY <1>6, <1>7, <1>8, <1>9

\* A pool with a further query holds the queries of the frame so far.
LEMMA WrittenPool ==
  ASSUME NEW p \in Pool, NEW pass \in PassNames, NEW q \in Nat, q = p.next + 1,
         p.next # 0 => Len(p.query) = p.next, NEW p2, p2 = Written(p, q, pass)
  PROVE  /\ p2 \in Pool /\ p2.next = q /\ Len(p2.query) = q /\ p2.map = p.map
         /\ p2.query[q] = pass /\ \A i \in 1 .. p.next : p2.query[i] = p.query[i]
<1> DEFINE query == [i \in 1 .. q |-> IF i = q THEN pass ELSE p.query[i]]
<1>1. p.next \in Nat /\ p.query \in Seq(PassNames)
  BY PoolFields
<1>2. ASSUME NEW i \in 1 .. q PROVE (IF i = q THEN pass ELSE p.query[i]) \in PassNames
  <2>1. CASE i = q
    BY <2>1
  <2>2. CASE i # q
    <3>1. p.next # 0 /\ i \in 1 .. p.next
      BY <1>1, <2>2
    <3>2. i \in 1 .. Len(p.query)
      BY <3>1
    <3>3. p.query[i] \in PassNames
      BY <1>1, <3>2
    <3>4. QED
      BY <2>2, <3>3
  <2>3. QED
    BY <2>1, <2>2
<1>3. query \in Seq(PassNames) /\ Len(query) = q
  BY <1>2
<1>4. query[q] = pass /\ \A i \in 1 .. p.next : query[i] = p.query[i]
  BY <1>1
<1> HIDE DEF query
<1>5. p2 = [p EXCEPT !.next = q, !.query = query]
  BY DEF query, Written
<1>6. p2 \in Pool /\ p2.next = q /\ p2.query = query /\ p2.map = p.map
  BY <1>3, <1>5 DEF Pool
<1>7. QED
  BY <1>3, <1>4, <1>6

\* A compute pass reserves a query and leaves a record of itself.
LEMMA ComputePassKeeps ==
  ASSUME TypeInv, BooksInv, FrameInv, SlotInv, NEW key \in Keys, BeginComputePass(key)
  PROVE  TypeInv' /\ BooksInv' /\ FrameInv' /\ SlotInv'
<1> DEFINE pool == frame.pool
           records == frame.records
           n == truth.forwards
           q == Reserved(pool)
           pass == <<n, frame.passes + 1>>
           record == [key |-> key, query |-> q, pass |-> pass, time |-> NoTime,
                      missing |-> IF pool.there /\ q = NoQuery THEN "Capacity"
                                  ELSE MissingReason]
           records2 == IF Len(records) < MaxPairs THEN Append(records, record) ELSE records
           pool2 == IF q = NoQuery THEN pool ELSE Written(pool, q, pass)
<1>1. /\ pc = "encode"
      /\ frame' = [frame EXCEPT !.passes = @ + 1, !.records = records2, !.pool = pool2]
      /\ truth' = [truth EXCEPT !.passes = @ + 1]
      /\ UNCHANGED <<pc, log, id, data, done, slot>>
  <2>1. frame' = [frame EXCEPT !.passes = @ + 1, !.records = records2, !.pool = pool2]
    BY DEF BeginComputePass, ThisPass
  <2>2. QED
    BY <2>1 DEF BeginComputePass
<1>2. /\ truth \in [forwards : Nat, passes : Nat, failed : BOOLEAN, result : Results]
      /\ n \in Nat /\ truth.passes \in Nat
      /\ frame \in [passes : Nat, records : Seq(Record), pool : Pool,
                    answer : {"none", "waiting", "mapped", "failed"}]
      /\ frame.passes \in Nat /\ records \in Seq(Record) /\ pool \in Pool
      /\ pool.next \in Nat /\ Len(records) \in Nat /\ data.passes \in Nat /\ MaxPairs \in Nat
  BY Fields
<1>3. /\ Len(records) <= frame.passes /\ Len(records) <= MaxPairs
      /\ Len(records) < MaxPairs => Len(records) = frame.passes
      /\ \A i \in 1 .. Len(records) : RecordOK(records[i], i, n, pool)
      /\ pool.next # 0 => Len(pool.query) = pool.next
      /\ frame.answer = "none" /\ pool.map = "unmapped"
  BY <1>1 DEF FrameInv
<1>4. q \in Nat /\ (q = 0 \/ q = pool.next + 1)
  BY <1>2 DEF Reserved, NoQuery
<1>5. pass \in PassNames
  BY <1>2 DEF PassNames
<1>6. record \in Record /\ record.pass = pass /\ record.time = NoTime /\ record.query = q
  <2>1. (IF pool.there /\ q = NoQuery THEN "Capacity" ELSE MissingReason) \in Reasons
    BY DEF Reasons, MissingReason
  <2> HIDE DEF pass, q, pool
  <2>2. QED
    BY <1>4, <1>5, <2>1 DEF Record
<1> HIDE DEF record
\* The queries written before are still there.
<1>7. /\ pool2 \in Pool /\ pool2.map = "unmapped"
      /\ pool2.next # 0 => Len(pool2.query) = pool2.next
      /\ pool.next <= pool2.next /\ pool2.next \in Nat
      /\ \A i \in 1 .. pool.next : pool2.query[i] = pool.query[i]
      /\ q # 0 => pool2.next = q /\ pool2.query[q] = pass
  <2>1. CASE q = 0
    <3>1. pool2 = pool
      BY <2>1 DEF NoQuery
    <3> HIDE DEF pool2, q, pool
    <3>2. QED
      BY <1>2, <1>3, <2>1, <3>1
  <2>2. CASE q # 0
    <3>1. q = pool.next + 1
      BY <1>4, <2>2
    <3>2. pool2 = Written(pool, q, pass)
      BY <2>2 DEF NoQuery
    <3> HIDE DEF pool2, q, pool, pass
    <3>3. /\ pool2 \in Pool /\ pool2.next = q /\ Len(pool2.query) = q /\ pool2.map = pool.map
          /\ pool2.query[q] = pass /\ \A i \in 1 .. pool.next : pool2.query[i] = pool.query[i]
      BY <1>2, <1>3, <1>4, <1>5, <3>1, <3>2, WrittenPool
    <3>4. QED
      BY <1>2, <1>3, <1>4, <3>1, <3>3
  <2>3. QED
    BY <2>1, <2>2
<1> HIDE DEF pool2
<1>8. /\ records2 \in Seq(Record) /\ Len(records2) <= frame.passes + 1
      /\ Len(records2) <= MaxPairs
      /\ Len(records2) < MaxPairs => Len(records2) = frame.passes + 1
  <2>1. CASE Len(records) < MaxPairs
    <3>1. records2 = Append(records, record)
      BY <2>1
    <3> HIDE DEF records, records2
    <3>2. records2 \in Seq(Record) /\ Len(records2) = Len(records) + 1
      BY <1>2, <1>6, <3>1
    <3>3. QED
      BY <1>2, <1>3, <2>1, <3>2
  <2>2. CASE ~(Len(records) < MaxPairs)
    <3>1. records2 = records
      BY <2>2
    <3> HIDE DEF records, records2
    <3>2. QED
      BY <1>2, <1>3, <2>2, <3>1
  <2>3. QED
    BY <2>1, <2>2
<1>9. ASSUME NEW i \in 1 .. Len(records2)
      PROVE  RecordOK(records2[i], i, n, pool2)
  <2>1. CASE i \in 1 .. Len(records)
    <3>1. records2[i] = records[i]
      BY <1>2, <1>6, <2>1
    <3>2. RecordOK(records[i], i, n, pool) /\ records[i] \in Record
      BY <1>2, <1>3, <2>1
    <3> HIDE DEF records, records2, pool
    <3>3. records[i].query \in Nat
      BY <3>2 DEF Record
    <3>4. records[i].query <= pool.next
      BY <3>2 DEF RecordOK
    <3>5. records[i].query <= pool2.next
      BY <1>2, <1>7, <3>3, <3>4
    <3>6. records[i].query # 0 => pool2.query[records[i].query] = pool.query[records[i].query]
      <4>1. \A j \in 1 .. pool.next : pool2.query[j] = pool.query[j]
        BY <1>7
      <4>2. pool.next \in Nat
        BY <1>2
      <4>3. records[i].query # 0 => records[i].query \in 1 .. pool.next
        BY <3>3, <3>4, <4>2
      <4>4. QED
        BY <4>1, <4>3
    <3>7. /\ records[i].pass = <<n, i>> /\ records[i].time = NoTime
          /\ records[i].query # 0 => pool.query[records[i].query] = records[i].pass
      BY <3>2 DEF RecordOK, NoQuery
    <3>8. RecordOK(records[i], i, n, pool2)
      BY <3>5, <3>6, <3>7 DEF RecordOK, NoQuery
    <3>9. QED
      BY <3>1, <3>8
  <2>2. CASE i \notin 1 .. Len(records)
    <3>1. Len(records) < MaxPairs /\ i = Len(records) + 1 /\ records2[i] = record
      BY <1>2, <1>6, <2>2
    <3>2. i = frame.passes + 1
      BY <1>3, <3>1
    <3> HIDE DEF records, records2, pool, q
    <3>3. record.pass = <<n, i>>
      BY <1>6, <3>2
    <3>4. q <= pool2.next
      BY <1>4, <1>7
    <3>5. QED
      BY <1>6, <1>7, <3>1, <3>3, <3>4 DEF RecordOK, NoQuery
  <2>3. QED
    BY <2>1, <2>2
<1> HIDE DEF records2, q, pass
<1>10. /\ frame' \in FrameType /\ frame'.passes = frame.passes + 1 /\ frame'.records = records2
       /\ frame'.pool = pool2 /\ frame'.answer = "none"
  <2> DEFINE passes == frame.passes + 1
  <2>1. passes \in Nat /\ records2 \in Seq(Record) /\ pool2 \in Pool
    BY <1>2, <1>7, <1>8
  <2>2. frame' = [frame EXCEPT !.passes = passes, !.records = records2, !.pool = pool2]
    BY <1>1
  <2>3. frame \in FrameType /\ frame.answer = "none"
    BY <1>2, <1>3 DEF FrameType
  <2> HIDE DEF passes, records, pool, n
  <2>4. /\ frame' \in FrameType /\ frame'.passes = passes /\ frame'.records = records2
        /\ frame'.pool = pool2 /\ frame'.answer = "none"
    BY <2>1, <2>2, <2>3 DEF FrameType
  <2>5. QED
    BY <2>4 DEF passes
<1> HIDE DEF records, pool
<1>11. /\ truth' \in [forwards : Nat, passes : Nat, failed : BOOLEAN, result : Results]
       /\ truth'.forwards = n /\ truth'.passes = truth.passes + 1 /\ truth'.failed = truth.failed
  <2> DEFINE passes == truth.passes + 1
  <2>1. passes \in Nat /\ truth' = [truth EXCEPT !.passes = passes]
    BY <1>1, <1>2
  <2> HIDE DEF passes
  <2>2. /\ truth' \in [forwards : Nat, passes : Nat, failed : BOOLEAN, result : Results]
        /\ truth'.forwards = n /\ truth'.passes = passes /\ truth'.failed = truth.failed
    BY <1>2, <2>1
  <2>3. QED
    BY <2>2 DEF passes
<1>12. TypeInv'
  BY <1>1, <1>10, <1>11 DEF TypeInv
<1>13. FrameInv'
  BY <1>1, <1>7, <1>8, <1>9, <1>10, <1>11 DEF FrameInv
<1>14. BooksInv'
  <2>1. DuringPass /\ DuringPass'
    BY <1>1 DEF DuringPass
  <2>2. truth.forwards = data.forwards + 1 /\ truth.passes = data.passes + frame.passes
    BY <2>1 DEF BooksInv
  <2>3. truth'.forwards = data'.forwards + 1 /\ truth'.passes = data'.passes + frame'.passes
    <3>1. /\ data' = data /\ truth'.forwards = truth.forwards
          /\ truth'.passes = truth.passes + 1 /\ frame'.passes = frame.passes + 1
      BY <1>1, <1>10, <1>11
    <3>2. data.passes \in Nat /\ frame.passes \in Nat
      BY <1>2
    <3>3. QED
      BY <2>2, <3>1, <3>2
  <2>4. Balanced(data', data'.forwards + 1, 0, 0) /\ data'.error = truth'.failed
    BY <1>1, <1>11 DEF BooksInv
  <2>5. QED
    BY <2>1, <2>3, <2>4 DEF BooksInv
<1>15. SlotInv'
  BY <1>1 DEF SlotInv
<1>16. QED
  BY <1>12, <1>13, <1>14, <1>15

\* The same frame with another pool or answer keeps the books.
LEMMA BooksOfFrame ==
  ASSUME BooksInv, DuringPass, DuringPass', UNCHANGED <<data, truth>>,
         frame'.passes = frame.passes
  PROVE  BooksInv'
<1>1. Balanced(data', data'.forwards + 1, 0, 0) /\ data'.error = truth'.failed
  BY DEF BooksInv
<1>2. truth.forwards = data.forwards + 1 /\ truth.passes = data.passes + frame.passes
  BY DEF BooksInv
<1>3. QED
  BY <1>1, <1>2 DEF BooksInv

\* The submission copies the queries: the buffer is free, whatever the answer
\* to the frame before.
LEMMA SubmitKeeps ==
  ASSUME TypeInv, BooksInv, FrameInv, SlotInv, Submit
  PROVE  TypeInv' /\ BooksInv' /\ FrameInv' /\ SlotInv' /\ pc' = "outputs"
<1> DEFINE pool == frame.pool
           buffer == [i \in 1 .. pool.next |-> pool.query[i]]
           pool2 == [pool EXCEPT !.buffer = buffer, !.map = "pending"]
<1>1. /\ pc = "encode" /\ UNCHANGED <<log, id, data, done, slot, truth>>
      /\ pool.map = "unmapped"
  BY DEF Submit, FrameInv
<1>2. pc' = "outputs"
  BY <1>1 DEF Submit
<1>3. DuringPass /\ DuringPass'
  BY <1>1, <1>2 DEF DuringPass
<1>4. SlotInv'
  BY <1>1, <1>2 DEF SlotInv
<1>5. CASE pool.next = 0
  <2>1. frame' = frame
    BY <1>5 DEF Submit
  <2>2. TypeInv'
    BY <1>1, <2>1 DEF TypeInv
  <2>3. QED
    BY <1>1, <1>2, <1>3, <2>1, <2>2, QuietKeeps
<1>6. CASE pool.next # 0
  <2>1. frame' = [frame EXCEPT !.pool = pool2, !.answer = "waiting"]
    BY <1>1, <1>6 DEF Submit
  <2>2. /\ frame \in [passes : Nat, records : Seq(Record), pool : Pool,
                      answer : {"none", "waiting", "mapped", "failed"}]
        /\ pool \in Pool /\ pool.next \in Nat /\ pool.query \in Seq(PassNames)
    BY Fields, PoolFields
  <2>3. Len(pool.query) = pool.next
    BY <1>6 DEF FrameInv
  <2>4. buffer \in Seq(PassNames) /\ \A i \in 1 .. pool.next : buffer[i] = pool.query[i]
    BY <2>2, <2>3
  <2> HIDE DEF buffer, pool
  <2>5. /\ pool2 \in Pool /\ pool2.next = pool.next /\ pool2.query = pool.query
        /\ pool2.buffer = buffer
    BY <2>2, <2>4 DEF Pool
  <2> HIDE DEF pool2
  <2>6. /\ frame' \in FrameType /\ frame'.passes = frame.passes
        /\ frame'.records = frame.records /\ frame'.pool = pool2
    BY <2>1, <2>2, <2>5 DEF FrameType
  <2>7. \A r, i, n : RecordOK(r, i, n, pool) => RecordOK(r, i, n, pool2)
    BY <2>5 DEF RecordOK
  <2>8. FrameInv'
    BY <1>1, <1>2, <2>4, <2>5, <2>6, <2>7 DEF FrameInv, pool
  <2>9. TypeInv'
    BY <1>1, <2>6 DEF TypeInv
  <2>10. BooksInv'
    BY <1>1, <1>3, <2>6, BooksOfFrame
  <2>11. QED
    BY <1>2, <1>4, <2>8, <2>9, <2>10
<1>7. QED
  BY <1>5, <1>6

\* An answer tells the mapping's state, and nothing of the queries.
LEMMA AnswerKeeps ==
  ASSUME TypeInv, BooksInv, FrameInv, SlotInv, Answer
  PROVE  TypeInv' /\ BooksInv' /\ FrameInv' /\ SlotInv'
<1>1. /\ pc \in {"outputs", "finish"} /\ frame.answer = "waiting"
      /\ UNCHANGED <<pc, log, id, data, done, slot, truth>>
  BY DEF Answer
<1>2. PICK answer \in {"mapped", "failed"}, map \in {"mapped", "unmapped"} :
        frame' = [frame EXCEPT !.answer = answer, !.pool.map = map]
  BY DEF Answer
<1> DEFINE pool == frame.pool
           pool2 == [pool EXCEPT !.map = map]
<1>3. /\ frame \in [passes : Nat, records : Seq(Record), pool : Pool,
                    answer : {"none", "waiting", "mapped", "failed"}]
      /\ pool \in Pool
  BY Fields
<1>4. frame' = [frame EXCEPT !.answer = answer, !.pool = pool2]
  BY <1>2
<1> HIDE DEF pool
<1>5. /\ pool2 \in Pool /\ pool2.next = pool.next /\ pool2.query = pool.query
      /\ pool2.buffer = pool.buffer
  BY <1>3 DEF Pool
<1> HIDE DEF pool2
<1>6. /\ frame' \in FrameType /\ frame'.passes = frame.passes
      /\ frame'.records = frame.records /\ frame'.pool = pool2
  BY <1>3, <1>4, <1>5 DEF FrameType
<1>7. \A r, i, n : RecordOK(r, i, n, pool) => RecordOK(r, i, n, pool2)
  BY <1>5 DEF RecordOK
<1>8. FrameInv'
  <2>1. \A i \in 1 .. pool2.next : pool2.buffer[i] = pool2.query[i]
    BY <1>1, <1>5 DEF FrameInv, pool
  <2>2. pc' # "encode"
    BY <1>1
  <2>3. QED
    BY <1>1, <1>5, <1>6, <1>7, <2>1, <2>2 DEF FrameInv, pool
<1>9. TypeInv'
  BY <1>1, <1>6 DEF TypeInv
<1>10. BooksInv'
  BY <1>1, <1>6, BooksOfFrame DEF DuringPass
<1>11. SlotInv'
  BY <1>1 DEF SlotInv
<1>12. QED
  BY <1>8, <1>9, <1>10, <1>11

\* What finish makes of a record: its time, which is its own because the
\* buffer holds the query that this pass wrote, or the reason of its absence.
LEMMA MeasuredIs ==
  ASSUME TypeInv, FrameInv, NEW outcome \in Waited, NEW bad,
         NEW i \in 1 .. Len(frame.records)
  PROVE  LET r == Measured(frame.records[i], outcome, bad) IN
         /\ r \in Record /\ r.pass = <<truth.forwards, i>> /\ r.time \in {NoTime, r.pass}
<1> DEFINE old == frame.records[i]
           r == Measured(old, outcome, bad)
           pool == frame.pool
<1>1. /\ frame.records \in Seq(Record) /\ pool \in Pool /\ pool.next \in Nat
      /\ frame.answer \in {"none", "waiting", "mapped", "failed"}
  BY Fields
<1>2. old \in Record
  BY <1>1
<1>3. /\ old.pass = <<truth.forwards, i>> /\ old.time = NoTime /\ old.query <= pool.next
      /\ old.query # NoQuery => pool.query[old.query] = old.pass
  BY DEF FrameInv, RecordOK
<1>4. /\ outcome \in {"data", "InvalidTimestamp", "ReadbackTimeout"}
      /\ outcome = "data" => frame.answer = "mapped"
  <2>1. CASE frame.answer = "none"
    BY <2>1 DEF Waited
  <2>2. CASE frame.answer = "waiting"
    BY <2>2 DEF Waited
  <2>3. CASE frame.answer = "mapped"
    BY <2>3 DEF Waited
  <2>4. CASE frame.answer = "failed"
    BY <2>4 DEF Waited
  <2>5. QED
    BY <1>1, <2>1, <2>2, <2>3, <2>4
<1> DEFINE time == pool.buffer[old.query]
           reason == IF outcome = "data" THEN "InvalidTimestamp" ELSE outcome
<1>5. r = IF old.query = NoQuery THEN old
          ELSE IF outcome = "data" /\ old.query \notin bad THEN [old EXCEPT !.time = time]
          ELSE [old EXCEPT !.missing = reason]
  BY DEF Measured
<1>6. reason \in Reasons
  BY <1>4 DEF Reasons
<1>7. old.query # NoQuery /\ outcome = "data" => time = old.pass
  <2>1. SUFFICES ASSUME old.query # NoQuery, outcome = "data" PROVE time = old.pass
    OBVIOUS
  <2>2. \A j \in 1 .. pool.next : pool.buffer[j] = pool.query[j]
    BY <1>4, <2>1 DEF FrameInv
  <2>3. old.query \in 1 .. pool.next
    <3>1. old.query \in Nat
      BY <1>2 DEF Record
    <3> HIDE DEF old
    <3>2. QED
      BY <1>1, <1>3, <2>1, <3>1 DEF NoQuery
  <2> HIDE DEF old, pool
  <2>4. QED
    BY <1>3, <2>1, <2>2, <2>3
<1> SUFFICES r \in Record /\ r.pass = <<truth.forwards, i>> /\ r.time \in {NoTime, r.pass}
  OBVIOUS
<1> HIDE DEF old, r, pool, time, reason
<1>8. CASE old.query = NoQuery
  BY <1>2, <1>3, <1>5, <1>8
<1>9. CASE old.query # NoQuery /\ outcome = "data" /\ old.query \notin bad
  <2>1. r = [old EXCEPT !.time = old.pass]
    BY <1>5, <1>7, <1>9
  <2>2. old.pass \in PassNames
    BY <1>2 DEF Record
  <2>3. r \in Record /\ r.pass = old.pass /\ r.time = old.pass
    BY <1>2, <2>1, <2>2 DEF Record
  <2>4. QED
    BY <1>3, <2>3
<1>10. CASE old.query # NoQuery /\ ~(outcome = "data" /\ old.query \notin bad)
  <2>1. r = [old EXCEPT !.missing = reason]
    BY <1>5, <1>10
  <2>2. r \in Record /\ r.pass = old.pass /\ r.time = old.time
    BY <1>2, <1>6, <2>1 DEF Record
  <2>3. QED
    BY <1>3, <2>2
<1>11. QED
  BY <1>8, <1>9, <1>10

\* A pass that ends leaves balanced books.
LEMMA RecordedFrame ==
  ASSUME TypeInv, BooksInv, FrameInv, DuringPass, NEW d \in DataType, NEW rs \in Seq(Record),
         d.forwards = data.forwards, d.passes = data.passes, d.dropped = data.dropped,
         d.stages = data.stages,
         Len(rs) = Len(frame.records), OwnRecords(rs, truth.forwards)
  PROVE  LET e == RecordForward(d, rs, frame.passes) IN
         /\ e \in DataType /\ Balanced(e, e.forwards + 1, 0, 0)
         /\ e.forwards = truth.forwards /\ e.passes = truth.passes /\ e.error = d.error
<1> DEFINE n == truth.forwards
           e == RecordForward(d, rs, frame.passes)
<1>1. /\ n \in Nat /\ frame.passes \in Nat /\ data.forwards \in Nat
      /\ Len(rs) <= frame.passes
  BY Fields DEF FrameInv
<1>2. n = data.forwards + 1 /\ truth.passes = data.passes + frame.passes
  BY DEF BooksInv
<1>3. Balanced(data, n, 0, 0)
  BY <1>2 DEF BooksInv
<1>4. Balanced(d, n, 0, 0)
  BY <1>3 DEF Balanced, CallsOf
<1>5. /\ e \in DataType /\ Balanced(e, n + 1, 0, 0) /\ e.forwards = d.forwards + 1
      /\ e.passes = d.passes + frame.passes /\ e.error = d.error
  BY <1>1, <1>4, RecordForwardKeeps
<1> HIDE DEF e, n
<1>6. e.forwards = n /\ e.passes = truth.passes
  BY <1>2, <1>5
<1>7. QED
  BY <1>5, <1>6 DEF e, n

\* The books between two passes.
LEMMA BooksAreClosed ==
  ASSUME ~DuringPass', Balanced(data', data'.forwards + 1, 0, 0), data'.error = truth'.failed,
         truth'.forwards = data'.forwards, truth'.passes = data'.passes, frame' = NoFrame
  PROVE  BooksInv' /\ FrameInv'
<1>1. FrameInv'
  BY IdleFrame
<1>2. QED
  BY <1>1 DEF BooksInv

\* finish: the samples get their times, and the pool goes back to the slot,
\* free for the next frame.
LEMMA FinishFrameKeeps ==
  ASSUME TypeInv, BooksInv, FrameInv, SlotInv, FinishFrame
  PROVE  TypeInv' /\ BooksInv' /\ FrameInv' /\ SlotInv'
<1>1. PICK outcome \in Waited, bad \in SUBSET (1 .. frame.pool.next) :
        data' = RecordForward(data,
                  [i \in DOMAIN frame.records |-> Measured(frame.records[i], outcome, bad)],
                  frame.passes)
  BY DEF FinishFrame
<1> DEFINE rs == [i \in DOMAIN frame.records |-> Measured(frame.records[i], outcome, bad)]
<1>2. /\ pc = "finish" /\ pc' = "generate" /\ frame' = NoFrame
      /\ slot' = IF frame.pool.there THEN [Unmapped(frame.pool) EXCEPT !.next = 0] ELSE NoPool
      /\ UNCHANGED <<log, id, done, truth>>
  BY DEF FinishFrame
<1>3. frame.records \in Seq(Record) /\ frame.pool \in Pool /\ Len(frame.records) \in Nat
  BY Fields
<1>4. rs \in Seq(Record) /\ Len(rs) = Len(frame.records) /\ OwnRecords(rs, truth.forwards)
  <2>1. DOMAIN frame.records = 1 .. Len(frame.records)
    BY <1>3
  <2>2. \A i \in 1 .. Len(frame.records) :
          /\ rs[i] \in Record /\ rs[i].pass = <<truth.forwards, i>>
          /\ rs[i].time \in {NoTime, rs[i].pass}
    BY <2>1, MeasuredIs
  <2>3. rs = [i \in 1 .. Len(frame.records) |-> rs[i]]
    BY <2>1
  <2> HIDE DEF rs
  <2>4. rs \in Seq(Record) /\ Len(rs) = Len(frame.records)
    <3>1. rs \in [1 .. Len(frame.records) -> Record]
      BY <2>2, <2>3
    <3> DEFINE m == Len(frame.records)
    <3>2. m \in Nat /\ rs \in [1 .. m -> Record]
      BY <1>3, <3>1
    <3> HIDE DEF m
    <3>3. rs \in Seq(Record) /\ Len(rs) = m
      BY <3>2
    <3>4. QED
      BY <3>3 DEF m
  <2>5. QED
    BY <2>2, <2>4 DEF OwnRecords
<1>5. data' = RecordForward(data, rs, frame.passes)
  BY <1>1
<1> HIDE DEF rs
<1>6. DuringPass /\ ~DuringPass' /\ data \in DataType
  BY <1>2 DEF DuringPass, TypeInv
<1>7. /\ data' \in DataType /\ Balanced(data', data'.forwards + 1, 0, 0)
      /\ data'.forwards = truth.forwards /\ data'.passes = truth.passes
      /\ data'.error = data.error
  BY <1>4, <1>5, <1>6, RecordedFrame
<1>8. BooksInv' /\ FrameInv'
  <2>1. data.error = truth.failed
    BY DEF BooksInv
  <2>2. QED
    BY <1>2, <1>6, <1>7, <2>1, BooksAreClosed
<1>9. slot' \in Pool /\ slot'.next = 0 /\ slot'.map = "unmapped"
  <2> DEFINE pool == [frame.pool EXCEPT !.map = "unmapped", !.next = 0]
  <2>1. [Unmapped(frame.pool) EXCEPT !.next = 0] = pool
    BY <1>3 DEF Unmapped, Pool
  <2>2. pool \in Pool /\ pool.next = 0 /\ pool.map = "unmapped"
    BY <1>3 DEF Pool
  <2> HIDE DEF pool
  <2>3. QED
    BY <1>2, <2>1, <2>2, EmptyFrame
<1>10. SlotInv'
  BY <1>2, <1>9 DEF SlotInv
<1>11. TypeInv'
  BY <1>2, <1>7, <1>9, EmptyFrame DEF TypeInv
<1>12. QED
  BY <1>8, <1>10, <1>11

\* A frame that goes without finish: its samples have no time, and the
\* profile is marked.
LEMMA DropFrameKeeps ==
  ASSUME TypeInv, BooksInv, FrameInv, SlotInv, DropFrame
  PROVE  TypeInv' /\ BooksInv' /\ FrameInv' /\ SlotInv'
<1> DEFINE d == [data EXCEPT !.error = TRUE]
<1>1. /\ pc \in {"encode", "outputs"} /\ pc' \in {"fail", "unwind"} /\ frame' = NoFrame
      /\ data' = RecordForward(d, frame.records, frame.passes)
      /\ truth' = [truth EXCEPT !.failed = TRUE]
      /\ UNCHANGED <<log, id, done, slot>>
  BY DEF DropFrame
<1>2. data \in DataType
  BY DEF TypeInv
<1>3. /\ d \in DataType /\ d.forwards = data.forwards /\ d.passes = data.passes
      /\ d.dropped = data.dropped /\ d.stages = data.stages /\ d.error = TRUE
  BY <1>2 DEF DataType
<1> HIDE DEF d
<1>4. frame.records \in Seq(Record)
  BY Fields
<1>5. OwnRecords(frame.records, truth.forwards)
  BY DEF OwnRecords, FrameInv, RecordOK
<1>6. DuringPass /\ ~DuringPass'
  BY <1>1 DEF DuringPass
<1>7. /\ data' \in DataType /\ Balanced(data', data'.forwards + 1, 0, 0)
      /\ data'.forwards = truth.forwards /\ data'.passes = truth.passes /\ data'.error = TRUE
  BY <1>1, <1>3, <1>4, <1>5, <1>6, RecordedFrame
<1>8. truth \in [forwards : Nat, passes : Nat, failed : BOOLEAN, result : Results]
  BY Fields
<1>9. /\ truth' \in [forwards : Nat, passes : Nat, failed : BOOLEAN, result : Results]
      /\ truth'.forwards = truth.forwards /\ truth'.passes = truth.passes
      /\ truth'.failed = TRUE
  BY <1>1, <1>8
<1>10. BooksInv' /\ FrameInv'
  BY <1>1, <1>6, <1>7, <1>9, BooksAreClosed
<1>11. SlotInv'
  BY <1>1 DEF SlotInv
<1>12. TypeInv'
  BY <1>1, <1>7, <1>9, EmptyFrame DEF TypeInv
<1>13. QED
  BY <1>10, <1>11, <1>12

\* The end of a generation writes its result only.
LEMMA ResultKeeps ==
  ASSUME TypeInv, BooksInv, FrameInv, ~DuringPass, ~DuringPass', NEW result \in Results,
         truth' = [truth EXCEPT !.result = result], UNCHANGED <<data, frame>>
  PROVE  /\ BooksInv' /\ FrameInv'
         /\ truth' \in [forwards : Nat, passes : Nat, failed : BOOLEAN, result : Results]
<1>1. truth \in [forwards : Nat, passes : Nat, failed : BOOLEAN, result : Results]
  BY Fields
<1>2. /\ truth' \in [forwards : Nat, passes : Nat, failed : BOOLEAN, result : Results]
      /\ truth'.forwards = truth.forwards /\ truth'.passes = truth.passes
      /\ truth'.failed = truth.failed
  BY <1>1
<1>3. /\ Balanced(data, data.forwards + 1, 0, 0) /\ data.error = truth.failed
      /\ truth.forwards = data.forwards /\ truth.passes = data.passes /\ frame = NoFrame
  BY DEF BooksInv
<1>4. /\ Balanced(data', data'.forwards + 1, 0, 0) /\ data'.error = truth'.failed
      /\ truth'.forwards = data'.forwards /\ truth'.passes = data'.passes /\ frame' = NoFrame
  BY <1>2, <1>3
<1>5. QED
  BY <1>2, <1>4, BooksAreClosed

\* The return of generate, and its end or an unwinding.
LEMMA EndKeeps ==
  ASSUME TypeInv, BooksInv, FrameInv, SlotInv, log' \in Seq(EventType), Finish \/ DropSession
  PROVE  TypeInv' /\ BooksInv' /\ FrameInv' /\ SlotInv'
<1>1. truth \in [forwards : Nat, passes : Nat, failed : BOOLEAN, result : Results]
  BY Fields
<1>2. /\ ~DuringPass /\ ~DuringPass' /\ UNCHANGED <<data, frame>>
      /\ slot' \in {slot, NoPool} /\ id' \in {id, id + 1} /\ done' = TRUE /\ pc' # "refused"
  BY DEF DuringPass, Finish, DropSession
<1>3. PICK result \in Results : truth' = [truth EXCEPT !.result = result]
  <2>1. CASE Finish
    <3>1. PICK ok \in BOOLEAN : truth' = [truth EXCEPT !.result = IF ok THEN "Ok" ELSE "Err"]
      BY <2>1 DEF Finish
    <3>2. (IF ok THEN "Ok" ELSE "Err") \in Results
      BY DEF Results
    <3>3. QED
      BY <3>1, <3>2
  <2>2. CASE DropSession
    <3>1. truth' = [truth EXCEPT !.result = IF pc = "unwind" THEN "Panic" ELSE truth.result]
      BY <2>2 DEF DropSession
    <3>2. (IF pc = "unwind" THEN "Panic" ELSE truth.result) \in Results
      BY <1>1 DEF Results
    <3>3. QED
      BY <3>1, <3>2
  <2>3. QED
    BY <2>1, <2>2
<1>4. /\ BooksInv' /\ FrameInv'
      /\ truth' \in [forwards : Nat, passes : Nat, failed : BOOLEAN, result : Results]
  BY <1>2, <1>3, ResultKeeps
<1>5. SlotInv'
  BY <1>2, EmptyFrame DEF SlotInv
<1>6. id' \in Nat \ {0}
  BY <1>2 DEF TypeInv
<1>7. done' \in BOOLEAN
  BY <1>2, Zenon
<1>8. TypeInv'
  BY <1>2, <1>4, <1>6, <1>7, EmptyFrame DEF TypeInv, EventType
<1>9. QED
  BY <1>4, <1>5, <1>8

\* Every step keeps the invariant.
LEMMA NextIInv ==
  ASSUME IInv, [Next]_vars
  PROVE  IInv'
<1>1. TypeInv /\ BooksInv /\ FrameInv /\ SlotInv /\ LogInv /\ data.error = truth.failed
  BY DEF IInv, BooksInv
<1>2. ASSUME TypeInv' /\ BooksInv' /\ FrameInv' /\ SlotInv', LogInv' PROVE IInv'
  BY <1>2 DEF IInv
<1> USE <1>1
<1>3. CASE BeginLoad \/ EndLoad
  <2>1. LogInv' /\ log' \in Seq(EventType)
    BY <1>3, LogOfLoad
  <2>2. /\ UNCHANGED <<id, data, done, slot, frame, truth>>
        /\ ~DuringPass /\ ~DuringPass' /\ pc' # "refused" /\ pc' # "encode"
    BY <1>3 DEF BeginLoad, EndLoad, DuringPass
  <2>3. BooksInv' /\ FrameInv' /\ SlotInv'
    BY <2>2, QuietKeeps
  <2>4. TypeInv'
    BY <2>1, <2>2 DEF TypeInv, EventType
  <2>5. QED
    BY <1>2, <2>1, <2>3, <2>4
<1>4. CASE BeginGeneration
  <2>1. LogInv' /\ log' \in Seq(EventType)
    BY <1>4, LogOfBegin
  <2>2. /\ BooksInv' /\ FrameInv' /\ SlotInv'
        /\ data' \in DataType /\ slot' \in Pool
        /\ truth' \in [forwards : Nat, passes : Nat, failed : BOOLEAN, result : Results]
    BY <1>4, BeginGenerationKeeps
  <2>3. UNCHANGED <<id, frame>> /\ done' = FALSE
    BY <1>4 DEF BeginGeneration
  <2>4. done' \in BOOLEAN
    BY <2>3, Zenon
  <2>5. TypeInv'
    BY <2>1, <2>2, <2>3, <2>4 DEF TypeInv, EventType
  <2>6. QED
    BY <1>2, <2>1, <2>2, <2>5
<1>5. CASE BeginFrame
  <2>1. TypeInv' /\ BooksInv' /\ FrameInv' /\ SlotInv'
    BY <1>5, BeginFrameKeeps
  <2>2. UNCHANGED <<log, id, done>> /\ pc \in Running /\ pc' \in Running
    BY <1>5 DEF BeginFrame, Running
  <2>3. QED
    BY <1>2, <2>1, <2>2, LogQuiet
<1>6. ASSUME NEW key \in Keys, BeginComputePass(key) PROVE IInv'
  <2>1. TypeInv' /\ BooksInv' /\ FrameInv' /\ SlotInv'
    BY <1>6, ComputePassKeeps
  <2>2. UNCHANGED <<log, id, done>> /\ pc \in Running /\ pc' \in Running
    BY <1>6 DEF BeginComputePass, Running
  <2>3. QED
    BY <1>2, <2>1, <2>2, LogQuiet
<1>7. CASE Submit
  <2>1. TypeInv' /\ BooksInv' /\ FrameInv' /\ SlotInv' /\ pc' = "outputs"
    BY <1>7, SubmitKeeps
  <2>2. UNCHANGED <<log, id, done>> /\ pc \in Running /\ pc' \in Running
    BY <1>7, <2>1 DEF Submit, Running
  <2>3. QED
    BY <1>2, <2>1, <2>2, LogQuiet
<1>8. CASE Answer
  <2>1. TypeInv' /\ BooksInv' /\ FrameInv' /\ SlotInv'
    BY <1>8, AnswerKeeps
  <2>2. UNCHANGED <<log, id, done>> /\ pc \in Running /\ pc' \in Running
    BY <1>8 DEF Answer, Running
  <2>3. QED
    BY <1>2, <2>1, <2>2, LogQuiet
<1>9. CASE OutputsArrive \/ Panic
  <2>1. /\ UNCHANGED <<log, id, done>> /\ pc \in Running /\ pc' \in Running
        /\ UNCHANGED <<data, slot, frame, truth>>
        /\ (DuringPass' <=> DuringPass) /\ pc' # "refused" /\ pc' # "encode"
    BY <1>9 DEF OutputsArrive, Panic, Running, DuringPass
  <2>2. BooksInv' /\ FrameInv' /\ SlotInv'
    BY <2>1, QuietKeeps
  <2>3. TypeInv'
    BY <2>1 DEF TypeInv
  <2>4. QED
    BY <1>2, <2>1, <2>2, <2>3, LogQuiet
<1>10. CASE FinishFrame
  <2>1. TypeInv' /\ BooksInv' /\ FrameInv' /\ SlotInv'
    BY <1>10, FinishFrameKeeps
  <2>2. UNCHANGED <<log, id, done>> /\ pc \in Running /\ pc' \in Running
    BY <1>10 DEF FinishFrame, Running
  <2>3. QED
    BY <1>2, <2>1, <2>2, LogQuiet
<1>11. CASE DropFrame
  <2>1. TypeInv' /\ BooksInv' /\ FrameInv' /\ SlotInv'
    BY <1>11, DropFrameKeeps
  <2>2. UNCHANGED <<log, id, done>> /\ pc \in Running /\ pc' \in Running
    BY <1>11 DEF DropFrame, Running
  <2>3. QED
    BY <1>2, <2>1, <2>2, LogQuiet
<1>12. CASE Finish \/ DropSession
  <2>1. LogInv' /\ log' \in Seq(EventType)
    BY <1>12, LogOfFinish, LogOfDrop
  <2>2. QED
    BY <1>2, <1>12, <2>1, EndKeeps
<1>13. CASE UNCHANGED vars
  <2>1. UNCHANGED <<pc, log, id, data, done, slot, frame, truth>>
    BY <1>13 DEF vars
  <2>2. BooksInv' /\ FrameInv' /\ SlotInv'
    <3>1. DuringPass' <=> DuringPass
      BY <2>1 DEF DuringPass
    <3>2. pc' # "refused"
      BY <2>1 DEF SlotInv
    <3>3. QED
      BY <2>1, <3>1, <3>2, QuietKeeps
  <2>3. TypeInv'
    BY <2>1 DEF TypeInv
  <2>4. LogInv'
    BY <2>1 DEF LogInv
  <2>5. QED
    BY <1>2, <2>2, <2>3, <2>4
<1>14. QED
  BY <1>3, <1>4, <1>5, <1>6, <1>7, <1>8, <1>9, <1>10, <1>11, <1>12, <1>13 DEF Next

-----------------------------------------------------------------------------
(* The theorems                                                            *)

\* The invariant holds in every reachable state.
THEOREM Invariant == Spec => []IInv
<1>1. Init => IInv
  BY InitIInv
<1>2. IInv /\ [Next]_vars => IInv'
  BY NextIInv
<1>3. QED
  BY <1>1, <1>2, PTL DEF Spec

\* Between two frames every pass that was begun is dropped or a call of some
\* stage, and every call has a time or the reason why it has none.
THEOREM PassesAccounted == Spec => []PassesAreAccounted
<1>1. IInv => PassesAreAccounted
  <2>1. SUFFICES ASSUME IInv, pc \in {"generate", "fail", "unwind", "drop"}
                 PROVE  /\ data.forwards = truth.forwards /\ data.passes = truth.passes
                        /\ data.passes = data.dropped + SumFunction(CallsOf(data))
                        /\ \A k \in DOMAIN data.stages :
                             data.stages[k].calls = Cardinality(data.stages[k].times)
                                                    + SumFunction(data.stages[k].missing)
    BY DEF PassesAreAccounted, CallsOf
  <2>2. ~DuringPass /\ BooksInv /\ data \in DataType
    BY <2>1 DEF DuringPass, IInv, TypeInv
  <2>3. data.forwards = truth.forwards /\ data.passes = truth.passes
    BY <2>2 DEF BooksInv
  <2>4. Balanced(data, data.forwards + 1, 0, 0)
    BY <2>2 DEF BooksInv
  <2>5. data.dropped \in Nat /\ SumFunction(CallsOf(data)) \in Nat
    BY <2>2, DataFields
  <2>6. data.passes = data.dropped + SumFunction(CallsOf(data)) + 0
    BY <2>4 DEF Balanced
  <2>7. data.passes = data.dropped + SumFunction(CallsOf(data))
    BY <2>5, <2>6
  <2>8. \A k \in DOMAIN data.stages :
          data.stages[k].calls = Cardinality(data.stages[k].times)
                                 + SumFunction(data.stages[k].missing)
    BY <2>4 DEF Balanced, StageOK
  <2>9. QED
    BY <2>3, <2>7, <2>8
<1>2. QED
  BY <1>1, Invariant, PTL

\* On every way out a generation leaves one start and one summary, whose
\* status says what happened.
THEOREM SummaryTruthful == Spec => []SummaryIsTruthful
<1>1. IInv => SummaryIsTruthful
  <2>1. SUFFICES ASSUME IInv, pc \in {"idle", "stopped"}, NEW n \in 1 .. id - 1
                 PROVE  \E i, j \in DOMAIN log :
                          Told(n, i, j) /\ (n = id - 1 => Truthful(log[j].status))
    BY DEF SummaryIsTruthful
  <2>2. PICK i \in DOMAIN log, j \in DOMAIN log :
          ToldIn(log, n, i, j) /\ (n = id - 1 => Fits(log[j].status, truth))
    BY <2>1 DEF IInv, LogInv
  <2>3. Told(n, i, j)
    BY <2>2 DEF Told, ToldIn, EventsOf, EventsIn
  <2>4. n = id - 1 => Truthful(log[j].status)
    BY <2>2 DEF Truthful, Fits
  <2>5. QED
    BY <2>3, <2>4
<1>2. QED
  BY <1>1, Invariant, PTL

\* A time is never one that an earlier frame left in the shared buffer, and a
\* late answer never makes wgpu refuse the next submission.
THEOREM TimesOwn == Spec => []TimesAreOwn
<1>1. IInv => TimesAreOwn
  <2>1. SUFFICES ASSUME IInv
                 PROVE  /\ \A k \in DOMAIN data.stages :
                             \A t \in data.stages[k].times : t[1] = t[2]
                        /\ pc # "refused"
    BY DEF TimesAreOwn
  <2>2. \A k \in DOMAIN data.stages : StageOK(data.stages[k], data.forwards + 1, 0)
    BY <2>1 DEF IInv, BooksInv, Balanced
  <2>3. pc # "refused"
    BY <2>1 DEF IInv, SlotInv
  <2>4. QED
    BY <2>2, <2>3 DEF StageOK
<1>2. QED
  BY <1>1, Invariant, PTL

=============================================================================
