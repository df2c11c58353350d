--------------------------- MODULE Weights_proofs ---------------------------
(***************************************************************************)
(* Theorems about Weights: what is admitted is loaded and dispatched, a    *)
(* ready model is resident, and every row is computed from its own bits.   *)
(***************************************************************************)
EXTENDS Weights, SequencesExt, SequenceTheorems, WellFoundedInduction,
        FiniteSetTheorems, TLAPS

-----------------------------------------------------------------------------
(* Induction, recursion over an interval, and what FlattenSeq joins.
   The theorems of the library take a property as an operator: here it is a
   set, T == {n \in Nat : P(n)}. *)

\* Every nonempty set of natural numbers has a least element.
LEMMA LeastElement ==
  ASSUME NEW T, T \subseteq Nat, T # {}
  PROVE  \E x \in T : \A y \in T : x <= y
<1> DEFINE R == OpToRel(<,Nat)
<1>1. IsWellFoundedOn(R, Nat)
  BY NatLessThanWellFounded
<1>2. \A x, y \in Nat : <<y, x>> \in R <=> y < x
  BY DEF OpToRel
<1> HIDE DEF R
<1>3. PICK x \in T : \A y \in T : ~ (<<y, x>> \in R)
  BY <1>1, WFMin
<1>4. \A y \in T : ~(y < x)
  BY <1>2, <1>3
<1>5. \A y \in T : y \in Nat /\ x \in Nat
  OBVIOUS
<1>6. \A y \in T : x <= y
  BY <1>4, <1>5
<1>7. QED
  BY <1>6

\* A set that holds 0 and every successor of its numbers holds them all.
LEMMA Induction ==
  ASSUME NEW T, 0 \in T, \A n \in Nat : n \in T => n + 1 \in T
  PROVE  Nat \subseteq T
<1> DEFINE C == {n \in Nat : n \notin T}
<1>1. SUFFICES ASSUME C # {} PROVE FALSE
  OBVIOUS
<1>2. PICK x \in C : \A y \in C : x <= y
  <2>1. C \subseteq Nat OBVIOUS
  <2> HIDE DEF C
  <2>2. QED BY <1>1, <2>1, LeastElement
<1>3. x # 0 /\ x \in Nat
  OBVIOUS
<1>4. x - 1 \in Nat /\ x - 1 \notin C
  BY <1>2, <1>3
<1>5. QED
  BY <1>4, <1>3

\* The largest element of a set of positive numbers that holds the bound.
LEMMA MaxIsLargest ==
  ASSUME NEW n \in Nat, NEW s \in SUBSET (1 .. n + 1), n + 1 \in s
  PROVE  Max(s) = n + 1
<1>1. \A y \in s : y \in Nat /\ n + 1 >= y
  OBVIOUS
<1>2. \A x \in s : (\A y \in s : x >= y) => x = n + 1
  BY <1>1
<1>3. QED
  BY <1>1, <1>2 DEF Max

\* f folds step over every subset of 1 .. n, its largest element last.
FoldsOver(f, A, base, step, n) ==
  /\ f \in [SUBSET (1 .. n) -> A]
  /\ \A s \in SUBSET (1 .. n) :
       f[s] = IF s = {} THEN base ELSE step[<<f[s \ {Max(s)}], Max(s)>>]

\* Such an f exists, for every length.
LEMMA FoldExists ==
  ASSUME NEW A, NEW base \in A, NEW step \in [A \X Nat -> A]
  PROVE  \A n \in Nat : \E f : FoldsOver(f, A, base, step, n)
<1> DEFINE T == {n \in Nat : \E f : FoldsOver(f, A, base, step, n)}
<1>1. 0 \in T
  <2> DEFINE f == [s \in SUBSET (1 .. 0) |-> base]
  <2>1. 1 .. 0 = {}
    OBVIOUS
  <2>2. FoldsOver(f, A, base, step, 0)
    BY <2>1 DEF FoldsOver
  <2>3. QED
    BY <2>2
<1>2. ASSUME NEW n \in Nat, n \in T PROVE n + 1 \in T
  <2>1. PICK g : FoldsOver(g, A, base, step, n)
    BY <1>2
  <2> DEFINE S == SUBSET (1 .. n)
             S1 == SUBSET (1 .. n + 1)
             f == [s \in S1 |-> IF n + 1 \in s THEN step[<<g[s \ {n + 1}], n + 1>>] ELSE g[s]]
  <2>2. \A s \in S1 : s \ {n + 1} \in S
    OBVIOUS
  <2>3. \A s \in S1 : n + 1 \notin s => s \in S
    OBVIOUS
  <2>4. \A s \in S : g[s] \in A
    BY <2>1 DEF FoldsOver
  <2>5. f \in [S1 -> A]
    <3>1. ASSUME NEW s \in S1
          PROVE  (IF n + 1 \in s THEN step[<<g[s \ {n + 1}], n + 1>>] ELSE g[s]) \in A
      <4>1. CASE n + 1 \in s
        <5>1. g[s \ {n + 1}] \in A
          BY <2>2, <2>4
        <5>2. QED
          BY <5>1, <4>1
      <4>2. CASE n + 1 \notin s
        BY <4>2, <2>3, <2>4
      <4>3. QED
        BY <4>1, <4>2
    <3>2. QED
      BY <3>1
  <2>6. ASSUME NEW s \in S1
        PROVE  f[s] = IF s = {} THEN base ELSE step[<<f[s \ {Max(s)}], Max(s)>>]
    <3>1. CASE n + 1 \in s
      <4>1. Max(s) = n + 1
        BY <3>1, MaxIsLargest
      <4>2. s \ {n + 1} \in S1 /\ n + 1 \notin s \ {n + 1}
        OBVIOUS
      <4>3. f[s \ {n + 1}] = g[s \ {n + 1}]
        BY <4>2
      <4>4. f[s] = step[<<g[s \ {n + 1}], n + 1>>]
        BY <3>1
      <4>5. QED
        BY <3>1, <4>1, <4>3, <4>4
    <3>2. CASE n + 1 \notin s
      <4>1. s \in S /\ f[s] = g[s]
        BY <3>2, <2>3
      <4>2. f[s \ {Max(s)}] = g[s \ {Max(s)}]
        BY <3>2
      <4>3. QED
        BY <4>1, <4>2, <2>1 DEF FoldsOver
    <3>3. QED
      BY <3>1, <3>2
  <2>7. FoldsOver(f, A, base, step, n + 1)
    BY <2>5, <2>6 DEF FoldsOver
  <2>8. QED
    BY <2>7
<1>3. Nat \subseteq T
  <2> HIDE DEF T
  <2>1. QED
    BY <1>1, <1>2, Induction
<1>4. QED
  BY <1>3

\* Peeling the largest number off 1 .. k leaves 1 .. k - 1.
LEMMA PrefixIsPeeled ==
  ASSUME NEW n \in Nat, NEW k \in 1 .. n
  PROVE  1 .. k # {} /\ Max(1 .. k) = k /\ (1 .. k) \ {k} = 1 .. (k - 1)
<1>1. /\ k - 1 \in Nat /\ 1 .. k \in SUBSET (1 .. (k - 1) + 1)
      /\ (k - 1) + 1 \in 1 .. k /\ (k - 1) + 1 = k
  OBVIOUS
<1>2. Max(1 .. k) = (k - 1) + 1
  BY <1>1, MaxIsLargest
<1>3. QED
  BY <1>1, <1>2

\* The values of a fold after each of its steps.
FoldValues(F, A, base, step, n) ==
  /\ F \in [0 .. n -> A]
  /\ F[0] = base
  /\ \A i \in 1 .. n : F[i] = step[<<F[i - 1], i>>]

\* They exist.
LEMMA ValuesExist ==
  ASSUME NEW A, NEW base \in A, NEW step \in [A \X Nat -> A], NEW n \in Nat
  PROVE  \E F : FoldValues(F, A, base, step, n)
<1>1. PICK f : FoldsOver(f, A, base, step, n)
  BY FoldExists
<1> DEFINE F == [k \in 0 .. n |-> f[1 .. k]]
<1>2. \A k \in 0 .. n : 1 .. k \in SUBSET (1 .. n)
  OBVIOUS
<1>3. F \in [0 .. n -> A]
  BY <1>1, <1>2 DEF FoldsOver
<1>4. F[0] = base
  <2>1. 1 .. 0 = {}
    OBVIOUS
  <2>2. F[0] = f[{}]
    BY <2>1
  <2>3. QED
    BY <2>2, <1>1 DEF FoldsOver
<1>5. ASSUME NEW i \in 1 .. n PROVE F[i] = step[<<F[i - 1], i>>]
  <2>1. 1 .. i # {} /\ Max(1 .. i) = i /\ (1 .. i) \ {i} = 1 .. (i - 1)
    BY PrefixIsPeeled
  <2>2. 1 .. i \in SUBSET (1 .. n) /\ i \in 0 .. n /\ i - 1 \in 0 .. n
    OBVIOUS
  <2>3. f[1 .. i] = step[<<f[1 .. (i - 1)], i>>]
    BY <1>1, <2>1, <2>2 DEF FoldsOver
  <2>4. QED
    BY <2>2, <2>3
<1>6. QED
  BY <1>3, <1>4, <1>5 DEF FoldValues

\* G is defined by recursion over 1 .. n.
RecursionOver(G, A, base, step, n) ==
  /\ G \in [1 .. n -> A]
  /\ G = [i \in 1 .. n |-> IF i = 1 THEN base ELSE step[<<G[i - 1], i>>]]

\* Such a function exists.
LEMMA RecursionExists ==
  ASSUME NEW A, NEW base \in A, NEW n \in Nat \ {0}, NEW step \in [A \X Nat -> A]
  PROVE  \E G : RecursionOver(G, A, base, step, n)
<1> DEFINE shifted == [p \in A \X Nat |-> step[<<p[1], p[2] + 1>>]]
<1>1. shifted \in [A \X Nat -> A] /\ n - 1 \in Nat
  OBVIOUS
<1>2. \A a \in A, k \in Nat : shifted[<<a, k>>] = step[<<a, k + 1>>]
  OBVIOUS
<1> HIDE DEF shifted
<1>3. PICK F : FoldValues(F, A, base, shifted, n - 1)
  BY <1>1, ValuesExist
<1>4. /\ F \in [0 .. n - 1 -> A] /\ F[0] = base
      /\ \A i \in 1 .. n - 1 : F[i] = shifted[<<F[i - 1], i>>]
  BY <1>3 DEF FoldValues
<1> DEFINE G == [i \in 1 .. n |-> F[i - 1]]
<1>5. G \in [1 .. n -> A]
  BY <1>4
<1>6. ASSUME NEW i \in 1 .. n
      PROVE  G[i] = IF i = 1 THEN base ELSE step[<<G[i - 1], i>>]
  <2>1. CASE i = 1
    BY <2>1, <1>4
  <2>2. CASE i # 1
    <3>1. i - 1 \in 1 .. n - 1 /\ i - 1 \in 1 .. n /\ i - 1 \in Nat /\ (i - 1) + 1 = i
      BY <2>2
    <3>2. F[i - 1] = shifted[<<F[(i - 1) - 1], i - 1>>] /\ F[(i - 1) - 1] \in A
      BY <3>1, <1>4
    <3>3. F[i - 1] = step[<<F[(i - 1) - 1], i>>]
      BY <3>1, <3>2, <1>2
    <3>4. G[i] = F[i - 1] /\ G[i - 1] = F[(i - 1) - 1]
      BY <3>1
    <3>5. QED
      BY <3>3, <3>4, <2>2
  <2>3. QED
    BY <2>1, <2>2
<1>7. G = [i \in 1 .. n |-> IF i = 1 THEN base ELSE step[<<G[i - 1], i>>]]
  <2>1. [i \in 1 .. n |-> G[i]] = [i \in 1 .. n |-> IF i = 1 THEN base ELSE step[<<G[i - 1], i>>]]
    <3> HIDE DEF G
    <3>1. QED
      BY <1>6
  <2>2. QED
    BY <2>1
<1>8. QED
  BY <1>5, <1>7 DEF RecursionOver

\* What FlattenSeq has joined after each sequence.
FlattenValues(G, S, ss) ==
  /\ G \in [1 .. Len(ss) -> Seq(S)] /\ G[1] = ss[1]
  /\ \A i \in 2 .. Len(ss) : G[i] = G[i - 1] \o ss[i]

\* FlattenSeq joins one sequence after the other.
LEMMA FlattenSteps ==
  ASSUME NEW S, NEW ss \in Seq(Seq(S)), ss # <<>>
  PROVE  \E G : FlattenValues(G, S, ss) /\ FlattenSeq(ss) = G[Len(ss)]
<1> DEFINE n == Len(ss)
           step == [p \in Seq(S) \X Nat |-> IF p[2] \in 1 .. n THEN p[1] \o ss[p[2]] ELSE <<>>]
<1>1. n \in Nat \ {0} /\ ss[1] \in Seq(S) /\ \A i \in 1 .. n : ss[i] \in Seq(S)
  OBVIOUS
<1>2. step \in [Seq(S) \X Nat -> Seq(S)]
  BY <1>1
<1>3. ASSUME NEW a \in Seq(S), NEW i \in 1 .. n PROVE step[<<a, i>>] = a \o ss[i]
  <2>1. <<a, i>> \in Seq(S) \X Nat /\ <<a, i>>[1] = a /\ <<a, i>>[2] = i
    BY <1>1
  <2>2. step[<<a, i>>] = IF <<a, i>>[2] \in 1 .. n THEN <<a, i>>[1] \o ss[<<a, i>>[2]] ELSE <<>>
    BY <2>1, Zenon
  <2>3. QED
    BY <2>1, <2>2
<1> HIDE DEF step
<1>4. PICK G \in [1 .. n -> Seq(S)] :
        G = [i \in 1 .. n |-> IF i = 1 THEN ss[1] ELSE step[<<G[i - 1], i>>]]
  <2>1. \E G : RecursionOver(G, Seq(S), ss[1], step, n)
    <3> HIDE DEF n
    <3>1. QED
      BY <1>1, <1>2, RecursionExists
  <2>2. QED
    BY <2>1 DEF RecursionOver
<1>5. G = [i \in 1 .. n |-> IF i = 1 THEN ss[1] ELSE G[i - 1] \o ss[i]]
  <2>1. ASSUME NEW i \in 1 .. n, i # 1 PROVE step[<<G[i - 1], i>>] = G[i - 1] \o ss[i]
    <3>1. i - 1 \in 1 .. n
      BY <2>1, <1>1
    <3>2. G[i - 1] \in Seq(S)
      BY <3>1
    <3>3. QED
      BY <3>2, <1>3
  <2> HIDE DEF n
  <2>2. QED
    BY <2>1, <1>4
<1> DEFINE flatten == CHOOSE g : g = [i \in 1 .. Len(ss) |->
                                       IF i = 1 THEN ss[1] ELSE g[i - 1] \o ss[i]]
<1>6. flatten = [i \in 1 .. Len(ss) |-> IF i = 1 THEN ss[1] ELSE flatten[i - 1] \o ss[i]]
  BY <1>5
<1>7. FlattenSeq(ss) = flatten[Len(ss)]
  BY <1>1 DEF FlattenSeq
<1> HIDE DEF flatten
<1> DEFINE T == {k \in Nat : k + 1 <= n => flatten[k + 1] \in Seq(S)}
<1>8. 0 \in T
  BY <1>6, <1>1
<1>9. ASSUME NEW k \in Nat, k \in T PROVE k + 1 \in T
  <2>1. SUFFICES ASSUME (k + 1) + 1 <= n PROVE flatten[(k + 1) + 1] \in Seq(S)
    OBVIOUS
  <2>2. /\ (k + 1) + 1 \in 1 .. Len(ss) /\ (k + 1) + 1 # 1
        /\ ((k + 1) + 1) - 1 = k + 1 /\ k + 1 <= n
    BY <2>1, <1>1
  <2>3. flatten[(k + 1) + 1] = flatten[k + 1] \o ss[(k + 1) + 1]
    BY <2>2, <1>6
  <2>4. flatten[k + 1] \in Seq(S)
    BY <2>2, <1>9
  <2>5. QED
    BY <2>2, <2>3, <2>4, <1>1
<1>10. Nat \subseteq T
  <2> HIDE DEF T
  <2>1. QED
    BY <1>8, <1>9, Induction
<1>11. \A i \in 1 .. n : flatten[i] \in Seq(S)
  <2>1. \A i \in 1 .. n : i - 1 \in Nat /\ (i - 1) + 1 = i /\ i <= n
    BY <1>1
  <2>2. ASSUME NEW i \in 1 .. n PROVE flatten[i] \in Seq(S)
    <3>1. i - 1 \in T
      BY <2>1, <1>10
    <3>2. QED
      BY <3>1, <2>1
  <2>3. QED
    BY <2>2
<1>12. FlattenValues(flatten, S, ss)
  <2>1. flatten[1] = ss[1]
    BY <1>6, <1>1
  <2>2. \A i \in 2 .. Len(ss) : flatten[i] = flatten[i - 1] \o ss[i]
    <3>1. ASSUME NEW i \in 2 .. Len(ss) PROVE i \in 1 .. Len(ss) /\ i # 1
      BY <1>1
    <3>2. QED
      BY <1>6, <3>1
  <2>3. flatten \in [1 .. Len(ss) -> Seq(S)]
    BY <1>6, <1>11
  <2>4. QED
    BY <2>1, <2>2, <2>3 DEF FlattenValues
<1>13. QED
  BY <1>7, <1>12

\* Its elements are those of all the sequences.
LEMMA FlattenRange ==
  ASSUME NEW S, NEW ss \in Seq(Seq(S))
  PROVE  /\ FlattenSeq(ss) \in Seq(S)
         /\ \A x : x \in Range(FlattenSeq(ss)) <=> \E i \in 1 .. Len(ss) : x \in Range(ss[i])
<1>1. CASE ss = <<>>
  <2>1. FlattenSeq(ss) = <<>>
    BY <1>1 DEF FlattenSeq
  <2>2. Range(FlattenSeq(ss)) = {} /\ 1 .. Len(ss) = {}
    BY <1>1, <2>1 DEF Range
  <2>3. QED
    BY <2>1, <2>2
<1>2. CASE ss # <<>>
  <2> DEFINE n == Len(ss)
  <2>1. PICK G : FlattenValues(G, S, ss) /\ FlattenSeq(ss) = G[Len(ss)]
    BY <1>2, FlattenSteps
  <2>2. /\ G \in [1 .. n -> Seq(S)] /\ G[1] = ss[1]
        /\ \A i \in 2 .. n : G[i] = G[i - 1] \o ss[i]
    BY <2>1 DEF FlattenValues
  <2>3. n \in Nat /\ n >= 1
    BY <1>2
  <2> DEFINE T == {k \in Nat : k + 1 <= n =>
                     \A x : x \in Range(G[k + 1]) <=> \E i \in 1 .. k + 1 : x \in Range(ss[i])}
  <2>4. 0 \in T
    BY <2>2
  <2>5. ASSUME NEW k \in Nat, k \in T PROVE k + 1 \in T
    <3> DEFINE Joined == \A x : x \in Range(G[(k + 1) + 1]) <=>
                                  \E i \in 1 .. (k + 1) + 1 : x \in Range(ss[i])
    <3>0. k + 1 \in T <=> k + 1 \in Nat /\ ((k + 1) + 1 <= n => Joined)
      BY Zenon
    <3> HIDE DEF T
    <3>1. SUFFICES ASSUME (k + 1) + 1 <= n PROVE Joined
      BY <3>0
    <3> USE DEF T
    <3>2. /\ (k + 1) + 1 \in 2 .. n /\ ((k + 1) + 1) - 1 = k + 1 /\ k + 1 <= n
          /\ k + 1 \in 1 .. n /\ (k + 1) + 1 \in 1 .. n
      BY <3>1, <2>3
    <3>3. G[(k + 1) + 1] = G[k + 1] \o ss[(k + 1) + 1]
      BY <3>2, <2>2
    <3>4. G[k + 1] \in Seq(S) /\ ss[(k + 1) + 1] \in Seq(S)
      <4>1. G[k + 1] \in Seq(S)
        BY <3>2, <2>2
      <4>2. ss[(k + 1) + 1] \in Seq(S)
        BY <3>2
      <4>3. QED
        BY <4>1, <4>2
    <3>5. Range(G[(k + 1) + 1]) = Range(G[k + 1]) \cup Range(ss[(k + 1) + 1])
      BY <3>3, <3>4, RangeConcatenation
    <3>6. \A x : x \in Range(G[k + 1]) <=> \E i \in 1 .. k + 1 : x \in Range(ss[i])
      BY <3>2, <2>5
    <3>7. 1 .. (k + 1) + 1 = (1 .. k + 1) \cup {(k + 1) + 1}
      OBVIOUS
    <3>8. QED
      <4> HIDE DEF n
      <4>1. SUFFICES ASSUME NEW x
                     PROVE  x \in Range(G[(k + 1) + 1]) <=>
                              \E i \in 1 .. (k + 1) + 1 : x \in Range(ss[i])
        OBVIOUS
      <4>2. QED
        BY <3>5, <3>6, <3>7
  <2>6. Nat \subseteq T
    <3> HIDE DEF T
    <3>1. QED
      BY <2>4, <2>5, Induction
  <2>7. n - 1 \in T /\ (n - 1) + 1 = n /\ n \in 1 .. n
    <3> HIDE DEF T
    <3>1. QED
      BY <2>6, <2>3
  <2>8. \A x : x \in Range(G[n]) <=> \E i \in 1 .. n : x \in Range(ss[i])
    BY <2>7
  <2>9. G[n] \in Seq(S)
    BY <2>7, <2>2
  <2>10. QED
    BY <2>1, <2>8, <2>9
<1>3. QED
  BY <1>1, <1>2

-----------------------------------------------------------------------------
(* Arithmetic.                                                             *)

\* Division by a number and its remainder.
LEMMA QuotRem ==
  ASSUME NEW m \in Nat, NEW d \in Nat \ {0}
  PROVE  m % d \in 0 .. d - 1 /\ m \div d \in Nat /\ m = d * (m \div d) + (m % d)
<1>1. m % d \in 0 .. d - 1 /\ m \div d \in Nat
  OBVIOUS
<1>2. m = d * (m \div d) + (m % d)
  OBVIOUS
<1>3. QED
  BY <1>1, <1>2

\* A larger factor gives at least the product.
LEMMA ProductGrows ==
  ASSUME NEW d \in Nat, NEW a \in Nat, NEW b \in Nat, a <= b
  PROVE  d * a <= d * b /\ d * a \in Nat /\ d * b \in Nat
<1>1. b - a \in Nat /\ b = a + (b - a)
  OBVIOUS
<1>2. d * (b - a) \in Nat
  OBVIOUS
<1>3. d * b = d * a + d * (b - a)
  BY <1>1
<1>4. QED
  BY <1>2, <1>3

\* Quotient and remainder are the only numbers of their kind.
LEMMA DivUnique ==
  ASSUME NEW d \in Nat \ {0}, NEW q \in Nat, NEW r \in 0 .. d - 1, NEW m, m = d * q + r
  PROVE  m \in Nat /\ m \div d = q /\ m % d = r
<1>0. d * q \in Nat /\ m \in Nat
  OBVIOUS
<1> DEFINE p == m \div d
           s == m % d
<1>1. s \in 0 .. d - 1 /\ p \in Nat /\ m = d * p + s
  BY <1>0, QuotRem
<1> HIDE DEF p, s
<1>2. ~(p < q)
  <2>1. SUFFICES ASSUME p + 1 <= q PROVE FALSE
    BY <1>1
  <2>2. d * (p + 1) <= d * q
    BY <2>1, <1>1, ProductGrows
  <2>3. d * (p + 1) = d * p + d
    BY <1>1
  <2>4. d * p \in Nat
    BY <1>1
  <2>5. QED
    BY <2>2, <2>3, <2>4, <1>0, <1>1
<1>3. ~(q < p)
  <2>1. SUFFICES ASSUME q + 1 <= p PROVE FALSE
    BY <1>1
  <2>2. d * (q + 1) <= d * p
    BY <2>1, <1>1, ProductGrows
  <2>3. d * (q + 1) = d * q + d
    OBVIOUS
  <2>4. d * p \in Nat
    BY <1>1
  <2>5. QED
    BY <2>2, <2>3, <2>4, <1>0, <1>1
<1>4. p = q
  BY <1>1, <1>2, <1>3
<1>5. QED
  BY <1>0, <1>1, <1>4 DEF p, s

\* Division is monotonic.
LEMMA DivGrows ==
  ASSUME NEW a \in Nat, NEW b \in Nat, a <= b, NEW d \in Nat \ {0}
  PROVE  a \div d <= b \div d /\ a \div d \in Nat /\ b \div d \in Nat
<1> DEFINE p == a \div d
           q == b \div d
<1>1. /\ a % d \in 0 .. d - 1 /\ p \in Nat /\ a = d * p + (a % d)
      /\ b % d \in 0 .. d - 1 /\ q \in Nat /\ b = d * q + (b % d)
  BY QuotRem
<1> HIDE DEF p, q
<1>2. ~(q < p)
  <2>1. SUFFICES ASSUME q + 1 <= p PROVE FALSE
    BY <1>1
  <2>2. d * (q + 1) <= d * p
    BY <2>1, <1>1, ProductGrows
  <2>3. d * (q + 1) = d * q + d
    BY <1>1
  <2>4. d * p \in Nat /\ d * q \in Nat
    BY <1>1
  <2>5. QED
    BY <2>2, <2>3, <2>4, <1>1
<1>3. QED
  BY <1>1, <1>2 DEF p, q

\* A number is below a product exactly when its quotient is below a factor.
LEMMA DivBelow ==
  ASSUME NEW m \in Nat, NEW d \in Nat \ {0}, NEW k \in Nat
  PROVE  m \div d \in Nat /\ (m < d * k <=> m \div d < k)
<1> DEFINE p == m \div d
<1>1. m % d \in 0 .. d - 1 /\ p \in Nat /\ m = d * p + (m % d)
  BY QuotRem
<1> HIDE DEF p
<1>2. d * p \in Nat /\ d * k \in Nat
  BY <1>1
<1>3. ASSUME p < k PROVE m < d * k
  <2>1. d * (p + 1) <= d * k
    BY <1>1, <1>3, ProductGrows
  <2>2. d * (p + 1) = d * p + d
    BY <1>1
  <2>3. QED
    BY <2>1, <2>2, <1>1, <1>2
<1>4. ASSUME k <= p PROVE ~(m < d * k)
  <2>1. d * k <= d * p
    BY <1>1, <1>4, ProductGrows
  <2>2. QED
    BY <2>1, <1>1, <1>2
<1>5. QED
  BY <1>1, <1>3, <1>4 DEF p

\* A set of numbers has a least element, and it is the one Least chooses.
LEMMA LeastIs ==
  ASSUME NEW S, S \subseteq Nat, S # {}
  PROVE  Least(S) \in S /\ \A k \in S : Least(S) <= k
<1>1. \E n \in S : \A k \in S : n <= k
  BY LeastElement
<1>2. QED
  BY <1>1 DEF Least

\* A nonempty set of numbers with a bound has a greatest element.
LEMMA BoundedHasGreatest ==
  ASSUME NEW S, S \subseteq Nat, S # {}, NEW b \in Nat, \A k \in S : k <= b
  PROVE  \E n \in S : \A k \in S : k <= n
<1> DEFINE T == {i \in Nat : b - i \in S}
<1>1. T \subseteq Nat /\ T # {}
  <2>1. PICK n \in S : TRUE
    OBVIOUS
  <2>2. b - n \in Nat /\ b - (b - n) = n
    BY <2>1
  <2>3. b - n \in T
    BY <2>2
  <2>4. QED
    BY <2>3
<1>2. PICK i \in T : \A j \in T : i <= j
  <2> HIDE DEF T
  <2>1. QED
    BY <1>1, LeastElement
<1>3. b - i \in S
  OBVIOUS
<1>4. ASSUME NEW k \in S PROVE k <= b - i
  <2>1. k \in Nat /\ b - k \in Nat /\ b - (b - k) = k
    OBVIOUS
  <2>2. b - k \in T
    BY <2>1
  <2>3. i <= b - k
    BY <1>2, <2>2
  <2>4. QED
    BY <2>1, <2>3
<1>5. QED
  BY <1>3, <1>4

\* It is the one Greatest chooses.
LEMMA GreatestIs ==
  ASSUME NEW S, S \subseteq Nat, S # {}, NEW b \in Nat, \A k \in S : k <= b
  PROVE  Greatest(S) \in S /\ (\A k \in S : k <= Greatest(S)) /\ Greatest(S) <= b
<1>1. \E n \in S : \A k \in S : k <= n
  BY BoundedHasGreatest
<1>2. QED
  BY <1>1 DEF Greatest

-----------------------------------------------------------------------------
(* Chunks and windows.                                                     *)

\* A plan of whole words that covers a file.
IsPlan(pl, size) ==
  /\ size \in Nat /\ pl.words \in Nat \ {0} /\ pl.count \in Nat
  /\ pl.bytes = 4 * pl.words /\ size <= pl.bytes * pl.count
  /\ pl.count > 0 => pl.bytes * (pl.count - 1) < size

\* The plan the loader computes is one.
LEMMA PlanIs ==
  ASSUME NEW size \in Nat, NEW limit \in Nat, limit >= Granule
  PROVE  /\ IsPlan(ChunkPlan(size, limit), size)
         /\ ChunkPlan(size, limit).bytes <= limit
<1> DEFINE m == AtMost(ChunkCap, limit)
           q == m \div Granule
           g == Granule \div 4
           pl == ChunkPlan(size, limit)
           n == DivCeil(size, pl.bytes)
<1>1. /\ Granule \in Nat \ {0} /\ m \in Nat /\ m >= Granule /\ m <= limit
      /\ g \in Nat /\ Granule = 4 * g
  BY BlobAssumption DEF AtMost
<1>2. q \in Nat /\ m = Granule * q + (m % Granule) /\ m % Granule \in 0 .. Granule - 1
  BY <1>1, QuotRem
<1> HIDE DEF m, g
<1>3. q >= 1
  <2>1. SUFFICES ASSUME q = 0 PROVE FALSE
    BY <1>2
  <2> HIDE DEF q
  <2>2. QED
    BY <2>1, <1>1, <1>2
<1>4. pl.bytes = q * Granule /\ pl.words = (q * Granule) \div 4 /\ pl.count = n
  BY DEF ChunkPlan, RoundDown, m
<1> HIDE DEF q, pl
<1>5. q * Granule = 4 * (q * g) /\ q * g \in Nat /\ q * g >= 1
  <2>1. q * Granule = 4 * (q * g) /\ q * g \in Nat
    BY <1>1, <1>2
  <2>2. g >= 1
    BY <1>1
  <2>3. q * 1 <= q * g
    BY <1>2, <2>2, <1>1, ProductGrows
  <2>4. QED
    BY <2>1, <2>3, <1>2, <1>3
<1>6. pl.words = q * g /\ pl.bytes = 4 * pl.words /\ pl.words \in Nat \ {0}
  <2> DEFINE w == q * g
  <2>1. (4 * w) \div 4 = w
    BY <1>5
  <2>2. QED
    BY <2>1, <1>4, <1>5
<1>7. pl.bytes <= limit
  <2>1. q * Granule = Granule * q /\ Granule * q \in Nat
    BY <1>1, <1>2
  <2>2. QED
    BY <2>1, <1>1, <1>2, <1>4
<1>8. n \in Nat /\ size <= pl.bytes * n /\ (n > 0 => pl.bytes * (n - 1) < size)
  <2> DEFINE b == pl.bytes
             t == size + b - 1
  <2>1. b \in Nat \ {0} /\ t \in Nat /\ n = t \div b
    BY <1>6 DEF DivCeil
  <2> HIDE DEF b
  <2>2. n \in Nat /\ t = b * n + (t % b) /\ t % b \in 0 .. b - 1
    BY <2>1, QuotRem
  <2> HIDE DEF n
  <2>3. b * n \in Nat /\ b * (n - 1) = b * n - b
    BY <2>1, <2>2
  <2> DEFINE p == b * n
             r == t % b
  <2>4. p \in Nat /\ r \in 0 .. b - 1 /\ size + b - 1 = p + r /\ b * (n - 1) = p - b
    BY <2>2, <2>3
  <2>5. p = pl.bytes * n /\ b * (n - 1) = pl.bytes * (n - 1)
    BY DEF b
  <2> HIDE DEF p, r
  <2>6. size <= p /\ p - b < size
    BY <2>1, <2>4
  <2>7. QED
    BY <2>2, <2>4, <2>5, <2>6
<1>9. QED
  BY <1>4, <1>6, <1>7, <1>8 DEF IsPlan, pl

\* What a window that could be planned covers.
LEMMA WindowIs ==
  ASSUME NEW pl, NEW size, IsPlan(pl, size), NEW first \in Nat, NEW last \in Nat,
         NEW win, win = ForRange(first, last, pl), win # NoWindow
  PROVE  /\ win.start = first \div pl.words /\ win.start \in Nat
         /\ win.count \in 1 .. BindingSlots /\ last \div pl.words \in Nat
         /\ win.start + win.count = (last \div pl.words) + 1
         /\ win.start + win.count <= pl.count
<1>1. pl.words \in Nat \ {0}
  BY DEF IsPlan
<1>2. first \div pl.words \in Nat /\ last \div pl.words \in Nat
  BY <1>1, QuotRem
<1>3. QED
  BY <1>2, BlobAssumption DEF ForRange, NewWindow

\* A range that is inside one with a window has a window.
LEMMA SubWindow ==
  ASSUME NEW pl, NEW size, IsPlan(pl, size), NEW first \in Nat, NEW last \in Nat,
         ForRange(first, last, pl) # NoWindow,
         NEW a \in Nat, NEW b \in Nat, first <= a, a <= b, b <= last
  PROVE  ForRange(a, b, pl) # NoWindow
<1> DEFINE win == ForRange(first, last, pl)
           w == pl.words
<1>1. w \in Nat \ {0} /\ pl.count \in Nat
  BY DEF IsPlan
<1>2. /\ win.start = first \div w /\ win.start \in Nat
      /\ win.count \in 1 .. BindingSlots
      /\ win.start + win.count = (last \div w) + 1
      /\ win.start + win.count <= pl.count
  BY WindowIs
<1> HIDE DEF win
<1>3. /\ first \div w <= a \div w /\ a \div w <= b \div w /\ b \div w <= last \div w
      /\ a \div w \in Nat /\ b \div w \in Nat /\ last \div w \in Nat
  BY <1>1, DivGrows
<1>4. /\ a \div w < pl.count /\ (b \div w) - (a \div w) + 1 \in 1 .. BindingSlots
      /\ (a \div w) + ((b \div w) - (a \div w) + 1) <= pl.count
  BY <1>1, <1>2, <1>3, BlobAssumption
<1>5. ForRange(a, b, pl).count # 0
  BY <1>4 DEF ForRange, NewWindow
<1>6. QED
  BY <1>5 DEF NoWindow

\* The chunks that are resident are the whole file.
Resident(ch, pl, size) ==
  /\ Len(ch) = pl.count
  /\ \A c \in 1 .. pl.count : ch[c] = ChunkRange(pl, size, c - 1)

\* A word of a range is read, through the range's window, from its own place.
LEMMA Resolve ==
  ASSUME NEW pl, NEW size, IsPlan(pl, size), NEW ch, Resident(ch, pl, size),
         NEW first \in Nat, NEW last \in Nat, NEW win, win = ForRange(first, last, pl),
         win # NoWindow, NEW word \in Nat, first <= word, word <= last, 4 * word + 4 <= size
  PROVE  /\ word - WindowBase(win, pl) \in Nat
         /\ ReadBlob(Binding(ch, win, pl), word - WindowBase(win, pl)) = 4 * word
<1> DEFINE w == pl.words
           s == win.start
           x == word - s * w
<1>1. /\ w \in Nat \ {0} /\ pl.count \in Nat /\ size \in Nat /\ pl.bytes = 4 * w
  BY DEF IsPlan
<1>2. /\ s = first \div w /\ s \in Nat /\ win.count \in 1 .. BindingSlots
      /\ s + win.count = (last \div w) + 1 /\ s + win.count <= pl.count
  BY WindowIs
<1> DEFINE q == word \div w
           r == word % w
<1>3. r \in 0 .. w - 1 /\ q \in Nat /\ word = w * q + r
  BY <1>1, QuotRem
<1>4. s <= q /\ q <= last \div w /\ last \div w \in Nat
  BY <1>1, <1>2, DivGrows
<1>5. WindowBase(win, pl) = s * w
  BY DEF WindowBase
<1> HIDE DEF s, w
<1>6. q - s \in Nat /\ x = w * (q - s) + r
  <2> HIDE DEF q, r
  <2>1. q - s \in Nat
    BY <1>2, <1>3, <1>4
  <2>2. w * (q - s) = w * q - s * w
    BY <1>1, <1>2, <1>3
  <2>3. w * q \in Nat /\ s * w \in Nat
    BY <1>1, <1>2, <1>3
  <2>4. QED
    BY <2>1, <2>2, <2>3, <1>3
<1> HIDE DEF q, r, x
<1>7. x \in Nat /\ x \div w = q - s /\ x % w = r
  BY <1>1, <1>3, <1>6, DivUnique
<1>8. q - s < win.count /\ AtMost(q - s, BindingSlots - 1) = q - s
  <2> DEFINE L == last \div w
             c == win.count
  <2>1. /\ s \in Nat /\ c \in 1 .. BindingSlots /\ s + c = L + 1
        /\ s <= q /\ q <= L /\ L \in Nat /\ q \in Nat /\ BindingSlots \in Nat
    BY <1>2, <1>3, <1>4, BlobAssumption
  <2> HIDE DEF L, c
  <2>2. q - s < c /\ q - s <= BindingSlots - 1
    BY <2>1
  <2>3. AtMost(q - s, BindingSlots - 1) = q - s
    BY <2>1, <2>2 DEF AtMost
  <2>4. QED
    BY <2>2, <2>3 DEF c
<1>9. q + 1 \in 1 .. pl.count /\ ch[q + 1] = ChunkRange(pl, size, q) /\ Len(ch) = pl.count
  <2>1. q + 1 \in 1 .. pl.count /\ (q + 1) - 1 = q
    BY <1>1, <1>2, <1>3, <1>4
  <2>2. QED
    BY <2>1 DEF Resident
<1>10. ch[q + 1][1] = q * (4 * w) /\ ch[q + 1][2] = AtMost((q + 1) * (4 * w), size)
  BY <1>1, <1>9 DEF ChunkRange
<1>11. q * (4 * w) = 4 * (w * q) /\ (q + 1) * (4 * w) = 4 * (w * q) + 4 * w /\ w * q \in Nat
  BY <1>1, <1>3
<1>12. ch[q + 1][1] + 4 * r = 4 * word /\ ch[q + 1][1] + 4 * r + 4 <= ch[q + 1][2]
  BY <1>1, <1>3, <1>10, <1>11 DEF AtMost
<1>13. ReadBlob(Binding(ch, win, pl), x) = 4 * word
  <2> DEFINE blob == Binding(ch, win, pl)
  <2>1. blob.chunks = ch /\ blob.win = win /\ blob.plan = pl /\ pl.words = w /\ win.start = s
    BY DEF Binding, w, s
  <2>2. s + (q - s) + 1 = q + 1
    BY <1>2, <1>3
  <2> HIDE DEF blob
  <2>3. AtMost(x \div blob.plan.words, BindingSlots - 1) = q - s
    BY <2>1, <1>7, <1>8
  <2>4. blob.win.start + AtMost(x \div blob.plan.words, BindingSlots - 1) + 1 = q + 1
    BY <2>1, <2>2, <2>3
  <2>5. blob.chunks[q + 1][1] + 4 * (x % blob.plan.words) = 4 * word
    BY <2>1, <1>7, <1>12
  <2>6. /\ q - s < blob.win.count /\ q + 1 <= Len(blob.chunks)
        /\ 4 * word + 4 <= blob.chunks[q + 1][2]
    BY <2>1, <1>8, <1>9, <1>1, <1>12
  <2>7. ReadBlob(blob, x) =
          IF q - s < blob.win.count /\ q + 1 <= Len(blob.chunks)
             /\ blob.chunks[q + 1][1] + 4 * (x % blob.plan.words) + 4 <= blob.chunks[q + 1][2]
          THEN blob.chunks[q + 1][1] + 4 * (x % blob.plan.words) ELSE Lost
    BY <2>3, <2>4, Zenon DEF ReadBlob
  <2> DEFINE place == blob.chunks[q + 1][1] + 4 * (x % blob.plan.words)
  <2>8. place + 4 <= blob.chunks[q + 1][2] /\ place = 4 * word
    BY <2>5, <2>6
  <2>9. ReadBlob(blob, x) =
          IF q - s < blob.win.count /\ q + 1 <= Len(blob.chunks)
             /\ place + 4 <= blob.chunks[q + 1][2]
          THEN place ELSE Lost
    BY <2>7
  <2> HIDE DEF place
  <2>10. QED
    BY <2>6, <2>8, <2>9 DEF blob
<1>14. QED
  BY <1>5, <1>7, <1>13 DEF x

-----------------------------------------------------------------------------
(* Formats.                                                                *)

\* The registry, by name.
LEMMA FormulaIs ==
  /\ FormulaFor("F32") = 1 /\ FormulaFor("F16") = 2 /\ FormulaFor("Q4_0") = 3
  /\ FormulaFor("Q5_0") = 4 /\ FormulaFor("Q8_0") = 5 /\ FormulaFor("Q4_K") = 6
  /\ FormulaFor("Q5_K") = 7 /\ FormulaFor("Q6_K") = 8
<1> DEFINE N(i) == Registry[i].name
<1>1. /\ DOMAIN Registry = 1 .. 8
      /\ N(1) = "F32" /\ N(2) = "F16" /\ N(3) = "Q4_0" /\ N(4) = "Q5_0"
      /\ N(5) = "Q8_0" /\ N(6) = "Q4_K" /\ N(7) = "Q5_K" /\ N(8) = "Q6_K"
  BY DEF Registry
<1>2. \A i \in 1 .. 8 : i \in {1, 2, 3, 4, 5, 6, 7, 8}
  OBVIOUS
<1>3. \A i, j \in 1 .. 8 : N(i) = N(j) => i = j
  <2> HIDE DEF N
  <2>1. QED
    BY <1>1, <1>2
<1>4. \A i \in 1 .. 8 : FormulaFor(N(i)) = i
  BY <1>1, <1>3 DEF FormulaFor
<1> HIDE DEF N
<1>5. QED
  BY <1>1, <1>4

\* The eight formats.
LEMMA FormatsAre ==
  Formats = {"F32", "F16", "Q4_0", "Q5_0", "Q8_0", "Q4_K", "Q5_K", "Q6_K"}
<1> DEFINE N(i) == Registry[i].name
<1>1. /\ DOMAIN Registry = 1 .. 8
      /\ N(1) = "F32" /\ N(2) = "F16" /\ N(3) = "Q4_0" /\ N(4) = "Q5_0"
      /\ N(5) = "Q8_0" /\ N(6) = "Q4_K" /\ N(7) = "Q5_K" /\ N(8) = "Q6_K"
  BY DEF Registry
<1>2. 1 .. 8 = {1, 2, 3, 4, 5, 6, 7, 8}
  OBVIOUS
<1>3. Formats = {N(i) : i \in {1, 2, 3, 4, 5, 6, 7, 8}}
  BY <1>1, <1>2 DEF Formats
<1> HIDE DEF N
<1>4. QED
  BY <1>1, <1>3

\* The formats of blocks, with their slots, elements and bytes.
IsBlockFormat(fmt, slot, elems, bytes) ==
  /\ FormulaSlot(fmt) = slot /\ BlockElems(fmt) = elems /\ BlockBytes(fmt) = bytes
  /\ \/ fmt = "Q4_0" /\ slot = 2 /\ elems = 32  /\ bytes = 18
     \/ fmt = "Q5_0" /\ slot = 3 /\ elems = 32  /\ bytes = 22
     \/ fmt = "Q8_0" /\ slot = 4 /\ elems = 32  /\ bytes = 34
     \/ fmt = "Q4_K" /\ slot = 5 /\ elems = 256 /\ bytes = 144
     \/ fmt = "Q5_K" /\ slot = 6 /\ elems = 256 /\ bytes = 176
     \/ fmt = "Q6_K" /\ slot = 7 /\ elems = 256 /\ bytes = 210

\* Every format is plain or a block format.
LEMMA FormatIs ==
  ASSUME NEW fmt \in Formats
  PROVE  /\ fmt = "F32" => FormulaSlot(fmt) = 0 /\ BlockElems(fmt) = 1 /\ BlockBytes(fmt) = 4
         /\ fmt = "F16" => FormulaSlot(fmt) = 1 /\ BlockElems(fmt) = 1 /\ BlockBytes(fmt) = 2
         /\ fmt \notin {"F32", "F16"} =>
              \E slot, elems, bytes : IsBlockFormat(fmt, slot, elems, bytes)
<1>1. /\ Registry[1].elems = 1 /\ Registry[1].bytes = 4
      /\ Registry[2].elems = 1 /\ Registry[2].bytes = 2
      /\ Registry[3].elems = 32 /\ Registry[3].bytes = 18
      /\ Registry[4].elems = 32 /\ Registry[4].bytes = 22
      /\ Registry[5].elems = 32 /\ Registry[5].bytes = 34
      /\ Registry[6].elems = 256 /\ Registry[6].bytes = 144
      /\ Registry[7].elems = 256 /\ Registry[7].bytes = 176
      /\ Registry[8].elems = 256 /\ Registry[8].bytes = 210
  BY DEF Registry
<1>2. CASE fmt = "F32"
  BY <1>1, <1>2, FormulaIs DEF FormulaSlot, BlockElems, BlockBytes
<1>3. CASE fmt = "F16"
  BY <1>1, <1>3, FormulaIs DEF FormulaSlot, BlockElems, BlockBytes
<1>4. CASE fmt = "Q4_0"
  <2>1. IsBlockFormat(fmt, 2, 32, 18)
    BY <1>1, <1>4, FormulaIs DEF FormulaSlot, BlockElems, BlockBytes, IsBlockFormat
  <2>2. QED
    BY <2>1, <1>4
<1>5. CASE fmt = "Q5_0"
  <2>1. IsBlockFormat(fmt, 3, 32, 22)
    BY <1>1, <1>5, FormulaIs DEF FormulaSlot, BlockElems, BlockBytes, IsBlockFormat
  <2>2. QED
    BY <2>1, <1>5
<1>6. CASE fmt = "Q8_0"
  <2>1. IsBlockFormat(fmt, 4, 32, 34)
    BY <1>1, <1>6, FormulaIs DEF FormulaSlot, BlockElems, BlockBytes, IsBlockFormat
  <2>2. QED
    BY <2>1, <1>6
<1>7. CASE fmt = "Q4_K"
  <2>1. IsBlockFormat(fmt, 5, 256, 144)
    BY <1>1, <1>7, FormulaIs DEF FormulaSlot, BlockElems, BlockBytes, IsBlockFormat
  <2>2. QED
    BY <2>1, <1>7
<1>8. CASE fmt = "Q5_K"
  <2>1. IsBlockFormat(fmt, 6, 256, 176)
    BY <1>1, <1>8, FormulaIs DEF FormulaSlot, BlockElems, BlockBytes, IsBlockFormat
  <2>2. QED
    BY <2>1, <1>8
<1>9. CASE fmt = "Q6_K"
  <2>1. IsBlockFormat(fmt, 7, 256, 210)
    BY <1>1, <1>9, FormulaIs DEF FormulaSlot, BlockElems, BlockBytes, IsBlockFormat
  <2>2. QED
    BY <2>1, <1>9
<1>10. QED
  BY <1>2, <1>3, <1>4, <1>5, <1>6, <1>7, <1>8, <1>9, FormatsAre

\* Every format has elements and bytes.
LEMMA FormatSizes ==
  ASSUME NEW fmt \in Formats
  PROVE  BlockElems(fmt) \in Nat \ {0} /\ BlockBytes(fmt) \in Nat \ {0}
BY FormatIs DEF IsBlockFormat

\* A run of bits of the file from a byte on.
Bits(byte, count) == [i \in 1 .. count |-> 8 * byte + i - 1]

\* The block of the file that starts at a byte.
FileBlock(start, bytes) == [i \in 0 .. bytes - 1 |-> Bits(start + i, 8)]

\* A field of a block is a run of bits.
LEMMA FieldIs ==
  ASSUME NEW start \in Nat, NEW bytes \in Nat, NEW off \in Nat, NEW n \in Nat, off + n <= bytes
  PROVE  Field(FileBlock(start, bytes), off, n) = Bits(start + off, 8 * n)
<1> DEFINE b == FileBlock(start, bytes)
<1>1. ASSUME NEW i \in 1 .. 8 * n
      PROVE  b[off + ((i - 1) \div 8)][((i - 1) % 8) + 1] = 8 * (start + off) + i - 1
  <2>1. /\ (i - 1) \div 8 \in 0 .. n - 1 /\ (i - 1) % 8 \in 0 .. 7
        /\ i - 1 = 8 * ((i - 1) \div 8) + ((i - 1) % 8)
    <3>1. i - 1 \in Nat /\ i - 1 < 8 * n /\ 8 \in Nat \ {0}
      OBVIOUS
    <3>2. (i - 1) \div 8 \in Nat /\ (i - 1) \div 8 < n
      BY <3>1, DivBelow
    <3>3. (i - 1) % 8 \in 0 .. 7 /\ i - 1 = 8 * ((i - 1) \div 8) + ((i - 1) % 8)
      BY <3>1, QuotRem
    <3>4. QED
      BY <3>2, <3>3
  <2>2. b[off + ((i - 1) \div 8)] = Bits(start + (off + ((i - 1) \div 8)), 8)
    BY <2>1 DEF FileBlock
  <2>3. Bits(start + (off + ((i - 1) \div 8)), 8)[((i - 1) % 8) + 1]
          = 8 * (start + (off + ((i - 1) \div 8))) + (((i - 1) % 8) + 1) - 1
    BY <2>1 DEF Bits
  <2>4. QED
    BY <2>1, <2>2, <2>3
<1> HIDE DEF b
<1>2. [i \in 1 .. 8 * n |-> b[off + ((i - 1) \div 8)][((i - 1) % 8) + 1]]
        = [i \in 1 .. 8 * n |-> 8 * (start + off) + i - 1]
  BY <1>1
<1>3. QED
  BY <1>2 DEF Field, Bits, b

\* A shader reads a block of the file as it is.
Faithful(read, start, bytes, fmt) ==
  LET block == FileBlock(start, bytes) IN
  /\ \A i \in 0 .. bytes - 1 : read.byte[i] = block[i]
  /\ \A i \in {0, 2, 208} : i + 1 < bytes => read.half[i] = Field(block, i, 2)
  /\ fmt = "Q5_0" => read.quad[2] = Field(block, 2, 4)

-----------------------------------------------------------------------------
(* Decoders.                                                               *)

\* Q4_0.
LEMMA ShaderQ40Is ==
  ASSUME NEW read, NEW start \in Nat, NEW fmt, Faithful(read, start, 18, fmt), NEW e \in 0 .. 31
  PROVE  ShaderQ40(e, read) = DequantQ40(e, FileBlock(start, 18))
<1> DEFINE block == FileBlock(start, 18)
<1>1. 2 + (e % 16) \in 0 .. 17 /\ (e >= 16 <=> ~(e < 16))
  OBVIOUS
<1>2. read.byte[2 + (e % 16)] = block[2 + (e % 16)] /\ read.half[0] = Field(block, 0, 2)
  BY <1>1 DEF Faithful
<1> HIDE DEF block
<1>3. QED
  BY <1>1, <1>2 DEF ShaderQ40, DequantQ40, Nibble, block

\* Q5_0.
LEMMA ShaderQ50Is ==
  ASSUME NEW read, NEW start \in Nat, Faithful(read, start, 22, "Q5_0"), NEW e \in 0 .. 31
  PROVE  ShaderQ50(e, read) = DequantQ50(e, FileBlock(start, 22))
<1> DEFINE block == FileBlock(start, 22)
<1>1. 6 + (e % 16) \in 0 .. 21
  OBVIOUS
<1>2. /\ read.byte[6 + (e % 16)] = block[6 + (e % 16)]
      /\ read.half[0] = Field(block, 0, 2) /\ read.quad[2] = Field(block, 2, 4)
  BY <1>1 DEF Faithful
<1> HIDE DEF block
<1>3. QED
  BY <1>1, <1>2 DEF ShaderQ50, DequantQ50, Nibble, block

\* Q8_0.
LEMMA ShaderQ80Is ==
  ASSUME NEW read, NEW start \in Nat, NEW fmt, Faithful(read, start, 34, fmt), NEW e \in 0 .. 31
  PROVE  ShaderQ80(e, read) = DequantQ80(e, FileBlock(start, 34))
<1> DEFINE block == FileBlock(start, 34)
<1>1. 2 + e \in 0 .. 33
  OBVIOUS
<1>2. read.byte[2 + e] = block[2 + e] /\ read.half[0] = Field(block, 0, 2)
  BY <1>1 DEF Faithful
<1> HIDE DEF block
<1>3. QED
  BY <1>2 DEF ShaderQ80, DequantQ80, block

\* The scales of a block of 256 are read as they are.
LEMMA ScalesAre ==
  ASSUME NEW read, NEW start \in Nat, NEW bytes \in Nat, NEW fmt, bytes >= 16,
         Faithful(read, start, bytes, fmt)
  PROVE  [j \in 0 .. 11 |-> read.byte[4 + j]] = [j \in 0 .. 11 |-> FileBlock(start, bytes)[4 + j]]
<1>1. ASSUME NEW j \in 0 .. 11 PROVE read.byte[4 + j] = FileBlock(start, bytes)[4 + j]
  <2>1. 4 + j \in 0 .. bytes - 1
    OBVIOUS
  <2>2. QED
    BY <2>1 DEF Faithful
<1>2. QED
  BY <1>1

\* The place of an element in a block of 256.
LEMMA GroupIs ==
  ASSUME NEW e \in 0 .. 255
  PROVE  /\ e \div 64 \in 0 .. 3 /\ e % 64 \in 0 .. 63 /\ (e % 64) \div 32 \in {0, 1}
         /\ e % 32 \in 0 .. 31 /\ (e % 64) % 32 = e % 32
         /\ (e % 64 < 32 <=> (e % 64) \div 32 = 0)
         /\ e % 64 < 32 => e % 64 = e % 32
         /\ ~(e % 64 < 32) => (e % 64) - 32 = e % 32
         /\ e \div 32 \in 0 .. 7
  OBVIOUS

\* Q4_K.
LEMMA ShaderQ4KIs ==
  ASSUME NEW read, NEW start \in Nat, NEW fmt, Faithful(read, start, 144, fmt), NEW e \in 0 .. 255
  PROVE  ShaderQ4K(e, read) = DequantQ4K(e, FileBlock(start, 144))
<1> DEFINE block == FileBlock(start, 144)
           g == e \div 64
           in == e % 64
           s == (e % 64) \div 32
           l == e % 32
           scale == [j \in 0 .. 11 |-> block[4 + j]]
<1>1. [j \in 0 .. 11 |-> read.byte[4 + j]] = scale
  BY ScalesAre
<1>2. /\ g \in 0 .. 3 /\ in \in 0 .. 63 /\ s \in {0, 1} /\ l \in 0 .. 31
      /\ (in < 32 <=> s = 0) /\ (in < 32 => in = l) /\ (~(in < 32) => in - 32 = l)
  BY GroupIs
<1>3. read.half[0] = Field(block, 0, 2) /\ read.half[2] = Field(block, 2, 2)
  BY DEF Faithful
<1>4. \A i \in 0 .. 143 : read.byte[i] = block[i]
  BY DEF Faithful
<1> HIDE DEF block, scale, g, in, s, l
<1>5. read.byte[16 + 32 * g + l] = block[16 + 32 * g + l]
  BY <1>2, <1>4
<1>6. (IF in < 32 THEN 0 ELSE 1) = s
  BY <1>2
<1> DEFINE nibble == IF in < 32 THEN Low(read.byte[16 + 32 * g + in])
                     ELSE High(read.byte[16 + 32 * g + (in - 32)])
<1>7. nibble = Nibble(block[16 + 32 * g + l], s = 0)
  <2>1. CASE in < 32
    BY <1>2, <1>5, <2>1 DEF Nibble
  <2>2. CASE ~(in < 32)
    BY <1>2, <1>5, <2>2 DEF Nibble
  <2>3. QED
    BY <2>1, <2>2
<1>8. ShaderQ4K(e, read) =
        [d |-> read.half[0], dmin |-> read.half[2],
         sc |-> ScaleMin(2 * g + (IF in < 32 THEN 0 ELSE 1), [j \in 0 .. 11 |-> read.byte[4 + j]]).sc,
         m |-> ScaleMin(2 * g + (IF in < 32 THEN 0 ELSE 1), [j \in 0 .. 11 |-> read.byte[4 + j]]).m,
         q |-> nibble]
  BY DEF ShaderQ4K, g, in
<1>9. DequantQ4K(e, block) =
        [d |-> Field(block, 0, 2), dmin |-> Field(block, 2, 2),
         sc |-> ScaleMin(2 * g + s, scale).sc, m |-> ScaleMin(2 * g + s, scale).m,
         q |-> Nibble(block[16 + 32 * g + l], s = 0)]
  BY DEF DequantQ4K, g, s, l, scale
<1> HIDE DEF nibble
<1>10. QED
  BY <1>1, <1>3, <1>6, <1>7, <1>8, <1>9 DEF block

\* Q5_K.
LEMMA ShaderQ5KIs ==
  ASSUME NEW read, NEW start \in Nat, NEW fmt, Faithful(read, start, 176, fmt), NEW e \in 0 .. 255
  PROVE  ShaderQ5K(e, read) = DequantQ5K(e, FileBlock(start, 176))
<1> DEFINE block == FileBlock(start, 176)
           g == e \div 64
           s == (e % 64) \div 32
           l == e % 32
           h == e \div 32
           scale == [j \in 0 .. 11 |-> block[4 + j]]
<1>1. [j \in 0 .. 11 |-> read.byte[4 + j]] = scale
  BY ScalesAre
<1>2. g \in 0 .. 3 /\ s \in {0, 1} /\ l \in 0 .. 31 /\ (e % 64) % 32 = l
  BY GroupIs
<1>3. read.half[0] = Field(block, 0, 2) /\ read.half[2] = Field(block, 2, 2)
  BY DEF Faithful
<1>4. \A i \in 0 .. 175 : read.byte[i] = block[i]
  BY DEF Faithful
<1> HIDE DEF block, scale, g, s
<1>5. read.byte[48 + 32 * g + l] = block[48 + 32 * g + l] /\ read.byte[16 + l] = block[16 + l]
  <2> HIDE DEF l
  <2>1. QED
    BY <1>2, <1>4
<1> DEFINE L == (e % 64) % 32
<1>6. ShaderQ5K(e, read) =
        [d |-> read.half[0], dmin |-> read.half[2],
         sc |-> ScaleMin(2 * g + s, [j \in 0 .. 11 |-> read.byte[4 + j]]).sc,
         m |-> ScaleMin(2 * g + s, [j \in 0 .. 11 |-> read.byte[4 + j]]).m,
         q |-> (IF s = 0 THEN Low(read.byte[48 + 32 * g + L])
                ELSE High(read.byte[48 + 32 * g + L]))
               \o Bit(read.byte[16 + L], h)]
  BY DEF ShaderQ5K, g, s
<1>7. DequantQ5K(e, block) =
        [d |-> Field(block, 0, 2), dmin |-> Field(block, 2, 2),
         sc |-> ScaleMin(2 * g + s, scale).sc, m |-> ScaleMin(2 * g + s, scale).m,
         q |-> Nibble(block[48 + 32 * g + l], s = 0) \o Bit(block[16 + l], h)]
  BY DEF DequantQ5K, g, s, scale
<1>8. L = l
  BY <1>2
<1> HIDE DEF l, h, L
<1>9. Nibble(block[48 + 32 * g + l], s = 0)
        = IF s = 0 THEN Low(block[48 + 32 * g + l]) ELSE High(block[48 + 32 * g + l])
  BY DEF Nibble
<1>10. ShaderQ5K(e, read) =
         [d |-> Field(block, 0, 2), dmin |-> Field(block, 2, 2),
          sc |-> ScaleMin(2 * g + s, scale).sc, m |-> ScaleMin(2 * g + s, scale).m,
          q |-> (IF s = 0 THEN Low(block[48 + 32 * g + l]) ELSE High(block[48 + 32 * g + l]))
                \o Bit(block[16 + l], h)]
  BY <1>1, <1>3, <1>5, <1>6, <1>8
<1>11. ShaderQ5K(e, read) = DequantQ5K(e, block)
  BY <1>7, <1>9, <1>10
<1>12. QED
  BY <1>11 DEF block

\* Q6_K.
LEMMA ShaderQ6KIs ==
  ASSUME NEW read, NEW start \in Nat, NEW fmt, Faithful(read, start, 210, fmt), NEW e \in 0 .. 255
  PROVE  ShaderQ6K(e, read) = DequantQ6K(e, FileBlock(start, 210))
<1> DEFINE block == FileBlock(start, 210)
           n == e \div 128
           l == e % 32
           k == (e % 128) \div 32
           at == IF k \in {0, 2} THEN 64 * n + l ELSE 64 * n + l + 32
           at1 == 64 * n + l + (IF k \in {0, 2} THEN 0 ELSE 32)
<1>1. n \in {0, 1} /\ l \in 0 .. 31 /\ k \in 0 .. 3 /\ (e % 128) % 32 = l /\ l \div 16 \in {0, 1}
  OBVIOUS
<1>2. read.half[208] = Field(block, 208, 2)
  BY DEF Faithful
<1>3. \A i \in 0 .. 209 : read.byte[i] = block[i]
  BY DEF Faithful
<1> HIDE DEF block, n, k
<1>4. /\ at1 = at /\ at \in 0 .. 209 /\ 128 + 32 * n + l \in 0 .. 209
      /\ 192 + 8 * n + (l \div 16) + 2 * k \in 0 .. 209
  <2> DEFINE j == l \div 16
  <2> HIDE DEF l, j
  <2>1. j \in {0, 1}
    BY <1>1 DEF j
  <2>2. QED
    BY <1>1, <2>1 DEF j
<1>5. /\ read.byte[at1] = block[at] /\ read.byte[128 + 32 * n + l] = block[128 + 32 * n + l]
      /\ read.byte[192 + 8 * n + (l \div 16) + 2 * k] = block[192 + 8 * n + (l \div 16) + 2 * k]
  BY <1>3, <1>4
<1> DEFINE L == (e % 128) % 32
           lower == IF k < 2 THEN Low(read.byte[64 * n + L + (IF k \in {0, 2} THEN 0 ELSE 32)])
                    ELSE High(read.byte[64 * n + L + (IF k \in {0, 2} THEN 0 ELSE 32)])
<1>6. ShaderQ6K(e, read) =
        [Scaled(read.half[208],
                lower \o SubSeq(read.byte[128 + 32 * n + L], 2 * k + 1, 2 * k + 2))
           EXCEPT !.sc = read.byte[192 + 8 * n + (L \div 16) + 2 * k]]
  BY DEF ShaderQ6K, n, k
<1>7. DequantQ6K(e, block) =
        [Scaled(Field(block, 208, 2),
                Nibble(block[at], k < 2)
                \o SubSeq(block[128 + 32 * n + l], 2 * k + 1, 2 * k + 2))
           EXCEPT !.sc = block[192 + 8 * n + (l \div 16) + 2 * k]]
  BY DEF DequantQ6K, n, k
<1>8. L = l
  BY <1>1
<1> HIDE DEF L, l
<1>9. lower = Nibble(block[at], k < 2)
  BY <1>5, <1>8 DEF Nibble
<1> HIDE DEF lower, at, at1
<1>10. QED
  BY <1>2, <1>5, <1>6, <1>7, <1>8, <1>9 DEF block

\* The switch of a shader on the slot of a format gives what the registry says.
LEMMA DecodersAgree ==
  ASSUME NEW fmt, NEW slot, NEW elems, NEW bytes, IsBlockFormat(fmt, slot, elems, bytes),
         NEW read, NEW start \in Nat, Faithful(read, start, bytes, fmt), NEW e \in 0 .. elems - 1
  PROVE  DequantByFormula(slot, e, read) = Dequant(fmt, e, FileBlock(start, bytes))
<1>1. CASE fmt = "Q4_0" /\ slot = 2 /\ elems = 32 /\ bytes = 18
  <2>1. DequantByFormula(slot, e, read) = ShaderQ40(e, read)
    BY <1>1 DEF DequantByFormula
  <2>2. Dequant(fmt, e, FileBlock(start, bytes)) = DequantQ40(e, FileBlock(start, 18))
    BY <1>1 DEF Dequant
  <2>3. e \in 0 .. 31 /\ Faithful(read, start, 18, fmt)
    BY <1>1
  <2>4. QED
    BY <2>1, <2>2, <2>3, ShaderQ40Is
<1>2. CASE fmt = "Q5_0" /\ slot = 3 /\ elems = 32 /\ bytes = 22
  <2>1. DequantByFormula(slot, e, read) = ShaderQ50(e, read)
    BY <1>2 DEF DequantByFormula
  <2>2. Dequant(fmt, e, FileBlock(start, bytes)) = DequantQ50(e, FileBlock(start, 22))
    BY <1>2 DEF Dequant
  <2>3. e \in 0 .. 31 /\ Faithful(read, start, 22, "Q5_0")
    BY <1>2
  <2>4. QED
    BY <2>1, <2>2, <2>3, ShaderQ50Is
<1>3. CASE fmt = "Q8_0" /\ slot = 4 /\ elems = 32 /\ bytes = 34
  <2>1. DequantByFormula(slot, e, read) = ShaderQ80(e, read)
    BY <1>3 DEF DequantByFormula
  <2>2. Dequant(fmt, e, FileBlock(start, bytes)) = DequantQ80(e, FileBlock(start, 34))
    BY <1>3 DEF Dequant
  <2>3. e \in 0 .. 31 /\ Faithful(read, start, 34, fmt)
    BY <1>3
  <2>4. QED
    BY <2>1, <2>2, <2>3, ShaderQ80Is
<1>4. CASE fmt = "Q4_K" /\ slot = 5 /\ elems = 256 /\ bytes = 144
  <2>1. DequantByFormula(slot, e, read) = ShaderQ4K(e, read)
    BY <1>4 DEF DequantByFormula
  <2>2. Dequant(fmt, e, FileBlock(start, bytes)) = DequantQ4K(e, FileBlock(start, 144))
    BY <1>4 DEF Dequant
  <2>3. e \in 0 .. 255 /\ Faithful(read, start, 144, fmt)
    BY <1>4
  <2>4. QED
    BY <2>1, <2>2, <2>3, ShaderQ4KIs
<1>5. CASE fmt = "Q5_K" /\ slot = 6 /\ elems = 256 /\ bytes = 176
  <2>1. DequantByFormula(slot, e, read) = ShaderQ5K(e, read)
    BY <1>5 DEF DequantByFormula
  <2>2. Dequant(fmt, e, FileBlock(start, bytes)) = DequantQ5K(e, FileBlock(start, 176))
    BY <1>5 DEF Dequant
  <2>3. e \in 0 .. 255 /\ Faithful(read, start, 176, fmt)
    BY <1>5
  <2>4. QED
    BY <2>1, <2>2, <2>3, ShaderQ5KIs
<1>6. CASE fmt = "Q6_K" /\ slot = 7 /\ elems = 256 /\ bytes = 210
  <2>1. DequantByFormula(slot, e, read) = ShaderQ6K(e, read)
    BY <1>6 DEF DequantByFormula
  <2>2. Dequant(fmt, e, FileBlock(start, bytes)) = DequantQ6K(e, FileBlock(start, 210))
    BY <1>6 DEF Dequant
  <2>3. e \in 0 .. 255 /\ Faithful(read, start, 210, fmt)
    BY <1>6
  <2>4. QED
    BY <2>1, <2>2, <2>3, ShaderQ6KIs
<1>7. QED
  BY <1>1, <1>2, <1>3, <1>4, <1>5, <1>6 DEF IsBlockFormat

-----------------------------------------------------------------------------
(* Reading bits of the file.                                               *)

\* A run of bits is a sequence.
LEMMA BitsAreSeq ==
  ASSUME NEW b \in Nat, NEW n \in Nat
  PROVE  /\ Bits(b, n) \in Seq(Nat) /\ Len(Bits(b, n)) = n
         /\ \A i \in 1 .. n : Bits(b, n)[i] = 8 * b + i - 1
BY DEF Bits

\* One sequence after another.
Joined(s, t) == s \o t

\* Its elements.
LEMMA JoinedIs ==
  ASSUME NEW s \in Seq(Nat), NEW t \in Seq(Nat)
  PROVE  /\ Joined(s, t) \in Seq(Nat) /\ Len(Joined(s, t)) = Len(s) + Len(t)
         /\ \A i \in 1 .. Len(s) : Joined(s, t)[i] = s[i]
         /\ \A i \in 1 .. Len(t) : Joined(s, t)[Len(s) + i] = t[i]
<1>1. /\ s \o t \in Seq(Nat) /\ Len(s \o t) = Len(s) + Len(t)
      /\ \A i \in 1 .. Len(s) + Len(t) :
           (s \o t)[i] = IF i <= Len(s) THEN s[i] ELSE t[i - Len(s)]
  BY ConcatProperties
<1> DEFINE u == s \o t
<1>2. Joined(s, t) = u
  BY DEF Joined
<1>3. Len(s) \in Nat /\ Len(t) \in Nat
  OBVIOUS
<1> HIDE DEF u
<1>4. /\ u \in Seq(Nat) /\ Len(u) = Len(s) + Len(t)
      /\ \A i \in 1 .. Len(s) + Len(t) : u[i] = IF i <= Len(s) THEN s[i] ELSE t[i - Len(s)]
  BY <1>1 DEF u
<1>5. \A i \in 1 .. Len(s) : u[i] = s[i]
  BY <1>3, <1>4
<1>6. ASSUME NEW i \in 1 .. Len(t) PROVE u[Len(s) + i] = t[i]
  <2>1. /\ Len(s) + i \in 1 .. Len(s) + Len(t) /\ ~(Len(s) + i <= Len(s))
        /\ (Len(s) + i) - Len(s) = i
    BY <1>3
  <2>2. QED
    BY <1>4, <2>1
<1>7. QED
  BY <1>2, <1>4, <1>5, <1>6

\* Runs that follow each other make one.
LEMMA BitsJoin ==
  ASSUME NEW b \in Nat, NEW c \in Nat, NEW n \in Nat, NEW m \in Nat, NEW k \in Nat,
         8 * c = 8 * b + n, k = n + m
  PROVE  Joined(Bits(b, n), Bits(c, m)) = Bits(b, k)
<1> DEFINE s == Bits(b, n)
           t == Bits(c, m)
           u == Bits(b, k)
           v == Joined(s, t)
<1>1. s \in Seq(Nat) /\ Len(s) = n /\ \A i \in 1 .. n : s[i] = 8 * b + i - 1
  BY BitsAreSeq
<1>2. t \in Seq(Nat) /\ Len(t) = m /\ \A i \in 1 .. m : t[i] = 8 * c + i - 1
  BY BitsAreSeq
<1>3. u \in Seq(Nat) /\ Len(u) = k /\ \A i \in 1 .. k : u[i] = 8 * b + i - 1
  BY BitsAreSeq
<1> HIDE DEF s, t, u
<1>4. /\ v \in Seq(Nat) /\ Len(v) = k
      /\ \A i \in 1 .. n : v[i] = s[i]
      /\ \A i \in 1 .. m : v[n + i] = t[i]
  <2>1. /\ v \in Seq(Nat) /\ Len(v) = Len(s) + Len(t)
        /\ \A i \in 1 .. Len(s) : v[i] = s[i]
        /\ \A i \in 1 .. Len(t) : v[Len(s) + i] = t[i]
    BY <1>1, <1>2, JoinedIs
  <2>2. QED
    BY <1>1, <1>2, <2>1
<1> HIDE DEF v
<1>5. ASSUME NEW i \in 1 .. k PROVE v[i] = u[i]
  <2>1. CASE i <= n
    BY <1>1, <1>3, <1>4, <2>1
  <2>2. CASE i > n
    <3>1. PICK h \in 1 .. m : i = n + h
      <4>1. i - n \in 1 .. m /\ i = n + (i - n)
        BY <2>2
      <4>2. QED
        BY <4>1
    <3>2. v[i] = t[h] /\ t[h] = 8 * c + h - 1
      BY <1>2, <1>4, <3>1
    <3>3. u[i] = 8 * b + i - 1
      BY <1>3
    <3>4. 8 * c + h - 1 = 8 * b + i - 1
      BY <3>1
    <3>5. QED
      BY <3>2, <3>3, <3>4
  <2>3. QED
    BY <2>1, <2>2
<1>6. Len(v) = Len(u) /\ \A i \in 1 .. Len(v) : v[i] = u[i]
  BY <1>3, <1>4, <1>5
<1>7. v = u
  BY <1>3, <1>4, <1>6, SeqEqual
<1>8. QED
  BY <1>7 DEF v, s, t, u

\* Four bytes in a row.
LEMMA BytesJoin ==
  ASSUME NEW a \in Nat, NEW b \in Nat, NEW c \in Nat, NEW d \in Nat,
         b = a + 1, c = a + 2, d = a + 3
  PROVE  Joined(Joined(Joined(Bits(a, 8), Bits(b, 8)), Bits(c, 8)), Bits(d, 8)) = Bits(a, 32)
<1>1. /\ 8 * b = 8 * a + 8 /\ 8 * c = 8 * a + 16 /\ 8 * d = 8 * a + 24
      /\ 16 = 8 + 8 /\ 24 = 16 + 8 /\ 32 = 24 + 8
      /\ 8 \in Nat /\ 16 \in Nat /\ 24 \in Nat /\ 32 \in Nat
  OBVIOUS
<1>2. Joined(Bits(a, 8), Bits(b, 8)) = Bits(a, 16)
  BY <1>1, BitsJoin
<1>3. Joined(Bits(a, 16), Bits(c, 8)) = Bits(a, 24)
  BY <1>1, BitsJoin
<1>4. Joined(Bits(a, 24), Bits(d, 8)) = Bits(a, 32)
  BY <1>1, BitsJoin
<1>5. QED
  BY <1>2, <1>3, <1>4

\* Bits within a word are extracted as they are.
LEMMA ExtractIs ==
  ASSUME NEW word \in Nat, NEW r \in 0 .. 3, NEW count \in Nat, 8 * r + count <= 32
  PROVE  ExtractBits(4 * word, 8 * r, count) = Bits(4 * word + r, count)
<1>1. 4 * word # Lost /\ ~(8 * r + count > 32)
  BY DEF Lost
<1>2. \A i \in 1 .. count : 8 * (4 * word) + 8 * r + i - 1 = 8 * (4 * word + r) + i - 1
  OBVIOUS
<1>3. QED
  BY <1>1, <1>2 DEF ExtractBits, Bits

\* Through a window that begins at word sh a shader sees the words lo to hi.
Sees(blob, sh, lo, hi) ==
  /\ sh \in Nat /\ lo \in Nat /\ hi \in Nat
  /\ \A w \in Nat : lo <= w /\ w <= hi => w - sh \in Nat /\ ReadBlob(blob, w - sh) = 4 * w

\* Bytes and halves at a packed offset.
LEMMA ReadRelIs ==
  ASSUME NEW blob, NEW sh, NEW lo, NEW hi, Sees(blob, sh, lo, hi),
         NEW base \in Int, NEW pack \in Nat, NEW rel \in Nat, NEW byte \in Nat,
         byte = 4 * (base + sh) + 2 * pack + rel,
         lo <= byte \div 4, byte \div 4 <= hi,
         NEW count \in {8, 16}, count = 16 => byte % 2 = 0
  PROVE  ReadRel(blob, base, pack, rel, count) = Bits(byte, count)
<1> DEFINE adj == 2 * (pack % 2) + rel
           w == byte \div 4
           r == byte % 4
<1>1. sh \in Nat
  BY DEF Sees
<1>2. /\ w \in Nat /\ r \in 0 .. 3 /\ byte = 4 * w + r
      /\ adj % 4 = r /\ (pack \div 2) + (adj \div 4) + base = w - sh
  <2> DEFINE p == pack \div 2
             o == pack % 2
             a == adj \div 4
             k == adj % 4
  <2>1. p \in Nat /\ o \in 0 .. 1 /\ pack = 2 * p + o /\ adj = 2 * o + rel /\ adj \in Nat
    OBVIOUS
  <2>2. a \in Nat /\ k \in 0 .. 3 /\ adj = 4 * a + k
    OBVIOUS
  <2>3. w \in Nat /\ r \in 0 .. 3 /\ byte = 4 * w + r
    OBVIOUS
  <2> HIDE DEF p, o, a, k, w, r, adj
  <2>4. byte = 4 * (base + sh + p + a) + k
    BY <1>1, <2>1, <2>2
  <2>5. base + sh + p + a = w /\ k = r
    BY <1>1, <2>1, <2>2, <2>3, <2>4
  <2>6. p + a + base = w - sh
    BY <1>1, <2>1, <2>2, <2>3, <2>5
  <2>7. QED
    BY <2>3, <2>5, <2>6 DEF p, a, k
<1>3. ReadBlob(blob, w - sh) = 4 * w
  <2>1. lo <= w /\ w <= hi
    OBVIOUS
  <2>2. w \in Nat
    BY <1>2
  <2> HIDE DEF w
  <2>3. \A x \in Nat : lo <= x /\ x <= hi => ReadBlob(blob, x - sh) = 4 * x
    BY DEF Sees
  <2>4. QED
    BY <2>1, <2>2, <2>3, Zenon
<1>4. 8 * r + count <= 32
  <2>1. count = 16 => r \in {0, 2}
    <3>1. byte % 2 = 0 => r % 2 = 0
      <4>1. w \in Nat /\ r \in 0 .. 3 /\ byte = 4 * w + r
        BY <1>2
      <4> HIDE DEF w, r
      <4>2. QED
        BY <4>1
    <3>2. QED
      BY <1>2, <3>1
  <2>2. QED
    <3>1. r \in 0 .. 3
      BY <1>2
    <3> HIDE DEF r
    <3>2. QED
      BY <2>1, <3>1
<1>5. ReadRel(blob, base, pack, rel, count)
        = ExtractBits(ReadBlob(blob, (pack \div 2) + (adj \div 4) + base), 8 * (adj % 4), count)
  BY DEF ReadRel
<1> HIDE DEF w, r, adj
<1>6. ExtractBits(4 * w, 8 * r, count) = Bits(4 * w + r, count)
  BY <1>2, <1>4, ExtractIs
<1>7. QED
  BY <1>2, <1>3, <1>5, <1>6

\* The three ways the layer and dequantisation shaders read a block.
PackedRead(blob, base, pack) ==
  [half |-> [rel \in BlockOffsets |-> ReadF16Rel(blob, base, pack, rel)],
   byte |-> [rel \in BlockOffsets |-> ReadByteRel(blob, base, pack, rel)],
   quad |-> [rel \in BlockOffsets |-> ReadU32Rel(blob, base, pack, rel)]]

\* They show a block that lies in the window as it is.
LEMMA PackedIsFaithful ==
  ASSUME NEW blob, NEW sh, NEW lo, NEW hi, Sees(blob, sh, lo, hi),
         NEW base \in Int, NEW pack \in Nat, NEW start \in Nat,
         start = 4 * (base + sh) + 2 * pack,
         NEW bytes \in 18 .. 210, lo <= start \div 4, (start + bytes - 1) \div 4 <= hi, NEW fmt
  PROVE  Faithful(PackedRead(blob, base, pack), start, bytes, fmt)
<1> DEFINE read == PackedRead(blob, base, pack)
           block == FileBlock(start, bytes)
<1>0. BlockOffsets = 0 .. 209
  <2>1. BlockBytes("Q6_K") = 210
    BY FormulaIs DEF BlockBytes, Registry
  <2>2. QED
    BY <2>1 DEF BlockOffsets
<1>1. ASSUME NEW i \in 0 .. bytes - 1
      PROVE  /\ start + i \in Nat /\ start + i = 4 * (base + sh) + 2 * pack + i
             /\ lo <= (start + i) \div 4 /\ (start + i) \div 4 <= hi /\ i \in BlockOffsets
  <2>1. sh \in Nat /\ lo \in Nat /\ hi \in Nat
    BY DEF Sees
  <2>2. start + i \in Nat /\ start <= start + i /\ start + i <= start + bytes - 1
    OBVIOUS
  <2>3. start \div 4 <= (start + i) \div 4 /\ (start + i) \div 4 <= (start + bytes - 1) \div 4
    BY <2>2
  <2>4. QED
    BY <2>1, <2>2, <2>3, <1>0
<1>2. ASSUME NEW i \in 0 .. bytes - 1 PROVE ReadByteRel(blob, base, pack, i) = Bits(start + i, 8)
  BY <1>1, ReadRelIs DEF ReadByteRel
<1>3. ASSUME NEW i \in 0 .. bytes - 1 PROVE read.byte[i] = block[i]
  <2>1. read.byte[i] = ReadByteRel(blob, base, pack, i)
    BY <1>1 DEF PackedRead
  <2>2. block[i] = Bits(start + i, 8)
    BY DEF FileBlock
  <2>3. QED
    BY <1>2, <2>1, <2>2
<1>4. ASSUME NEW i \in {0, 2, 208}, i + 1 < bytes PROVE read.half[i] = Field(block, i, 2)
  <2>1. i \in 0 .. bytes - 1 /\ i + 2 <= bytes /\ i \in Nat
    BY <1>4
  <2>2. (start + i) % 2 = 0
    <3>1. sh \in Nat
      BY DEF Sees
    <3>2. start + i = 2 * (2 * (base + sh) + pack + i \div 2) /\ i \div 2 \in Nat
      BY <3>1
    <3>3. QED
      BY <3>1, <3>2
  <2>3. ReadF16Rel(blob, base, pack, i) = Bits(start + i, 16)
    <3>1. start + i \in Nat /\ 16 \in {8, 16}
      BY <2>1
    <3>2. ReadRel(blob, base, pack, i, 16) = Bits(start + i, 16)
      BY <1>1, <2>1, <2>2, <3>1, ReadRelIs
    <3>3. QED
      BY <3>2 DEF ReadF16Rel
  <2>4. read.half[i] = ReadF16Rel(blob, base, pack, i)
    BY <1>1, <2>1 DEF PackedRead
  <2>5. Field(block, i, 2) = Bits(start + i, 16)
    <3>1. Field(block, i, 2) = Bits(start + i, 8 * 2)
      <4>1. bytes \in Nat /\ i \in Nat /\ 2 \in Nat /\ i + 2 <= bytes
        BY <2>1
      <4>2. QED
        BY <4>1, FieldIs
    <3>2. QED
      BY <3>1
  <2>6. QED
    BY <2>3, <2>4, <2>5
<1>5. read.quad[2] = Field(block, 2, 4)
  <2>1. read.quad[2] = ReadU32Rel(blob, base, pack, 2)
    BY <1>0 DEF PackedRead
  <2>2. ReadU32Rel(blob, base, pack, 2)
          = Bits(start + 2, 8) \o Bits(start + 3, 8) \o Bits(start + 4, 8) \o Bits(start + 5, 8)
    <3>1. ReadU32Rel(blob, base, pack, 2)
            = ReadByteRel(blob, base, pack, 2) \o ReadByteRel(blob, base, pack, 3)
              \o ReadByteRel(blob, base, pack, 4) \o ReadByteRel(blob, base, pack, 5)
      BY DEF ReadU32Rel
    <3>2. {2, 3, 4, 5} \subseteq 0 .. bytes - 1
      OBVIOUS
    <3>3. \A i \in {2, 3, 4, 5} : ReadByteRel(blob, base, pack, i) = Bits(start + i, 8)
      BY <3>2, <1>2
    <3>4. QED
      BY <3>1, <3>3
  <2>3. Bits(start + 2, 8) \o Bits(start + 3, 8) \o Bits(start + 4, 8) \o Bits(start + 5, 8)
          = Bits(start + 2, 32)
    <3> DEFINE a == start + 2
               b == start + 3
               c == start + 4
               d == start + 5
    <3>1. /\ a \in Nat /\ b \in Nat /\ c \in Nat /\ d \in Nat
          /\ b = a + 1 /\ c = a + 2 /\ d = a + 3
      OBVIOUS
    <3> HIDE DEF a, b, c, d
    <3>2. Joined(Joined(Joined(Bits(a, 8), Bits(b, 8)), Bits(c, 8)), Bits(d, 8)) = Bits(a, 32)
      BY <3>1, BytesJoin
    <3>3. Bits(a, 8) \o Bits(b, 8) \o Bits(c, 8) \o Bits(d, 8) = Bits(a, 32)
      BY <3>2, Zenon DEF Joined
    <3>4. QED
      BY <3>3 DEF a, b, c, d
  <2>4. Field(block, 2, 4) = Bits(start + 2, 32)
    <3>1. bytes \in Nat /\ 2 \in Nat /\ 4 \in Nat /\ 2 + 4 <= bytes /\ 8 * 4 = 32
      OBVIOUS
    <3>2. Field(block, 2, 4) = Bits(start + 2, 8 * 4)
      BY <3>1, FieldIs
    <3>3. QED
      BY <3>1, <3>2
  <2>5. QED
    BY <2>1, <2>2, <2>3, <2>4
<1>6. QED
  BY <1>3, <1>4, <1>5 DEF Faithful

\* So an element of a block in the window is what the registry says.
LEMMA PackedElementIs ==
  ASSUME NEW fmt, NEW slot, NEW elems, NEW bytes, IsBlockFormat(fmt, slot, elems, bytes),
         NEW blob, NEW sh, NEW lo, NEW hi, Sees(blob, sh, lo, hi),
         NEW base \in Int, NEW pack \in Nat, NEW start \in Nat,
         start = 4 * (base + sh) + 2 * pack,
         lo <= start \div 4, (start + bytes - 1) \div 4 <= hi,
         NEW e \in 0 .. elems - 1
  PROVE  PackedElement(blob, base, slot, pack, e) = Dequant(fmt, e, FileBlock(start, bytes))
<1>1. bytes \in 18 .. 210
  BY DEF IsBlockFormat
<1>2. Faithful(PackedRead(blob, base, pack), start, bytes, fmt)
  BY <1>1, PackedIsFaithful
<1>3. PackedElement(blob, base, slot, pack, e) = DequantByFormula(slot, e, PackedRead(blob, base, pack))
  BY DEF PackedElement, PackedRead
<1>4. QED
  BY <1>2, <1>3, DecodersAgree

-----------------------------------------------------------------------------
(* Columns of a matrix.                                                    *)

\* A product of numbers is a number.
LEMMA TimesIsNat ==
  ASSUME NEW a \in Nat, NEW b \in Nat
  PROVE  a * b \in Nat
OBVIOUS

\* An F32 word.
LEMMA PlainF32Is ==
  ASSUME NEW fmt, fmt = "F32", NEW start \in Nat, NEW e
  PROVE  Dequant(fmt, e, FileBlock(start, 4)) = Plain(Bits(start, 32))
<1>1. Dequant(fmt, e, FileBlock(start, 4)) = Plain(Field(FileBlock(start, 4), 0, 4))
  BY DEF Dequant
<1>2. Field(FileBlock(start, 4), 0, 4) = Bits(start + 0, 8 * 4)
  <2>1. 4 \in Nat /\ 0 \in Nat /\ 0 + 4 <= 4
    OBVIOUS
  <2>2. QED
    BY <2>1, FieldIs
<1>3. QED
  BY <1>1, <1>2

\* An F16 half.
LEMMA PlainF16Is ==
  ASSUME NEW fmt, fmt = "F16", NEW start \in Nat
  PROVE  Dequant(fmt, 0, FileBlock(start, 2)) = Plain(Bits(start, 16))
<1>1. Dequant(fmt, 0, FileBlock(start, 2)) = Plain(Field(FileBlock(start, 2), 0, 2))
  BY DEF Dequant
<1>2. Field(FileBlock(start, 2), 0, 2) = Bits(start + 0, 8 * 2)
  <2>1. 2 \in Nat /\ 0 \in Nat /\ 0 + 2 <= 2
    OBVIOUS
  <2>2. QED
    BY <2>1, FieldIs
<1>3. QED
  BY <1>1, <1>2

\* A byte at a packed offset, in the window.
ByteAt(byte, base, sh, pack, rel) == byte = 4 * (base + sh) + 2 * pack + rel
Covers(lo, hi, first, last) == lo <= first \div 4 /\ last \div 4 <= hi

\* ReadRelIs and PackedElementIs in these terms.
LEMMA ReadAt ==
  ASSUME NEW blob, NEW sh, NEW lo, NEW hi, Sees(blob, sh, lo, hi),
         NEW base \in Int, NEW pack \in Nat, NEW byte \in Nat, ByteAt(byte, base, sh, pack, 0),
         Covers(lo, hi, byte, byte + 1), byte % 2 = 0
  PROVE  ReadRel(blob, base, pack, 0, 16) = Bits(byte, 16)
<1>1. byte = 4 * (base + sh) + 2 * pack + 0
  BY DEF ByteAt
<1>2. lo <= byte \div 4 /\ byte \div 4 <= hi
  <2>1. byte \div 4 <= (byte + 1) \div 4
    OBVIOUS
  <2>2. lo <= byte \div 4 /\ (byte + 1) \div 4 <= hi /\ hi \in Nat
    BY DEF Covers, Sees
  <2>3. QED
    BY <2>1, <2>2
<1>3. ASSUME NEW count, count = 16 PROVE ReadRel(blob, base, pack, 0, count) = Bits(byte, count)
  <2>1. count \in {8, 16} /\ 0 \in Nat
    BY <1>3
  <2>2. QED
    BY <1>1, <1>2, <2>1, ReadRelIs
<1>4. QED
  BY <1>3

\* An element of a block wherever the block starts.
LEMMA ElementAt ==
  ASSUME NEW fmt, NEW slot, NEW elems, NEW bytes, IsBlockFormat(fmt, slot, elems, bytes),
         NEW blob, NEW sh, NEW lo, NEW hi, Sees(blob, sh, lo, hi),
         NEW base \in Int, NEW pack \in Nat, NEW start \in Nat, ByteAt(start, base, sh, pack, 0),
         Covers(lo, hi, start, start + bytes - 1), NEW e \in 0 .. elems - 1
  PROVE  PackedElement(blob, base, slot, pack, e) = Dequant(fmt, e, FileBlock(start, bytes))
<1>1. start = 4 * (base + sh) + 2 * pack
  <2>1. sh \in Nat
    BY DEF Sees
  <2>2. QED
    BY <2>1 DEF ByteAt
<1>2. lo <= start \div 4 /\ (start + bytes - 1) \div 4 <= hi
  BY DEF Covers
<1>3. QED
  BY <1>1, <1>2, PackedElementIs

\* The place of a word, by name.
WordAt(byte, at, sh) == byte = 4 * (at + sh)

\* A word of the window, extracted whole.
LEMMA WordIs ==
  ASSUME NEW blob, NEW sh, NEW lo, NEW hi, Sees(blob, sh, lo, hi),
         NEW byte \in Nat, byte % 4 = 0, NEW at \in Int, WordAt(byte, at, sh),
         lo <= byte \div 4, byte \div 4 <= hi
  PROVE  ExtractBits(ReadBlob(blob, at), 0, 32) = Bits(byte, 32)
<1>1. sh \in Nat
  BY DEF Sees
<1>2. PICK w \in Nat : w = byte \div 4 /\ byte = 4 * w /\ at = w - sh
  <2>1. byte \div 4 \in Nat /\ byte = 4 * (byte \div 4) /\ at = (byte \div 4) - sh
    BY <1>1 DEF WordAt
  <2>2. QED
    BY <2>1
<1>3. lo <= w /\ w <= hi
  BY <1>2
<1>4. ReadBlob(blob, at) = 4 * w
  BY <1>2, <1>3 DEF Sees
<1>5. ExtractBits(4 * w, 8 * 0, 32) = Bits(4 * w + 0, 32)
  <2>1. 0 \in 0 .. 3 /\ 32 \in Nat /\ 8 * 0 + 32 <= 32
    OBVIOUS
  <2>2. QED
    BY <2>1, ExtractIs
<1>6. QED
  BY <1>2, <1>4, <1>5

\* Where the block of an element starts: row by row, block by block.
BlockStart(off, elems, bytes, cols, index, col) ==
  off + index * ((cols \div elems) * bytes) + (col \div elems) * bytes

\* The start of a block, and the block, are within the rows up to this one.
LEMMA BlockStartIs ==
  ASSUME NEW off \in Nat, NEW elems \in Nat \ {0}, NEW bytes \in Nat \ {0}, NEW cols \in Nat,
         cols % elems = 0, NEW index \in Nat, NEW col \in 0 .. cols - 1
  PROVE  /\ BlockStart(off, elems, bytes, cols, index, col) \in Nat
         /\ off <= BlockStart(off, elems, bytes, cols, index, col)
         /\ BlockStart(off, elems, bytes, cols, index, col) + bytes
              <= off + (index + 1) * ((cols \div elems) * bytes)
<1> DEFINE k == cols \div elems
           j == col \div elems
           rb == k * bytes
<1>1. k \in Nat /\ cols = elems * k
  <2>1. k \in Nat /\ cols = elems * k + (cols % elems)
    BY QuotRem
  <2> HIDE DEF k
  <2>2. elems * k \in Nat
    BY <2>1, TimesIsNat
  <2>3. QED
    BY <2>1, <2>2
<1>2. j \in Nat /\ j < k
  <2>1. col \in Nat
    OBVIOUS
  <2>2. col < elems * k
    BY <1>1
  <2> HIDE DEF k
  <2>3. QED
    BY <1>1, <2>1, <2>2, DivBelow
<1> HIDE DEF k, j
<1>3. rb \in Nat /\ j * bytes \in Nat /\ (j + 1) * bytes <= rb /\ (j + 1) * bytes = j * bytes + bytes
  <2>1. j + 1 \in Nat /\ j + 1 <= k
    BY <1>1, <1>2
  <2>2. bytes * (j + 1) <= bytes * k /\ bytes * k \in Nat
    BY <1>1, <2>1, ProductGrows
  <2>3. bytes * (j + 1) = (j + 1) * bytes /\ bytes * k = k * bytes /\ (j + 1) * bytes = j * bytes + bytes
    BY <1>1, <1>2
  <2>4. j * bytes \in Nat
    BY <1>2, TimesIsNat
  <2>5. QED
    BY <2>2, <2>3, <2>4
<1> HIDE DEF rb
<1>4. index * rb \in Nat /\ (index + 1) * rb = index * rb + rb
  BY <1>3, TimesIsNat
<1>5. BlockStart(off, elems, bytes, cols, index, col) = off + index * rb + j * bytes
  BY DEF BlockStart, rb, k, j
<1>6. QED
  BY <1>3, <1>4, <1>5 DEF rb, k

\* The places of a tensor and of the block of an element, by name.
StartAt(start, off, fmt, cols, index, col) ==
  start = BlockStart(off, BlockElems(fmt), BlockBytes(fmt), cols, index, col)
TensorAt(off, base, sh, pack) == off = 4 * (base + sh) + 2 * pack

\* A column of a row as the layer shader computes it.
LEMMA MatrixElementIs ==
  ASSUME NEW fmt \in Formats, NEW blob, NEW sh, NEW lo, NEW hi, Sees(blob, sh, lo, hi),
         NEW base \in Int, NEW pack \in Nat, NEW off \in Nat, off % 4 = 0,
         TensorAt(off, base, sh, pack),
         NEW cols \in Nat, cols % BlockElems(fmt) = 0, NEW index \in Nat, NEW col \in 0 .. cols - 1,
         NEW start, StartAt(start, off, fmt, cols, index, col),
         lo <= start \div 4, (start + BlockBytes(fmt) - 1) \div 4 <= hi
  PROVE  MatrixElement(blob, base, FormulaSlot(fmt), pack, cols, index, col)
           = Dequant(fmt, col % BlockElems(fmt), FileBlock(start, BlockBytes(fmt)))
<1>e. /\ off = 4 * (base + sh) + 2 * pack
      /\ start = BlockStart(off, BlockElems(fmt), BlockBytes(fmt), cols, index, col)
  BY DEF TensorAt, StartAt
<1> USE <1>e
<1>0. sh \in Nat /\ start \in Nat
  <2>1. BlockElems(fmt) \in Nat \ {0} /\ BlockBytes(fmt) \in Nat \ {0}
    BY FormatSizes
  <2>2. start \in Nat
    BY <2>1, BlockStartIs
  <2>3. QED
    BY <2>2 DEF Sees
<1>1. CASE fmt = "F32"
  <2>1. FormulaSlot(fmt) = 0 /\ BlockElems(fmt) = 1 /\ BlockBytes(fmt) = 4
    BY <1>1, FormatIs
  <2> DEFINE n == index * cols + col
             at == pack \div 2 + base + index * cols + col
  <2>2. index * cols \in Nat
    BY TimesIsNat
  <2>3. start = off + 4 * n /\ n \in Nat
    <3>1. cols \div 1 = cols /\ col \div 1 = col
      OBVIOUS
    <3>2. start = off + index * (cols * 4) + col * 4
      BY <2>1, <3>1 DEF BlockStart
    <3>3. index * (cols * 4) = 4 * (index * cols)
      OBVIOUS
    <3>4. QED
      BY <2>2, <3>2, <3>3
  <2>4. off = 4 * (base + sh + (pack \div 2)) /\ pack \div 2 \in Nat
    BY <1>0
  <2>5. start = 4 * (at + sh) /\ at \in Int /\ start % 4 = 0
    <3> DEFINE p == pack \div 2
               m == index * cols
    <3>1. p \in Nat /\ m \in Nat /\ n = m + col /\ at = p + base + m + col /\ off = 4 * (base + sh + p)
      BY <2>2, <2>4
    <3> HIDE DEF p, m, n, at
    <3>2. start = 4 * (at + sh) /\ at \in Int
      BY <1>0, <2>3, <3>1
    <3>3. QED
      BY <1>0, <3>2
  <2>6. start \div 4 <= hi
    <3>1. (start + 4 - 1) \div 4 = start \div 4
      <4>1. start \in Nat /\ start % 4 = 0
        BY <1>0, <2>5
      <4>2. QED
        BY <4>1
    <3>2. QED
      BY <2>1, <3>1
  <2>7. ExtractBits(ReadBlob(blob, at), 0, 32) = Bits(start, 32)
    <3>1. WordAt(start, at, sh) /\ start \in Nat
      BY <1>0, <2>5 DEF WordAt
    <3> HIDE DEF at
    <3>2. QED
      BY <1>0, <2>5, <2>6, <3>1, WordIs
  <2>8. MatrixElement(blob, base, 0, pack, cols, index, col) = Plain(ExtractBits(ReadBlob(blob, at), 0, 32))
    BY DEF MatrixElement
  <2>9. QED
    BY <1>0, <1>1, <2>1, <2>7, <2>8, PlainF32Is
<1>2. CASE fmt = "F16"
  <2>1. FormulaSlot(fmt) = 1 /\ BlockElems(fmt) = 1 /\ BlockBytes(fmt) = 2
    BY <1>2, FormatIs
  <2> DEFINE n == index * cols + col
             at == AddPack(pack, n * 2)
  <2>2. index * cols \in Nat /\ n \in Nat
    BY TimesIsNat
  <2>3. start = off + 2 * n
    <3>1. cols \div 1 = cols /\ col \div 1 = col
      OBVIOUS
    <3>2. start = off + index * (cols * 2) + col * 2
      BY <2>1, <3>1 DEF BlockStart
    <3>3. index * (cols * 2) = 2 * (index * cols)
      OBVIOUS
    <3>4. QED
      BY <2>2, <3>2, <3>3
  <2>4. at = pack + n /\ at \in Nat
    <3> HIDE DEF n
    <3>1. (n * 2) \div 2 = n
      BY <2>2
    <3>2. QED
      BY <2>2, <3>1 DEF AddPack
  <2> HIDE DEF n, at
  <2>5. start = 4 * (base + sh) + 2 * at + 0 /\ start % 2 = 0
    <3>1. start = 4 * (base + sh) + 2 * at + 0
      BY <1>0, <2>2, <2>3, <2>4
    <3>2. start = 2 * (2 * (base + sh) + at)
      BY <1>0, <2>4, <3>1
    <3>3. QED
      BY <1>0, <2>4, <3>1, <3>2
  <2>6. ReadRel(blob, base, at, 0, 16) = Bits(start, 16)
    <3>1. ByteAt(start, base, sh, at, 0)
      BY <2>5 DEF ByteAt
    <3>2. Covers(lo, hi, start, start + 1)
      BY <1>0, <2>1 DEF Covers
    <3>3. QED
      BY <1>0, <2>4, <2>5, <3>1, <3>2, ReadAt
  <2>7. MatrixElement(blob, base, 1, pack, cols, index, col) = Plain(ReadRel(blob, base, at, 0, 16))
    BY DEF MatrixElement, ReadF16Rel, at, n
  <2>8. col % 1 = 0
    OBVIOUS
  <2>9. QED
    BY <1>0, <1>2, <2>1, <2>6, <2>7, <2>8, PlainF16Is
<1>3. CASE fmt \notin {"F32", "F16"}
  <2>1. PICK slot, elems, bytes : IsBlockFormat(fmt, slot, elems, bytes)
    BY <1>3, FormatIs
  <2>2. /\ FormulaSlot(fmt) = slot /\ BlockElems(fmt) = elems /\ BlockBytes(fmt) = bytes
        /\ slot \in 2 .. 7 /\ elems \in {32, 256} /\ bytes \in Nat \ {0} /\ bytes % 2 = 0
        /\ QuantElems[slot + 1] = elems /\ QuantBytes[slot + 1] = bytes
    BY <2>1 DEF IsBlockFormat, QuantElems, QuantBytes
  <2> DEFINE k == cols \div elems
             j == col \div elems
             q == index * k
             r == AddPack(pack, q * bytes)
             at == AddPack(r, j * bytes)
  <2>3. k \in Nat /\ j \in Nat /\ q \in Nat
    BY <2>2, TimesIsNat
  <2>4. MatrixElement(blob, base, slot, pack, cols, index, col)
          = PackedElement(blob, base, slot, at, col % elems)
    <3>1. slot # 1 /\ slot # 0
      BY <2>2
    <3>2. QED
      BY <2>2, <3>1 DEF MatrixElement
  <2>5. start = off + q * bytes + j * bytes
    <3>1. start = off + index * (k * bytes) + j * bytes
      BY <2>2 DEF BlockStart
    <3>2. index * (k * bytes) = q * bytes
      <4>1. k \in Nat /\ bytes \in Nat
        BY <2>2, <2>3
      <4> HIDE DEF k
      <4>2. QED
        BY <4>1
    <3>3. QED
      BY <3>1, <3>2
  <2> HIDE DEF k, j, q
  <2>6. PICK h \in Nat : bytes = 2 * h
    <3>1. bytes \div 2 \in Nat /\ bytes = 2 * (bytes \div 2)
      BY <2>2
    <3>2. QED
      BY <3>1
  <2>7. (q * bytes) \div 2 = q * h /\ (j * bytes) \div 2 = j * h
    <3>1. q * bytes = 2 * (q * h) /\ j * bytes = 2 * (j * h) /\ q * h \in Nat /\ j * h \in Nat
      BY <2>3, <2>6, TimesIsNat
    <3>2. QED
      BY <3>1
  <2>8. at = pack + q * h + j * h /\ at \in Nat
    <3>1. q * h \in Nat /\ j * h \in Nat
      BY <2>3, <2>6, TimesIsNat
    <3>2. QED
      BY <2>7, <3>1 DEF AddPack
  <2>9. start = 4 * (base + sh) + 2 * at
    <3>1. q * bytes = 2 * (q * h) /\ j * bytes = 2 * (j * h) /\ q * h \in Nat /\ j * h \in Nat
      BY <2>3, <2>6, TimesIsNat
    <3>2. QED
      BY <1>0, <2>5, <2>8, <3>1
  <2>10. col % elems \in 0 .. elems - 1
    BY <2>2
  <2> HIDE DEF at
  <2>11. PackedElement(blob, base, slot, at, col % elems) = Dequant(fmt, col % elems, FileBlock(start, bytes))
    <3>1. Covers(lo, hi, start, start + bytes - 1)
      BY <2>2 DEF Covers
    <3>2. ByteAt(start, base, sh, at, 0)
      BY <1>0, <2>8, <2>9 DEF ByteAt
    <3>3. QED
      BY <1>0, <2>1, <2>8, <2>10, <3>1, <3>2, ElementAt
  <2>12. QED
    BY <2>2, <2>4, <2>11
<1>4. QED
  BY <1>1, <1>2, <1>3

-----------------------------------------------------------------------------
(* The other readers: a run from a byte, the head with wrapped addresses.  *)

\* The dequantisation shader is told the first element of a row: it computes
\* what the layer shader does for row zero.
LEMMA DequantAnyIs ==
  ASSUME NEW fmt \in Formats, NEW blob, NEW base \in Int, NEW cols \in Nat, NEW col \in Nat
  PROVE  DequantAnyElement(blob, base, FormulaSlot(fmt), 0, col)
           = MatrixElement(blob, base, FormulaSlot(fmt), 0, cols, 0, col)
<1>1. CASE fmt = "F32"
  <2>1. FormulaSlot(fmt) = 0
    BY <1>1, FormatIs
  <2>2. 0 * cols = 0 /\ 0 \div 2 + base + 0 * cols + col = 0 \div 2 + base + col
    OBVIOUS
  <2>3. DequantAnyElement(blob, base, 0, 0, col) = Plain(ExtractBits(ReadBlob(blob, 0 \div 2 + base + col), 0, 32))
    BY DEF DequantAnyElement
  <2>4. MatrixElement(blob, base, 0, 0, cols, 0, col)
          = Plain(ExtractBits(ReadBlob(blob, 0 \div 2 + base + 0 * cols + col), 0, 32))
    BY DEF MatrixElement
  <2>5. QED
    BY <2>1, <2>2, <2>3, <2>4
<1>2. CASE fmt = "F16"
  <2>1. FormulaSlot(fmt) = 1
    BY <1>2, FormatIs
  <2>2. (0 * cols + col) * 2 = col * 2
    OBVIOUS
  <2>3. DequantAnyElement(blob, base, 1, 0, col) = Plain(ReadF16Rel(blob, base, AddPack(0, col * 2), 0))
    BY DEF DequantAnyElement
  <2>4. MatrixElement(blob, base, 1, 0, cols, 0, col)
          = Plain(ReadF16Rel(blob, base, AddPack(0, (0 * cols + col) * 2), 0))
    BY DEF MatrixElement
  <2>5. QED
    BY <2>1, <2>2, <2>3, <2>4
<1>3. CASE fmt \notin {"F32", "F16"}
  <2>1. PICK slot, elems, bytes : IsBlockFormat(fmt, slot, elems, bytes)
    BY <1>3, FormatIs
  <2>2. /\ FormulaSlot(fmt) = slot /\ slot \in 2 .. 7 /\ elems \in {32, 256} /\ bytes \in Nat
        /\ QuantElems[slot + 1] = elems /\ QuantBytes[slot + 1] = bytes
    BY <2>1 DEF IsBlockFormat, QuantElems, QuantBytes
  <2>3. AddPack(0, 0 * (cols \div elems) * bytes) = 0
    <3>1. cols \div elems \in Nat
      BY <2>2
    <3>2. 0 * (cols \div elems) * bytes = 0
      BY <2>2, <3>1
    <3>3. QED
      BY <3>2 DEF AddPack
  <2>4. MatrixElement(blob, base, slot, 0, cols, 0, col)
          = PackedElement(blob, base, slot, AddPack(0, (col \div elems) * bytes), col % elems)
    <3>1. slot # 1 /\ slot # 0
      BY <2>2
    <3>2. QED
      BY <2>2, <2>3, <3>1 DEF MatrixElement
  <2>5. DequantAnyElement(blob, base, slot, 0, col)
          = PackedElement(blob, base, slot, AddPack(0, (col \div elems) * bytes), col % elems)
    <3>1. slot # 1 /\ slot # 0 /\ (IF slot \in 3 .. 7 THEN slot ELSE 2) = slot
      BY <2>2
    <3>2. QED
      BY <2>2, <3>1 DEF DequantAnyElement, DequantAnyBlock
  <2>6. QED
    BY <2>2, <2>4, <2>5
<1>4. QED
  BY <1>1, <1>2, <1>3

-----------------------------------------------------------------------------
(* The shader of the head.                                                 *)

\* Adding modulo the address span, the wrapped base comes back.
LEMMA WrapsBack ==
  ASSUME NEW a \in Int, NEW b \in Nat, NEW x \in Nat, x = a + b, x < AddressSpan
  PROVE  ((a % AddressSpan) + b) % AddressSpan = x
<1> DEFINE A == AddressSpan
           r == a % A
           q == a \div A
<1>1. A \in Nat \ {0}
  BY BlobAssumption
<1>2. r \in 0 .. A - 1 /\ q \in Int /\ a = A * q + r
  <2> HIDE DEF A
  <2>1. QED
    BY <1>1
<1> HIDE DEF A, r, q
<1>3. r + b = A * (-q) + x
  <2>1. A * (-q) = - (A * q) /\ A * q \in Int
    BY <1>1, <1>2
  <2>2. QED
    BY <1>2, <2>1
<1>4. x \in 0 .. A - 1
  <2>1. x < A
    BY DEF A
  <2>2. QED
    BY <1>1, <2>1
<1>5. -q \in Nat
  <2>1. CASE q >= 1
    <3>1. PICK p \in Nat : q = p + 1
      <4>1. q - 1 \in Nat /\ q = (q - 1) + 1
        BY <1>2, <2>1
      <4>2. QED
        BY <4>1
    <3>2. A * q = A * p + A /\ A * p \in Nat
      BY <1>1, <3>1, TimesIsNat
    <3>3. a >= A
      BY <1>1, <1>2, <3>2
    <3>4. QED
      BY <1>1, <1>4, <3>3
  <2>2. QED
    BY <1>2, <2>1
<1>6. (r + b) % A = x
  <2>1. r + b \in Nat
    BY <1>1, <1>2
  <2>2. QED
    BY <1>1, <1>3, <1>4, <1>5, <2>1, DivUnique
<1>7. QED
  BY <1>6 DEF r, A

\* Where a shader of the head reads a byte of the head.
HeadAt(byte, weight, rel) == byte = 4 * weight + rel
IsRebased(off, weight, sh) == off = (weight - sh) % AddressSpan

\* A run of bits within a word of the head.
LEMMA HeadBitsIs ==
  ASSUME NEW blob, NEW sh, NEW lo, NEW hi, Sees(blob, sh, lo, hi), hi < AddressSpan,
         NEW weight \in Nat, NEW rel \in Nat, NEW byte \in Nat, HeadAt(byte, weight, rel),
         Covers(lo, hi, byte, byte), NEW count \in Nat, 8 * (byte % 4) + count <= 32
  PROVE  HeadBits(blob, (weight - sh) % AddressSpan, rel, count) = Bits(byte, count)
<1> DEFINE w == byte \div 4
           r == byte % 4
           o == rel \div 4
<1>1. sh \in Nat /\ AddressSpan \in Nat \ {0} /\ hi \in Nat
  BY BlobAssumption DEF Sees
<1>2. w \in Nat /\ r \in 0 .. 3 /\ byte = 4 * w + r /\ o \in Nat /\ rel = 4 * o + (rel % 4) /\ rel % 4 \in 0 .. 3
  OBVIOUS
<1>3. w = weight + o /\ r = rel % 4
  <2> DEFINE k == rel % 4
  <2>1. byte = 4 * weight + rel
    BY DEF HeadAt
  <2>2. k \in 0 .. 3 /\ rel = 4 * o + k
    BY <1>2
  <2> HIDE DEF k, o, w, r
  <2>3. w = weight + o /\ r = k
    BY <1>2, <2>1, <2>2
  <2>4. QED
    BY <2>3 DEF k
<1>4. lo <= w /\ w <= hi /\ 8 * r + count <= 32
  BY DEF Covers
<1> HIDE DEF w, r, o
<1>5. w - sh \in Nat /\ ReadBlob(blob, w - sh) = 4 * w
  BY <1>2, <1>4, Zenon DEF Sees
<1>6. (((weight - sh) % AddressSpan) + o) % AddressSpan = w - sh
  <2> DEFINE a == weight - sh
             x == w - sh
  <2>1. a \in Int /\ x \in Nat /\ x = a + o /\ x < AddressSpan
    BY <1>1, <1>2, <1>3, <1>4, <1>5
  <2> HIDE DEF a, x
  <2>2. ((a % AddressSpan) + o) % AddressSpan = x
    BY <1>2, <2>1, WrapsBack
  <2>3. QED
    BY <2>2 DEF a, x
<1>7. HeadBits(blob, (weight - sh) % AddressSpan, rel, count) = ExtractBits(4 * w, 8 * r, count)
  <2>1. HeadBits(blob, (weight - sh) % AddressSpan, rel, count)
          = ExtractBits(ReadBlob(blob, (((weight - sh) % AddressSpan) + o) % AddressSpan), 8 * (rel % 4), count)
    BY DEF HeadBits, o
  <2>2. QED
    BY <1>3, <1>5, <1>6, <2>1
<1>8. QED
  BY <1>2, <1>4, <1>7, ExtractIs

\* What the shader of the head reads of a block.
HeadRead(blob, off, pos) ==
  LET Fields(count) == [rel \in BlockOffsets |-> HeadBits(blob, off, pos + rel, count)]
  IN [half |-> Fields(16), byte |-> Fields(8), quad |-> Fields(32)]

\* It is the block of the file; only Q5_0 would need more than a word.
LEMMA HeadIsFaithful ==
  ASSUME NEW blob, NEW sh, NEW lo, NEW hi, Sees(blob, sh, lo, hi), hi < AddressSpan,
         NEW weight \in Nat, NEW pos \in Nat, pos % 2 = 0, NEW start \in Nat,
         HeadAt(start, weight, pos), NEW bytes \in 18 .. 210,
         Covers(lo, hi, start, start + bytes - 1), NEW fmt, fmt # "Q5_0"
  PROVE  Faithful(HeadRead(blob, (weight - sh) % AddressSpan, pos), start, bytes, fmt)
<1> DEFINE off == (weight - sh) % AddressSpan
           read == HeadRead(blob, off, pos)
           file_ == FileBlock(start, bytes)
<1>0. BlockOffsets = 0 .. 209
  <2>1. BlockBytes("Q6_K") = 210
    BY FormulaIs DEF BlockBytes, Registry
  <2>2. QED
    BY <2>1 DEF BlockOffsets
<1>1. ASSUME NEW i \in 0 .. bytes - 1
      PROVE  /\ start + i \in Nat /\ pos + i \in Nat /\ HeadAt(start + i, weight, pos + i)
             /\ Covers(lo, hi, start + i, start + i) /\ i \in BlockOffsets
  <2>1. lo \in Nat /\ hi \in Nat
    BY DEF Sees
  <2>2. start + i \in Nat /\ start <= start + i /\ start + i <= start + bytes - 1
    OBVIOUS
  <2>3. start \div 4 <= (start + i) \div 4 /\ (start + i) \div 4 <= (start + bytes - 1) \div 4
    BY <2>2
  <2>4. lo <= start \div 4 /\ (start + bytes - 1) \div 4 <= hi
    BY DEF Covers
  <2>5. Covers(lo, hi, start + i, start + i)
    BY <2>1, <2>2, <2>3, <2>4 DEF Covers
  <2>6. HeadAt(start + i, weight, pos + i)
    BY DEF HeadAt
  <2>7. QED
    BY <2>2, <2>5, <2>6, <1>0
<1> HIDE DEF off
<1>2. ASSUME NEW i \in 0 .. bytes - 1 PROVE read.byte[i] = file_[i]
  <2>1. read.byte[i] = HeadBits(blob, off, pos + i, 8)
    BY <1>1 DEF HeadRead
  <2>2. file_[i] = Bits(start + i, 8)
    BY DEF FileBlock
  <2>3. 8 * ((start + i) % 4) + 8 <= 32 /\ 8 \in Nat
    BY <1>1
  <2>4. HeadBits(blob, off, pos + i, 8) = Bits(start + i, 8)
    <3> DEFINE b == start + i
               r == pos + i
    <3>1. b \in Nat /\ r \in Nat /\ HeadAt(b, weight, r) /\ Covers(lo, hi, b, b)
      BY <1>1
    <3>2. 8 * (b % 4) + 8 <= 32 /\ 8 \in Nat
      BY <2>3
    <3> HIDE DEF b, r
    <3>3. HeadBits(blob, off, r, 8) = Bits(b, 8)
      BY <3>1, <3>2, HeadBitsIs DEF off
    <3>4. QED
      BY <3>3 DEF b, r
  <2>5. QED
    BY <2>1, <2>2, <2>4
<1>3. ASSUME NEW i \in {0, 2, 208}, i + 1 < bytes PROVE read.half[i] = Field(file_, i, 2)
  <2>1. i \in 0 .. bytes - 1 /\ bytes \in Nat /\ i \in Nat /\ 2 \in Nat /\ i + 2 <= bytes
    BY <1>3
  <2>2. 8 * ((start + i) % 4) + 16 <= 32
    <3>1. (start + i) % 2 = 0
      <4>1. PICK h \in Nat : pos = 2 * h
        <5>1. pos \div 2 \in Nat /\ pos = 2 * (pos \div 2)
          OBVIOUS
        <5>2. QED
          BY <5>1
      <4>2. PICK j \in Nat : i = 2 * j
        <5>1. i \div 2 \in Nat /\ i = 2 * (i \div 2)
          OBVIOUS
        <5>2. QED
          BY <5>1
      <4>3. start + i = 2 * (2 * weight + h + j)
        BY <4>1, <4>2 DEF HeadAt
      <4>4. QED
        BY <4>1, <4>2, <4>3
    <3>2. start + i \in Nat
      BY <1>1, <2>1
    <3>3. QED
      BY <3>1, <3>2
  <2>3. HeadBits(blob, off, pos + i, 16) = Bits(start + i, 16)
    <3> DEFINE b == start + i
               r == pos + i
    <3>1. b \in Nat /\ r \in Nat /\ HeadAt(b, weight, r) /\ Covers(lo, hi, b, b)
      BY <1>1, <2>1
    <3>2. 8 * (b % 4) + 16 <= 32 /\ 16 \in Nat
      BY <2>2
    <3> HIDE DEF b, r
    <3>3. HeadBits(blob, off, r, 16) = Bits(b, 16)
      BY <3>1, <3>2, HeadBitsIs DEF off
    <3>4. QED
      BY <3>3 DEF b, r
  <2>4. read.half[i] = HeadBits(blob, off, pos + i, 16)
    BY <1>1, <2>1 DEF HeadRead
  <2>5. Field(file_, i, 2) = Bits(start + i, 16)
    <3>1. Field(file_, i, 2) = Bits(start + i, 8 * 2)
      BY <2>1, FieldIs
    <3>2. QED
      BY <3>1
  <2>6. QED
    BY <2>3, <2>4, <2>5
<1>4. \A i \in 0 .. bytes - 1 : read.byte[i] = file_[i]
  BY <1>2
<1>5. \A i \in {0, 2, 208} : i + 1 < bytes => read.half[i] = Field(file_, i, 2)
  BY <1>3
<1> HIDE DEF read, file_
<1>6. Faithful(read, start, bytes, fmt)
  BY <1>4, <1>5 DEF Faithful, file_
<1>7. QED
  BY <1>6 DEF read, off

\* A column of a row of the head as its shader computes it.
LEMMA HeadElementIs ==
  ASSUME NEW fmt \in Formats, fmt # "Q5_0",
         NEW blob, NEW sh, NEW lo, NEW hi, Sees(blob, sh, lo, hi), hi < AddressSpan,
         NEW weight \in Nat, NEW off, IsRebased(off, weight, sh), NEW place \in Nat,
         HeadAt(place, weight, 0), NEW start,
         NEW cols \in Nat, cols % BlockElems(fmt) = 0, NEW index \in Nat, NEW col \in 0 .. cols - 1,
         StartAt(start, place, fmt, cols, index, col),
         Covers(lo, hi, start, start + BlockBytes(fmt) - 1)
  PROVE  HeadElement(blob, off, FormulaSlot(fmt), cols, index, col)
           = Dequant(fmt, col % BlockElems(fmt), FileBlock(start, BlockBytes(fmt)))
<1>e. /\ off = (weight - sh) % AddressSpan
      /\ start = BlockStart(4 * weight, BlockElems(fmt), BlockBytes(fmt), cols, index, col)
  <2>1. place = 4 * weight
    BY DEF HeadAt
  <2>2. QED
    BY <2>1 DEF StartAt, IsRebased
<1> USE <1>e
<1>0. start \in Nat
  <2>1. BlockElems(fmt) \in Nat \ {0} /\ BlockBytes(fmt) \in Nat \ {0} /\ 4 * weight \in Nat
    BY FormatSizes
  <2>2. QED
    BY <2>1, BlockStartIs
<1>c. Covers(lo, hi, start, start)
  <2>1. BlockBytes(fmt) \in Nat \ {0} /\ lo \in Nat /\ hi \in Nat
    BY FormatSizes DEF Sees
  <2>2. start \div 4 <= (start + BlockBytes(fmt) - 1) \div 4
    BY <1>0, <2>1
  <2>3. QED
    BY <1>0, <2>1, <2>2 DEF Covers
<1>1. CASE fmt = "F32"
  <2>1. FormulaSlot(fmt) = 0 /\ BlockElems(fmt) = 1 /\ BlockBytes(fmt) = 4
    BY <1>1, FormatIs
  <2> DEFINE n == (index * cols + col) * 4
  <2>2. start = 4 * weight + n /\ n \in Nat /\ start % 4 = 0
    <3>1. cols \div 1 = cols /\ col \div 1 = col /\ index * cols \in Nat
      BY TimesIsNat
    <3>2. start = 4 * weight + index * (cols * 4) + col * 4
      BY <2>1, <3>1 DEF BlockStart
    <3>3. index * (cols * 4) = 4 * (index * cols)
      OBVIOUS
    <3>4. PICK m \in Nat : m = index * cols
      BY <3>1
    <3>5. start = 4 * (weight + m + col) /\ n = 4 * (m + col)
      BY <3>1, <3>2, <3>3, <3>4
    <3>6. QED
      BY <3>4, <3>5
  <2> HIDE DEF n
  <2>3. HeadAt(start, weight, n)
    BY <2>2 DEF HeadAt
  <2>4. 8 * (start % 4) + 32 <= 32 /\ 32 \in Nat
    BY <2>2
  <2>5. HeadBits(blob, off, n, 32) = Bits(start, 32)
    BY <1>0, <1>c, <2>2, <2>3, <2>4, HeadBitsIs
  <2>6. HeadElement(blob, off, 0, cols, index, col) = Plain(HeadBits(blob, off, n, 32))
    BY DEF HeadElement, n
  <2>7. QED
    BY <1>0, <1>1, <2>1, <2>5, <2>6, PlainF32Is
<1>2. CASE fmt = "F16"
  <2>1. FormulaSlot(fmt) = 1 /\ BlockElems(fmt) = 1 /\ BlockBytes(fmt) = 2
    BY <1>2, FormatIs
  <2> DEFINE n == (index * cols + col) * 2
  <2>2. start = 4 * weight + n /\ n \in Nat /\ start % 2 = 0
    <3>1. cols \div 1 = cols /\ col \div 1 = col /\ index * cols \in Nat
      BY TimesIsNat
    <3>2. start = 4 * weight + index * (cols * 2) + col * 2
      BY <2>1, <3>1 DEF BlockStart
    <3>3. index * (cols * 2) = 2 * (index * cols)
      OBVIOUS
    <3>4. PICK m \in Nat : m = index * cols
      BY <3>1
    <3>5. start = 2 * (2 * weight + m + col) /\ n = 2 * (m + col)
      BY <3>1, <3>2, <3>3, <3>4
    <3>6. QED
      BY <3>4, <3>5
  <2> HIDE DEF n
  <2>3. HeadAt(start, weight, n)
    BY <2>2 DEF HeadAt
  <2>4. 8 * (start % 4) + 16 <= 32 /\ 16 \in Nat
    BY <1>0, <2>2
  <2>5. HeadBits(blob, off, n, 16) = Bits(start, 16)
    BY <1>0, <1>c, <2>2, <2>3, <2>4, HeadBitsIs
  <2>6. HeadElement(blob, off, 1, cols, index, col) = Plain(HeadBits(blob, off, n, 16))
    BY DEF HeadElement, n
  <2>7. col % 1 = 0
    OBVIOUS
  <2>8. QED
    BY <1>0, <1>2, <2>1, <2>5, <2>6, <2>7, PlainF16Is
<1>3. CASE fmt \notin {"F32", "F16"}
  <2>1. PICK slot, elems, bytes : IsBlockFormat(fmt, slot, elems, bytes)
    BY <1>3, FormatIs
  <2>2. /\ FormulaSlot(fmt) = slot /\ BlockElems(fmt) = elems /\ BlockBytes(fmt) = bytes
        /\ slot \in 2 .. 7 /\ elems \in {32, 256} /\ bytes \in 18 .. 210 /\ bytes % 2 = 0
        /\ QuantElems[slot + 1] = elems /\ QuantBytes[slot + 1] = bytes
    BY <2>1 DEF IsBlockFormat, QuantElems, QuantBytes
  <2> DEFINE k == cols \div elems
             j == col \div elems
             q == index * k
             block == (q + j) * bytes
  <2>3. k \in Nat /\ j \in Nat /\ q \in Nat
    BY <2>2, TimesIsNat
  <2>4. HeadElement(blob, off, slot, cols, index, col) = HeadBlock(blob, off, slot, block, col % elems)
    <3>1. slot # 1 /\ slot # 0
      BY <2>2
    <3>2. QED
      BY <2>2, <3>1 DEF HeadElement
  <2>5. start = 4 * weight + index * (k * bytes) + j * bytes
    BY <2>2 DEF BlockStart
  <2> HIDE DEF k, j
  <2>6. index * (k * bytes) = q * bytes
    BY <2>2, <2>3
  <2> HIDE DEF q
  <2>7. PICK h \in Nat : bytes = 2 * h
    <3>1. bytes \div 2 \in Nat /\ bytes = 2 * (bytes \div 2)
      BY <2>2
    <3>2. QED
      BY <3>1
  <2>8. block = q * bytes + j * bytes /\ block \in Nat /\ block % 2 = 0
    <3>1. q + j \in Nat /\ bytes \in Nat /\ (q + j) * h \in Nat
      BY <2>2, <2>3, <2>7, TimesIsNat
    <3>2. block = 2 * ((q + j) * h) /\ block = q * bytes + j * bytes
      BY <2>3, <2>7, <3>1
    <3>3. QED
      BY <3>1, <3>2
  <2> HIDE DEF block
  <2>9. HeadAt(start, weight, block)
    <3>1. start = 4 * weight + q * bytes + j * bytes
      BY <2>5, <2>6
    <3>2. q * bytes \in Nat /\ j * bytes \in Nat
      BY <2>2, <2>3, TimesIsNat
    <3>3. QED
      BY <2>8, <3>1, <3>2 DEF HeadAt
  <2>10. Covers(lo, hi, start, start + bytes - 1)
    BY <2>2
  <2>11. Faithful(HeadRead(blob, off, block), start, bytes, fmt)
    <3>1. Faithful(HeadRead(blob, (weight - sh) % AddressSpan, block), start, bytes, fmt)
      <4>1. bytes \in 18 .. 210 /\ block \in Nat /\ block % 2 = 0
        BY <2>2, <2>8
      <4>2. QED
        BY ONLY <1>0, <2>9, <2>10, <4>1, HeadIsFaithful, fmt # "Q5_0",
                Sees(blob, sh, lo, hi), hi < AddressSpan, weight \in Nat
    <3>2. QED
      BY ONLY <3>1, <1>e
  <2>12. HeadBlock(blob, off, slot, block, col % elems) = DequantByFormula(slot, col % elems, HeadRead(blob, off, block))
    BY DEF HeadBlock, HeadRead
  <2>13. col % elems \in 0 .. elems - 1
    BY <2>2
  <2>14. DequantByFormula(slot, col % elems, HeadRead(blob, off, block)) = Dequant(fmt, col % elems, FileBlock(start, bytes))
    BY <1>0, <2>1, <2>11, <2>13, DecodersAgree
  <2>15. QED
    BY <2>2, <2>4, <2>12, <2>14
<1>4. QED
  BY <1>1, <1>2, <1>3

-----------------------------------------------------------------------------
(* The loops of the CPU.                                                   *)

\* Two bytes of a block are a half.
LEMMA HalfIs ==
  ASSUME NEW start \in Nat, NEW bytes \in Nat, NEW i \in Nat, i + 2 <= bytes
  PROVE  HalfAt(FileBlock(start, bytes), i) = Field(FileBlock(start, bytes), i, 2)
<1> DEFINE a == start + i
           b == start + (i + 1)
<1>1. /\ a \in Nat /\ b \in Nat /\ 8 * b = 8 * a + 8 /\ 16 = 8 + 8 /\ 8 \in Nat /\ 16 \in Nat
      /\ i \in 0 .. bytes - 1 /\ i + 1 \in 0 .. bytes - 1 /\ 2 \in Nat /\ 8 * 2 = 16
  OBVIOUS
<1>2. FileBlock(start, bytes)[i] = Bits(a, 8) /\ FileBlock(start, bytes)[i + 1] = Bits(b, 8)
  BY <1>1 DEF FileBlock
<1>3. Field(FileBlock(start, bytes), i, 2) = Bits(a, 8 * 2)
  BY <1>1, FieldIs
<1> HIDE DEF a, b
<1>4. Joined(Bits(a, 8), Bits(b, 8)) = Bits(a, 16)
  BY <1>1, BitsJoin
<1>5. HalfAt(FileBlock(start, bytes), i) = Joined(Bits(a, 8), Bits(b, 8))
  <2>1. HalfAt(FileBlock(start, bytes), i) = FileBlock(start, bytes)[i] \o FileBlock(start, bytes)[i + 1]
    BY DEF HalfAt
  <2>2. QED
    BY <1>2, <2>1, Zenon DEF Joined
<1>6. QED
  BY <1>1, <1>3, <1>4, <1>5

\* Two halves are a word.
LEMMA WordOfHalves ==
  ASSUME NEW start \in Nat
  PROVE  HalfAt(FileBlock(start, 4), 0) \o HalfAt(FileBlock(start, 4), 2) = Field(FileBlock(start, 4), 0, 4)
<1> DEFINE a == start + 0
           b == start + 2
<1>1. /\ a \in Nat /\ b \in Nat /\ 8 * b = 8 * a + 16 /\ 32 = 16 + 16 /\ 16 \in Nat /\ 32 \in Nat
      /\ 0 \in Nat /\ 2 \in Nat /\ 4 \in Nat /\ 8 * 2 = 16 /\ 8 * 4 = 32 /\ 0 + 2 <= 4 /\ 2 + 2 <= 4 /\ 0 + 4 <= 4
  OBVIOUS
<1>2. Field(FileBlock(start, 4), 0, 2) = Bits(a, 8 * 2)
  BY <1>1, FieldIs
<1>3. Field(FileBlock(start, 4), 2, 2) = Bits(b, 8 * 2)
  BY <1>1, FieldIs
<1>4. Field(FileBlock(start, 4), 0, 4) = Bits(a, 8 * 4)
  BY <1>1, FieldIs
<1>5. HalfAt(FileBlock(start, 4), 0) = Bits(a, 16) /\ HalfAt(FileBlock(start, 4), 2) = Bits(b, 16)
  BY <1>1, <1>2, <1>3, HalfIs
<1> HIDE DEF a, b
<1>6. Joined(Bits(a, 16), Bits(b, 16)) = Bits(a, 32)
  BY <1>1, BitsJoin
<1>7. HalfAt(FileBlock(start, 4), 0) \o HalfAt(FileBlock(start, 4), 2) = Bits(a, 32)
  BY <1>5, <1>6, Zenon DEF Joined
<1>8. QED
  BY <1>1, <1>4, <1>7

\* A set of positions and elements has exactly one element at a position.
OneAt(pairs, e, value) == <<e, value>> \in pairs /\ \A p \in pairs : p[1] = e => p[2] = value

\* Q4_0.
LEMMA CpuQ40Is ==
  ASSUME NEW start \in Nat, NEW e \in 0 .. 31
  PROVE  OneAt(CpuQ40(FileBlock(start, 18)), e, DequantQ40(e, FileBlock(start, 18)))
<1> DEFINE block == FileBlock(start, 18)
           d == HalfAt(block, 0)
           LowAt(j) == <<j, Scaled(d, Low(block[2 + j]))>>
           HighAt(j) == <<j + 16, Scaled(d, High(block[2 + j]))>>
           pairs == UNION { {LowAt(j), HighAt(j)} : j \in 0 .. 15 }
           value == DequantQ40(e, block)
<1>1. CpuQ40(block) = pairs
  BY DEF CpuQ40
<1>2. d = Field(block, 0, 2)
  BY HalfIs
<1>3. value = Scaled(d, IF e < 16 THEN Low(block[2 + (e % 16)]) ELSE High(block[2 + (e % 16)]))
  BY <1>2 DEF DequantQ40, Nibble
<1> HIDE DEF d, value, block
<1>4. <<e, value>> \in pairs
  <2>1. CASE e < 16
    <3>1. e \in 0 .. 15 /\ e % 16 = e
      BY <2>1
    <3>2. <<e, value>> = LowAt(e)
      BY <1>3, <2>1, <3>1
    <3>3. QED
      BY <3>1, <3>2
  <2>2. CASE ~(e < 16)
    <3>1. e - 16 \in 0 .. 15 /\ e % 16 = e - 16 /\ (e - 16) + 16 = e
      BY <2>2
    <3>2. <<e, value>> = HighAt(e - 16)
      BY <1>3, <2>2, <3>1
    <3>3. QED
      BY <3>1, <3>2
  <2>3. QED
    BY <2>1, <2>2
<1>5. ASSUME NEW p \in pairs, p[1] = e PROVE p[2] = value
  <2>1. PICK j \in 0 .. 15 : p = LowAt(j) \/ p = HighAt(j)
    OBVIOUS
  <2>2. CASE p = LowAt(j)
    <3>1. p[1] = j /\ p[2] = Scaled(d, Low(block[2 + j]))
      BY <2>2
    <3>2. e < 16 /\ e % 16 = j
      BY <3>1, <1>5
    <3>3. QED
      BY <1>3, <3>1, <3>2
  <2>3. CASE p = HighAt(j)
    <3>1. p[1] = j + 16 /\ p[2] = Scaled(d, High(block[2 + j]))
      BY <2>3
    <3>2. ~(e < 16) /\ e % 16 = j
      BY <3>1, <1>5
    <3>3. QED
      BY <1>3, <3>1, <3>2
  <2>4. QED
    BY <2>1, <2>2, <2>3
<1>6. OneAt(pairs, e, value)
  BY <1>4, <1>5 DEF OneAt
<1>7. QED
  BY <1>1, <1>6 DEF block, value

\* Q8_0.
LEMMA CpuQ80Is ==
  ASSUME NEW start \in Nat, NEW e \in 0 .. 31
  PROVE  OneAt(CpuQ80(FileBlock(start, 34)), e, DequantQ80(e, FileBlock(start, 34)))
<1> DEFINE block == FileBlock(start, 34)
           At(i) == <<i, Scaled(HalfAt(block, 0), block[2 + i])>>
           pairs == { At(i) : i \in 0 .. 31 }
           value == DequantQ80(e, block)
<1>1. CpuQ80(block) = pairs
  BY DEF CpuQ80
<1>2. HalfAt(block, 0) = Field(block, 0, 2)
  BY HalfIs
<1>3. value = Scaled(HalfAt(block, 0), block[2 + e])
  BY <1>2 DEF DequantQ80
<1> HIDE DEF value, block
<1>4. <<e, value>> \in pairs
  BY <1>3
<1>5. ASSUME NEW p \in pairs, p[1] = e PROVE p[2] = value
  BY <1>3, <1>5
<1>6. OneAt(pairs, e, value)
  BY <1>4, <1>5 DEF OneAt
<1>7. QED
  BY <1>1, <1>6 DEF block, value

RunPlace(e, group, sub, l) == e = 64 * group + 32 * sub + l

\* The place of an element among the runs of a block of 256, and back.
LEMMA RunIs ==
  ASSUME NEW group \in 0 .. 3, NEW sub \in 0 .. 1, NEW l \in 0 .. 31,
         NEW e, RunPlace(e, group, sub, l)
  PROVE  /\ e \in 0 .. 255 /\ e \div 64 = group /\ (e % 64) \div 32 = sub /\ e % 32 = l
         /\ e \div 32 = 2 * group + sub
  BY DEF RunPlace

\* Both ways of the runs.
LEMMA RunOf ==
  ASSUME NEW e \in 0 .. 255
  PROVE  \E group \in 0 .. 3, sub \in 0 .. 1, l \in 0 .. 31 :
           /\ RunPlace(e, group, sub, l) /\ e \div 64 = group /\ (e % 64) \div 32 = sub
           /\ e % 32 = l /\ e \div 32 = 2 * group + sub
<1>1. /\ e \div 64 \in 0 .. 3 /\ (e % 64) \div 32 \in 0 .. 1 /\ e % 32 \in 0 .. 31
      /\ e = 64 * (e \div 64) + 32 * ((e % 64) \div 32) + (e % 32)
      /\ e \div 32 = 2 * (e \div 64) + (e % 64) \div 32
  OBVIOUS
<1>2. QED
  BY <1>1 DEF RunPlace

\* Four bits of a byte, with nothing after them.
LEMMA NibbleAlone ==
  ASSUME NEW b \in Nat, NEW low \in BOOLEAN
  PROVE  Nibble(Bits(b, 8), low) \o <<>> = Nibble(Bits(b, 8), low)
<1>1. Bits(b, 8) \in Seq(Nat) /\ Len(Bits(b, 8)) = 8 /\ \A i \in 1 .. 8 : Bits(b, 8)[i] = 8 * b + i - 1
  <2>1. 8 \in Nat
    OBVIOUS
  <2>2. QED
    BY <2>1, BitsAreSeq
<1>2. Low(Bits(b, 8)) \in Seq(Nat) /\ High(Bits(b, 8)) \in Seq(Nat)
  <2> DEFINE s == Bits(b, 8)
  <2> HIDE DEF s
  <2>1. \A i \in 1 .. 8 : s[i] = 8 * b + i - 1
    BY <1>1 DEF s
  <2>2. (\A i \in 1 .. 4 : s[i] \in Nat) /\ (\A i \in 5 .. 8 : s[i] \in Nat)
    BY <2>1
  <2>3. SubSeq(s, 1, 4) \in Seq(Nat)
    BY <2>2, SubSeqProperties
  <2>4. SubSeq(s, 5, 8) \in Seq(Nat)
    BY <2>2, SubSeqProperties
  <2>5. QED
    BY <2>3, <2>4 DEF Low, High, s
<1>3. Low(Bits(b, 8)) \o <<>> = Low(Bits(b, 8)) /\ High(Bits(b, 8)) \o <<>> = High(Bits(b, 8))
  BY <1>2
<1>4. QED
  BY <1>3 DEF Nibble
\* The element at a place of the runs.
RunElement(block, qs, high, group, sub, l) ==
  LET sm == ScaleMin(2 * group + sub, [j \in 0 .. 11 |-> block[4 + j]])
  IN [d |-> Field(block, 0, 2), dmin |-> Field(block, 2, 2), sc |-> sm.sc, m |-> sm.m,
      q |-> Nibble(block[qs + 32 * group + l], sub = 0) \o high[2 * group + sub][l]]
\* The runs of a block of 256: each position once, from its group, its half
\* of the group and its place in the half.
LEMMA CpuRunsAre ==
  ASSUME NEW start \in Nat, NEW bytes \in Nat, bytes >= 16, NEW qs, NEW high,
         NEW group \in 0 .. 3, NEW sub \in 0 .. 1, NEW l \in 0 .. 31,
         NEW e, RunPlace(e, group, sub, l)
  PROVE  OneAt(CpuRuns(FileBlock(start, bytes), qs, high), e,
               RunElement(FileBlock(start, bytes), qs, high, group, sub, l))
<1> DEFINE block == FileBlock(start, bytes)
           scale == [j \in 0 .. 11 |-> block[4 + j]]
           El(g, s, k) ==
             [d |-> HalfAt(block, 0), dmin |-> HalfAt(block, 2),
              sc |-> ScaleMin(2 * g + s, scale).sc, m |-> ScaleMin(2 * g + s, scale).m,
              q |-> Nibble(block[qs + 32 * g + k], s = 0) \o high[2 * g + s][k]]
           pairs == { <<64 * g + 32 * s + k, El(g, s, k)>> : g \in 0 .. 3, s \in 0 .. 1, k \in 0 .. 31 }
           value == El(group, sub, l)
<1>0. e = 64 * group + 32 * sub + l
  BY DEF RunPlace
<1>1. CpuRuns(block, qs, high) = pairs
  BY DEF CpuRuns
<1>2. HalfAt(block, 0) = Field(block, 0, 2) /\ HalfAt(block, 2) = Field(block, 2, 2)
  <2>1. 0 \in Nat /\ 2 \in Nat /\ 0 + 2 <= bytes /\ 2 + 2 <= bytes
    OBVIOUS
  <2>2. QED
    BY <2>1, HalfIs
<1>3. RunElement(block, qs, high, group, sub, l) = value
  BY <1>2 DEF RunElement
<1> HIDE DEF El
<1>4. <<e, value>> \in pairs
  BY <1>0
<1>5. ASSUME NEW p \in pairs, p[1] = e PROVE p[2] = value
  <2>1. PICK g \in 0 .. 3, s \in 0 .. 1, k \in 0 .. 31 : p = <<64 * g + 32 * s + k, El(g, s, k)>>
    OBVIOUS
  <2>2. e = 64 * g + 32 * s + k
    BY <2>1, <1>5
  <2>3. g = group /\ s = sub /\ k = l
    BY <1>0, <2>2
  <2>4. QED
    BY <2>1, <2>3
<1> HIDE DEF pairs, value
<1>6. OneAt(pairs, e, value)
  BY <1>4, <1>5 DEF OneAt
<1>7. QED
  BY <1>1, <1>3, <1>6

\* Q4_K.
LEMMA CpuQ4KIs ==
  ASSUME NEW start \in Nat, NEW e \in 0 .. 255
  PROVE  OneAt(CpuQ4K(FileBlock(start, 144)), e, DequantQ4K(e, FileBlock(start, 144)))
<1> DEFINE block == FileBlock(start, 144)
           high == [bit \in 0 .. 7 |-> [l \in 0 .. 31 |-> <<>>]]
<1>1. PICK group \in 0 .. 3, sub \in 0 .. 1, l \in 0 .. 31 :
        /\ RunPlace(e, group, sub, l) /\ e \div 64 = group /\ (e % 64) \div 32 = sub
        /\ e % 32 = l /\ e \div 32 = 2 * group + sub
  BY RunOf
<1>2. e \div 64 = group /\ (e % 64) \div 32 = sub /\ e % 32 = l
  BY <1>1
<1> DEFINE sm == ScaleMin(2 * group + sub, [j \in 0 .. 11 |-> block[4 + j]])
           at == 16 + 32 * group + l
<1>3. CpuQ4K(block) = CpuRuns(block, 16, high)
  BY DEF CpuQ4K
<1>4. 2 * group + sub \in 0 .. 7 /\ high[2 * group + sub][l] = <<>>
  <2> DEFINE run == 2 * group + sub
  <2>1. run \in 0 .. 7
    OBVIOUS
  <2> HIDE DEF run
  <2>2. high[run][l] = <<>>
    BY <2>1
  <2>3. QED
    BY <2>1, <2>2 DEF run
<1>5. Nibble(block[at], sub = 0) \o <<>> = Nibble(block[at], sub = 0)
  <2>1. at \in 0 .. 143 /\ start + at \in Nat
    OBVIOUS
  <2>2. block[at] = Bits(start + at, 8)
    BY <2>1 DEF FileBlock
  <2>3. (sub = 0) \in BOOLEAN
    OBVIOUS
  <2>4. \A low \in BOOLEAN : Nibble(Bits(start + at, 8), low) \o <<>> = Nibble(Bits(start + at, 8), low)
    BY <2>1, NibbleAlone, Zenon
  <2>5. QED
    BY <2>2, <2>3, <2>4, Zenon
<1>6. DequantQ4K(e, block)
        = [d |-> Field(block, 0, 2), dmin |-> Field(block, 2, 2), sc |-> sm.sc, m |-> sm.m,
           q |-> Nibble(block[at], sub = 0)]
  BY <1>2 DEF DequantQ4K
<1>7. OneAt(CpuRuns(block, 16, high), e, RunElement(block, 16, high, group, sub, l))
  <2>1. 144 \in Nat /\ 144 >= 16
    OBVIOUS
  <2>2. RunPlace(e, group, sub, l)
    BY <1>1
  <2> HIDE DEF high
  <2>3. QED
    BY <2>1, <2>2, CpuRunsAre
<1>8. RunElement(block, 16, high, group, sub, l) = DequantQ4K(e, block)
  <2> DEFINE out(q) == [d |-> Field(block, 0, 2), dmin |-> Field(block, 2, 2),
                        sc |-> sm.sc, m |-> sm.m, q |-> q]
             joined == Nibble(block[at], sub = 0) \o high[2 * group + sub][l]
             alone == Nibble(block[at], sub = 0)
  <2>1. RunElement(block, 16, high, group, sub, l) = out(joined)
    BY Zenon DEF RunElement
  <2>2. DequantQ4K(e, block) = out(alone)
    BY <1>6
  <2> HIDE DEF sm, at, high, out
  <2>3. joined = alone
    BY <1>4, <1>5, Zenon
  <2> HIDE DEF joined, alone
  <2>4. QED
    BY <2>1, <2>2, <2>3
<1>9. QED
  BY <1>3, <1>7, <1>8, Zenon

\* Q5_K.
LEMMA CpuQ5KIs ==
  ASSUME NEW start \in Nat, NEW e \in 0 .. 255
  PROVE  OneAt(CpuQ5K(FileBlock(start, 176)), e, DequantQ5K(e, FileBlock(start, 176)))
<1> DEFINE block == FileBlock(start, 176)
           high == [bit \in 0 .. 7 |-> [l \in 0 .. 31 |-> Bit(block[16 + l], bit)]]
<1>1. PICK group \in 0 .. 3, sub \in 0 .. 1, l \in 0 .. 31 :
        /\ RunPlace(e, group, sub, l) /\ e \div 64 = group /\ (e % 64) \div 32 = sub
        /\ e % 32 = l /\ e \div 32 = 2 * group + sub
  BY RunOf
<1>2. e \div 64 = group /\ (e % 64) \div 32 = sub /\ e % 32 = l /\ e \div 32 = 2 * group + sub
  BY <1>1
<1> DEFINE sm == ScaleMin(2 * group + sub, [j \in 0 .. 11 |-> block[4 + j]])
           at == 48 + 32 * group + l
<1>3. CpuQ5K(block) = CpuRuns(block, 48, high)
  BY DEF CpuQ5K
<1>4. 2 * group + sub \in 0 .. 7 /\ high[2 * group + sub][l] = Bit(block[16 + l], 2 * group + sub)
  OBVIOUS
<1>5. DequantQ5K(e, block)
        = [d |-> Field(block, 0, 2), dmin |-> Field(block, 2, 2), sc |-> sm.sc, m |-> sm.m,
           q |-> Nibble(block[at], sub = 0) \o Bit(block[16 + l], 2 * group + sub)]
  BY <1>2, Zenon DEF DequantQ5K
<1>6. OneAt(CpuRuns(block, 48, high), e, RunElement(block, 48, high, group, sub, l))
  <2>1. 176 \in Nat /\ 176 >= 16
    OBVIOUS
  <2>2. RunPlace(e, group, sub, l)
    BY <1>1
  <2> HIDE DEF high
  <2>3. QED
    BY <2>1, <2>2, CpuRunsAre
<1>7. RunElement(block, 48, high, group, sub, l) = DequantQ5K(e, block)
  <2> DEFINE out(q) == [d |-> Field(block, 0, 2), dmin |-> Field(block, 2, 2),
                        sc |-> sm.sc, m |-> sm.m, q |-> q]
             joined == Nibble(block[at], sub = 0) \o high[2 * group + sub][l]
             packed == Nibble(block[at], sub = 0) \o Bit(block[16 + l], 2 * group + sub)
  <2>1. RunElement(block, 48, high, group, sub, l) = out(joined)
    BY Zenon DEF RunElement
  <2>2. DequantQ5K(e, block) = out(packed)
    BY <1>5
  <2> HIDE DEF sm, at, high, out
  <2>3. joined = packed
    BY <1>4, Zenon
  <2> HIDE DEF joined, packed
  <2>4. QED
    BY <2>1, <2>2, <2>3
<1>8. QED
  BY <1>3, <1>6, <1>7, Zenon

\* Q6_K.
LEMMA CpuQ6KIs ==
  ASSUME NEW start \in Nat, NEW e \in 0 .. 255
  PROVE  OneAt(CpuQ6K(FileBlock(start, 210)), e, DequantQ6K(e, FileBlock(start, 210)))
<1> DEFINE block == FileBlock(start, 210)
           El(n, l, k) ==
             [Scaled(HalfAt(block, 208),
                     Nibble(block[64 * n + l + 32 * (k % 2)], k < 2)
                     \o SubSeq(block[128 + 32 * n + l], 2 * k + 1, 2 * k + 2))
                EXCEPT !.sc = block[192 + 8 * n + (l \div 16) + 2 * k]]
           pairs == { <<128 * n + l + 32 * k, El(n, l, k)>> : n \in 0 .. 1, l \in 0 .. 31, k \in 0 .. 3 }
           half == e \div 128
           col == e % 32
           quarter == (e % 128) \div 32
           value == El(half, col, quarter)
<1>1. CpuQ6K(block) = pairs
  BY DEF CpuQ6K
<1>2. /\ half \in 0 .. 1 /\ col \in 0 .. 31 /\ quarter \in 0 .. 3
      /\ e = 128 * half + col + 32 * quarter
  OBVIOUS
<1>3. DequantQ6K(e, block) = value
  <2>1. HalfAt(block, 208) = Field(block, 208, 2)
    <3>1. 208 \in Nat /\ 210 \in Nat /\ 208 + 2 <= 210
      OBVIOUS
    <3>2. QED
      BY <3>1, HalfIs
  <2>2. (IF quarter \in {0, 2} THEN 64 * half + col ELSE 64 * half + col + 32) = 64 * half + col + 32 * (quarter % 2)
    BY <1>2
  <2> DEFINE q6(ql, d) ==
               [Scaled(d, Nibble(block[ql], quarter < 2)
                          \o SubSeq(block[128 + 32 * half + col], 2 * quarter + 1, 2 * quarter + 2))
                  EXCEPT !.sc = block[192 + 8 * half + (col \div 16) + 2 * quarter]]
  <2>3. DequantQ6K(e, block)
          = q6(IF quarter \in {0, 2} THEN 64 * half + col ELSE 64 * half + col + 32, Field(block, 208, 2))
    BY Zenon DEF DequantQ6K
  <2>4. value = q6(64 * half + col + 32 * (quarter % 2), HalfAt(block, 208))
    OBVIOUS
  <2> HIDE DEF q6, value
  <2>5. QED
    BY <2>1, <2>2, <2>3, <2>4
<1> HIDE DEF El, half, col, quarter
<1>4. <<e, value>> \in pairs
  BY <1>2
<1>5. ASSUME NEW p \in pairs, p[1] = e PROVE p[2] = value
  <2>1. PICK n \in 0 .. 1, l \in 0 .. 31, k \in 0 .. 3 : p = <<128 * n + l + 32 * k, El(n, l, k)>>
    OBVIOUS
  <2>2. e = 128 * n + l + 32 * k
    BY <2>1, <1>5
  <2>3. n = half /\ k = quarter /\ l = col
    BY <1>2, <2>2
  <2>4. QED
    BY <2>1, <2>3
<1> HIDE DEF pairs, value
<1>6. OneAt(pairs, e, value)
  BY <1>4, <1>5 DEF OneAt
<1>7. QED
  BY <1>1, <1>3, <1>6

\* The loops write each position of a block once, with what the registry says.
LEMMA CpuAgrees ==
  ASSUME NEW fmt \in CpuFormats, NEW start \in Nat, NEW e \in 0 .. BlockElems(fmt) - 1
  PROVE  { pair[2] : pair \in { p \in CpuBlock(fmt, FileBlock(start, BlockBytes(fmt))) : p[1] = e } }
           = {Dequant(fmt, e, FileBlock(start, BlockBytes(fmt)))}
<1> DEFINE block == FileBlock(start, BlockBytes(fmt))
           pairs == CpuBlock(fmt, block)
           value == Dequant(fmt, e, block)
<1>0. fmt \in Formats
  BY FormatsAre DEF CpuFormats
<1>1. CASE fmt = "F32"
  <2>1. BlockElems(fmt) = 1 /\ BlockBytes(fmt) = 4
    BY <1>0, <1>1, FormatIs
  <2>2. e = 0
    BY <2>1
  <2>3. pairs = { <<0, Plain(HalfAt(block, 0) \o HalfAt(block, 2))>> }
    BY <1>1 DEF CpuBlock
  <2>4. Plain(HalfAt(block, 0) \o HalfAt(block, 2)) = Plain(Field(block, 0, 4))
    BY <2>1, WordOfHalves, Zenon
  <2>5. value = Plain(Field(block, 0, 4))
    BY <1>1 DEF Dequant
  <2>6. pairs = { <<e, value>> }
    BY <2>2, <2>3, <2>4, <2>5, Zenon
  <2> HIDE DEF pairs, value
  <2>7. OneAt(pairs, e, value)
    BY <2>6 DEF OneAt
  <2>8. QED
    BY <2>7 DEF OneAt, pairs, value
<1>2. CASE fmt = "Q4_0"
  <2>1. BlockElems(fmt) = 32 /\ BlockBytes(fmt) = 18
    BY <1>2, FormulaIs DEF BlockElems, BlockBytes, Registry
  <2>2. pairs = CpuQ40(block) /\ value = DequantQ40(e, block)
    BY <1>2 DEF CpuBlock, Dequant
  <2>3. OneAt(CpuQ40(FileBlock(start, 18)), e, DequantQ40(e, FileBlock(start, 18)))
    BY <2>1, CpuQ40Is
  <2>4. QED
    BY <2>1, <2>2, <2>3 DEF OneAt
<1>3. CASE fmt = "Q8_0"
  <2>1. BlockElems(fmt) = 32 /\ BlockBytes(fmt) = 34
    BY <1>3, FormulaIs DEF BlockElems, BlockBytes, Registry
  <2>2. pairs = CpuQ80(block) /\ value = DequantQ80(e, block)
    BY <1>3 DEF CpuBlock, Dequant
  <2>3. OneAt(CpuQ80(FileBlock(start, 34)), e, DequantQ80(e, FileBlock(start, 34)))
    BY <2>1, CpuQ80Is
  <2>4. QED
    BY <2>1, <2>2, <2>3 DEF OneAt
<1>4. CASE fmt = "Q4_K"
  <2>1. BlockElems(fmt) = 256 /\ BlockBytes(fmt) = 144
    BY <1>4, FormulaIs DEF BlockElems, BlockBytes, Registry
  <2>2. pairs = CpuQ4K(block) /\ value = DequantQ4K(e, block)
    BY <1>4 DEF CpuBlock, Dequant
  <2>3. OneAt(CpuQ4K(FileBlock(start, 144)), e, DequantQ4K(e, FileBlock(start, 144)))
    BY <2>1, CpuQ4KIs
  <2>4. QED
    BY <2>1, <2>2, <2>3 DEF OneAt
<1>5. CASE fmt = "Q5_K"
  <2>1. BlockElems(fmt) = 256 /\ BlockBytes(fmt) = 176
    BY <1>5, FormulaIs DEF BlockElems, BlockBytes, Registry
  <2>2. pairs = CpuQ5K(block) /\ value = DequantQ5K(e, block)
    BY <1>5 DEF CpuBlock, Dequant
  <2>3. OneAt(CpuQ5K(FileBlock(start, 176)), e, DequantQ5K(e, FileBlock(start, 176)))
    BY <2>1, CpuQ5KIs
  <2>4. QED
    BY <2>1, <2>2, <2>3 DEF OneAt
<1>6. CASE fmt = "Q6_K"
  <2>1. BlockElems(fmt) = 256 /\ BlockBytes(fmt) = 210
    BY <1>6, FormulaIs DEF BlockElems, BlockBytes, Registry
  <2>2. pairs = CpuQ6K(block) /\ value = DequantQ6K(e, block)
    BY <1>6 DEF CpuBlock, Dequant
  <2>3. OneAt(CpuQ6K(FileBlock(start, 210)), e, DequantQ6K(e, FileBlock(start, 210)))
    BY <2>1, CpuQ6KIs
  <2>4. QED
    BY <2>1, <2>2, <2>3 DEF OneAt
<1>7. QED
  BY <1>1, <1>2, <1>3, <1>4, <1>5, <1>6 DEF CpuFormats

-----------------------------------------------------------------------------
(* Sequences of checks, and the tensors a file and its graph name.         *)

\* The codes of the descriptor.
Codes ==
  {"missing_tensor", "invalid_tensor_shape", "unsupported_norm_precision",
   "unsupported_operator_quantization", "unsupported_architecture",
   "unsupported_execution_requirement", "invalid_dimension", "invalid_gqa", "missing_metadata",
   "invalid_head_dimension", "unsupported_value_dimension", "invalid_rope", "vocabulary_mismatch",
   "unsupported_position_semantics", "unsupported_attention_semantics", "unplanned_tensor"}

\* When no check is reported, all have passed.
LEMMA AllPassed ==
  ASSUME NEW C, OK \notin C, NEW checks \in Seq(C \X BOOLEAN), FirstFailure(checks) = OK
  PROVE  \A i \in DOMAIN checks : checks[i][2]
<1> DEFINE failed == { i \in DOMAIN checks : ~checks[i][2] }
<1>1. failed = {}
  <2>1. SUFFICES ASSUME failed # {} PROVE FALSE
    OBVIOUS
  <2>2. failed \subseteq Nat
    OBVIOUS
  <2>3. PICK least \in failed : \A j \in failed : least <= j
    BY <2>1, <2>2, LeastElement
  <2> DEFINE first == CHOOSE i \in failed : \A j \in failed : i <= j
  <2>4. first \in failed
    BY <2>3
  <2>5. FirstFailure(checks) = checks[first][1]
    BY <2>1 DEF FirstFailure
  <2>6. checks[first][1] \in C
    BY <2>4
  <2>7. QED
    BY <2>5, <2>6
<1>2. QED
  BY <1>1

\* A failed check is reported, by its code.
LEMMA FailureIs ==
  ASSUME NEW C, NEW checks \in Seq(C \X BOOLEAN), FirstFailure(checks) # OK
  PROVE  \E i \in DOMAIN checks : ~checks[i][2] /\ FirstFailure(checks) = checks[i][1]
<1> DEFINE failed == { i \in DOMAIN checks : ~checks[i][2] }
<1>1. failed # {}
  BY DEF FirstFailure
<1>2. failed \subseteq Nat
  OBVIOUS
<1>3. PICK least \in failed : \A j \in failed : least <= j
  BY <1>1, <1>2, LeastElement
<1> DEFINE first == CHOOSE i \in failed : \A j \in failed : i <= j
<1>4. first \in failed
  BY <1>3
<1>5. FirstFailure(checks) = checks[first][1]
  BY <1>1 DEF FirstFailure
<1>6. QED
  BY <1>4, <1>5

\* The parts of a sequence of checks.
LEMMA PartsPassed ==
  ASSUME NEW a \in Seq(Codes \X BOOLEAN), NEW b \in Seq(Codes \X BOOLEAN),
         NEW c \in Seq(Codes \X BOOLEAN), FirstFailure(a \o b \o c) = OK
  PROVE  /\ \A i \in DOMAIN a : a[i][2]
         /\ \A x \in Range(b) : x[2]
         /\ \A i \in DOMAIN c : c[i][2]
<1> DEFINE S == Codes \X BOOLEAN
           s == a \o b \o c
<1>1. a \o b \in Seq(S) /\ s \in Seq(S)
  OBVIOUS
<1>2. Range(s) = (Range(a) \cup Range(b)) \cup Range(c)
  <2> HIDE DEF S
  <2>1. Range(a \o b) = Range(a) \cup Range(b)
    BY RangeConcatenation DEF S
  <2> DEFINE ab == a \o b
  <2>0. ab \in Seq(S) /\ s = ab \o c /\ c \in Seq(S)
    BY <1>1 DEF S
  <2> HIDE DEF ab, s
  <2>2. Range(s) = Range(ab) \cup Range(c)
    BY <2>0, RangeConcatenation
  <2> USE DEF ab
  <2>3. QED
    BY <2>1, <2>2
<1> HIDE DEF s
<1>3. \A i \in DOMAIN s : s[i][2]
  <2>1. OK \notin Codes
    BY DEF Codes, OK
  <2>2. QED
    BY <1>1, <2>1, AllPassed DEF s
<1>4. \A x \in Range(s) : x[2]
  BY <1>3 DEF Range
<1>5. (\A i \in DOMAIN a : a[i] \in Range(a)) /\ (\A i \in DOMAIN c : c[i] \in Range(c))
  BY DEF Range
<1>6. QED
  BY <1>2, <1>4, <1>5

-----------------------------------------------------------------------------
(* The tensors of a file.                                                  *)

Names ==
  {"token_embd", "output_norm", "output", "rope_freqs", "attn_norm", "attn_q", "attn_k", "attn_v",
   "attn_output", "ffn_norm", "ffn_gate", "ffn_up", "ffn_down", "attn_q_norm", "attn_k_norm"}

\* The names of the tensors of a layer.
LayerNameSet(f) ==
  {"attn_norm", "attn_q", "attn_k", "attn_v", "attn_output", "ffn_norm", "ffn_gate", "ffn_up", "ffn_down"}
  \cup (IF f.arch = "qwen3" THEN {"attn_q_norm", "attn_k_norm"} ELSE {})

\* The names of a layer, as a set.
LEMMA LayerNamesAre ==
  ASSUME NEW f
  PROVE  LayerNames(f) \in Seq(Names) /\ Range(LayerNames(f)) = LayerNameSet(f)
<1> DEFINE a == <<"attn_norm", "attn_q", "attn_k", "attn_v", "attn_output",
                  "ffn_norm", "ffn_gate", "ffn_up", "ffn_down">>
           b == IF f.arch = "qwen3" THEN <<"attn_q_norm", "attn_k_norm">> ELSE <<>>
<1>1. LayerNames(f) = a \o b
  BY DEF LayerNames
<1>2. a \in Seq(Names) /\ b \in Seq(Names)
  <2>1. Len(a) = 9 /\ DOMAIN a = 1 .. 9 /\ \A i \in 1 .. 9 : a[i] \in Names
    BY DEF Names
  <2>2. a = [i \in 1 .. 9 |-> a[i]]
    OBVIOUS
  <2>3. [i \in 1 .. 9 |-> a[i]] \in Seq(Names)
    <3> HIDE DEF a
    <3>1. QED
      BY <2>1
  <2>4. b \in Seq(Names)
    <3>1. <<"attn_q_norm", "attn_k_norm">> \in Seq(Names)
      <4>1. "attn_q_norm" \in Names /\ "attn_k_norm" \in Names
        BY DEF Names
      <4>2. QED
        BY <4>1
    <3>2. <<>> \in Seq(Names)
      OBVIOUS
    <3>3. QED
      BY <3>1, <3>2
  <2>5. QED
    BY <2>2, <2>3, <2>4, Zenon
<1>3. Range(a) = {"attn_norm", "attn_q", "attn_k", "attn_v", "attn_output", "ffn_norm", "ffn_gate", "ffn_up", "ffn_down"}
  BY DEF Range
<1>4. Range(b) = IF f.arch = "qwen3" THEN {"attn_q_norm", "attn_k_norm"} ELSE {}
  BY DEF Range
<1> HIDE DEF a, b
<1>5. Range(a \o b) = Range(a) \cup Range(b) /\ a \o b \in Seq(Names)
  BY <1>2, RangeConcatenation
<1>6. QED
  BY <1>1, <1>3, <1>4, <1>5 DEF LayerNameSet
\* The tensors of a layer, and the tensors there can be.
LayerSet(f, l) == { <<l, name>> : name \in LayerNameSet(f) }
Places(f) == ((-1 .. f.layers) \X Names) \cup Range(f.extra)

\* The tensors of a layer, as a set.
LEMMA InLayerIs ==
  ASSUME NEW f, NEW l
  PROVE  InLayer(f, l) = LayerSet(f, l)
BY LayerNamesAre DEF InLayer, LayerSet, Range

\* The tensors of a layer are among the places a file can name.
LEMMA LayerTensorsAre ==
  ASSUME NEW f, f.layers \in Nat, NEW l \in 0 .. f.layers
  PROVE  LayerTensors(f, l) \in Seq(Places(f))
<1>1. LayerNames(f) \in Seq(Names)
  BY LayerNamesAre
<1>2. \A i \in DOMAIN LayerNames(f) : <<l, LayerNames(f)[i]>> \in Places(f)
  BY <1>1 DEF Places
<1>3. QED
  BY <1>1, <1>2 DEF LayerTensors

\* The order of a file is a sequence of its tensors.
LEMMA OrderIs ==
  ASSUME NEW f \in Files
  PROVE  Order(f) \in Seq(Places(f))
<1> DEFINE S == Places(f)
<1>0. f.layers \in Nat /\ f.order \in {"layers", "classes", "embd_last"} /\ f.extra \in Seq(Range(f.extra))
  BY FilesOK
<1>1. {Embedding, OutputNorm, Output, RopeFreqs} \subseteq S
  BY <1>0 DEF Embedding, OutputNorm, Output, RopeFreqs, Global, Places, Names
<1>2. f.extra \in Seq(S)
  <2>1. Range(f.extra) \subseteq S
    BY DEF Places
  <2> HIDE DEF S
  <2>2. QED
    BY <1>0, <2>1
<1> HIDE DEF S
<1>3. Tail_(f) \in Seq(S)
  <2> DEFINE a == <<OutputNorm>>
             b == IF f.tied THEN <<>> ELSE <<Output>>
             c == IF f.ropeFreqs THEN <<RopeFreqs>> ELSE <<>>
  <2>1. a \in Seq(S) /\ b \in Seq(S) /\ c \in Seq(S)
    BY <1>1
  <2>2. Tail_(f) = a \o b \o c \o f.extra
    BY DEF Tail_
  <2> HIDE DEF a, b, c
  <2>3. QED
    BY <1>2, <2>1, <2>2
<1>4. AllLayers(f) \in Seq(S)
  <2> DEFINE ss == [i \in DOMAIN Layers(f) |-> LayerTensors(f, Layers(f)[i])]
  <2>1. DOMAIN Layers(f) = 1 .. f.layers /\ \A i \in 1 .. f.layers : Layers(f)[i] = i - 1
    BY DEF Layers
  <2>2. \A i \in 1 .. f.layers : LayerTensors(f, Layers(f)[i]) \in Seq(S)
    BY <1>0, <2>1, LayerTensorsAre DEF S
  <2>3. ss \in Seq(Seq(S))
    <3> DEFINE n == f.layers
    <3>1. n \in Nat /\ DOMAIN ss = 1 .. n /\ \A i \in 1 .. n : ss[i] \in Seq(S)
      BY <1>0, <2>1, <2>2
    <3>2. ss = [i \in 1 .. n |-> ss[i]]
      BY <2>1
    <3> HIDE DEF n, ss
    <3>3. [i \in 1 .. n |-> ss[i]] \in Seq(Seq(S))
      BY <3>1
    <3>4. QED
      BY <3>2, <3>3
  <2> HIDE DEF ss
  <2>4. FlattenSeq(ss) \in Seq(S)
    BY <2>3, FlattenRange
  <2>5. QED
    BY <2>4 DEF AllLayers, ss
<1>5. FlattenSeq([i \in DOMAIN LayerNames(f) |-> [l \in 1 .. f.layers |-> <<l - 1, LayerNames(f)[i]>>]]) \in Seq(S)
  <2> DEFINE ss == [i \in DOMAIN LayerNames(f) |-> [l \in 1 .. f.layers |-> <<l - 1, LayerNames(f)[i]>>]]
  <2>1. LayerNames(f) \in Seq(Names)
    BY LayerNamesAre
  <2>2. \A i \in DOMAIN LayerNames(f) : [l \in 1 .. f.layers |-> <<l - 1, LayerNames(f)[i]>>] \in Seq(S)
    <3>1. ASSUME NEW i \in DOMAIN LayerNames(f), NEW l \in 1 .. f.layers
          PROVE  <<l - 1, LayerNames(f)[i]>> \in S
      BY <1>0, <2>1 DEF S, Places
    <3>2. QED
      BY <1>0, <3>1
  <2>3. ss \in Seq(Seq(S))
    BY <2>1, <2>2
  <2> HIDE DEF ss
  <2>4. FlattenSeq(ss) \in Seq(S)
    BY <2>3, FlattenRange
  <2>5. QED
    BY <2>4 DEF ss
<1>6. <<Embedding>> \in Seq(S)
  BY <1>1
<1> DEFINE byClass == FlattenSeq([i \in DOMAIN LayerNames(f) |-> [l \in 1 .. f.layers |-> <<l - 1, LayerNames(f)[i]>>]])
           e == <<Embedding>>
           all == AllLayers(f)
           tail == Tail_(f)
<1>7. /\ f.order = "layers" => Order(f) = e \o all \o tail
      /\ f.order = "classes" => Order(f) = e \o byClass \o tail
      /\ f.order = "embd_last" => Order(f) = all \o tail \o e
  BY DEF Order
<1> HIDE DEF byClass, e, all, tail
<1>8. e \in Seq(S) /\ all \in Seq(S) /\ tail \in Seq(S) /\ byClass \in Seq(S)
  BY <1>3, <1>4, <1>5, <1>6 DEF byClass, e, all, tail
<1>9. Order(f) \in Seq(S)
  <2>1. e \o all \in Seq(S) /\ e \o byClass \in Seq(S) /\ all \o tail \in Seq(S)
    BY <1>8, ConcatProperties
  <2>2. e \o all \o tail \in Seq(S) /\ e \o byClass \o tail \in Seq(S) /\ all \o tail \o e \in Seq(S)
    BY <1>8, <2>1, ConcatProperties
  <2>3. CASE f.order = "layers"
    BY <1>7, <2>2, <2>3, Zenon
  <2>4. CASE f.order = "classes"
    BY <1>7, <2>2, <2>4, Zenon
  <2>5. CASE f.order = "embd_last"
    BY <1>7, <2>2, <2>5, Zenon
  <2>6. QED
    BY <1>0, <2>3, <2>4, <2>5
<1>10. QED
  BY <1>9 DEF S
\* What a layer binds.
NormBinding(f, l, name, width) == <<<<l, name>>, <<width>>, TRUE>>
MatrixBinding(f, l, name, input, output) == <<<<l, name>>, <<input, output>>, FALSE>>
LayerBindings(f, l) ==
  {NormBinding(f, l, "attn_norm", f.hidden), MatrixBinding(f, l, "attn_q", f.hidden, QWidth(f)),
   MatrixBinding(f, l, "attn_k", f.hidden, KvWidth(f)), MatrixBinding(f, l, "attn_v", f.hidden, KvWidth(f)),
   MatrixBinding(f, l, "attn_output", QWidth(f), f.hidden), NormBinding(f, l, "ffn_norm", f.hidden),
   MatrixBinding(f, l, "ffn_gate", f.hidden, f.ffn), MatrixBinding(f, l, "ffn_up", f.hidden, f.ffn),
   MatrixBinding(f, l, "ffn_down", f.ffn, f.hidden)}
HeadBindings(f, l) ==
  IF f.arch = "qwen3"
  THEN {NormBinding(f, l, "attn_q_norm", HeadDim(f)), NormBinding(f, l, "attn_k_norm", HeadDim(f))} ELSE {}
GlobalBindings(f) ==
  {MatrixBinding(f, Global, "token_embd", f.hidden, f.vocab), NormBinding(f, Global, "output_norm", f.hidden),
   <<HeadTensor(f), <<f.hidden, f.vocab>>, FALSE>>}
RopeBindings(f) == {NormBinding(f, Global, "rope_freqs", RopeDimensions(f) \div 2)}
AllBindings(f) ==
  GlobalBindings(f) \cup RopeBindings(f)
  \cup UNION { LayerBindings(f, l) \cup HeadBindings(f, l) : l \in 0 .. f.layers - 1 }

\* The bindings of a file.
LEMMA BindingsAre ==
  ASSUME NEW f, f.layers \in Nat
  PROVE  /\ Bindings(f) \in Seq(AllBindings(f))
         /\ GlobalBindings(f) \subseteq Range(Bindings(f))
         /\ \A l \in 0 .. f.layers - 1 :
              LayerBindings(f, l) \cup HeadBindings(f, l) \subseteq Range(Bindings(f))
<1> DEFINE S == AllBindings(f)
           a == << <<Embedding, <<f.hidden, f.vocab>>, FALSE>>, <<OutputNorm, <<f.hidden>>, TRUE>>,
                   <<HeadTensor(f), <<f.hidden, f.vocab>>, FALSE>> >>
           b == IF RopeFreqs \in Tensors(f)
                THEN << <<RopeFreqs, <<RopeDimensions(f) \div 2>>, TRUE>> >> ELSE <<>>
           nine(l) ==
             << <<<<l, "attn_norm">>, <<f.hidden>>, TRUE>>,
                <<<<l, "attn_q">>, <<f.hidden, QWidth(f)>>, FALSE>>,
                <<<<l, "attn_k">>, <<f.hidden, KvWidth(f)>>, FALSE>>,
                <<<<l, "attn_v">>, <<f.hidden, KvWidth(f)>>, FALSE>>,
                <<<<l, "attn_output">>, <<QWidth(f), f.hidden>>, FALSE>>,
                <<<<l, "ffn_norm">>, <<f.hidden>>, TRUE>>,
                <<<<l, "ffn_gate">>, <<f.hidden, f.ffn>>, FALSE>>,
                <<<<l, "ffn_up">>, <<f.hidden, f.ffn>>, FALSE>>,
                <<<<l, "ffn_down">>, <<f.ffn, f.hidden>>, FALSE>> >>
           two(l) ==
             IF f.arch = "qwen3"
             THEN << <<<<l, "attn_q_norm">>, <<HeadDim(f)>>, TRUE>>,
                     <<<<l, "attn_k_norm">>, <<HeadDim(f)>>, TRUE>> >> ELSE <<>>
           ss == [i \in 1 .. f.layers |-> nine(i - 1) \o two(i - 1)]
<1>1. Bindings(f) = a \o b \o FlattenSeq(ss)
  BY DEF Bindings
<1>2. a \in Seq(S) /\ Range(a) = GlobalBindings(f)
  <2>1. GlobalBindings(f) \subseteq S
    BY DEF AllBindings
  <2>2. a = <<MatrixBinding(f, Global, "token_embd", f.hidden, f.vocab), NormBinding(f, Global, "output_norm", f.hidden),
              <<HeadTensor(f), <<f.hidden, f.vocab>>, FALSE>>>>
    BY DEF MatrixBinding, NormBinding, Embedding, OutputNorm
  <2> DEFINE x == MatrixBinding(f, Global, "token_embd", f.hidden, f.vocab)
             y == NormBinding(f, Global, "output_norm", f.hidden)
             z == <<HeadTensor(f), <<f.hidden, f.vocab>>, FALSE>>
  <2>3. {x, y, z} \subseteq S /\ GlobalBindings(f) = {x, y, z}
    BY <2>1 DEF GlobalBindings
  <2> HIDE DEF S, x, y, z, a
  <2>4. <<x, y, z>> \in Seq(S) /\ Range(<<x, y, z>>) = {x, y, z}
    BY <2>3 DEF Range
  <2>5. QED
    BY <2>2, <2>3, <2>4, Zenon DEF x, y, z
<1>3. b \in Seq(S)
  <2> DEFINE x == NormBinding(f, Global, "rope_freqs", RopeDimensions(f) \div 2)
  <2>1. x \in S
    BY DEF AllBindings, RopeBindings
  <2>2. <<RopeFreqs, <<RopeDimensions(f) \div 2>>, TRUE>> = x
    BY DEF NormBinding, RopeFreqs
  <2> HIDE DEF S, x
  <2>3. <<x>> \in Seq(S) /\ <<>> \in Seq(S)
    BY <2>1
  <2>4. QED
    BY <2>2, <2>3, Zenon
<1>4. ASSUME NEW l \in 0 .. f.layers - 1
      PROVE  nine(l) \in Seq(S) /\ Range(nine(l)) = LayerBindings(f, l)
  <2>1. LayerBindings(f, l) \subseteq S
    BY DEF AllBindings
  <2> DEFINE b1 == NormBinding(f, l, "attn_norm", f.hidden)
             b2 == MatrixBinding(f, l, "attn_q", f.hidden, QWidth(f))
             b3 == MatrixBinding(f, l, "attn_k", f.hidden, KvWidth(f))
             b4 == MatrixBinding(f, l, "attn_v", f.hidden, KvWidth(f))
             b5 == MatrixBinding(f, l, "attn_output", QWidth(f), f.hidden)
             b6 == NormBinding(f, l, "ffn_norm", f.hidden)
             b7 == MatrixBinding(f, l, "ffn_gate", f.hidden, f.ffn)
             b8 == MatrixBinding(f, l, "ffn_up", f.hidden, f.ffn)
             b9 == MatrixBinding(f, l, "ffn_down", f.ffn, f.hidden)
  <2>2. LayerBindings(f, l) = {b1, b2, b3, b4, b5, b6, b7, b8, b9}
    BY Zenon DEF LayerBindings
  <2>3. nine(l) = <<b1, b2, b3, b4, b5, b6, b7, b8, b9>>
    BY Zenon DEF NormBinding, MatrixBinding
  <2> HIDE DEF S, nine, b1, b2, b3, b4, b5, b6, b7, b8, b9
  <2>4. {b1, b2, b3, b4, b5, b6, b7, b8, b9} \subseteq S
    BY <2>1, <2>2
  <2> DEFINE s == <<b1, b2, b3, b4, b5, b6, b7, b8, b9>>
  <2>5. s \in Seq(S) /\ Range(s) = {b1, b2, b3, b4, b5, b6, b7, b8, b9}
    <3>1. Range(s) = {b1, b2, b3, b4, b5, b6, b7, b8, b9}
      BY DEF Range
    <3>2. s = [k \in 1 .. 9 |-> s[k]]
      OBVIOUS
    <3>3. \A k \in 1 .. 9 : s[k] \in S
      BY <2>4
    <3> HIDE DEF s
    <3>4. [k \in 1 .. 9 |-> s[k]] \in Seq(S)
      BY <3>3
    <3>5. QED
      BY <3>1, <3>2, <3>4, Zenon
  <2>6. QED
    BY <2>2, <2>3, <2>5, Zenon
<1>5. ASSUME NEW l \in 0 .. f.layers - 1
      PROVE  two(l) \in Seq(S) /\ Range(two(l)) = HeadBindings(f, l)
  <2> DEFINE x == NormBinding(f, l, "attn_q_norm", HeadDim(f))
             y == NormBinding(f, l, "attn_k_norm", HeadDim(f))
  <2>1. HeadBindings(f, l) \subseteq S
    BY DEF AllBindings
  <2>2. two(l) = IF f.arch = "qwen3" THEN <<x, y>> ELSE <<>>
    BY DEF NormBinding
  <2>3. HeadBindings(f, l) = IF f.arch = "qwen3" THEN {x, y} ELSE {}
    BY DEF HeadBindings
  <2> HIDE DEF S, x, y, two
  <2>4. Range(<<x, y>>) = {x, y} /\ Range(<<>>) = {} /\ <<>> \in Seq(S)
    BY DEF Range
  <2>5. f.arch = "qwen3" => <<x, y>> \in Seq(S)
    BY <2>1, <2>3
  <2>6. QED
    BY <2>2, <2>3, <2>4, <2>5
<1> HIDE DEF S, a, b, nine, two
<1>6. ASSUME NEW i \in 1 .. f.layers
      PROVE  ss[i] \in Seq(S) /\ Range(ss[i]) = LayerBindings(f, i - 1) \cup HeadBindings(f, i - 1)
  <2>1. i - 1 \in 0 .. f.layers - 1 /\ ss[i] = nine(i - 1) \o two(i - 1)
    OBVIOUS
  <2>2. /\ nine(i - 1) \in Seq(S) /\ Range(nine(i - 1)) = LayerBindings(f, i - 1)
        /\ two(i - 1) \in Seq(S) /\ Range(two(i - 1)) = HeadBindings(f, i - 1)
    BY <2>1, <1>4, <1>5
  <2>3. nine(i - 1) \o two(i - 1) \in Seq(S)
    BY <2>2, ConcatProperties
  <2>4. Range(nine(i - 1) \o two(i - 1)) = Range(nine(i - 1)) \cup Range(two(i - 1))
    BY <2>2, RangeConcatenation
  <2>5. QED
    BY <2>1, <2>2, <2>3, <2>4
<1>7. ss \in Seq(Seq(S)) /\ Len(ss) = f.layers
  <2> DEFINE n == f.layers
  <2>1. n \in Nat /\ DOMAIN ss = 1 .. n /\ \A i \in 1 .. n : ss[i] \in Seq(S)
    BY <1>6
  <2>2. ss = [i \in 1 .. n |-> ss[i]]
    OBVIOUS
  <2> HIDE DEF n, ss
  <2>3. [i \in 1 .. n |-> ss[i]] \in Seq(Seq(S)) /\ Len([i \in 1 .. n |-> ss[i]]) = n
    BY <2>1
  <2>4. QED
    BY <2>2, <2>3, Zenon DEF n
<1> HIDE DEF ss
<1>8. /\ FlattenSeq(ss) \in Seq(S)
      /\ \A x : x \in Range(FlattenSeq(ss)) <=> \E i \in 1 .. Len(ss) : x \in Range(ss[i])
  BY <1>7, FlattenRange
<1>9. /\ a \o b \in Seq(S) /\ a \o b \o FlattenSeq(ss) \in Seq(S)
      /\ Range(a \o b \o FlattenSeq(ss)) = (Range(a) \cup Range(b)) \cup Range(FlattenSeq(ss))
  <2> DEFINE ab == a \o b
             fl == FlattenSeq(ss)
  <2>1. a \in Seq(S) /\ b \in Seq(S) /\ fl \in Seq(S)
    BY <1>2, <1>3, <1>8
  <2>2. ab \in Seq(S) /\ Range(ab) = Range(a) \cup Range(b)
    <3> HIDE DEF fl
    <3>1. QED
      BY <2>1, ConcatProperties, RangeConcatenation
  <2> HIDE DEF ab, fl
  <2>3. ab \o fl \in Seq(S) /\ Range(ab \o fl) = Range(ab) \cup Range(fl)
    BY <2>1, <2>2, ConcatProperties, RangeConcatenation
  <2>4. QED
    BY <2>2, <2>3 DEF ab, fl
<1>10. ASSUME NEW l \in 0 .. f.layers - 1
       PROVE  LayerBindings(f, l) \cup HeadBindings(f, l) \subseteq Range(FlattenSeq(ss))
  <2>1. l + 1 \in 1 .. f.layers /\ (l + 1) - 1 = l
    OBVIOUS
  <2>2. Range(ss[l + 1]) = LayerBindings(f, l) \cup HeadBindings(f, l)
    BY <2>1, <1>6
  <2>3. QED
    BY <1>7, <1>8, <2>1, <2>2
<1>11. QED
  BY <1>1, <1>2, <1>9, <1>10 DEF S

-----------------------------------------------------------------------------
(* The descriptor.                                                         *)

\* What the descriptor vouches for: the dimensions of the model.
Dimensions(f) ==
  /\ f.arch \in {"llama", "qwen3"}
  /\ {f.hidden, f.heads, f.kvHeads} \subseteq Nat \ {0}
  /\ {f.layers, f.context, f.ffn} \subseteq Nat \ {0}
  /\ f.eps > 0 /\ f.ropeBase > 0
  /\ f.heads % f.kvHeads = 0
  /\ f.arch = "qwen3" => f.keyLength > 0
  /\ f.keyLength = 0 => f.hidden % f.heads = 0
  /\ RopeDimensions(f) <= HeadDim(f) /\ RopeDimensions(f) % 2 = 0
  /\ f.tokens = f.vocab

\* A tensor that is bound is there, with its shape and a format for it.
BoundTensor(f, b) ==
  /\ b[1] \in Tensors(f)
  /\ Shape(f, b[1][2]) = b[2]
  /\ b[3] => Format(f, b[1][2]) = "F32"
  /\ Format(f, b[1][2]) \in Formats

\* A check is a code and whether it passed.
LEMMA CheckIs ==
  ASSUME NEW why \in Codes, NEW p \in BOOLEAN
  PROVE  <<why, p>> \in Codes \X BOOLEAN
OBVIOUS

\* The four checks of a tensor.
LEMMA TensorChecks ==
  ASSUME NEW f, NEW t, NEW shape, NEW norm \in BOOLEAN
  PROVE  /\ ValidateTensor(f, t, shape, norm) \in Seq(Codes \X BOOLEAN)
         /\ (\A x \in Range(ValidateTensor(f, t, shape, norm)) : x[2])
              => BoundTensor(f, <<t, shape, norm>>)
<1> DEFINE p1 == t \in Tensors(f)
           p2 == Shape(f, t[2]) = shape
           p3 == norm => Format(f, t[2]) = "F32"
           p4 == Format(f, t[2]) \in Supported
           c1 == <<"missing_tensor", p1>>
           c2 == <<"invalid_tensor_shape", p2>>
           c3 == <<"unsupported_norm_precision", p3>>
           c4 == <<"unsupported_operator_quantization", p4>>
           S == Codes \X BOOLEAN
<1>1. p1 \in BOOLEAN /\ p2 \in BOOLEAN /\ p3 \in BOOLEAN /\ p4 \in BOOLEAN
  OBVIOUS
<1>2. {"missing_tensor", "invalid_tensor_shape", "unsupported_norm_precision",
       "unsupported_operator_quantization"} \subseteq Codes
  BY DEF Codes
<1>3. BoundTensor(f, <<t, shape, norm>>) <=> p1 /\ p2 /\ p3 /\ p4
  BY DEF BoundTensor, Supported
<1>4. ValidateTensor(f, t, shape, norm) = <<c1, c2, c3, c4>>
  BY Zenon DEF ValidateTensor
<1> HIDE DEF p1, p2, p3, p4
<1>5. c1 \in S /\ c2 \in S /\ c3 \in S /\ c4 \in S
  BY <1>1, <1>2, CheckIs
<1>6. /\ c1[2] = p1 /\ c2[2] = p2 /\ c3[2] = p3 /\ c4[2] = p4
  BY Zenon
<1> HIDE DEF c1, c2, c3, c4, S
<1>7. <<c1, c2, c3, c4>> \in Seq(S) /\ Range(<<c1, c2, c3, c4>>) = {c1, c2, c3, c4}
  BY <1>5 DEF Range
<1>8. QED
  BY <1>3, <1>4, <1>6, <1>7, Zenon DEF S

\* A binding is a triple.
IsBinding(b) == b = <<b[1], b[2], b[3]>> /\ b[3] \in BOOLEAN

\* A tensor, its shape and whether it is a norm.
LEMMA TripleIs ==
  ASSUME NEW x, NEW y, NEW z \in BOOLEAN
  PROVE  IsBinding(<<x, y, z>>)
<1>1. <<x, y, z>>[1] = x /\ <<x, y, z>>[2] = y
  BY Zenon
<1>2. <<x, y, z>>[3] = z
  BY Zenon
<1> DEFINE t == <<x, y, z>>
<1>3. t = <<t[1], t[2], t[3]>> /\ t[3] \in BOOLEAN
  BY <1>1, <1>2, Zenon
<1>4. QED
  BY <1>3, Zenon DEF IsBinding

\* Every binding is one.
LEMMA BindingIs ==
  ASSUME NEW f, NEW b \in AllBindings(f)
  PROVE  IsBinding(b)
<1>0. TRUE \in BOOLEAN /\ FALSE \in BOOLEAN
  OBVIOUS
<1>6. \A g, l, name, w : IsBinding(NormBinding(g, l, name, w))
  BY <1>0, TripleIs, Zenon DEF NormBinding
<1>7. \A g, l, name, w, h : IsBinding(MatrixBinding(g, l, name, w, h))
  BY <1>0, TripleIs, Zenon DEF MatrixBinding
<1>8. IsBinding(<<HeadTensor(f), <<f.hidden, f.vocab>>, FALSE>>)
  BY <1>0, TripleIs, Zenon
<1>1. CASE b \in GlobalBindings(f)
  BY <1>1, <1>6, <1>7, <1>8 DEF GlobalBindings
<1>2. CASE b \in RopeBindings(f)
  BY <1>2, <1>6 DEF RopeBindings
<1>3. ASSUME NEW l \in 0 .. f.layers - 1, b \in LayerBindings(f, l)
      PROVE  IsBinding(b)
  BY <1>3, <1>6, <1>7 DEF LayerBindings
<1>4. ASSUME NEW l \in 0 .. f.layers - 1, b \in HeadBindings(f, l)
      PROVE  IsBinding(b)
  BY <1>4, <1>6, <1>7 DEF HeadBindings
<1>5. QED
  BY <1>1, <1>2, <1>3, <1>4 DEF AllBindings

\* The checks of all the bindings.
LEMMA BindingChecks ==
  ASSUME NEW f, f.layers \in Nat
  PROVE  LET vs == [i \in DOMAIN Bindings(f) |->
                      ValidateTensor(f, Bindings(f)[i][1], Bindings(f)[i][2], Bindings(f)[i][3])]
         IN /\ FlattenSeq(vs) \in Seq(Codes \X BOOLEAN)
            /\ (\A x \in Range(FlattenSeq(vs)) : x[2])
                 => \A b \in Range(Bindings(f)) : BoundTensor(f, b)
<1> DEFINE bs == Bindings(f)
           vs == [i \in DOMAIN bs |-> ValidateTensor(f, bs[i][1], bs[i][2], bs[i][3])]
           S == Codes \X BOOLEAN
<1>1. bs \in Seq(AllBindings(f))
  BY BindingsAre
<1>2. \A b \in AllBindings(f) : b = <<b[1], b[2], b[3]>> /\ b[3] \in BOOLEAN
  BY BindingIs, Zenon DEF IsBinding
<1>3. \A i \in DOMAIN bs : bs[i] \in AllBindings(f)
  BY <1>1
<1> HIDE DEF bs
<1>4. ASSUME NEW i \in DOMAIN bs
      PROVE  /\ vs[i] \in Seq(S)
             /\ (\A x \in Range(vs[i]) : x[2]) => BoundTensor(f, bs[i])
  <2>1. bs[i] = <<bs[i][1], bs[i][2], bs[i][3]>> /\ bs[i][3] \in BOOLEAN
    BY <1>2, <1>3
  <2>2. vs[i] = ValidateTensor(f, bs[i][1], bs[i][2], bs[i][3])
    OBVIOUS
  <2> HIDE DEF vs
  <2>3. QED
    BY <2>1, <2>2, TensorChecks, Zenon
<1>5. vs \in Seq(Seq(S)) /\ Len(vs) = Len(bs)
  <2> DEFINE n == Len(bs)
  <2>1. n \in Nat /\ DOMAIN vs = 1 .. n /\ \A i \in 1 .. n : vs[i] \in Seq(S)
    BY <1>1, <1>4
  <2>2. vs = [i \in 1 .. n |-> vs[i]]
    BY <1>1
  <2> HIDE DEF n, vs
  <2>3. [i \in 1 .. n |-> vs[i]] \in Seq(Seq(S)) /\ Len([i \in 1 .. n |-> vs[i]]) = n
    BY <2>1
  <2>4. QED
    BY <2>2, <2>3, Zenon DEF n
<1>6. DOMAIN bs = 1 .. Len(bs)
  BY <1>1
<1> HIDE DEF vs, S
<1>7. /\ FlattenSeq(vs) \in Seq(S)
      /\ \A x : x \in Range(FlattenSeq(vs)) <=> \E i \in 1 .. Len(vs) : x \in Range(vs[i])
  BY <1>5, FlattenRange
<1>8. ASSUME \A x \in Range(FlattenSeq(vs)) : x[2], NEW b \in Range(bs)
      PROVE  BoundTensor(f, b)
  <2>1. PICK i \in DOMAIN bs : b = bs[i]
    BY DEF Range
  <2>2. \A x \in Range(vs[i]) : x[2]
    BY <1>5, <1>6, <1>7, <1>8
  <2>3. QED
    BY <1>4, <2>1, <2>2
<1>9. QED
  BY <1>7, <1>8, Zenon DEF vs, bs, S

\* What an accepted descriptor vouches for.
Accepted(f) ==
  /\ Dimensions(f)
  /\ \A b \in Range(Bindings(f)) : BoundTensor(f, b)
  /\ Tensors(f) \subseteq Bound(f)

\* A descriptor without failure: dimensions, every bound tensor, no tensor beside them.
LEMMA DescriptorIs ==
  ASSUME NEW f, f.layers \in Nat
  PROVE  Descriptor(f) \in Codes \cup {OK} /\ (Descriptor(f) = OK => Accepted(f))
<1> DEFINE p1 == f.arch \in {"llama", "qwen3"}
           p2 == f.needs \cap {"expert", "ssm", "sliding"} = {}
           p3 == {f.hidden, f.heads, f.kvHeads} \subseteq Nat \ {0}
           p4 == f.heads % f.kvHeads = 0
           p5 == f.arch = "qwen3" => f.keyLength > 0
           p6 == f.keyLength = 0 => f.hidden % f.heads = 0
           p7 == f.valueLength \in {0, HeadDim(f)}
           p8 == RopeDimensions(f) <= HeadDim(f) /\ RopeDimensions(f) % 2 = 0
           p9 == {f.layers, f.context, f.ffn} \subseteq Nat \ {0}
           p10 == f.eps > 0 /\ f.ropeBase > 0
           p11 == Embedding \in Tensors(f)
           p12 == f.tokens = f.vocab
           q1 == "scaling" \notin f.needs
           q2 == "softcap" \notin f.needs
           q3 == Tensors(f) \subseteq Bound(f)
           S == Codes \X BOOLEAN
           a == << <<"unsupported_architecture", p1>>, <<"unsupported_execution_requirement", p2>>,
                   <<"invalid_dimension", p3>>, <<"invalid_gqa", p4>>, <<"missing_metadata", p5>>,
                   <<"invalid_head_dimension", p6>>, <<"unsupported_value_dimension", p7>>,
                   <<"invalid_rope", p8>>, <<"invalid_dimension", p9>>, <<"missing_metadata", p10>>,
                   <<"missing_tensor", p11>>, <<"vocabulary_mismatch", p12>> >>
           b == FlattenSeq([i \in DOMAIN Bindings(f) |->
                  ValidateTensor(f, Bindings(f)[i][1], Bindings(f)[i][2], Bindings(f)[i][3])])
           c == << <<"unsupported_position_semantics", q1>>, <<"unsupported_attention_semantics", q2>>,
                   <<"unplanned_tensor", q3>> >>
<1>1. Descriptor(f) = FirstFailure(a \o b \o c)
  BY Zenon DEF Descriptor
<1>2. /\ p1 \in BOOLEAN /\ p2 \in BOOLEAN /\ p3 \in BOOLEAN /\ p4 \in BOOLEAN /\ p5 \in BOOLEAN
      /\ p6 \in BOOLEAN /\ p7 \in BOOLEAN /\ p8 \in BOOLEAN /\ p9 \in BOOLEAN
      /\ p10 \in BOOLEAN /\ p11 \in BOOLEAN /\ p12 \in BOOLEAN
      /\ q1 \in BOOLEAN /\ q2 \in BOOLEAN /\ q3 \in BOOLEAN
  OBVIOUS
<1>3. /\ b \in Seq(S)
      /\ (\A x \in Range(b) : x[2]) => \A y \in Range(Bindings(f)) : BoundTensor(f, y)
  BY BindingChecks
<1>4. Dimensions(f) <=> p1 /\ p3 /\ p4 /\ p5 /\ p6 /\ p8 /\ p9 /\ p10 /\ p12
  BY Zenon DEF Dimensions
<1> HIDE DEF p1, p2, p3, p4, p5, p6, p7, p8, p9, p10, p11, p12, q1, q2, b
<1>5. a \in Seq(S)
  <2>1. {"unsupported_architecture", "unsupported_execution_requirement", "invalid_dimension", "invalid_gqa",
         "missing_metadata", "invalid_head_dimension", "unsupported_value_dimension", "invalid_rope",
         "missing_tensor", "vocabulary_mismatch"} \subseteq Codes
    BY DEF Codes
  <2> DEFINE c1 == <<"unsupported_architecture", p1>>
             c2 == <<"unsupported_execution_requirement", p2>>
             c3 == <<"invalid_dimension", p3>>
             c4 == <<"invalid_gqa", p4>>
             c5 == <<"missing_metadata", p5>>
             c6 == <<"invalid_head_dimension", p6>>
             c7 == <<"unsupported_value_dimension", p7>>
             c8 == <<"invalid_rope", p8>>
             c9 == <<"invalid_dimension", p9>>
             c10 == <<"missing_metadata", p10>>
             c11 == <<"missing_tensor", p11>>
             c12 == <<"vocabulary_mismatch", p12>>
             s == <<c1, c2, c3, c4, c5, c6, c7, c8, c9, c10, c11, c12>>
  <2>2. c1 \in S /\ c2 \in S /\ c3 \in S /\ c4 \in S /\ c5 \in S
    BY <1>2, <2>1, CheckIs
  <2>3. c6 \in S /\ c7 \in S /\ c8 \in S /\ c9 \in S
    BY <1>2, <2>1, CheckIs
  <2>9. c10 \in S /\ c11 \in S /\ c12 \in S
    BY <1>2, <2>1, CheckIs
  <2> HIDE DEF c1, c2, c3, c4, c5, c6, c7, c8, c9, c10, c11, c12, S
  <2>4. s = [k \in 1 .. 12 |-> s[k]]
    OBVIOUS
  <2>5. \A k \in 1 .. 12 : s[k] \in S
    BY <2>2, <2>3, <2>9
  <2>6. s = a
    BY Zenon DEF c1, c2, c3, c4, c5, c6, c7, c8, c9, c10, c11, c12
  <2> HIDE DEF s, a
  <2>7. [k \in 1 .. 12 |-> s[k]] \in Seq(S)
    BY <2>5
  <2>8. QED
    BY <2>4, <2>6, <2>7, Zenon
<1>6. c \in Seq(S)
  <2>1. {"unsupported_position_semantics", "unsupported_attention_semantics", "unplanned_tensor"} \subseteq Codes
    BY DEF Codes
  <2> DEFINE c1 == <<"unsupported_position_semantics", q1>>
             c2 == <<"unsupported_attention_semantics", q2>>
             c3 == <<"unplanned_tensor", q3>>
  <2> HIDE DEF q3
  <2>2. c1 \in S /\ c2 \in S /\ c3 \in S
    BY <1>2, <2>1, CheckIs
  <2>3. c = <<c1, c2, c3>>
    BY Zenon
  <2> HIDE DEF c1, c2, c3, S
  <2>4. <<c1, c2, c3>> \in Seq(S)
    BY <2>2
  <2>5. QED
    BY <2>3, <2>4, Zenon
<1>7. Descriptor(f) \in Codes \cup {OK}
  <2> HIDE DEF a, c, q3
  <2> DEFINE s == a \o b \o c
  <2>1. s \in Seq(S)
    <3> HIDE DEF S
    <3> DEFINE ab == a \o b
    <3>1. ab \in Seq(S)
      BY <1>3, <1>5, ConcatProperties
    <3> HIDE DEF ab
    <3>2. ab \o c \in Seq(S)
      BY <1>6, <3>1, ConcatProperties
    <3>3. QED
      BY <3>2 DEF ab
  <2>2. Descriptor(f) = FirstFailure(s)
    BY <1>1, Zenon
  <2> HIDE DEF s
  <2>3. ASSUME FirstFailure(s) # OK PROVE FirstFailure(s) \in Codes
    <3>1. PICK i \in DOMAIN s : ~s[i][2] /\ FirstFailure(s) = s[i][1]
      BY <2>1, <2>3, FailureIs
    <3>2. QED
      BY <2>1, <3>1
  <2>4. QED
    BY <2>2, <2>3
<1>8. ASSUME Descriptor(f) = OK PROVE Accepted(f)
  <2>1. /\ \A i \in DOMAIN a : a[i][2]
        /\ \A x \in Range(b) : x[2]
        /\ \A i \in DOMAIN c : c[i][2]
    <3> HIDE DEF a, c, q3
    <3>1. FirstFailure(a \o b \o c) = OK
      BY <1>1, <1>8, Zenon
    <3>2. QED
      BY <1>3, <1>5, <1>6, <3>1, PartsPassed, Zenon DEF S
  <2> HIDE DEF q3
  <2>2. p1 /\ p3 /\ p4 /\ p5 /\ p6 /\ p8 /\ p9 /\ p10 /\ p12
    <3>1. DOMAIN a = 1 .. 12
      BY DEF a
    <3>2. /\ a[1][2] /\ a[3][2] /\ a[4][2] /\ a[5][2] /\ a[6][2] /\ a[8][2] /\ a[9][2]
          /\ a[10][2] /\ a[12][2]
      <4> HIDE DEF a
      <4>1. QED
        BY <2>1, <3>1
    <3>3. /\ a[1][2] = p1 /\ a[3][2] = p3 /\ a[4][2] = p4 /\ a[5][2] = p5 /\ a[6][2] = p6
          /\ a[8][2] = p8 /\ a[9][2] = p9 /\ a[10][2] = p10 /\ a[12][2] = p12
      BY <1>2
    <3> HIDE DEF a
    <3>4. QED
      BY <3>2, <3>3, Zenon
  <2>3. q3
    <3>1. DOMAIN c = 1 .. 3
      BY DEF c
    <3>2. c[3][2]
      <4> HIDE DEF c
      <4>1. QED
        BY <2>1, <3>1
    <3>3. c[3][2] = q3
      BY <1>2
    <3> HIDE DEF c
    <3>4. QED
      BY <3>2, <3>3, Zenon
  <2>4. QED
    BY <1>3, <1>4, <2>1, <2>2, <2>3, Zenon DEF q3, Accepted
<1>9. QED
  BY <1>7, <1>8

-----------------------------------------------------------------------------
(* Shapes and row sizes.                                                   *)

\* The numbers of a file.
Numbers(f) ==
  {f.hidden, f.heads, f.kvHeads, f.keyLength, f.ropeDim, f.ffn, f.layers, f.vocab,
   f.tokens, f.context, f.requested, f.padding, f.eps, f.ropeBase} \subseteq Nat

\* The widths of heads are positive.
LEMMA WidthsAre ==
  ASSUME NEW f, Numbers(f), Dimensions(f)
  PROVE  /\ HeadDim(f) \in Nat \ {0} /\ QWidth(f) \in Nat \ {0} /\ KvWidth(f) \in Nat \ {0}
         /\ RopeDimensions(f) \in Nat \ {0} /\ RopeDimensions(f) \div 2 \in Nat \ {0}
         /\ QWidth(f) = f.heads * HeadDim(f) /\ QWidth(f) \div f.heads = HeadDim(f)
<1>1. /\ {f.hidden, f.heads, f.kvHeads} \subseteq Nat \ {0} /\ {f.keyLength, f.ropeDim} \subseteq Nat
      /\ f.keyLength = 0 => f.hidden % f.heads = 0
      /\ RopeDimensions(f) % 2 = 0
  BY DEF Numbers, Dimensions
<1>2. HeadDim(f) \in Nat \ {0}
  <2>1. CASE f.keyLength > 0
    BY <1>1, <2>1 DEF HeadDim
  <2>2. CASE f.keyLength = 0
    <3> DEFINE a == f.hidden
               b == f.heads
               q == a \div b
    <3>1. a \in Nat \ {0} /\ b \in Nat \ {0} /\ a % b = 0
      BY <1>1, <2>2
    <3>2. HeadDim(f) = q
      BY <2>2 DEF HeadDim
    <3> HIDE DEF a, b
    <3>3. q \in Nat /\ a = b * q + (a % b)
      BY <3>1, QuotRem
    <3> HIDE DEF q
    <3>4. q # 0
      BY <3>1, <3>3
    <3>5. QED
      BY <3>2, <3>3, <3>4
  <2>3. QED
    BY <1>1, <2>1, <2>2
<1> DEFINE d == HeadDim(f)
           h == f.heads
           k == f.kvHeads
<1>3. d \in Nat \ {0} /\ h \in Nat \ {0} /\ k \in Nat \ {0} /\ QWidth(f) = h * d /\ KvWidth(f) = k * d
  BY <1>1, <1>2 DEF QWidth, KvWidth
<1>4. RopeDimensions(f) \in Nat \ {0}
  BY <1>1, <1>2 DEF RopeDimensions
<1>5. RopeDimensions(f) \div 2 \in Nat \ {0}
  BY <1>1, <1>4
<1> HIDE DEF d, h, k
<1>6. h * d \in Nat \ {0} /\ k * d \in Nat \ {0}
  <2>1. d * 1 <= d * h /\ d * 1 <= d * k /\ d * h \in Nat /\ d * k \in Nat
    BY <1>3, ProductGrows
  <2>2. d * h = h * d /\ d * k = k * d
    BY <1>3
  <2>3. QED
    BY <1>3, <2>1, <2>2
<1>7. (h * d) \div h = d
  <2> DEFINE m == h * d
  <2>1. m = h * d + 0
    BY <1>3, <1>6
  <2> HIDE DEF m
  <2>2. m \div h = d
    BY <1>3, <2>1, DivUnique
  <2>3. QED
    BY <2>2 DEF m
<1>8. QED
  BY <1>2, <1>3, <1>4, <1>5, <1>6, <1>7 DEF d, h

\* The shape of a tensor that is bound: as wide as something, and as many rows as it has.
IsShape(shape) ==
  \E w \in Nat \ {0}, h \in Nat : shape = <<w>> \/ shape = <<w, h>>

\* A vector is a shape.
LEMMA OneWide ==
  ASSUME NEW w \in Nat \ {0}
  PROVE  IsShape(<<w>>)
<1>1. 0 \in Nat
  OBVIOUS
<1>2. QED
  BY <1>1, Zenon DEF IsShape

\* A matrix is a shape, of no row too.
LEMMA TwoWide ==
  ASSUME NEW w \in Nat \ {0}, NEW h \in Nat
  PROVE  IsShape(<<w, h>>)
BY Zenon DEF IsShape

\* Every binding of the graph has a shape.
LEMMA ShapesAre ==
  ASSUME NEW f, Numbers(f), Dimensions(f), NEW b \in AllBindings(f)
  PROVE  IsShape(b[2])
<1>1. /\ {f.hidden, f.ffn, QWidth(f), KvWidth(f), HeadDim(f), RopeDimensions(f) \div 2} \subseteq Nat \ {0}
      /\ {f.vocab, f.hidden, QWidth(f), KvWidth(f), f.ffn} \subseteq Nat
  BY WidthsAre DEF Numbers, Dimensions
<1> DEFINE P == Nat \ {0}
<1>2. \A l, name : \A w \in P : IsShape(NormBinding(f, l, name, w)[2])
  <2>1. \A l, name, w : NormBinding(f, l, name, w)[2] = <<w>>
    BY Zenon DEF NormBinding
  <2>2. QED
    BY <2>1, OneWide, Zenon
<1>3. \A l, name : \A w \in P, h \in Nat : IsShape(MatrixBinding(f, l, name, w, h)[2])
  <2>1. \A l, name, w, h : MatrixBinding(f, l, name, w, h)[2] = <<w, h>>
    BY Zenon DEF MatrixBinding
  <2>2. SUFFICES ASSUME NEW l, NEW name, NEW w \in P, NEW h \in Nat
                 PROVE  IsShape(MatrixBinding(f, l, name, w, h)[2])
    BY Zenon
  <2>3. IsShape(<<w, h>>)
    BY TwoWide
  <2>4. QED
    BY <2>1, <2>3, Zenon
<1>4. IsShape(<<HeadTensor(f), <<f.hidden, f.vocab>>, FALSE>>[2])
  <2>1. <<HeadTensor(f), <<f.hidden, f.vocab>>, FALSE>>[2] = <<f.hidden, f.vocab>>
    BY Zenon
  <2>2. f.hidden \in P /\ f.vocab \in Nat
    BY <1>1
  <2>3. QED
    BY <2>1, <2>2, TwoWide, Zenon
<1> HIDE DEF P
<1>5. {f.hidden, f.ffn, QWidth(f), KvWidth(f), HeadDim(f), RopeDimensions(f) \div 2} \subseteq P
  BY <1>1 DEF P
<1>6. CASE b \in GlobalBindings(f)
  BY <1>1, <1>2, <1>3, <1>4, <1>5, <1>6 DEF GlobalBindings
<1>7. CASE b \in RopeBindings(f)
  BY <1>1, <1>2, <1>5, <1>7 DEF RopeBindings
<1>8. ASSUME NEW l \in 0 .. f.layers - 1, b \in LayerBindings(f, l)
      PROVE  IsShape(b[2])
  BY <1>1, <1>2, <1>3, <1>5, <1>8 DEF LayerBindings
<1>9. ASSUME NEW l \in 0 .. f.layers - 1, b \in HeadBindings(f, l)
      PROVE  IsShape(b[2])
  BY <1>2, <1>5, <1>9 DEF HeadBindings
<1>10. QED
  BY <1>6, <1>7, <1>8, <1>9 DEF AllBindings

\* What is known of a tensor of an accepted file.
Known(f, t) ==
  /\ Format(f, t[2]) \in Formats
  /\ Shape(f, t[2])[1] \in Nat \ {0}
  /\ Shape(f, t[2])[1] % BlockElems(Format(f, t[2])) = 0
  /\ RowBytes(f, t[2]) \in Nat \ {0} /\ Rows(f, t[2]) \in Nat
  /\ Bytes(f, t[2]) \in Nat /\ Bytes(f, t[2]) = Rows(f, t[2]) * RowBytes(f, t[2])

\* A tensor of an accepted file is one the graph binds.
LEMMA TensorIsBound ==
  ASSUME NEW f, f.layers \in Nat, Accepted(f), NEW t \in Tensors(f)
  PROVE  \E b \in AllBindings(f) : b[1] = t /\ BoundTensor(f, b)
<1>1. t \in Bound(f)
  BY DEF Accepted
<1>2. PICK i \in DOMAIN Bindings(f) : t = Bindings(f)[i][1]
  BY <1>1 DEF Bound
<1>3. Bindings(f)[i] \in Range(Bindings(f))
  BY DEF Range
<1>4. Bindings(f)[i] \in AllBindings(f)
  <2>1. Bindings(f) \in Seq(AllBindings(f))
    BY BindingsAre
  <2>2. QED
    BY <2>1
<1>5. BoundTensor(f, Bindings(f)[i])
  BY <1>3 DEF Accepted
<1>6. QED
  BY <1>2, <1>4, <1>5

\* Format, rows and bytes of a tensor of an accepted file.
LEMMA KnownIs ==
  ASSUME NEW f \in Files, Descriptor(f) = OK, NEW t \in Tensors(f)
  PROVE  Known(f, t)
<1>1. Numbers(f) /\ f.layers \in Nat
  BY FilesOK DEF Numbers
<1>2. Accepted(f)
  BY <1>1, DescriptorIs
<1>3. PICK b \in AllBindings(f) : b[1] = t /\ BoundTensor(f, b)
  BY <1>1, <1>2, TensorIsBound
<1>4. Format(f, t[2]) \in Formats /\ Shape(f, t[2]) = b[2]
  BY <1>3 DEF BoundTensor
<1>5. IsShape(b[2])
  BY <1>1, <1>2, ShapesAre DEF Accepted
<1>6. PICK w \in Nat \ {0}, h \in Nat : b[2] = <<w>> \/ b[2] = <<w, h>>
  BY <1>5 DEF IsShape
<1> DEFINE fmt == Format(f, t[2])
           elems == BlockElems(fmt)
           bytes == BlockBytes(fmt)
           shape == Shape(f, t[2])
<1>7. w % elems = 0
  <2>1. shape[1] % elems = 0
    BY FilesOK
  <2>2. shape[1] = w
    BY <1>4, <1>6
  <2>3. QED
    BY <2>1, <2>2
<1>8. elems \in Nat \ {0} /\ bytes \in Nat \ {0}
  BY <1>4, FormatSizes
<1>9. shape[1] = w /\ Rows(f, t[2]) \in Nat
  <2>1. Rows(f, t[2]) = IF Len(shape) = 2 THEN shape[2] ELSE 1
    BY DEF Rows
  <2>2. shape[1] = w /\ (Len(shape) = 2 => shape[2] = h)
    BY <1>4, <1>6
  <2>3. QED
    BY <2>1, <2>2
<1>10. RowBytes(f, t[2]) = (w \div elems) * bytes
  BY <1>9 DEF RowBytes
<1> DEFINE r == RowBytes(f, t[2])
           n == Rows(f, t[2])
<1>11. Bytes(f, t[2]) = n * r /\ n \in Nat
  BY <1>9 DEF Bytes
<1> HIDE DEF elems, bytes
<1>12. (w \div elems) * bytes \in Nat \ {0}
  <2> DEFINE q == w \div elems
  <2>1. q \in Nat /\ w = elems * q + (w % elems)
    BY <1>8, QuotRem
  <2> HIDE DEF q
  <2>2. q # 0
    BY <1>7, <1>8, <2>1
  <2>3. bytes * 1 <= bytes * q /\ bytes * q \in Nat
    BY <1>8, <2>1, <2>2, ProductGrows
  <2>4. q * bytes = bytes * q
    BY <1>8, <2>1
  <2>5. q * bytes \in Nat \ {0}
    BY <1>8, <2>3, <2>4
  <2>6. QED
    BY <2>5 DEF q
<1>13. r \in Nat \ {0}
  BY <1>10, <1>12
<1> HIDE DEF r, n
<1>14. n * r \in Nat
  BY <1>11, <1>13, TimesIsNat
<1>15. QED
  BY <1>4, <1>7, <1>9, <1>11, <1>13, <1>14 DEF Known, elems, r, n

-----------------------------------------------------------------------------
(* Placing tensors one after the other.                                    *)

\* Rounding up gives the next multiple.
LEMMA RoundUpIs ==
  ASSUME NEW n \in Nat, NEW a \in Nat \ {0}
  PROVE  RoundUp(n, a) \in Nat /\ n <= RoundUp(n, a) /\ \E k \in Nat : RoundUp(n, a) = k * a
<1> DEFINE m == n + a - 1
           q == m \div a
<1>1. m \in Nat
  OBVIOUS
<1>2. RoundUp(n, a) = q * a
  BY DEF RoundUp
<1>3. m = n + a - 1
  OBVIOUS
<1> HIDE DEF m
<1>4. q \in Nat /\ m = a * q + (m % a) /\ m % a \in 0 .. a - 1
  BY <1>1, QuotRem
<1> HIDE DEF q
<1>5. a * q \in Nat /\ a * q = q * a
  BY <1>4, TimesIsNat
<1> DEFINE p == a * q
<1> HIDE DEF p
<1>6. p \in Nat /\ n <= p
  <2>1. m = p + (m % a) /\ p \in Nat
    BY <1>4, <1>5 DEF p
  <2>2. QED
    BY <2>1, <1>3, <1>4
<1>7. QED
  BY <1>2, <1>4, <1>5, <1>6 DEF p

\* A multiple of the alignment is a word.
LEMMA AlignedIsWord ==
  ASSUME NEW k \in Nat
  PROVE  (k * Alignment) % 4 = 0
<1>1. Alignment \in Nat \ {0} /\ Alignment % 4 = 0
  BY AdmissionAssumption
<1> DEFINE a == Alignment \div 4
<1>2. a \in Nat /\ Alignment = 4 * a
  BY <1>1
<1> HIDE DEF a
<1>3. k * a \in Nat /\ k * Alignment = 4 * (k * a)
  BY <1>2, TimesIsNat
<1> DEFINE m == k * a
<1> HIDE DEF m
<1>4. m \in Nat => (4 * m) % 4 = 0
  OBVIOUS
<1>5. QED
  BY <1>3, <1>4 DEF m

\* The data starts at an aligned place past the first word.
LEMMA HeaderIs ==
  /\ Header \in Nat /\ Header >= 4 /\ Header % 4 = 0
  /\ \E k \in Nat : Header = k * Alignment
<1>1. Alignment \in Nat \ {0} /\ Header \in Nat \ {0} /\ Header % Alignment = 0
  BY AdmissionAssumption
<1> DEFINE q == Header \div Alignment
<1>2. q \in Nat /\ Header = Alignment * q + (Header % Alignment)
  BY <1>1, QuotRem
<1>3. Header = q * Alignment
  <2> HIDE DEF q
  <2>1. Alignment * q \in Nat /\ q * Alignment = Alignment * q
    BY <1>1, <1>2, TimesIsNat
  <2> DEFINE p == Alignment * q
  <2> HIDE DEF p
  <2>2. Header = p
    BY <1>1, <1>2, <2>1 DEF p
  <2>3. QED
    BY <2>1, <2>2 DEF p
<1>4. Header % 4 = 0
  BY <1>2, <1>3, AlignedIsWord
<1>5. QED
  BY <1>1, <1>2, <1>3, <1>4

\* The places of tensors of given sizes.
Placing(G, n, size) ==
  G = [i \in 1 .. n |-> IF i = 1 THEN Header ELSE RoundUp(G[i - 1] + size[i - 1], Alignment)]

\* The places of the writer exist: each from the one before.
LEMMA PlacingExists ==
  ASSUME NEW n \in Nat \ {0}, NEW size \in [1 .. n -> Nat]
  PROVE  \E G : Placing(G, n, size)
<1> DEFINE step == [p \in Nat \X Nat |->
                      IF p[2] - 1 \in 1 .. n THEN RoundUp(p[1] + size[p[2] - 1], Alignment) ELSE 0]
<1>1. Alignment \in Nat \ {0} /\ Header \in Nat
  BY AdmissionAssumption
<1>2. step \in [Nat \X Nat -> Nat]
  <2>1. \A p \in Nat \X Nat : p[2] - 1 \in 1 .. n => RoundUp(p[1] + size[p[2] - 1], Alignment) \in Nat
    <3>1. \A p \in Nat \X Nat : p[2] - 1 \in 1 .. n => p[1] + size[p[2] - 1] \in Nat
      OBVIOUS
    <3>2. QED
      BY <1>1, <3>1, RoundUpIs
  <2>2. QED
    BY <2>1
<1>3. ASSUME NEW a \in Nat, NEW i \in 2 .. n
      PROVE  step[<<a, i>>] = RoundUp(a + size[i - 1], Alignment)
  <2>1. <<a, i>> \in Nat \X Nat /\ i - 1 \in 1 .. n
    OBVIOUS
  <2>2. QED
    BY <2>1
<1> HIDE DEF step
<1>4. PICK G \in [1 .. n -> Nat] :
        G = [i \in 1 .. n |-> IF i = 1 THEN Header ELSE step[<<G[i - 1], i>>]]
  <2>1. \E G : RecursionOver(G, Nat, Header, step, n)
    BY <1>1, <1>2, RecursionExists
  <2>2. QED
    BY <2>1 DEF RecursionOver
<1>5. Placing(G, n, size)
  <2>1. ASSUME NEW i \in 1 .. n, i # 1
        PROVE  step[<<G[i - 1], i>>] = RoundUp(G[i - 1] + size[i - 1], Alignment)
    <3>1. i \in 2 .. n /\ G[i - 1] \in Nat
      BY <2>1
    <3>2. QED
      BY <3>1, <1>3
  <2>2. QED
    BY <2>1, <1>4 DEF Placing
<1>6. QED
  BY <1>5

\* Tensors are placed on words, after the header, each after the ones before it.
LEMMA PlacesAre ==
  ASSUME NEW n \in Nat \ {0}, NEW size \in [1 .. n -> Nat], NEW G, Placing(G, n, size)
  PROVE  /\ \A i \in 1 .. n : G[i] \in Nat /\ G[i] >= Header /\ G[i] % 4 = 0
         /\ \A i \in 1 .. n : \A j \in 1 .. n : j < i => G[j] + size[j] <= G[i]
<1>0. Alignment \in Nat \ {0}
  BY AdmissionAssumption
<1>1. G[1] = Header
  BY DEF Placing
<1>2. \A i \in 2 .. n : G[i] = RoundUp(G[i - 1] + size[i - 1], Alignment)
  <2>1. \A i \in 2 .. n : i \in 1 .. n /\ i # 1
    OBVIOUS
  <2>2. QED
    BY <2>1, Zenon DEF Placing
<1> DEFINE Good(i) == /\ G[i] \in Nat /\ G[i] >= Header /\ G[i] % 4 = 0
                      /\ \A j \in 1 .. n : j < i => G[j] \in Nat /\ G[j] + size[j] <= G[i]
           T == {k \in Nat : k + 1 <= n => Good(k + 1)}
<1>3. 0 \in T
  BY <1>1, HeaderIs
<1>4. ASSUME NEW k \in Nat, k \in T PROVE k + 1 \in T
  <2>1. SUFFICES ASSUME (k + 1) + 1 <= n PROVE Good((k + 1) + 1)
    OBVIOUS
  <2> DEFINE i == k + 1
             m == G[i] + size[i]
  <2>2. i \in 1 .. n /\ i + 1 \in 2 .. n /\ (i + 1) - 1 = i
    BY <2>1
  <2>3. Good(i)
    BY <1>4, <2>2
  <2>4. G[i + 1] = RoundUp(m, Alignment)
    <3> HIDE DEF i
    <3>1. G[i + 1] = RoundUp(G[(i + 1) - 1] + size[(i + 1) - 1], Alignment)
      BY <1>2, <2>2
    <3>2. QED
      BY <2>2, <3>1
  <2> HIDE DEF i
  <2>5. m \in Nat /\ G[i] <= m /\ size[i] \in Nat
    BY <2>2, <2>3
  <2> HIDE DEF m
  <2>6. G[i + 1] \in Nat /\ m <= G[i + 1] /\ \E q \in Nat : G[i + 1] = q * Alignment
    BY <1>0, <2>4, <2>5, RoundUpIs
  <2>7. G[i + 1] % 4 = 0
    BY <2>6, AlignedIsWord
  <2>8. G[i + 1] >= Header
    BY <2>3, <2>5, <2>6, HeaderIs
  <2>9. ASSUME NEW j \in 1 .. n, j < i + 1 PROVE G[j] \in Nat /\ G[j] + size[j] <= G[i + 1]
    <3>1. CASE j = i
      BY <3>1, <2>3, <2>6 DEF m
    <3>2. CASE j < i
      <4>1. G[j] \in Nat /\ size[j] \in Nat /\ G[j] + size[j] <= G[i]
        BY <3>2, <2>3
      <4>2. QED
        BY <4>1, <2>3, <2>5, <2>6
    <3>3. QED
      BY <3>1, <3>2, <2>2, <2>9
  <2>10. Good(i + 1)
    BY <2>6, <2>7, <2>8, <2>9
  <2>11. QED
    BY <2>10 DEF i
<1>5. Nat \subseteq T
  <2> HIDE DEF T
  <2>1. QED
    BY <1>3, <1>4, Induction
<1>6. ASSUME NEW i \in 1 .. n PROVE Good(i)
  <2>1. i - 1 \in Nat /\ (i - 1) + 1 = i /\ i <= n
    OBVIOUS
  <2>2. i - 1 \in T
    BY <2>1, <1>5
  <2>3. QED
    BY <2>1, <2>2
<1>7. QED
  BY <1>6

-----------------------------------------------------------------------------
(* Where the tensors of a file are.                                        *)

\* The tensors of an accepted file lie in it, apart from each other, on words after the header.
Placed(f, at) ==
  /\ DOMAIN at = Tensors(f) /\ FileSize(f, at) \in Nat \ {0}
  /\ \A t \in Tensors(f) :
       /\ at[t] \in Nat /\ at[t] >= 4 /\ at[t] % 4 = 0
       /\ at[t] + Bytes(f, t[2]) <= FileSize(f, at)
  /\ \A t \in Tensors(f), u \in Tensors(f) :
       t # u => at[t] + Bytes(f, t[2]) <= at[u] \/ at[u] + Bytes(f, u[2]) <= at[t]

\* The output norm is always there.
LEMMA GlobalsAreThere ==
  ASSUME NEW f, f.layers \in Nat, Accepted(f)
  PROVE  {Embedding, OutputNorm, HeadTensor(f)} \subseteq Tensors(f)
<1>1. GlobalBindings(f) \subseteq Range(Bindings(f))
  BY BindingsAre
<1>2. \A b \in GlobalBindings(f) : b[1] \in Tensors(f)
  BY <1>1 DEF Accepted, BoundTensor
<1> DEFINE x == MatrixBinding(f, Global, "token_embd", f.hidden, f.vocab)
           y == NormBinding(f, Global, "output_norm", f.hidden)
           z == <<HeadTensor(f), <<f.hidden, f.vocab>>, FALSE>>
<1>3. x \in GlobalBindings(f) /\ y \in GlobalBindings(f) /\ z \in GlobalBindings(f)
  BY DEF GlobalBindings
<1>4. x[1] = Embedding /\ y[1] = OutputNorm /\ z[1] = HeadTensor(f)
  BY Zenon DEF MatrixBinding, NormBinding, Embedding, OutputNorm
<1> HIDE DEF x, y, z
<1>5. QED
  BY <1>2, <1>3, <1>4

\* Where the sizes of the tensors put them.
Laid(f, n, size, G, idx) ==
  /\ n \in Nat \ {0} /\ size \in [1 .. n -> Nat] /\ idx \in [Tensors(f) -> 1 .. n]
  /\ Placing(G, n, size)
  /\ OffsetsOf(f) = [t \in Tensors(f) |-> G[idx[t]]]
  /\ \A t \in Tensors(f) : size[idx[t]] = Bytes(f, t[2])
  /\ \A t \in Tensors(f), u \in Tensors(f) : idx[t] = idx[u] => t = u

\* The offsets of a file are the places of its writer.
LEMMA OffsetsArePlaces ==
  ASSUME NEW f \in Files, Descriptor(f) = OK
  PROVE  \E n, size, G, idx : Laid(f, n, size, G, idx)
<1>1. f.layers \in Nat /\ Accepted(f)
  <2>1. f.layers \in Nat
    BY FilesOK
  <2>2. QED
    BY <2>1, DescriptorIs
<1> DEFINE T == Tensors(f)
           order == Order(f)
           n == Len(order)
           Size(t) == IF t \in f.missing THEN 0 ELSE Bytes(f, t[2])
           size == [i \in 1 .. n |-> Size(order[i])]
           place == CHOOSE G : G = [i \in 1 .. Len(order) |->
                      IF i = 1 THEN Header ELSE RoundUp(G[i - 1] + Size(order[i - 1]), Alignment)]
           idx == [t \in T |-> CHOOSE i \in DOMAIN order : order[i] = t]
<1>2. order \in Seq(Places(f)) /\ n \in Nat /\ DOMAIN order = 1 .. n
  BY OrderIs
<1>3. OffsetsOf(f) = [t \in T |-> place[CHOOSE i \in DOMAIN order : order[i] = t]]
  BY DEF OffsetsOf
<1>4. T = Range(order) \ f.missing
  BY DEF Tensors
<1>5. \A t \in T : Bytes(f, t[2]) \in Nat
  BY KnownIs DEF Known
<1>6. OutputNorm \in T
  BY <1>1, GlobalsAreThere
<1> HIDE DEF T, order
<1>7. ASSUME NEW t \in T
      PROVE  idx[t] \in 1 .. n /\ order[idx[t]] = t
  <2>1. \E i \in DOMAIN order : order[i] = t
    BY <1>4 DEF Range
  <2>2. idx[t] = CHOOSE i \in DOMAIN order : order[i] = t
    OBVIOUS
  <2>3. QED
    BY <1>2, <2>1, <2>2
<1>8. n \in Nat \ {0}
  BY <1>2, <1>6, <1>7
<1>9. size \in [1 .. n -> Nat]
  <2>1. ASSUME NEW i \in 1 .. n PROVE Size(order[i]) \in Nat
    <3>1. order[i] \in Range(order)
      BY <1>2 DEF Range
    <3>2. QED
      BY <1>4, <1>5, <3>1
  <2> HIDE DEF n, Size
  <2>2. QED
    BY <2>1
<1>10. Placing(place, n, size)
  <2> HIDE DEF Size
  <2> DEFINE m == n
  <2>1. m \in Nat \ {0} /\ size = [i \in 1 .. m |-> Size(order[i])] /\ Len(order) = m
    BY <1>8
  <2>2. size \in [1 .. m -> Nat]
    BY <1>9
  <2> HIDE DEF m, size
  <2>3. PICK G : Placing(G, m, size)
    BY <2>1, <2>2, PlacingExists
  <2>4. ASSUME NEW H
        PROVE  [i \in 1 .. m |-> IF i = 1 THEN Header ELSE RoundUp(H[i - 1] + size[i - 1], Alignment)]
               = [i \in 1 .. Len(order) |->
                    IF i = 1 THEN Header ELSE RoundUp(H[i - 1] + Size(order[i - 1]), Alignment)]
    <3>1. \A i \in 1 .. m : i # 1 => size[i - 1] = Size(order[i - 1])
      <4>1. \A i \in 1 .. m : i # 1 => i - 1 \in 1 .. m
        BY <2>1
      <4>2. QED
        BY <2>1, <4>1
    <3>2. QED
      BY <2>1, <3>1
  <2>5. G = [i \in 1 .. Len(order) |->
               IF i = 1 THEN Header ELSE RoundUp(G[i - 1] + Size(order[i - 1]), Alignment)]
    BY <2>3, <2>4, Zenon DEF Placing
  <2>6. place = [i \in 1 .. Len(order) |->
               IF i = 1 THEN Header ELSE RoundUp(place[i - 1] + Size(order[i - 1]), Alignment)]
    BY <2>5
  <2> HIDE DEF place
  <2>7. Placing(place, m, size)
    BY <2>4, <2>6, Zenon DEF Placing
  <2>8. QED
    BY <2>7 DEF m
<1> HIDE DEF place
<1>11. idx \in [T -> 1 .. n]
  <2>1. DOMAIN idx = T /\ idx = [t \in T |-> idx[t]]
    OBVIOUS
  <2> HIDE DEF idx, n
  <2>2. QED
    BY <1>7, <2>1
<1>12. OffsetsOf(f) = [t \in T |-> place[idx[t]]]
  BY <1>3
<1>13. \A t \in T : size[idx[t]] = Bytes(f, t[2])
  <2>1. ASSUME NEW t \in T PROVE size[idx[t]] = Bytes(f, t[2])
    <3>1. idx[t] \in 1 .. n /\ order[idx[t]] = t /\ t \notin f.missing
      BY <1>4, <1>7
    <3> HIDE DEF idx, n
    <3>2. QED
      BY <3>1
  <2>2. QED
    BY <2>1
<1>14. \A t \in T, u \in T : idx[t] = idx[u] => t = u
  <2> HIDE DEF idx
  <2>1. QED
    BY <1>7
<1> HIDE DEF idx, size, n
<1>15. Laid(f, n, size, place, idx)
  BY <1>8, <1>9, <1>10, <1>11, <1>12, <1>13, <1>14 DEF T, Laid
<1>16. QED
  BY <1>15

\* The tensors of a file are word aligned, inside it and apart from each other.
LEMMA OffsetsAre ==
  ASSUME NEW f \in Files, Descriptor(f) = OK
  PROVE  Placed(f, OffsetsOf(f))
<1> DEFINE T == Tensors(f)
           at == OffsetsOf(f)
           B(t) == Bytes(f, t[2])
           ends == { at[t] + Bytes(f, t[2]) : t \in DOMAIN at }
<1>0. PICK n, size, G, idx : Laid(f, n, size, G, idx)
  BY OffsetsArePlaces
<1>1. /\ n \in Nat \ {0} /\ size \in [1 .. n -> Nat] /\ idx \in [T -> 1 .. n]
      /\ Placing(G, n, size)
      /\ at = [t \in T |-> G[idx[t]]]
      /\ \A t \in T : size[idx[t]] = B(t)
      /\ \A t \in T, u \in T : idx[t] = idx[u] => t = u
  BY <1>0 DEF Laid
<1>2. /\ \A i \in 1 .. n : G[i] \in Nat /\ G[i] >= Header /\ G[i] % 4 = 0
      /\ \A i \in 1 .. n : \A j \in 1 .. n : j < i => G[j] + size[j] <= G[i]
  BY <1>1, PlacesAre
<1>3. OutputNorm \in T /\ f.padding \in Nat
  <2>1. f.layers \in Nat /\ f.padding \in Nat
    BY FilesOK
  <2>2. QED
    BY <2>1, DescriptorIs, GlobalsAreThere
<1> HIDE DEF T, B
<1>4. \A t \in T : at[t] = G[idx[t]] /\ idx[t] \in 1 .. n /\ B(t) = size[idx[t]] /\ B(t) \in Nat
  BY <1>1
<1>5. \A t \in T : at[t] \in Nat /\ at[t] >= 4 /\ at[t] % 4 = 0
  BY <1>2, <1>4, HeaderIs
<1>6. \A t \in T, u \in T : t # u => at[t] + B(t) <= at[u] \/ at[u] + B(u) <= at[t]
  <2>1. SUFFICES ASSUME NEW t \in T, NEW u \in T, t # u
                 PROVE  at[t] + B(t) <= at[u] \/ at[u] + B(u) <= at[t]
    OBVIOUS
  <2>2. idx[t] < idx[u] \/ idx[u] < idx[t]
    BY <1>1, <1>4, <2>1
  <2>3. QED
    BY <1>2, <1>4, <2>2
<1>7. DOMAIN at = T /\ ends = { at[t] + B(t) : t \in T }
  BY <1>1 DEF B
<1> HIDE DEF at
<1> DEFINE last == G[n] + size[n]
<1>8. last \in Nat /\ \A t \in T : at[t] + B(t) <= last
  <2>1. n \in 1 .. n
    BY <1>1
  <2>2. \A i \in 1 .. n : i = n \/ i < n
    BY <1>1
  <2>3. G[n] \in Nat /\ size[n] \in Nat
    BY <1>1, <1>2, <2>1
  <2>4. ASSUME NEW t \in T PROVE at[t] + B(t) <= last
    <3>1. CASE idx[t] = n
      BY <1>4, <2>3, <3>1
    <3>2. CASE idx[t] < n
      <4>1. G[idx[t]] + size[idx[t]] <= G[n]
        BY <1>2, <1>4, <2>1, <3>2
      <4>2. G[idx[t]] \in Nat /\ size[idx[t]] \in Nat
        BY <1>2, <1>4
      <4>3. QED
        BY <1>4, <2>3, <4>1, <4>2
    <3>3. QED
      BY <1>4, <2>2, <3>1, <3>2
  <2>5. QED
    BY <2>3, <2>4
<1> HIDE DEF last
<1>9. ends \subseteq Nat /\ ends # {} /\ \A k \in ends : k <= last
  <2>1. \A t \in T : at[t] + B(t) \in Nat /\ at[t] + B(t) <= last
    BY <1>4, <1>5, <1>8
  <2> HIDE DEF ends
  <2>2. QED
    BY <1>3, <1>7, <2>1
<1> DEFINE top == CHOOSE k \in ends : \A j \in ends : j <= k
<1>10. top \in ends /\ \A k \in ends : k <= top
  <2> HIDE DEF ends
  <2>1. \E k \in ends : \A j \in ends : j <= k
    BY <1>8, <1>9, BoundedHasGreatest
  <2>2. QED
    BY <2>1
<1>11. FileSize(f, at) = top + f.padding
  BY Zenon DEF FileSize
<1> HIDE DEF top
<1>12. \A t \in T : at[t] + B(t) \in ends
  BY <1>7
<1> HIDE DEF ends
<1>13. \A t \in T : at[t] + B(t) <= FileSize(f, at)
  <2>1. ASSUME NEW t \in T PROVE at[t] + B(t) <= FileSize(f, at)
    <3> DEFINE k == at[t] + B(t)
    <3>1. k \in ends
      BY <1>12
    <3> HIDE DEF k
    <3>2. k \in Nat /\ top \in Nat /\ k <= top
      BY <1>9, <1>10, <3>1
    <3>3. QED
      BY <1>3, <1>11, <3>2 DEF k
  <2>2. QED
    BY <2>1
<1>14. FileSize(f, at) \in Nat \ {0}
  <2>1. at[OutputNorm] + B(OutputNorm) <= top /\ at[OutputNorm] >= 4 /\ B(OutputNorm) \in Nat /\ at[OutputNorm] \in Nat
    BY <1>3, <1>4, <1>5, <1>10, <1>12
  <2>2. top \in Nat
    BY <1>9, <1>10
  <2>3. QED
    BY <1>3, <1>11, <2>1, <2>2
<1>15. QED
  BY <1>5, <1>6, <1>7, <1>13, <1>14 DEF Placed, at, T, B

-----------------------------------------------------------------------------
(* The tensors of a layer and the others.                                  *)

\* What a bound tensor is.
HasNorm(f, l, name, w) ==
  <<l, name>> \in Tensors(f) /\ Format(f, name) = "F32" /\ Shape(f, name) = <<w>>
HasMatrix(f, l, name, w, h) ==
  <<l, name>> \in Tensors(f) /\ Format(f, name) \in Formats /\ Shape(f, name) = <<w, h>>

\* A bound norm is F32 and as wide as it must be.
LEMMA HasNormIs ==
  ASSUME NEW f, NEW l, NEW name, NEW w, BoundTensor(f, NormBinding(f, l, name, w))
  PROVE  HasNorm(f, l, name, w)
<1> DEFINE t == <<l, name>>
           b == NormBinding(f, l, name, w)
<1>1. b[1] = t /\ b[2] = <<w>> /\ b[3] = TRUE
  BY Zenon DEF NormBinding
<1>2. t[2] = name
  BY Zenon
<1> HIDE DEF b, t
<1>3. /\ b[1] \in Tensors(f) /\ Shape(f, b[1][2]) = b[2]
      /\ (b[3] => Format(f, b[1][2]) = "F32")
  BY Zenon DEF BoundTensor, b
<1>4. t \in Tensors(f) /\ Shape(f, name) = <<w>>
  BY <1>1, <1>2, <1>3, Zenon
<1>5. Format(f, name) = "F32"
  BY <1>1, <1>2, <1>3, Zenon
<1>6. QED
  BY <1>4, <1>5 DEF HasNorm, t

\* A bound matrix has a format and the shape it must have.
LEMMA HasMatrixIs ==
  ASSUME NEW f, NEW l, NEW name, NEW w, NEW h, BoundTensor(f, MatrixBinding(f, l, name, w, h))
  PROVE  HasMatrix(f, l, name, w, h)
<1> DEFINE t == <<l, name>>
           b == MatrixBinding(f, l, name, w, h)
<1>1. b[1] = t /\ b[2] = <<w, h>>
  BY Zenon DEF MatrixBinding
<1>2. t[2] = name
  BY Zenon
<1> HIDE DEF b, t
<1>3. b[1] \in Tensors(f) /\ Shape(f, b[1][2]) = b[2] /\ Format(f, b[1][2]) \in Formats
  BY Zenon DEF BoundTensor, b
<1>4. t \in Tensors(f) /\ Shape(f, name) = <<w, h>> /\ Format(f, name) \in Formats
  BY <1>1, <1>2, <1>3, Zenon
<1>5. QED
  BY <1>4 DEF HasMatrix, t

\* The tensors of an accepted model.
LayerHas(f, l) ==
  /\ HasNorm(f, l, "attn_norm", f.hidden) /\ HasMatrix(f, l, "attn_q", f.hidden, QWidth(f))
  /\ HasMatrix(f, l, "attn_k", f.hidden, KvWidth(f)) /\ HasMatrix(f, l, "attn_v", f.hidden, KvWidth(f))
  /\ HasMatrix(f, l, "attn_output", QWidth(f), f.hidden) /\ HasNorm(f, l, "ffn_norm", f.hidden)
  /\ HasMatrix(f, l, "ffn_gate", f.hidden, f.ffn) /\ HasMatrix(f, l, "ffn_up", f.hidden, f.ffn)
  /\ HasMatrix(f, l, "ffn_down", f.ffn, f.hidden)
  /\ f.arch = "qwen3" => /\ HasNorm(f, l, "attn_q_norm", HeadDim(f))
                         /\ HasNorm(f, l, "attn_k_norm", HeadDim(f))

\* A layer of an accepted file has all its tensors.
LEMMA LayerHasAll ==
  ASSUME NEW f, f.layers \in Nat, Accepted(f), NEW l \in 0 .. f.layers - 1
  PROVE  LayerHas(f, l)
<1>1. LayerBindings(f, l) \cup HeadBindings(f, l) \subseteq Range(Bindings(f))
  BY BindingsAre
<1>2. \A b \in LayerBindings(f, l) : BoundTensor(f, b)
  BY <1>1 DEF Accepted
<1>3. \A b \in HeadBindings(f, l) : BoundTensor(f, b)
  BY <1>1 DEF Accepted
<1>4. /\ BoundTensor(f, NormBinding(f, l, "attn_norm", f.hidden))
      /\ BoundTensor(f, MatrixBinding(f, l, "attn_q", f.hidden, QWidth(f)))
      /\ BoundTensor(f, MatrixBinding(f, l, "attn_k", f.hidden, KvWidth(f)))
      /\ BoundTensor(f, MatrixBinding(f, l, "attn_v", f.hidden, KvWidth(f)))
      /\ BoundTensor(f, MatrixBinding(f, l, "attn_output", QWidth(f), f.hidden))
      /\ BoundTensor(f, NormBinding(f, l, "ffn_norm", f.hidden))
      /\ BoundTensor(f, MatrixBinding(f, l, "ffn_gate", f.hidden, f.ffn))
      /\ BoundTensor(f, MatrixBinding(f, l, "ffn_up", f.hidden, f.ffn))
      /\ BoundTensor(f, MatrixBinding(f, l, "ffn_down", f.ffn, f.hidden))
  BY <1>2 DEF LayerBindings
<1>5. f.arch = "qwen3" => /\ BoundTensor(f, NormBinding(f, l, "attn_q_norm", HeadDim(f)))
                         /\ BoundTensor(f, NormBinding(f, l, "attn_k_norm", HeadDim(f)))
  BY <1>3 DEF HeadBindings
<1>6. f.arch = "qwen3" => /\ HasNorm(f, l, "attn_q_norm", HeadDim(f))
                         /\ HasNorm(f, l, "attn_k_norm", HeadDim(f))
  BY <1>5, HasNormIs
<1>7. /\ HasNorm(f, l, "attn_norm", f.hidden) /\ HasNorm(f, l, "ffn_norm", f.hidden)
      /\ HasMatrix(f, l, "attn_q", f.hidden, QWidth(f))
      /\ HasMatrix(f, l, "attn_k", f.hidden, KvWidth(f)) /\ HasMatrix(f, l, "attn_v", f.hidden, KvWidth(f))
      /\ HasMatrix(f, l, "attn_output", QWidth(f), f.hidden)
      /\ HasMatrix(f, l, "ffn_gate", f.hidden, f.ffn) /\ HasMatrix(f, l, "ffn_up", f.hidden, f.ffn)
      /\ HasMatrix(f, l, "ffn_down", f.ffn, f.hidden)
  BY <1>4, HasNormIs, HasMatrixIs
<1>8. QED
  BY <1>6, <1>7 DEF LayerHas

\* The tensors outside of the layers.
GlobalsHave(f) ==
  /\ HasMatrix(f, Global, "token_embd", f.hidden, f.vocab)
  /\ HasNorm(f, Global, "output_norm", f.hidden)
  /\ HeadTensor(f) \in Tensors(f) /\ Shape(f, HeadTensor(f)[2]) = <<f.hidden, f.vocab>>
  /\ Format(f, HeadTensor(f)[2]) \in Formats

\* An accepted file has an embedding, a final norm and a head.
LEMMA GlobalsHaveAll ==
  ASSUME NEW f, f.layers \in Nat, Accepted(f)
  PROVE  GlobalsHave(f)
<1> DEFINE z == <<HeadTensor(f), <<f.hidden, f.vocab>>, FALSE>>
<1>1. GlobalBindings(f) \subseteq Range(Bindings(f))
  BY BindingsAre
<1>2. \A b \in GlobalBindings(f) : BoundTensor(f, b)
  BY <1>1 DEF Accepted
<1>3. /\ BoundTensor(f, MatrixBinding(f, Global, "token_embd", f.hidden, f.vocab))
      /\ BoundTensor(f, NormBinding(f, Global, "output_norm", f.hidden))
      /\ BoundTensor(f, z)
  BY <1>2 DEF GlobalBindings
<1>4. z[1] = HeadTensor(f) /\ z[2] = <<f.hidden, f.vocab>>
  BY Zenon
<1> HIDE DEF z
<1>5. z[1] \in Tensors(f) /\ Shape(f, z[1][2]) = z[2] /\ Format(f, z[1][2]) \in Formats
  BY <1>3, Zenon DEF BoundTensor
<1>6. QED
  BY <1>3, <1>4, <1>5, HasNormIs, HasMatrixIs DEF GlobalsHave

\* The size of a tensor of a layer is positive; of a norm it is four bytes a number.
LEMMA NormBytes ==
  ASSUME NEW f, NEW l, NEW name, NEW w \in Nat, HasNorm(f, l, name, w)
  PROVE  Rows(f, name) = 1 /\ RowBytes(f, name) = 4 * w /\ Bytes(f, name) = 4 * w
<1>1. Format(f, name) = "F32" /\ Shape(f, name) = <<w>>
  BY DEF HasNorm
<1>2. "F32" \in Formats
  BY FormatsAre
<1>3. BlockElems("F32") = 1 /\ BlockBytes("F32") = 4
  BY <1>2, FormatIs
<1>4. Rows(f, name) = 1
  BY <1>1 DEF Rows
<1>5. RowBytes(f, name) = (w \div 1) * 4
  BY <1>1, <1>3 DEF RowBytes
<1>6. (w \div 1) * 4 = 4 * w /\ 1 * (4 * w) = 4 * w
  OBVIOUS
<1>7. QED
  BY <1>4, <1>5, <1>6 DEF Bytes

\* A tensor of a layer is there and not empty.
LEMMA LayerTensorIs ==
  ASSUME NEW f \in Files, Descriptor(f) = OK, NEW l \in 0 .. f.layers - 1, NEW t \in InLayer(f, l)
  PROVE  t \in Tensors(f) /\ Bytes(f, t[2]) \in Nat \ {0} /\ Rows(f, t[2]) \in Nat \ {0}
<1>1. Numbers(f) /\ f.layers \in Nat
  BY FilesOK DEF Numbers
<1>2. Accepted(f)
  BY <1>1, DescriptorIs
<1>3. LayerHas(f, l)
  BY <1>1, <1>2, LayerHasAll
<1>4. PICK name \in LayerNameSet(f) : t = <<l, name>>
  BY InLayerIs DEF LayerSet
<1>5. {f.hidden, f.ffn, QWidth(f), KvWidth(f), HeadDim(f)} \subseteq Nat \ {0}
  BY <1>1, <1>2, WidthsAre DEF Accepted, Dimensions
<1>6. /\ \A w, h : HasMatrix(f, l, name, w, h) => <<l, name>> \in Tensors(f) /\ Rows(f, name) = h
      /\ \A w : HasNorm(f, l, name, w) => <<l, name>> \in Tensors(f) /\ Rows(f, name) = 1
  BY DEF HasMatrix, HasNorm, Rows
<1>7. <<l, name>> \in Tensors(f) /\ Rows(f, name) \in Nat \ {0}
  BY <1>3, <1>4, <1>5, <1>6 DEF LayerHas, LayerNameSet
<1>8. Known(f, t)
  BY <1>4, <1>7, KnownIs
<1> DEFINE n == Rows(f, t[2])
           r == RowBytes(f, t[2])
<1>9. n \in Nat \ {0} /\ r \in Nat \ {0} /\ Bytes(f, t[2]) = n * r
  BY <1>4, <1>7, <1>8 DEF Known
<1> HIDE DEF n, r
<1>10. n * r \in Nat \ {0}
  <2>1. r * 1 <= r * n /\ r * n \in Nat /\ r * n = n * r /\ r * 1 = r
    BY <1>9, ProductGrows
  <2>2. QED
    BY <1>9, <2>1
<1>11. QED
  BY <1>4, <1>7, <1>9, <1>10

-----------------------------------------------------------------------------
(* The layer table and the window of a layer.                              *)

\* Where a layer starts and ends.
Starts(f, l, at) == { at[t] : t \in InLayer(f, l) }
Ends(f, l, at) == { at[t] + Bytes(f, t[2]) : t \in InLayer(f, l) }

\* A layer lies between its first tensor and the end of its last, inside the file.
LEMMA LayerExtent ==
  ASSUME NEW f \in Files, Descriptor(f) = OK, NEW at, Placed(f, at), NEW l \in 0 .. f.layers - 1
  PROVE  /\ Least(Starts(f, l, at)) \in Nat /\ Least(Starts(f, l, at)) >= 4
         /\ Least(Starts(f, l, at)) % 4 = 0
         /\ \A t \in InLayer(f, l) : Least(Starts(f, l, at)) <= at[t]
         /\ Greatest(Ends(f, l, at)) \in Nat /\ Greatest(Ends(f, l, at)) <= FileSize(f, at)
         /\ \A t \in InLayer(f, l) : at[t] + Bytes(f, t[2]) <= Greatest(Ends(f, l, at))
         /\ \E t \in InLayer(f, l) : Greatest(Ends(f, l, at)) = at[t] + Bytes(f, t[2])
<1> DEFINE L == InLayer(f, l)
           B(t) == Bytes(f, t[2])
           size == FileSize(f, at)
           S == Starts(f, l, at)
           E == Ends(f, l, at)
<1>1. \A t \in L : t \in Tensors(f) /\ B(t) \in Nat
  BY LayerTensorIs
<1>2. size \in Nat /\ \A t \in L : at[t] \in Nat /\ at[t] >= 4 /\ at[t] % 4 = 0 /\ at[t] + B(t) <= size
  BY <1>1 DEF Placed
<1>3. L # {}
  <2>1. <<l, "attn_q">> \in L
    BY InLayerIs DEF LayerSet, LayerNameSet
  <2>2. QED
    BY <2>1
<1>4. S = { at[t] : t \in L } /\ E = { at[t] + B(t) : t \in L }
  BY DEF Starts, Ends
<1> HIDE DEF L, B, size, S, E
<1>5. S \subseteq Nat /\ S # {} /\ \A k \in S : k >= 4 /\ k % 4 = 0
  BY <1>2, <1>3, <1>4
<1>6. E \subseteq Nat /\ E # {} /\ \A k \in E : k <= size
  BY <1>1, <1>2, <1>3, <1>4
<1>7. Least(S) \in S /\ \A k \in S : Least(S) <= k
  BY <1>5, LeastIs
<1>8. Greatest(E) \in E /\ (\A k \in E : k <= Greatest(E)) /\ Greatest(E) <= size
  BY <1>2, <1>6, GreatestIs
<1>9. \A t \in L : at[t] \in S /\ at[t] + B(t) \in E
  BY <1>4
<1>10. \E t \in L : Greatest(E) = at[t] + B(t)
  BY <1>4, <1>8
<1>11. QED
  BY <1>5, <1>6, <1>7, <1>8, <1>9, <1>10 DEF L, B, size, S, E

\* The base and the packed offsets of the layer table give back the places of the tensors.
LEMMA LayerTableIs ==
  ASSUME NEW f \in Files, Descriptor(f) = OK, NEW at, Placed(f, at), NEW l \in 0 .. f.layers - 1
  PROVE  /\ BaseByte(f, l, at) = Least(Starts(f, l, at)) - 4
         /\ CompileLayer(f, l, at).base \in Nat
         /\ 4 * CompileLayer(f, l, at).base = Least(Starts(f, l, at)) - 4
         /\ LayerSpan(f, l, at) = <<4 * CompileLayer(f, l, at).base, Greatest(Ends(f, l, at))>>
         /\ DOMAIN CompileLayer(f, l, at).packed = InLayer(f, l)
         /\ \A t \in InLayer(f, l) :
              /\ CompileLayer(f, l, at).packed[t] \in Nat \ {0}
              /\ CompileLayer(f, l, at).packed[t] % 2 = 0
              /\ at[t] = 4 * CompileLayer(f, l, at).base + 2 * CompileLayer(f, l, at).packed[t]
<1> DEFINE least == Least(Starts(f, l, at))
           lay == CompileLayer(f, l, at)
           base == BaseByte(f, l, at)
<1>1. least \in Nat /\ least >= 4 /\ least % 4 = 0 /\ \A t \in InLayer(f, l) : least <= at[t]
  BY LayerExtent
<1>2. \A t \in InLayer(f, l) : at[t] \in Nat /\ at[t] % 4 = 0
  <2>1. \A t \in InLayer(f, l) : t \in Tensors(f)
    BY LayerTensorIs
  <2>2. QED
    BY <2>1 DEF Placed
<1>3. least = Least({ at[t] : t \in InLayer(f, l) })
  BY DEF Starts
<1>4. base = AtLeast(RoundDown(least, 4) - 4, 0)
  BY <1>3 DEF BaseByte
<1>5. lay.base = base \div 4 /\ lay.packed = [t \in InLayer(f, l) |-> RelativePacked(at[t], base)]
  BY DEF CompileLayer
<1>6. LayerSpan(f, l, at) = <<AtLeast(least - 4, 0), Greatest(Ends(f, l, at))>>
  BY DEF LayerSpan, Starts, Ends
<1> HIDE DEF least, lay, base
<1>7. base = least - 4
  <2>1. (least \div 4) * 4 = least /\ ~(least - 4 < 0)
    BY <1>1
  <2>2. QED
    BY <1>1, <1>4, <2>1 DEF AtLeast, RoundDown
<1>8. AtLeast(least - 4, 0) = least - 4
  BY <1>1 DEF AtLeast
<1>9. lay.base \in Nat /\ 4 * lay.base = least - 4
  BY <1>1, <1>5, <1>7
<1>10. ASSUME NEW t \in InLayer(f, l)
       PROVE  /\ lay.packed[t] \in Nat \ {0} /\ lay.packed[t] % 2 = 0
              /\ at[t] = 4 * lay.base + 2 * lay.packed[t]
  <2>1. lay.packed[t] = RelativePacked(at[t], base)
    BY <1>5
  <2> DEFINE a == at[t]
  <2>2. a \in Nat /\ a % 4 = 0 /\ least <= a
    BY <1>1, <1>2
  <2> HIDE DEF a
  <2>3. RelativePacked(a, base) = (a - base) \div 2
    BY <1>1, <2>2 DEF RelativePacked, PackBlobOffset
  <2>4. a - base \in Nat /\ a - base >= 4 /\ (a - base) % 4 = 0
    BY <1>1, <1>7, <2>2
  <2> DEFINE d == a - base
  <2>5. a = base + d
    BY <1>1, <1>7, <2>2
  <2> HIDE DEF d
  <2>6. d \div 2 \in Nat \ {0} /\ (d \div 2) % 2 = 0 /\ 2 * (d \div 2) = d
    BY <2>4 DEF d
  <2>7. 4 * lay.base = base
    BY <1>7, <1>9
  <2>8. lay.packed[t] = d \div 2
    BY <2>1, <2>3 DEF a, d
  <2>9. at[t] = 4 * lay.base + 2 * lay.packed[t]
    BY <2>5, <2>6, <2>7, <2>8 DEF a
  <2>10. QED
    BY <2>6, <2>8, <2>9
<1>11. QED
  BY <1>5, <1>6, <1>7, <1>8, <1>9, <1>10 DEF least, lay, base

\* The window a layer's dispatch plans is the one that the device was checked for.
LEMMA LayerWindowIs ==
  ASSUME NEW f \in Files, Descriptor(f) = OK, NEW at, Placed(f, at), NEW l \in 0 .. f.layers - 1,
         NEW pl
  PROVE  LET lay == CompileLayer(f, l, at)
             span == LayerSpan(f, l, at)
             win == ForRange(span[1] \div 4, (span[2] - 1) \div 4, pl)
         IN PlanLayerTensorWindow({ lay.packed[t] : t \in DOMAIN lay.packed }, lay.base,
              { <<at[t], Bytes(f, t[2])>> : t \in InLayer(f, l) }, pl)
              = [win |-> win, base |-> lay.base - WindowBase(win, pl)]
<1> DEFINE L == InLayer(f, l)
           B(t) == Bytes(f, t[2])
           lay == CompileLayer(f, l, at)
           base == lay.base
           P(t) == lay.packed[t]
           packed == { P(t) : t \in L }
           spans == { <<at[t], B(t)>> : t \in L }
           words == StartWords(packed, base)
           starts == words \cup {base} \cup { s[1] \div 4 : s \in spans }
           ends == words \cup { (s[1] + s[2] - 1) \div 4 : s \in spans }
           last == Greatest(Ends(f, l, at))
           size == FileSize(f, at)
<1>1. /\ base \in Nat /\ DOMAIN lay.packed = L
      /\ LayerSpan(f, l, at) = <<4 * base, last>>
      /\ \A t \in L : P(t) \in Nat \ {0} /\ P(t) % 2 = 0 /\ at[t] = 4 * base + 2 * P(t)
  BY LayerTableIs
<1>2. \A t \in L : B(t) \in Nat \ {0}
  BY LayerTensorIs
<1>3. /\ last \in Nat /\ \A t \in L : at[t] + B(t) <= last
      /\ \E t \in L : last = at[t] + B(t)
  BY LayerExtent
<1> HIDE DEF L, B, base, P, last, lay
<1>4. \A t \in L : at[t] \in Nat /\ P(t) \div 2 + base = at[t] \div 4 /\ base <= at[t] \div 4
                   /\ at[t] \div 4 \in Nat /\ at[t] \div 4 <= (at[t] + B(t) - 1) \div 4
                   /\ (at[t] + B(t) - 1) \div 4 \in Nat
                   /\ (at[t] + B(t) - 1) \div 4 <= (last - 1) \div 4
  <2>1. SUFFICES ASSUME NEW t \in L
                 PROVE  /\ at[t] \in Nat /\ P(t) \div 2 + base = at[t] \div 4 /\ base <= at[t] \div 4
                        /\ at[t] \div 4 \in Nat /\ at[t] \div 4 <= (at[t] + B(t) - 1) \div 4
                        /\ (at[t] + B(t) - 1) \div 4 \in Nat
                        /\ (at[t] + B(t) - 1) \div 4 <= (last - 1) \div 4
    OBVIOUS
  <2> DEFINE a == at[t]
             b == B(t)
             p == P(t)
  <2>2. /\ p \in Nat \ {0} /\ p % 2 = 0 /\ a = 4 * base + 2 * p /\ b \in Nat \ {0} /\ a + b <= last
        /\ base \in Nat /\ last \in Nat
    BY <1>1, <1>2, <1>3
  <2> HIDE DEF a, b, p
  <2>3. a \in Nat /\ p \div 2 + base = a \div 4 /\ base <= a \div 4
    BY <2>2
  <2>4. /\ a \div 4 \in Nat /\ a \div 4 <= (a + b - 1) \div 4 /\ (a + b - 1) \div 4 \in Nat
        /\ (a + b - 1) \div 4 <= (last - 1) \div 4
    BY <2>2, <2>3
  <2>5. QED
    BY <2>3, <2>4 DEF a, b, p
<1>5. words = { at[t] \div 4 : t \in L }
  <2>1. words = { (q \div 2) + base : q \in packed \ {0} }
    BY DEF StartWords
  <2>2. packed \ {0} = { P(t) : t \in L }
    BY <1>1
  <2> HIDE DEF words
  <2>3. QED
    BY <2>1, <2>2, <1>4
<1>6. /\ { s[1] \div 4 : s \in spans } = { at[t] \div 4 : t \in L }
      /\ { (s[1] + s[2] - 1) \div 4 : s \in spans } = { (at[t] + B(t) - 1) \div 4 : t \in L }
  <2> DEFINE First(s) == s[1] \div 4
             Final(s) == (s[1] + s[2] - 1) \div 4
             pair(t) == <<at[t], B(t)>>
             x(t) == at[t] \div 4
             y(t) == (at[t] + B(t) - 1) \div 4
  <2>1. \A t \in L : First(pair(t)) = x(t) /\ Final(pair(t)) = y(t)
    <3>1. \A t \in L : pair(t)[1] = at[t] /\ pair(t)[2] = B(t)
      OBVIOUS
    <3> HIDE DEF pair
    <3>2. QED
      BY <3>1, Zenon
  <2>2. spans = { pair(t) : t \in L }
    OBVIOUS
  <2> HIDE DEF First, Final, pair, x, y, spans
  <2>3. { First(s) : s \in spans } = { x(t) : t \in L } /\ { Final(s) : s \in spans } = { y(t) : t \in L }
    BY <2>1, <2>2
  <2>4. QED
    BY <2>3 DEF First, Final, x, y
<1> DEFINE A == { at[t] \div 4 : t \in L }
           Z == { (at[t] + B(t) - 1) \div 4 : t \in L }
<1>7. starts = A \cup {base} \cup A /\ ends = A \cup Z
  BY <1>5, <1>6, Zenon
<1> HIDE DEF words, spans, packed
<1>8. Least(starts) = base
  <2>1. starts \subseteq Nat /\ base \in starts /\ \A k \in starts : base <= k
    <3>1. \A k \in A : k \in Nat /\ base <= k
      BY <1>4
    <3> HIDE DEF A, starts
    <3>2. base \in Nat /\ base <= base
      BY <1>1
    <3>3. QED
      BY <1>7, <3>1, <3>2
  <2> HIDE DEF starts
  <2>2. Least(starts) \in starts /\ \A k \in starts : Least(starts) <= k
    BY <2>1, LeastIs
  <2> DEFINE m == Least(starts)
  <2>3. m \in Nat /\ m <= base /\ base <= m
    BY <2>1, <2>2
  <2> HIDE DEF m
  <2>4. m = base
    BY <1>1, <2>3
  <2>5. QED
    BY <2>4 DEF m
<1>9. Greatest(ends) = (last - 1) \div 4
  <2> DEFINE top == (last - 1) \div 4
  <2>1. top \in ends
    <3>1. PICK t \in L : last = at[t] + B(t)
      BY <1>3
    <3> DEFINE e == at[t] + B(t)
    <3>a. last = e
      BY <3>1
    <3>b. e - 1 = at[t] + B(t) - 1
      BY <1>2, <1>4
    <3> HIDE DEF e
    <3>c. (last - 1) \div 4 = (e - 1) \div 4
      BY <3>a
    <3>2. top = (at[t] + B(t) - 1) \div 4
      BY <3>b, <3>c, Zenon
    <3>3. top \in Z
      BY <3>2
    <3>4. QED
      BY <1>7, <3>3
  <2>2. \A k \in A : k \in Nat /\ k <= top
    <3>1. SUFFICES ASSUME NEW t \in L PROVE at[t] \div 4 \in Nat /\ at[t] \div 4 <= top
      OBVIOUS
    <3> DEFINE x == at[t] \div 4
               y == (at[t] + B(t) - 1) \div 4
    <3>2. x \in Nat /\ y \in Nat /\ x <= y /\ y <= top
      BY <1>4
    <3>3. top \in Int
      BY <1>3
    <3> HIDE DEF x, y, top
    <3>4. x \in Nat /\ x <= top
      BY <3>2, <3>3
    <3>5. QED
      BY <3>4 DEF x
  <2>3. \A k \in Z : k \in Nat /\ k <= top
    BY <1>4
  <2> HIDE DEF top
  <2>4. ends \subseteq Nat /\ \A k \in ends : k <= top
    BY <1>7, <2>2, <2>3
  <2> HIDE DEF ends
  <2>5. top \in Nat
    BY <2>1, <2>4
  <2>6. Greatest(ends) \in ends /\ \A k \in ends : k <= Greatest(ends)
    BY <2>1, <2>4, <2>5, GreatestIs
  <2> DEFINE m == Greatest(ends)
  <2>7. m = top
    <3>1. m \in Nat /\ m <= top /\ top <= m
      BY <2>1, <2>4, <2>6
    <3> HIDE DEF m
    <3>2. QED
      BY <2>5, <3>1
  <2>8. QED
    BY <2>7 DEF top
<1>10. (4 * base) \div 4 = base
  BY <1>1
<1>11. PlanLayerTensorWindow(packed, base, spans, pl)
         = [win |-> ForRange(base, (last - 1) \div 4, pl),
            base |-> base - WindowBase(ForRange(base, (last - 1) \div 4, pl), pl)]
  <2>1. PlanLayerTensorWindow(packed, base, spans, pl)
          = [win |-> ForRange(Least(starts), Greatest(ends), pl),
             base |-> base - WindowBase(ForRange(Least(starts), Greatest(ends), pl), pl)]
    BY Zenon DEF PlanLayerTensorWindow, words
  <2>2. QED
    BY <1>8, <1>9, <2>1, Zenon
<1>12. /\ LayerSpan(f, l, at)[1] \div 4 = base
       /\ (LayerSpan(f, l, at)[2] - 1) \div 4 = (last - 1) \div 4
  BY <1>1, <1>10
<1>13. packed = { lay.packed[t] : t \in DOMAIN lay.packed }
  BY <1>1 DEF packed, P
<1>14. QED
  BY <1>11, <1>12, <1>13, Zenon DEF lay, base, spans, L, B

-----------------------------------------------------------------------------
(* The check of a device.                                                  *)

\* What check_device asks of a device.
DeviceCodes == {"device_limit", "device_binding_window", "state_budget"}
SplitOf(f, at, lim) == ChunkPlan(FileSize(f, at), lim.binding)
WindowsFit(f, at, lim) ==
  /\ \A l \in 0 .. f.layers - 1 :
       SpanFits(LayerSpan(f, l, at)[1], LayerSpan(f, l, at)[2], FileSize(f, at), SplitOf(f, at, lim))
  /\ \A t \in {Embedding, Output} \cap DOMAIN at :
       SpanFits(at[t], at[t] + Bytes(f, t[2]), FileSize(f, at), SplitOf(f, at, lim))
Sufficient(f, s, at, lim) ==
  /\ SplitOf(f, at, lim).bytes <= lim.buffer
  /\ WindowsFit(f, at, lim)
  /\ Budget(f, ContextLimit(f), lim.binding, TotalBudget)
  /\ s.temp * 4 <= lim.buffer
  /\ lim.storage >= 14 /\ lim.invocations >= 256

\* check_device accepts exactly the limits that suffice.
LEMMA CheckDeviceIs ==
  ASSUME NEW f, NEW spc, NEW at, NEW lim
  PROVE  /\ CheckDevice(f, spc, at, lim) = OK <=> Sufficient(f, spc, at, lim)
         /\ CheckDevice(f, spc, at, lim) \in DeviceCodes \cup {OK}
<1> DEFINE p1 == SplitOf(f, at, lim).bytes <= lim.buffer
           p2 == WindowsFit(f, at, lim)
           p3 == Budget(f, ContextLimit(f), lim.binding, TotalBudget)
           p4 == spc.temp * 4 <= lim.buffer
           p5 == lim.storage >= 14 /\ lim.invocations >= 256
           S == DeviceCodes \X BOOLEAN
           s == << <<"device_limit", p1>>, <<"device_binding_window", p2>>, <<"state_budget", p3>>,
                   <<"device_limit", p4>>, <<"device_limit", p5>> >>
           result == FirstFailure(s)
<1>1. CheckDevice(f, spc, at, lim) = result
  <2>1. CheckDevice(f, spc, at, lim) =
          FirstFailure(
            << <<"device_limit", p1>>,
               <<"device_binding_window",
                 /\ \A l \in 0 .. f.layers - 1 :
                      SpanFits(LayerSpan(f, l, at)[1], LayerSpan(f, l, at)[2], FileSize(f, at), SplitOf(f, at, lim))
                 /\ \A t \in {Embedding, Output} \cap DOMAIN at :
                      SpanFits(at[t], at[t] + Bytes(f, t[2]), FileSize(f, at), SplitOf(f, at, lim))>>,
               <<"state_budget", p3>>, <<"device_limit", p4>>, <<"device_limit", p5>> >>)
    BY Zenon DEF CheckDevice, SplitOf
  <2>2. QED
    BY <2>1, Zenon DEF WindowsFit
<1>2. p1 \in BOOLEAN /\ p2 \in BOOLEAN /\ p3 \in BOOLEAN /\ p4 \in BOOLEAN /\ p5 \in BOOLEAN
  BY DEF WindowsFit, Budget
<1>3. Sufficient(f, spc, at, lim) <=> p1 /\ p2 /\ p3 /\ p4 /\ p5
  BY Zenon DEF Sufficient
<1> HIDE DEF p1, p2, p3, p4, p5
<1>4. s \in Seq(S)
  <2> DEFINE c1 == <<"device_limit", p1>>
             c2 == <<"device_binding_window", p2>>
             c3 == <<"state_budget", p3>>
             c4 == <<"device_limit", p4>>
             c5 == <<"device_limit", p5>>
  <2>1. c1 \in S /\ c2 \in S /\ c3 \in S /\ c4 \in S /\ c5 \in S
    <3>1. {"device_limit", "device_binding_window", "state_budget"} \subseteq DeviceCodes
      BY DEF DeviceCodes
    <3>2. QED
      BY <1>2, <3>1
  <2>2. s = <<c1, c2, c3, c4, c5>>
    BY Zenon
  <2> HIDE DEF c1, c2, c3, c4, c5, S, s
  <2>3. <<c1, c2, c3, c4, c5>> \in Seq(S)
    BY <2>1
  <2>4. QED
    BY <2>2, <2>3, Zenon
<1>5. DOMAIN s = 1 .. 5
  BY DEF s
<1>6. s[1][2] = p1 /\ s[2][2] = p2 /\ s[3][2] = p3 /\ s[4][2] = p4 /\ s[5][2] = p5
  BY <1>2
<1> HIDE DEF s
<1>7. ASSUME result = OK PROVE p1 /\ p2 /\ p3 /\ p4 /\ p5
  <2>1. OK \notin DeviceCodes
    BY DEF DeviceCodes, OK
  <2>2. \A i \in DOMAIN s : s[i][2]
    BY <1>4, <1>7, <2>1, AllPassed
  <2>3. s[1][2] /\ s[2][2] /\ s[3][2] /\ s[4][2] /\ s[5][2]
    BY <1>5, <2>2
  <2>4. QED
    BY <1>6, <2>3, Zenon
<1>8. ASSUME result # OK
      PROVE  result \in DeviceCodes /\ ~(p1 /\ p2 /\ p3 /\ p4 /\ p5)
  <2>1. PICK i \in DOMAIN s : ~s[i][2] /\ result = s[i][1]
    BY <1>4, <1>8, FailureIs
  <2>2. result \in DeviceCodes
    BY <1>4, <2>1
  <2>3. ~s[1][2] \/ ~s[2][2] \/ ~s[3][2] \/ ~s[4][2] \/ ~s[5][2]
    BY <1>5, <2>1
  <2>4. ~(p1 /\ p2 /\ p3 /\ p4 /\ p5)
    BY <1>6, <2>3, Zenon
  <2>5. QED
    BY <2>2, <2>4
<1> HIDE DEF result
<1>9. result = OK <=> Sufficient(f, spc, at, lim)
  BY <1>3, <1>7, <1>8, Zenon
<1>10. result \in DeviceCodes \cup {OK}
  BY <1>8
<1>11. QED
  BY <1>1, <1>9, <1>10, Zenon

\* A device with the same bindings and buffers, and enough of the rest, is sufficient too.
LEMMA StillSufficient ==
  ASSUME NEW f, NEW spc, NEW at, NEW lim, NEW other, Sufficient(f, spc, at, lim),
         other.binding = lim.binding, other.buffer = lim.buffer,
         other.storage >= 14, other.invocations >= 256
  PROVE  Sufficient(f, spc, at, other)
<1>1. SplitOf(f, at, other) = SplitOf(f, at, lim)
  BY DEF SplitOf
<1>2. WindowsFit(f, at, other)
  BY <1>1 DEF WindowsFit, Sufficient
<1>3. QED
  BY <1>1, <1>2 DEF Sufficient

\* What a sufficient device means for the plan of chunks.
LEMMA SplitIs ==
  ASSUME NEW f, NEW at, NEW lim, FileSize(f, at) \in Nat, lim.binding \in Nat, lim.binding >= Granule
  PROVE  /\ IsPlan(SplitOf(f, at, lim), FileSize(f, at))
         /\ SplitOf(f, at, lim).bytes <= lim.binding
BY PlanIs DEF SplitOf

-----------------------------------------------------------------------------
(* The operators of the plan.                                              *)

\* An operator that its contract accepts.
OpSet(f) == [op : DOMAIN OperatorCode, weights : Seq(Tensors(f)), input : Nat, output : Nat]
Contract(f, at, op) == (\A k \in DOMAIN op.weights : InFile(f, op.weights[k], at)) /\ InferShapes(f, op)
GoodOps(f, at) == { op \in OpSet(f) : Contract(f, at, op) }

\* The contract of a norm of the plan.
LEMMA NormOpIs ==
  ASSUME NEW f, NEW at, Placed(f, at), NEW t \in Tensors(f), Format(f, t[2]) = "F32",
         Shape(f, t[2]) = <<f.hidden>>
  PROVE  RmsNorm(t) \in GoodOps(f, at)
<1> DEFINE op == RmsNorm(t)
           ws == <<t>>
<1>1. op = [op |-> "norm", weights |-> ws, input |-> 0, output |-> 0]
  BY DEF RmsNorm
<1>2. ws \in Seq(Tensors(f)) /\ ws[1] = t /\ \A k \in DOMAIN ws : ws[k] = t
  OBVIOUS
<1> HIDE DEF ws
<1>3. op \in OpSet(f)
  BY <1>1, <1>2 DEF OpSet, OperatorCode
<1>4. op.op = "norm" /\ op.weights = ws
  BY <1>1
<1> HIDE DEF op
<1>5. InFile(f, t, at)
  BY DEF InFile, Placed
<1>6. \A k \in DOMAIN op.weights : InFile(f, op.weights[k], at)
  BY <1>2, <1>4, <1>5
<1>7. InferShapes(f, op)
  BY <1>2, <1>4 DEF InferShapes
<1>8. QED
  BY <1>3, <1>6, <1>7 DEF GoodOps, Contract, op

\* The contract of a projection of the plan.
LEMMA LinearOpIs ==
  ASSUME NEW f, NEW at, Placed(f, at), NEW t \in Tensors(f), Format(f, t[2]) \in Formats,
         NEW w \in Nat, NEW h \in Nat, Shape(f, t[2]) = <<w, h>>
  PROVE  Linear(t, w, h) \in GoodOps(f, at)
<1> DEFINE op == Linear(t, w, h)
           ws == <<t>>
<1>1. op = [op |-> "linear", weights |-> ws, input |-> w, output |-> h]
  BY DEF Linear
<1>2. ws \in Seq(Tensors(f)) /\ ws[1] = t /\ \A k \in DOMAIN ws : ws[k] = t
  OBVIOUS
<1> HIDE DEF ws
<1>3. op \in OpSet(f)
  BY <1>1, <1>2 DEF OpSet, OperatorCode
<1>4. op.op = "linear" /\ op.weights = ws /\ op.input = w /\ op.output = h
  BY <1>1
<1> HIDE DEF op
<1>5. InFile(f, t, at)
  BY DEF InFile, Placed
<1>6. \A k \in DOMAIN op.weights : InFile(f, op.weights[k], at)
  BY <1>2, <1>4, <1>5
<1>7. InferShapes(f, op)
  <2> DEFINE shape == Shape(f, t[2])
  <2>1. Len(shape) = 2 /\ shape[1] = w /\ shape[2] = h
    OBVIOUS
  <2> HIDE DEF shape
  <2>2. Len(shape) = 2 /\ shape[1] = op.input /\ shape[2] = op.output /\ Format(f, t[2]) \in Supported
    BY <1>4, <2>1 DEF Supported
  <2>3. op.weights[1][2] = t[2] /\ op.op = "linear"
    BY <1>2, <1>4
  <2>4. QED
    BY <2>2, <2>3 DEF InferShapes, shape
<1>8. QED
  BY <1>3, <1>6, <1>7 DEF GoodOps, Contract, op

\* The contract of the norm of the heads.
LEMMA HeadNormOpIs ==
  ASSUME NEW f, NEW at, Placed(f, at), NEW t \in Tensors(f), NEW u \in Tensors(f), NEW d \in Nat,
         Format(f, t[2]) = "F32", Shape(f, t[2]) = <<d>>,
         Format(f, u[2]) = "F32", Shape(f, u[2]) = <<d>>
  PROVE  [op |-> "head_norm", weights |-> <<t, u>>, input |-> d, output |-> d] \in GoodOps(f, at)
<1> DEFINE ws == <<t, u>>
           op == [op |-> "head_norm", weights |-> ws, input |-> d, output |-> d]
<1>1. op.op = "head_norm" /\ op.weights = ws /\ op.input = d
  OBVIOUS
<1>2. ws \in Seq(Tensors(f)) /\ ws[1] = t /\ ws[2] = u /\ DOMAIN ws = 1 .. 2
  OBVIOUS
<1> HIDE DEF ws
<1>3. op \in OpSet(f)
  BY <1>2 DEF OpSet, OperatorCode
<1> HIDE DEF op
<1>4. InFile(f, t, at) /\ InFile(f, u, at)
  BY DEF InFile, Placed
<1>5. \A k \in DOMAIN op.weights : InFile(f, op.weights[k], at)
  BY <1>1, <1>2, <1>4
<1>6. InferShapes(f, op)
  BY <1>1, <1>2 DEF InferShapes
<1>7. op \in GoodOps(f, at)
  BY <1>3, <1>5, <1>6 DEF GoodOps, Contract
<1>8. QED
  BY <1>7 DEF op, ws

\* The contracts of the operators without weights.
LEMMA PlainOpIs ==
  ASSUME NEW f, NEW at, Numbers(f), Dimensions(f), NEW name \in {"cache_write", "attention", "residual", "gate"}
  PROVE  Plain_(name) \in GoodOps(f, at)
<1> DEFINE op == Plain_(name)
           ws == <<>>
<1>1. op = [op |-> name, weights |-> ws, input |-> 0, output |-> 0]
  BY DEF Plain_
<1>2. ws \in Seq(Tensors(f)) /\ DOMAIN ws = {}
  OBVIOUS
<1> HIDE DEF ws
<1>3. op \in OpSet(f) /\ op.op = name /\ op.weights = ws
  BY <1>1, <1>2 DEF OpSet, OperatorCode
<1> HIDE DEF op
<1>4. /\ f.heads % f.kvHeads = 0 /\ RopeDimensions(f) % 2 = 0 /\ RopeDimensions(f) \in 1 .. HeadDim(f)
      /\ f.context >= 1
  BY WidthsAre DEF Dimensions
<1>5. InferShapes(f, op)
  BY <1>3, <1>4 DEF InferShapes
<1>6. QED
  BY <1>2, <1>3, <1>5 DEF GoodOps, Contract, op

\* The plan of a layer asks nothing that the descriptor has not checked.
LEMMA LayerPlanIs ==
  ASSUME NEW f, NEW at, Numbers(f), Accepted(f), Placed(f, at), NEW l \in 0 .. f.layers - 1
  PROVE  LayerPlan(f, l) \in Seq(GoodOps(f, at))
<1> DEFINE S == GoodOps(f, at)
<1>1. LayerHas(f, l) /\ Dimensions(f)
  BY LayerHasAll DEF Accepted, Numbers
<1>2. {f.hidden, f.ffn, QWidth(f), KvWidth(f), HeadDim(f)} \subseteq Nat
  BY <1>1, WidthsAre DEF Dimensions
<1>3. ASSUME NEW name, NEW w \in Nat, NEW h \in Nat, HasMatrix(f, l, name, w, h)
      PROVE  Linear(<<l, name>>, w, h) \in S
  <2> DEFINE t == <<l, name>>
  <2>1. t[2] = name
    OBVIOUS
  <2>2. t \in Tensors(f) /\ Format(f, t[2]) \in Formats /\ Shape(f, t[2]) = <<w, h>>
    BY <1>3, <2>1 DEF HasMatrix
  <2> HIDE DEF t
  <2>3. Linear(t, w, h) \in S
    BY <2>2, LinearOpIs
  <2>4. QED
    BY <2>3 DEF t
<1>4. ASSUME NEW name, HasNorm(f, l, name, f.hidden)
      PROVE  RmsNorm(<<l, name>>) \in S
  <2> DEFINE t == <<l, name>>
  <2>1. t[2] = name
    OBVIOUS
  <2>2. t \in Tensors(f) /\ Format(f, t[2]) = "F32" /\ Shape(f, t[2]) = <<f.hidden>>
    BY <1>4, <2>1 DEF HasNorm
  <2> HIDE DEF t
  <2>3. RmsNorm(t) \in S
    BY <2>2, NormOpIs
  <2>4. QED
    BY <2>3 DEF t
<1> DEFINE o1 == RmsNorm(<<l, "attn_norm">>)
           o2 == Linear(<<l, "attn_q">>, f.hidden, QWidth(f))
           o3 == Linear(<<l, "attn_k">>, f.hidden, KvWidth(f))
           o4 == Linear(<<l, "attn_v">>, f.hidden, KvWidth(f))
           hn == [op |-> "head_norm", weights |-> <<<<l, "attn_q_norm">>, <<l, "attn_k_norm">>>>,
                  input |-> HeadDim(f), output |-> HeadDim(f)]
           p1 == Plain_("cache_write")
           p2 == Plain_("attention")
           p3 == Linear(<<l, "attn_output">>, QWidth(f), f.hidden)
           p4 == Plain_("residual")
           p5 == RmsNorm(<<l, "ffn_norm">>)
           p6 == Linear(<<l, "ffn_gate">>, f.hidden, f.ffn)
           p7 == Linear(<<l, "ffn_up">>, f.hidden, f.ffn)
           p8 == Plain_("gate")
           p9 == Linear(<<l, "ffn_down">>, f.ffn, f.hidden)
<1>5. o1 \in S /\ o2 \in S /\ o3 \in S /\ o4 \in S
  BY <1>1, <1>2, <1>3, <1>4 DEF LayerHas
<1>6. p3 \in S /\ p5 \in S /\ p6 \in S /\ p7 \in S /\ p9 \in S
  BY <1>1, <1>2, <1>3, <1>4 DEF LayerHas
<1>7. p1 \in S /\ p2 \in S /\ p4 \in S /\ p8 \in S
  BY <1>1, PlainOpIs
<1>8. f.arch = "qwen3" => hn \in S
  <2> DEFINE t == <<l, "attn_q_norm">>
             u == <<l, "attn_k_norm">>
             d == HeadDim(f)
  <2>1. t[2] = "attn_q_norm" /\ u[2] = "attn_k_norm"
    OBVIOUS
  <2>2. SUFFICES ASSUME f.arch = "qwen3" PROVE hn \in S
    OBVIOUS
  <2>3. /\ t \in Tensors(f) /\ Format(f, t[2]) = "F32" /\ Shape(f, t[2]) = <<d>>
        /\ u \in Tensors(f) /\ Format(f, u[2]) = "F32" /\ Shape(f, u[2]) = <<d>>
    BY <1>1, <2>1, <2>2 DEF LayerHas, HasNorm
  <2>4. d \in Nat /\ hn = [op |-> "head_norm", weights |-> <<t, u>>, input |-> d, output |-> d]
    BY <1>2
  <2> HIDE DEF t, u, d, hn
  <2>5. [op |-> "head_norm", weights |-> <<t, u>>, input |-> d, output |-> d] \in S
    BY <2>3, <2>4, HeadNormOpIs
  <2>6. QED
    BY <2>4, <2>5, Zenon
<1> DEFINE a == <<o1, o2, o3, o4>>
           b == IF f.arch = "qwen3" THEN <<hn>> ELSE <<>>
           c == <<p1, p2, p3, p4, p5, p6, p7, p8, p9, p4>>
<1>9. LayerPlan(f, l) = a \o b \o c
  BY Zenon DEF LayerPlan
<1> HIDE DEF o1, o2, o3, o4, hn, p1, p2, p3, p4, p5, p6, p7, p8, p9, S
<1>10. a \in Seq(S)
  BY <1>5
<1>11. b \in Seq(S)
  <2>1. <<>> \in Seq(S) /\ (f.arch = "qwen3" => <<hn>> \in Seq(S))
    BY <1>8
  <2>2. QED
    BY <2>1
<1>12. c \in Seq(S)
  <2>1. c = [k \in 1 .. 10 |-> c[k]]
    OBVIOUS
  <2>2. \A k \in 1 .. 10 : c[k] \in S
    BY <1>6, <1>7
  <2> HIDE DEF c
  <2>3. [k \in 1 .. 10 |-> c[k]] \in Seq(S)
    BY <2>2
  <2>4. QED
    BY <2>1, <2>3, Zenon
<1> HIDE DEF a, b, c
<1>13. a \o b \o c \in Seq(S)
  <2> DEFINE ab == a \o b
  <2>1. ab \in Seq(S)
    BY <1>10, <1>11, ConcatProperties
  <2> HIDE DEF ab
  <2>2. ab \o c \in Seq(S)
    BY <2>1, <1>12, ConcatProperties
  <2>3. QED
    BY <2>2 DEF ab
<1>14. QED
  BY <1>9, <1>13, Zenon DEF S

\* Every operator of the plan meets its contract.
LEMMA PlanOpsAre ==
  ASSUME NEW f, NEW at, Numbers(f), Accepted(f), Placed(f, at)
  PROVE  Plan(f) \in Seq(GoodOps(f, at))
<1> DEFINE S == GoodOps(f, at)
           ss == [i \in 1 .. f.layers |-> LayerPlan(f, i - 1)]
           n == f.layers
           o1 == RmsNorm(OutputNorm)
           o2 == Linear(HeadTensor(f), f.hidden, f.vocab)
           tail == <<o1, o2>>
           body == FlattenSeq(ss)
<1>1. n \in Nat /\ f.hidden \in Nat /\ f.vocab \in Nat
  BY DEF Numbers
<1>2. GlobalsHave(f)
  BY <1>1, GlobalsHaveAll
<1>3. o1 \in S
  <2>1. OutputNorm \in Tensors(f) /\ Format(f, OutputNorm[2]) = "F32" /\ Shape(f, OutputNorm[2]) = <<f.hidden>>
    BY <1>2 DEF GlobalsHave, HasNorm, OutputNorm
  <2>2. QED
    BY <2>1, NormOpIs
<1>4. o2 \in S
  BY <1>1, <1>2, LinearOpIs DEF GlobalsHave
<1>5. \A i \in 1 .. n : LayerPlan(f, i - 1) \in Seq(S)
  <2>1. \A i \in 1 .. n : i - 1 \in 0 .. f.layers - 1
    BY <1>1
  <2>2. QED
    BY <2>1, LayerPlanIs
<1>6. ss \in Seq(Seq(S))
  <2> HIDE DEF S
  <2>1. DOMAIN ss = 1 .. n /\ (\A i \in 1 .. n : ss[i] \in Seq(S)) /\ ss = [i \in 1 .. n |-> ss[i]]
    BY <1>5
  <2> HIDE DEF ss, n
  <2>2. [i \in 1 .. n |-> ss[i]] \in Seq(Seq(S))
    BY <1>1, <2>1
  <2>3. QED
    BY <2>1, <2>2
<1>7. Plan(f) = body \o tail
  BY DEF Plan
<1> HIDE DEF o1, o2, S, ss
<1>8. tail \in Seq(S)
  BY <1>3, <1>4
<1>9. body \in Seq(S)
  BY <1>6, FlattenRange
<1> HIDE DEF body, tail
<1>10. body \o tail \in Seq(S)
  BY <1>8, <1>9, ConcatProperties
<1>11. QED
  BY <1>7, <1>10 DEF S

\* The contracts of the operators refuse no accepted file.
LEMMA OperatorsPass ==
  ASSUME NEW f, NEW at, Numbers(f), Accepted(f), Placed(f, at)
  PROVE  CheckedOperators(f, at) = OK
<1> DEFINE p == Plan(f)
           checks == [i \in DOMAIN p |-> <<OperatorCode[p[i].op],
                        (\A k \in DOMAIN p[i].weights : InFile(f, p[i].weights[k], at))
                        /\ InferShapes(f, p[i])>>]
<1>1. CheckedOperators(f, at) = FirstFailure(checks)
  BY Zenon DEF CheckedOperators
<1>2. p \in Seq(GoodOps(f, at))
  BY PlanOpsAre
<1> HIDE DEF p
<1>3. ASSUME NEW i \in DOMAIN checks PROVE checks[i][2]
  <2>1. i \in DOMAIN p /\ p[i] \in GoodOps(f, at)
    BY <1>2
  <2>2. (\A k \in DOMAIN p[i].weights : InFile(f, p[i].weights[k], at)) /\ InferShapes(f, p[i])
    BY <2>1 DEF GoodOps, Contract
  <2>3. checks[i][2] = ((\A k \in DOMAIN p[i].weights : InFile(f, p[i].weights[k], at))
                        /\ InferShapes(f, p[i]))
    BY <2>1, Zenon
  <2> HIDE DEF checks
  <2>4. QED
    BY <2>2, <2>3, Zenon
<1> HIDE DEF checks
<1>4. { i \in DOMAIN checks : ~checks[i][2] } = {}
  BY <1>3
<1>5. QED
  BY <1>1, <1>4, Zenon DEF FirstFailure

-----------------------------------------------------------------------------
(* The specification, and the checks of a load.                            *)

\* The fields of a specification, and those that no derivation changes.
SpecFields ==
  {"panics", "embd", "heads", "kvHeads", "ffn", "layers", "vocab", "headDim", "norm", "eps",
   "ropeBase", "rope", "qkNorm", "ctx", "temp", "kvBytes"}
KeepsShape(s, g) ==
  /\ DOMAIN s = SpecFields
  /\ s.embd = g.embd /\ s.heads = g.heads /\ s.kvHeads = g.kvHeads /\ s.ffn = g.ffn
  /\ s.layers = g.layers /\ s.vocab = g.vocab
  /\ s.norm = g.norm /\ s.eps = g.eps /\ s.ropeBase = g.ropeBase

\* The head dimension of a specification, and its scratch.
SpecHead(g) == IF g.headDim = 0 THEN g.embd \div g.heads ELSE g.headDim
Largest(S) == CHOOSE n \in S : \A k \in S : k <= n
Intermediates(g, d) ==
  { g.embd + g.heads * d + 2 * (g.kvHeads * d) + 2 * g.ffn, 2 * g.ffn + g.embd,
    (IF g.embd < g.heads * d THEN g.heads * d ELSE g.embd) + g.heads * d }

\* compute_derived: the head dimension, the rotated part, the scratch and the KV bytes.
LEMMA DerivedIs ==
  ASSUME NEW g, NEW arch, DOMAIN g = SpecFields
  PROVE  /\ KeepsShape(ComputeDerived(g, arch), g) /\ ComputeDerived(g, arch).ctx = g.ctx
         /\ ComputeDerived(g, arch).headDim = SpecHead(g) /\ ComputeDerived(g, arch).rope = SpecHead(g)
         /\ ComputeDerived(g, arch).qkNorm <=> (g.qkNorm \/ arch = "qwen3")
         /\ ComputeDerived(g, arch).temp = RoundUp(Largest(Intermediates(g, SpecHead(g))), 1024)
         /\ ComputeDerived(g, arch).kvBytes = g.ctx * (g.kvHeads * SpecHead(g)) * 4
<1> DEFINE d == SpecHead(g)
           temp == RoundUp(Largest(Intermediates(g, d)), 1024)
           bytes == g.ctx * (g.kvHeads * d) * 4
           s == ComputeDerived(g, arch)
<1>1. s = [g EXCEPT !.headDim = d, !.rope = d, !.qkNorm = @ \/ arch = "qwen3",
                    !.temp = temp, !.kvBytes = bytes]
  BY DEF ComputeDerived, SpecHead, Largest, Intermediates
<1> HIDE DEF d, temp, bytes, s
<1>2. /\ s.headDim = d /\ s.rope = d /\ s.temp = temp /\ s.kvBytes = bytes /\ s.ctx = g.ctx
      /\ KeepsShape(s, g)
  BY <1>1 DEF KeepsShape, SpecFields
<1>3. s.qkNorm <=> (g.qkNorm \/ arch = "qwen3")
  BY <1>1 DEF SpecFields
<1>4. QED
  BY <1>2, <1>3 DEF d, temp, bytes, s

\* The largest of some numbers, and the scratch that holds them all.
LEMMA ScratchIs ==
  ASSUME NEW a \in Nat, NEW b \in Nat, NEW c \in Nat
  PROVE  RoundUp(Largest({a, b, c}), 1024) >= a
<1> DEFINE S == {a, b, c}
           n == Largest(S)
<1>1. \E x \in S : \A k \in S : k <= x
  BY SMT
<1>2. n \in S /\ \A k \in S : k <= n
  <2>1. n = CHOOSE x \in S : \A k \in S : k <= x
    BY Zenon DEF Largest
  <2> HIDE DEF S, n
  <2>2. QED
    BY <1>1, <2>1, Zenon
<1>3. n \in Nat /\ a <= n
  <2> HIDE DEF n
  <2>1. QED
    BY <1>2
<1> HIDE DEF n
<1>4. 1024 \in Nat \ {0}
  OBVIOUS
<1>5. RoundUp(n, 1024) \in Nat /\ n <= RoundUp(n, 1024)
  BY <1>3, <1>4, RoundUpIs
<1>6. RoundUp(n, 1024) >= a
  BY <1>3, <1>5
<1>7. QED
  BY <1>6 DEF n

\* from_gguf_metadata: what it makes of a pass.
LEMMA ReadIs ==
  ASSUME NEW f, NEW m
  PROVE  LET g == FromGgufMetadata(f, m)
             kv == IF m.kvHeads = Missing THEN m.heads ELSE m.kvHeads IN
         /\ DOMAIN g = SpecFields
         /\ g.panics <=> \/ Missing \in {m.embd, m.layers, m.ffn, m.heads} \/ kv = 0
                         \/ m.heads = 0 /\ (m.rope = Missing \/ m.headDim = 0)
         /\ g.embd = m.embd /\ g.heads = m.heads /\ g.kvHeads = kv /\ g.ffn = m.ffn
         /\ g.layers = m.layers /\ g.vocab = f.tokens /\ g.headDim = m.headDim
         /\ g.norm = m.epsilon[1] /\ g.eps = m.epsilon[2] /\ g.ropeBase = m.ropeBase
         /\ ~g.qkNorm
BY DEF FromGgufMetadata, SpecFields

\* to_model_spec: the heads are as wide as the query weights say.
LEMMA ModelIs ==
  ASSUME NEW f, NEW m
  PROVE  LET s == ToModelSpec(f, m)
             g == FromGgufMetadata(f, m)
             inferred == Shape(f, "attn_q")[2] \div g.heads IN
         /\ KeepsShape(s, g)
         /\ g.heads # 0 /\ inferred \in Nat \ {0} => s.headDim = inferred /\ s.rope = inferred
         /\ s.qkNorm => <<0, "attn_q_norm">> \in Tensors(f) \/ f.arch = "qwen3"
<1> DEFINE g == FromGgufMetadata(f, m)
           inferred == Shape(f, "attn_q")[2] \div g.heads
           derived == ComputeDerived(g, f.arch)
           qk == {<<0, "attn_q_norm">>, <<0, "attn_k_norm">>} \subseteq Tensors(f)
           mid == [derived EXCEPT !.qkNorm = qk]
           fixed == [mid EXCEPT !.headDim = inferred]
           again == ComputeDerived(fixed, f.arch)
           s == ToModelSpec(f, m)
<1>1. DOMAIN g = SpecFields
  BY ReadIs
<1> HIDE DEF g
<1>2. /\ KeepsShape(derived, g) /\ derived.headDim = SpecHead(g) /\ derived.rope = SpecHead(g)
  BY <1>1, DerivedIs
<1>3. Shape(f, "attn_q")[2] \div derived.heads = inferred /\ derived.heads = g.heads
  BY <1>2 DEF KeepsShape
<1>4. s = IF g.heads # 0 /\ inferred > 0 /\ inferred # mid.headDim THEN again ELSE mid
  BY <1>3, Zenon DEF ToModelSpec, g
<1>5. qk => <<0, "attn_q_norm">> \in Tensors(f)
  OBVIOUS
<1> HIDE DEF derived, qk, inferred
<1>6. /\ KeepsShape(mid, g) /\ mid.headDim = SpecHead(g) /\ mid.rope = SpecHead(g)
      /\ mid.qkNorm = qk
  BY <1>2 DEF KeepsShape, SpecFields
<1> HIDE DEF mid
<1>7. /\ KeepsShape(fixed, g) /\ fixed.headDim = inferred /\ fixed.qkNorm = qk
  BY <1>6 DEF KeepsShape, SpecFields
<1> HIDE DEF fixed
<1>8. DOMAIN fixed = SpecFields /\ (inferred # 0 => SpecHead(fixed) = inferred)
  BY <1>7 DEF SpecHead, KeepsShape
<1>9. /\ KeepsShape(again, fixed) /\ again.headDim = SpecHead(fixed) /\ again.rope = SpecHead(fixed)
      /\ again.qkNorm <=> (fixed.qkNorm \/ f.arch = "qwen3")
  BY <1>8, DerivedIs
<1> HIDE DEF again, s
<1>10. CASE g.heads # 0 /\ inferred > 0 /\ inferred # mid.headDim
  <2>1. s = again
    BY <1>4, <1>10
  <2>2. KeepsShape(s, g) /\ (inferred # 0 => s.headDim = inferred /\ s.rope = inferred)
    BY <1>7, <1>8, <1>9, <2>1 DEF KeepsShape
  <2>3. s.qkNorm => qk \/ f.arch = "qwen3"
    BY <1>7, <1>9, <2>1, Zenon
  <2>4. QED
    BY <1>5, <2>2, <2>3 DEF s, g, inferred
<1>11. CASE ~(g.heads # 0 /\ inferred > 0 /\ inferred # mid.headDim)
  <2>1. s = mid
    BY <1>4, <1>11
  <2>2. g.heads # 0 /\ inferred \in Nat \ {0} => mid.headDim = inferred
    BY <1>11
  <2>3. KeepsShape(s, g)
        /\ (g.heads # 0 /\ inferred \in Nat \ {0} => s.headDim = inferred /\ s.rope = inferred)
    BY <1>6, <2>1, <2>2
  <2>4. s.qkNorm => qk \/ f.arch = "qwen3"
    BY <1>6, <2>1, Zenon
  <2>5. QED
    BY <1>5, <2>3, <2>4 DEF s, g, inferred
<1>12. QED
  BY <1>10, <1>11

\* The query weights of an accepted file are as wide as its heads together.
LEMMA QueryWidthIs ==
  ASSUME NEW f, Numbers(f), Accepted(f)
  PROVE  Shape(f, "attn_q")[2] = QWidth(f) /\ QWidth(f) \div f.heads = HeadDim(f) /\ HeadDim(f) \in Nat \ {0}
<1>1. Dimensions(f) /\ f.layers \in Nat /\ 0 \in 0 .. f.layers - 1
  BY DEF Accepted, Dimensions, Numbers
<1>2. QWidth(f) \div f.heads = HeadDim(f) /\ HeadDim(f) \in Nat \ {0}
  BY <1>1, WidthsAre
<1>3. HasMatrix(f, 0, "attn_q", f.hidden, QWidth(f))
  BY <1>1, LayerHasAll DEF LayerHas
<1>4. Shape(f, "attn_q") = <<f.hidden, QWidth(f)>>
  BY <1>3 DEF HasMatrix
<1> DEFINE shape == Shape(f, "attn_q")
<1>5. shape[2] = QWidth(f)
  BY <1>4
<1>6. QED
  BY <1>2, <1>5

\* A key of a file without strays: found if it is there and has 32 bits.
LEMMA FoundIs ==
  ASSUME NEW f, f.strays = {}, NEW key, NEW own \in Nat, NEW default, NEW x \in OrElse(Found(f, key, own), default)
  PROVE  x = IF own > 0 /\ key \notin f.wide THEN own ELSE default
<1>1. Found(f, key, own) = IF own > 0 /\ key \notin f.wide THEN {own} ELSE {}
  BY DEF Found
<1>2. QED
  BY <1>1 DEF OrElse

\* What a pass over a file without strays finds.
PlainScan(f, m) ==
  /\ m.embd = IF "embedding_length" \in f.wide THEN Missing ELSE f.hidden
  /\ m.layers = IF "block_count" \in f.wide THEN Missing ELSE f.layers
  /\ m.ffn = IF "feed_forward_length" \in f.wide THEN Missing ELSE f.ffn
  /\ m.heads = IF "attention.head_count" \in f.wide THEN Missing ELSE f.heads
  /\ m.kvHeads = IF "attention.head_count_kv" \in f.wide THEN Missing ELSE f.kvHeads
  /\ m.epsilon = <<"rms_epsilon", f.eps>> /\ m.ropeBase = f.ropeBase

LEMMA ScanIs ==
  ASSUME NEW f, Numbers(f), Dimensions(f), f.strays = {}, f.wide \subseteq Integers32, NEW m \in Scan(f)
  PROVE  PlainScan(f, m)
<1>1. /\ {f.hidden, f.heads, f.kvHeads, f.layers, f.ffn, f.eps, f.ropeBase} \subseteq Nat
      /\ f.hidden > 0 /\ f.heads > 0 /\ f.kvHeads > 0 /\ f.layers > 0 /\ f.ffn > 0
      /\ f.eps > 0 /\ f.ropeBase > 0
  BY DEF Numbers, Dimensions
<1>2. "rms_epsilon" \notin f.wide /\ "rope.freq_base" \notin f.wide
  BY DEF Integers32, Required
<1>3. /\ m.embd \in OrElse(Found(f, "embedding_length", f.hidden), Missing)
      /\ m.layers \in OrElse(Found(f, "block_count", f.layers), Missing)
      /\ m.ffn \in OrElse(Found(f, "feed_forward_length", f.ffn), Missing)
      /\ m.heads \in OrElse(Found(f, "attention.head_count", f.heads), Missing)
      /\ m.kvHeads \in OrElse(Found(f, "attention.head_count_kv", f.kvHeads), Missing)
      /\ m.epsilon \in OrElse({"rms_epsilon"} \X Found(f, "rms_epsilon", f.eps)
                              \cup {"layer_epsilon"} \X Found(f, "layer_epsilon", 0), <<"rms_epsilon", 1>>)
      /\ m.ropeBase \in OrElse(Found(f, "rope.freq_base", f.ropeBase), 10000)
  BY DEF Scan
<1>4. /\ m.embd = IF "embedding_length" \in f.wide THEN Missing ELSE f.hidden
      /\ m.layers = IF "block_count" \in f.wide THEN Missing ELSE f.layers
      /\ m.ffn = IF "feed_forward_length" \in f.wide THEN Missing ELSE f.ffn
  BY <1>1, <1>3, FoundIs
<1>5. /\ m.heads = IF "attention.head_count" \in f.wide THEN Missing ELSE f.heads
      /\ m.kvHeads = IF "attention.head_count_kv" \in f.wide THEN Missing ELSE f.kvHeads
      /\ m.ropeBase = f.ropeBase
  BY <1>1, <1>2, <1>3, FoundIs
<1>6. m.epsilon = <<"rms_epsilon", f.eps>>
  <2>1. Found(f, "rms_epsilon", f.eps) = {f.eps} /\ Found(f, "layer_epsilon", 0) = {}
    BY <1>1, <1>2 DEF Found
  <2>2. {"rms_epsilon"} \X {f.eps} \cup {"layer_epsilon"} \X {} = {<<"rms_epsilon", f.eps>>}
    OBVIOUS
  <2>3. m.epsilon \in {<<"rms_epsilon", f.eps>>}
    BY <1>3, <2>1, <2>2 DEF OrElse
  <2>4. QED
    BY <2>3
<1>7. QED
  BY <1>4, <1>5, <1>6 DEF PlainScan

\* Without strays only a missing dimension ends the program.
LEMMA PanicIs ==
  ASSUME NEW f, Numbers(f), Dimensions(f), NEW m, PlainScan(f, m), FromGgufMetadata(f, m).panics
  PROVE  Required \cap f.wide # {}
<1>1. /\ {f.hidden, f.heads, f.kvHeads, f.layers, f.ffn} \subseteq Nat
      /\ f.hidden > 0 /\ f.heads > 0 /\ f.kvHeads > 0 /\ f.layers > 0 /\ f.ffn > 0
  BY DEF Numbers, Dimensions
<1> DEFINE kv == IF m.kvHeads = Missing THEN m.heads ELSE m.kvHeads
<1>2. Missing \in {m.embd, m.layers, m.ffn, m.heads} \/ kv = 0 \/ m.heads = 0
  <2>1. FromGgufMetadata(f, m).panics
          => \/ Missing \in {m.embd, m.layers, m.ffn, m.heads} \/ kv = 0
             \/ m.heads = 0 /\ (m.rope = Missing \/ m.headDim = 0)
    BY DEF FromGgufMetadata
  <2>2. QED
    BY <2>1
<1>3. Missing \in {m.embd, m.layers, m.ffn, m.heads}
  BY <1>1, <1>2 DEF PlainScan, Missing
<1>4. \/ "embedding_length" \in f.wide \/ "block_count" \in f.wide
      \/ "feed_forward_length" \in f.wide \/ "attention.head_count" \in f.wide
  BY <1>1, <1>3 DEF PlainScan, Missing
<1>5. QED
  BY <1>4 DEF Required

\* Without strays the specification is the descriptor's, unless a part of the
\* head is rotated or the number of KV heads was not found.
LEMMA SpecIs ==
  ASSUME NEW f, Numbers(f), Accepted(f), NEW m, PlainScan(f, m), ~FromGgufMetadata(f, m).panics
  PROVE  /\ ToModelSpec(f, m).norm = "rms_epsilon"
         /\ \/ SpecMatches(f, ToModelSpec(f, m))
            \/ RopeDimensions(f) < HeadDim(f)
            \/ "attention.head_count_kv" \in f.wide /\ f.kvHeads # f.heads
<1> DEFINE g == FromGgufMetadata(f, m)
           kv == IF m.kvHeads = Missing THEN m.heads ELSE m.kvHeads
           s == ToModelSpec(f, m)
           d == HeadDim(f)
<1>1. Dimensions(f) /\ Shape(f, "attn_q")[2] = QWidth(f) /\ QWidth(f) \div f.heads = d /\ d \in Nat \ {0}
  BY QueryWidthIs DEF Accepted
<1>2. RopeDimensions(f) \in Nat /\ RopeDimensions(f) <= d /\ f.tokens = f.vocab
  BY <1>1, WidthsAre DEF Dimensions
<1>3. /\ g.embd = m.embd /\ g.heads = m.heads /\ g.kvHeads = kv /\ g.ffn = m.ffn
      /\ g.layers = m.layers /\ g.vocab = f.tokens
      /\ g.norm = m.epsilon[1] /\ g.eps = m.epsilon[2] /\ g.ropeBase = m.ropeBase
      /\ Missing \notin {m.embd, m.layers, m.ffn, m.heads}
  <2>1. Missing \notin {m.embd, m.layers, m.ffn, m.heads}
    BY ReadIs, Zenon
  <2>2. /\ g.embd = m.embd /\ g.heads = m.heads /\ g.kvHeads = kv /\ g.ffn = m.ffn
        /\ g.layers = m.layers /\ g.vocab = f.tokens
        /\ g.norm = m.epsilon[1] /\ g.eps = m.epsilon[2] /\ g.ropeBase = m.ropeBase
    BY ReadIs
  <2>3. QED
    BY <2>1, <2>2, Zenon
<1>4. /\ m.embd = f.hidden /\ m.layers = f.layers /\ m.ffn = f.ffn /\ m.heads = f.heads
      /\ m.epsilon[1] = "rms_epsilon" /\ m.epsilon[2] = f.eps /\ m.ropeBase = f.ropeBase
  BY <1>3 DEF PlainScan
<1>5. "attention.head_count_kv" \notin f.wide \/ f.kvHeads = f.heads => kv = f.kvHeads
  <2>1. f.kvHeads \in Nat
    BY DEF Numbers
  <2>2. QED
    BY <1>4, <2>1 DEF PlainScan, Missing
<1> HIDE DEF g, kv, d
<1>6. d = Shape(f, "attn_q")[2] \div g.heads /\ g.heads # 0
  BY <1>1, <1>3, <1>4 DEF Dimensions
<1>7. KeepsShape(s, g) /\ s.headDim = d /\ s.rope = d
  BY <1>1, <1>6, ModelIs DEF g
<1> HIDE DEF s
<1>8. s.norm = "rms_epsilon"
  BY <1>3, <1>4, <1>7 DEF KeepsShape
<1>9. RopeDimensions(f) = d /\ kv = f.kvHeads => SpecMatches(f, s)
  BY <1>2, <1>3, <1>4, <1>7 DEF KeepsShape, SpecMatches, d
<1>10. QED
  <2>1. RopeDimensions(f) = d \/ RopeDimensions(f) < d
    BY <1>1, <1>2
  <2>2. kv = f.kvHeads \/ ("attention.head_count_kv" \in f.wide /\ f.kvHeads # f.heads)
    BY <1>5
  <2>3. QED
    BY <1>8, <1>9, <2>1, <2>2 DEF s, d

\* A specification that follows the plan of its file.
Follows(f, s) ==
  /\ s.qkNorm <=> f.arch = "qwen3"
  /\ s.norm = "rms_epsilon" /\ s.eps = f.eps /\ s.rope = RopeDimensions(f)
  /\ s.kvBytes = ContextLimit(f) * KvWidth(f) * 4
  /\ 2 * s.kvBytes * f.layers <= TotalBudget
  /\ s.temp >= f.hidden + QWidth(f) + 2 * KvWidth(f) + 2 * f.ffn

\* An accepted file has norms of heads only in the architecture that uses them.
LEMMA NormsAreQwen ==
  ASSUME NEW f, Numbers(f), Accepted(f), <<0, "attn_q_norm">> \in Tensors(f)
  PROVE  f.arch = "qwen3"
<1>1. f.layers \in Nat
  BY DEF Numbers
<1>2. PICK b \in AllBindings(f) : b[1] = <<0, "attn_q_norm">> /\ BoundTensor(f, b)
  BY <1>1, TensorIsBound
<1> DEFINE name == b[1][2]
<1>3. name = "attn_q_norm"
  BY <1>2
<1>4. /\ \A l, n, w : b = NormBinding(f, l, n, w) => name = n
      /\ \A l, n, w, h : b = MatrixBinding(f, l, n, w, h) => name = n
  <2>1. ASSUME NEW l, NEW n, NEW w, b = NormBinding(f, l, n, w)
        PROVE  name = n
    <3>1. NormBinding(f, l, n, w)[1][2] = n
      BY DEF NormBinding
    <3>2. QED
      BY <2>1, <3>1
  <2>2. ASSUME NEW l, NEW n, NEW w, NEW h, b = MatrixBinding(f, l, n, w, h)
        PROVE  name = n
    <3>1. MatrixBinding(f, l, n, w, h)[1][2] = n
      BY DEF MatrixBinding
    <3>2. QED
      BY <2>2, <3>1
  <2>3. QED
    BY <2>1, <2>2, Zenon
<1>5. CASE b \in GlobalBindings(f) \cup RopeBindings(f)
  <2>1. \/ b = MatrixBinding(f, Global, "token_embd", f.hidden, f.vocab)
        \/ b = NormBinding(f, Global, "output_norm", f.hidden)
        \/ b = <<HeadTensor(f), <<f.hidden, f.vocab>>, FALSE>>
        \/ b = NormBinding(f, Global, "rope_freqs", RopeDimensions(f) \div 2)
    BY <1>5 DEF GlobalBindings, RopeBindings
  <2>2. HeadTensor(f)[2] \in {"output", "token_embd"}
    <3>1. HeadTensor(f) = Output \/ HeadTensor(f) = Embedding
      BY DEF HeadTensor
    <3>2. Output[2] = "output" /\ Embedding[2] = "token_embd"
      BY DEF Output, Embedding
    <3>3. QED
      BY <3>1, <3>2
  <2>3. b = <<HeadTensor(f), <<f.hidden, f.vocab>>, FALSE>> => name \in {"output", "token_embd"}
    BY <2>2
  <2> HIDE DEF name
  <2>4. name \in {"token_embd", "output_norm", "output", "rope_freqs"}
    BY <1>4, <2>1, <2>3
  <2>5. QED
    BY <1>3, <2>4
<1>6. CASE \E l \in 0 .. f.layers - 1 : b \in LayerBindings(f, l)
  <2>1. PICK l \in 0 .. f.layers - 1 : b \in LayerBindings(f, l)
    BY <1>6
  <2> HIDE DEF name
  <2>2. \/ b = NormBinding(f, l, "attn_norm", f.hidden)
        \/ b = NormBinding(f, l, "ffn_norm", f.hidden)
        \/ \E n \in Matrices : \E w, h : b = MatrixBinding(f, l, n, w, h)
    BY <2>1 DEF LayerBindings, Matrices
  <2>3. name \in {"attn_norm", "ffn_norm"} \cup Matrices
    BY <1>4, <2>2
  <2>4. QED
    BY <1>3, <2>3 DEF Matrices
<1>7. CASE \E l \in 0 .. f.layers - 1 : b \in HeadBindings(f, l)
  BY <1>7 DEF HeadBindings
<1>8. QED
  BY <1>5, <1>6, <1>7 DEF AllBindings

\* However the metadata was scanned, what passes the comparison follows the plan.
LEMMA PreparedIs ==
  ASSUME NEW f, Numbers(f), Accepted(f), NEW m, ToModelSpec(f, m).norm = "rms_epsilon",
         SpecMatches(f, ToModelSpec(f, m)), Budget(f, ContextLimit(f), AddressSpan, TotalBudget)
  PROVE  Follows(f, PreparedSpec(f, m))
<1> DEFINE t == ToModelSpec(f, m)
           u == [t EXCEPT !.ctx = ContextLimit(f)]
           p == ComputeDerived(u, f.arch)
           d == HeadDim(f)
<1>1. Dimensions(f) /\ d \in Nat \ {0} /\ f.tokens = f.vocab
  BY QueryWidthIs DEF Accepted, Dimensions
<1>2. DOMAIN t = SpecFields /\ (t.qkNorm => f.arch = "qwen3")
  <2>1. KeepsShape(t, FromGgufMetadata(f, m))
        /\ (t.qkNorm => <<0, "attn_q_norm">> \in Tensors(f) \/ f.arch = "qwen3")
    BY ModelIs
  <2>2. QED
    BY <2>1, NormsAreQwen DEF KeepsShape
<1>3. /\ t.embd = f.hidden /\ t.heads = f.heads /\ t.kvHeads = f.kvHeads /\ t.ffn = f.ffn
      /\ t.headDim = d /\ t.eps = f.eps /\ t.norm = "rms_epsilon" /\ RopeDimensions(f) = t.rope
  BY DEF SpecMatches
<1>4. RopeDimensions(f) = d
  <2> DEFINE g == FromGgufMetadata(f, m)
             inferred == Shape(f, "attn_q")[2] \div g.heads
  <2>1. /\ KeepsShape(t, g)
        /\ g.heads # 0 /\ inferred \in Nat \ {0} => t.headDim = inferred /\ t.rope = inferred
    BY ModelIs
  <2>2. inferred = d /\ g.heads # 0
    <3>1. g.heads = f.heads /\ g.heads # 0
      BY <1>1, <1>3, <2>1 DEF KeepsShape, Dimensions
    <3> HIDE DEF g
    <3>2. inferred = QWidth(f) \div f.heads
      BY <3>1, QueryWidthIs
    <3>3. QED
      BY <3>1, <3>2, QueryWidthIs
  <2> HIDE DEF inferred, g
  <2>3. QED
    BY <1>1, <1>3, <2>1, <2>2
<1>5. QWidth(f) = f.heads * d /\ KvWidth(f) = f.kvHeads * d /\ {QWidth(f), KvWidth(f)} \subseteq Nat
  BY <1>1, WidthsAre DEF QWidth, KvWidth
<1>6. p = PreparedSpec(f, m)
  BY DEF PreparedSpec
<1> HIDE DEF t
<1>7. /\ KeepsShape(u, t) /\ u.headDim = d /\ u.ctx = ContextLimit(f)
      /\ u.qkNorm = t.qkNorm
  BY <1>2, <1>3 DEF KeepsShape, SpecFields
<1> HIDE DEF u, d
<1>8. DOMAIN u = SpecFields /\ SpecHead(u) = d
  BY <1>1, <1>7 DEF KeepsShape, SpecHead
<1>9. /\ KeepsShape(p, u) /\ p.rope = d
      /\ p.temp = RoundUp(Largest(Intermediates(u, d)), 1024)
      /\ p.kvBytes = u.ctx * (u.kvHeads * d) * 4
  BY <1>8, DerivedIs
<1>10. p.qkNorm <=> (u.qkNorm \/ f.arch = "qwen3")
  BY <1>8, DerivedIs
<1> HIDE DEF p
<1>11. /\ u.embd = f.hidden /\ u.heads = f.heads /\ u.kvHeads = f.kvHeads /\ u.ffn = f.ffn
       /\ p.norm = "rms_epsilon" /\ p.eps = f.eps
  BY <1>3, <1>7, <1>9 DEF KeepsShape
<1>12. p.kvBytes = ContextLimit(f) * KvWidth(f) * 4
  BY <1>5, <1>7, <1>9, <1>11
<1>13. 2 * p.kvBytes * f.layers <= TotalBudget
  BY <1>12 DEF Budget
<1>14. p.temp >= f.hidden + QWidth(f) + 2 * KvWidth(f) + 2 * f.ffn
  <2> DEFINE a == f.hidden + QWidth(f) + 2 * KvWidth(f) + 2 * f.ffn
             b == 2 * f.ffn + f.hidden
             c == (IF f.hidden < QWidth(f) THEN QWidth(f) ELSE f.hidden) + QWidth(f)
  <2>1. f.hidden \in Nat /\ f.ffn \in Nat
    BY DEF Numbers
  <2>2. a \in Nat /\ b \in Nat /\ c \in Nat
    BY <1>5, <2>1
  <2>3. Intermediates(u, d) = {a, b, c}
    BY <1>5, <1>11 DEF Intermediates
  <2> HIDE DEF a, b, c
  <2>4. RoundUp(Largest({a, b, c}), 1024) >= a
    BY <2>2, ScratchIs
  <2>5. p.temp >= a
    BY <1>9, <2>3, <2>4
  <2>6. QED
    BY <2>5 DEF a
<1>15. p.qkNorm <=> f.arch = "qwen3"
  BY <1>2, <1>7, <1>10, Zenon
<1>16. p.rope = RopeDimensions(f)
  BY <1>4, <1>9
<1>17. Follows(f, p)
  BY <1>11, <1>12, <1>13, <1>14, <1>15, <1>16, Zenon DEF Follows
<1>18. QED
  BY <1>6, <1>17

\* What a file that is loaded has passed.
LoadCodes ==
  {"unsupported_kernel_configuration", "unsupported_address_width", "invalid_special_token_metadata",
   "unsupported_context", "unsupported_index_width", "panic", "unsupported_operator_semantics",
   "model_plan_mismatch", "state_budget", "rope_tables"}

\* The answers of the second derivation that a file may get.
CodeFits(f, c) ==
  f.strays = {} =>
    /\ c # "unsupported_operator_semantics"
    /\ c = "model_plan_mismatch" =>
         \/ RopeDimensions(f) < HeadDim(f)
         \/ "attention.head_count_kv" \in f.wide /\ f.kvHeads # f.heads
    /\ c = "panic" => Required \cap f.wide # {}

\* What PreparedDenseModel::load answers, and what its success means, whatever
\* its pass over the metadata finds.
LEMMA LoadIs ==
  ASSUME NEW f \in Files, NEW m \in Scan(f)
  PROVE  LET at == OffsetsOf(f)
             answer == LoadChecks(f, at, m) IN
         /\ answer \in LoadCodes \cup Codes \cup {OK}
         /\ CodeFits(f, answer)
         /\ answer = OK => /\ Descriptor(f) = OK /\ FileSize(f, at) < AddressSpan
                           /\ Follows(f, PreparedSpec(f, m))
<1> DEFINE at == OffsetsOf(f)
           size == FileSize(f, at)
           descriptor == Descriptor(f)
           ops == CheckedOperators(f, at)
           s == ToModelSpec(f, m)
           p1 == "kernel_flag" \in f.needs
           p2 == size >= AddressSpan
           p3 == "bad_special_token" \in f.needs
           p4 == ContextLimit(f) > f.context
           p5 == ~IndexesFit(f)
           p6 == FromGgufMetadata(f, m).panics
           p7 == s.norm # "rms_epsilon"
           p8 == ~SpecMatches(f, s)
           p9 == ~WidthsFit(f)
           p10 == ~Budget(f, ContextLimit(f), AddressSpan, TotalBudget)
           p11 == ~PrepareRopeTables(f, ContextLimit(f))
<1>1. LoadChecks(f, at, m) =
        IF p1 THEN "unsupported_kernel_configuration"
        ELSE IF p2 THEN "unsupported_address_width"
        ELSE IF descriptor # OK THEN descriptor
        ELSE IF p3 THEN "invalid_special_token_metadata"
        ELSE IF p4 THEN "unsupported_context"
        ELSE IF ops # OK THEN ops
        ELSE IF p5 THEN "unsupported_index_width"
        ELSE IF p6 THEN "panic"
        ELSE IF p7 THEN "unsupported_operator_semantics"
        ELSE IF p8 THEN "model_plan_mismatch"
        ELSE IF p9 THEN "unsupported_index_width"
        ELSE IF p10 THEN "state_budget"
        ELSE IF p11 THEN "rope_tables"
        ELSE OK
  BY Zenon DEF LoadChecks
<1>2. Numbers(f) /\ f.layers \in Nat /\ f.wide \subseteq Integers32
  BY FilesOK DEF Numbers
<1>3. descriptor \in Codes \cup {OK} /\ (descriptor = OK => Accepted(f))
  BY <1>2, DescriptorIs
<1>4. descriptor = OK => Placed(f, at)
  BY OffsetsAre
<1>5. descriptor = OK => ops = OK
  BY <1>2, <1>3, <1>4, OperatorsPass
<1>6. ~p2 /\ descriptor = OK => size < AddressSpan
  BY <1>4, BlobAssumption DEF Placed
<1>7. f.strays = {} /\ descriptor = OK => PlainScan(f, m)
  BY <1>2, <1>3, ScanIs DEF Accepted
<1>8. f.strays = {} /\ descriptor = OK /\ p6 => Required \cap f.wide # {}
  BY <1>2, <1>3, <1>7, PanicIs DEF Accepted
<1>9. f.strays = {} /\ descriptor = OK /\ ~p6 =>
        /\ ~p7
        /\ p8 => \/ RopeDimensions(f) < HeadDim(f)
                 \/ "attention.head_count_kv" \in f.wide /\ f.kvHeads # f.heads
  BY <1>2, <1>3, <1>7, SpecIs
<1>10. descriptor = OK /\ ~p7 /\ ~p8 /\ ~p10 => Follows(f, PreparedSpec(f, m))
  BY <1>2, <1>3, PreparedIs
<1> HIDE DEF descriptor, ops, p1, p2, p3, p4, p5, p6, p7, p8, p9, p10, p11
<1> DEFINE result == LoadChecks(f, at, m)
<1> HIDE DEF result
<1>11. result \in LoadCodes \cup Codes \cup {OK}
  BY <1>1, <1>3, <1>5 DEF LoadCodes, result
<1>12. /\ result = "unsupported_operator_semantics" => descriptor = OK /\ ~p6 /\ p7
       /\ result = "model_plan_mismatch" => descriptor = OK /\ ~p6 /\ p8
       /\ result = "panic" => descriptor = OK /\ p6
  BY <1>1, <1>3, <1>5 DEF Codes, result, OK
<1>13. result = OK => descriptor = OK /\ ~p2 /\ ~p7 /\ ~p8 /\ ~p10
  BY <1>1, <1>3, <1>5 DEF result, OK
<1>14. CodeFits(f, result)
  BY <1>8, <1>9, <1>12 DEF CodeFits
<1>15. result = OK => Descriptor(f) = OK /\ size < AddressSpan /\ Follows(f, PreparedSpec(f, m))
  BY <1>6, <1>10, <1>13 DEF descriptor
<1>16. QED
  BY <1>11, <1>14, <1>15 DEF result

-----------------------------------------------------------------------------
(* What a dispatch sees of a loaded model.                                 *)

\* A window shows every word of the file between its first and its last.
LEMMA SeesPart ==
  ASSUME NEW pl, NEW size, IsPlan(pl, size), NEW ch, Resident(ch, pl, size), size % 4 = 0,
         NEW first \in Nat, NEW last \in Nat, ForRange(first, last, pl) # NoWindow,
         NEW hi \in Nat, hi <= last, 4 * hi < size
  PROVE  LET win == ForRange(first, last, pl)
         IN Sees(Binding(ch, win, pl), WindowBase(win, pl), first, hi) /\ WindowBase(win, pl) \in Nat
<1> DEFINE win == ForRange(first, last, pl)
           sh == WindowBase(win, pl)
<1>1. size \in Nat /\ pl.words \in Nat \ {0}
  BY DEF IsPlan
<1>2. sh \in Nat
  <2>1. win.start \in Nat
    BY WindowIs
  <2> HIDE DEF win
  <2>2. QED
    BY <1>1, <2>1, TimesIsNat DEF WindowBase
<1>3. ASSUME NEW w \in Nat, first <= w, w <= hi
      PROVE  w - sh \in Nat /\ ReadBlob(Binding(ch, win, pl), w - sh) = 4 * w
  <2>1. 4 * w + 4 <= size /\ w <= last
    BY <1>1, <1>3
  <2>2. QED
    BY <1>3, <2>1, Resolve
<1> HIDE DEF win, sh
<1>4. Sees(Binding(ch, win, pl), sh, first, hi)
  BY <1>2, <1>3 DEF Sees
<1>5. QED
  BY <1>2, <1>4 DEF win, sh

\* When all of it is in the file, the window shows all of it.
LEMMA SeesWindow ==
  ASSUME NEW pl, NEW size, IsPlan(pl, size), NEW ch, Resident(ch, pl, size), size % 4 = 0,
         NEW first \in Nat, NEW last \in Nat, 4 * last < size, ForRange(first, last, pl) # NoWindow
  PROVE  LET win == ForRange(first, last, pl)
         IN Sees(Binding(ch, win, pl), WindowBase(win, pl), first, last) /\ WindowBase(win, pl) \in Nat
BY SeesPart

\* A model in memory: its file, where its tensors are, the plan of its chunks, the chunks.
Loaded(f, at, pl, ch) ==
  /\ f \in Files /\ Descriptor(f) = OK /\ Placed(f, at)
  /\ FileSize(f, at) < AddressSpan /\ FileSize(f, at) % 4 = 0
  /\ IsPlan(pl, FileSize(f, at)) /\ Resident(ch, pl, FileSize(f, at))
  /\ \A l \in 0 .. f.layers - 1 :
       SpanFits(LayerSpan(f, l, at)[1], LayerSpan(f, l, at)[2], FileSize(f, at), pl)
  /\ \A t \in {Embedding, Output} \cap DOMAIN at :
       SpanFits(at[t], at[t] + Bytes(f, t[2]), FileSize(f, at), pl)

\* What an element of a tensor is, by the registry of formulas.
Want(f, at, t, index, c) ==
  LET fmt == Format(f, t[2])
  IN Dequant(fmt, c % BlockElems(fmt),
       FileBlock(BlockStart(at[t], BlockElems(fmt), BlockBytes(fmt), Shape(f, t[2])[1], index, c),
                 BlockBytes(fmt)))

\* The window of a layer shows all of its tensors.
LayerSees(f, at, pl, ch, l, planned, hi) ==
  LET sh == WindowBase(planned.win, pl) IN
  /\ planned.win # NoWindow /\ hi \in Nat /\ sh \in Nat
  /\ planned.base = CompileLayer(f, l, at).base - sh
  /\ Sees(Binding(ch, planned.win, pl), sh, CompileLayer(f, l, at).base, hi)
  /\ \A t \in InLayer(f, l) : (at[t] + Bytes(f, t[2]) - 1) \div 4 <= hi

PlannedLayer(f, at, pl, l) ==
  PlanLayerTensorWindow(
    { CompileLayer(f, l, at).packed[t] : t \in DOMAIN CompileLayer(f, l, at).packed },
    CompileLayer(f, l, at).base, { <<at[t], Bytes(f, t[2])>> : t \in InLayer(f, l) }, pl)

\* Every dispatch of a layer has a window that sees all of the layer.
LEMMA LayerIsSeen ==
  ASSUME NEW f, NEW at, NEW pl, NEW ch, Loaded(f, at, pl, ch), NEW l \in 0 .. f.layers - 1
  PROVE  \E hi : LayerSees(f, at, pl, ch, l, PlannedLayer(f, at, pl, l), hi)
<1> DEFINE lay == CompileLayer(f, l, at)
           base == lay.base
           last == Greatest(Ends(f, l, at))
           span == LayerSpan(f, l, at)
           size == FileSize(f, at)
           hi == (last - 1) \div 4
           win == ForRange(base, hi, pl)
           planned == PlannedLayer(f, at, pl, l)
<1>1. /\ f \in Files /\ Descriptor(f) = OK /\ Placed(f, at) /\ size % 4 = 0
      /\ IsPlan(pl, size) /\ Resident(ch, pl, size) /\ SpanFits(span[1], span[2], size, pl)
  BY DEF Loaded
<1>2. base \in Nat /\ span = <<4 * base, last>>
  BY <1>1, LayerTableIs
<1>3. last \in Nat /\ last <= size /\ \A t \in InLayer(f, l) : at[t] + Bytes(f, t[2]) <= last
  BY <1>1, LayerExtent
<1>4. \A t \in InLayer(f, l) : at[t] \in Nat /\ Bytes(f, t[2]) \in Nat \ {0}
  <2>1. \A t \in InLayer(f, l) : t \in Tensors(f) /\ Bytes(f, t[2]) \in Nat \ {0}
    BY <1>1, LayerTensorIs
  <2>2. QED
    BY <1>1, <2>1 DEF Placed
<1>5. planned = [win |-> ForRange(span[1] \div 4, (span[2] - 1) \div 4, pl),
                 base |-> base - WindowBase(ForRange(span[1] \div 4, (span[2] - 1) \div 4, pl), pl)]
  BY <1>1, LayerWindowIs, Zenon DEF PlannedLayer
<1> HIDE DEF lay, base, last, span, size, planned
<1>6. span[1] \div 4 = base /\ (span[2] - 1) \div 4 = hi /\ 4 * base < last /\ win # NoWindow
  <2>1. span[1] = 4 * base /\ span[2] = last
    BY <1>2
  <2>2. span[1] \div 4 = base /\ (span[2] - 1) \div 4 = hi
    BY <1>2, <2>1
  <2>3. 4 * base < last /\ ForRange(span[1] \div 4, (span[2] - 1) \div 4, pl) # NoWindow
    BY <1>1, <2>1 DEF SpanFits
  <2>4. QED
    BY <2>2, <2>3
<1>7. planned.win = win /\ planned.base = base - WindowBase(win, pl)
  BY <1>5, <1>6
<1>8. hi \in Nat /\ 4 * hi < size
  <2>1. size \in Nat
    BY <1>1 DEF IsPlan
  <2>2. QED
    BY <1>2, <1>3, <1>6, <2>1
<1>9. \A t \in InLayer(f, l) : (at[t] + Bytes(f, t[2]) - 1) \div 4 <= hi
  <2>1. SUFFICES ASSUME NEW t \in InLayer(f, l) PROVE (at[t] + Bytes(f, t[2]) - 1) \div 4 <= hi
    OBVIOUS
  <2> DEFINE a == at[t]
             b == Bytes(f, t[2])
  <2>2. a \in Nat /\ b \in Nat \ {0} /\ a + b <= last
    BY <1>3, <1>4
  <2> HIDE DEF a, b
  <2>3. (a + b - 1) \div 4 <= hi
    BY <1>3, <2>2
  <2>4. QED
    BY <2>3 DEF a, b
<1> HIDE DEF hi, win
<1>10. Sees(Binding(ch, win, pl), WindowBase(win, pl), base, hi) /\ WindowBase(win, pl) \in Nat
  BY <1>1, <1>2, <1>6, <1>8, SeesWindow DEF win
<1>11. LayerSees(f, at, pl, ch, l, planned, hi)
  BY <1>6, <1>7, <1>8, <1>9, <1>10 DEF LayerSees, base, lay
<1>12. QED
  BY <1>11 DEF planned

\* A row of a tensor lies in the tensor.
LEMMA RowIsInside ==
  ASSUME NEW f \in Files, Descriptor(f) = OK, NEW at, Placed(f, at), NEW t \in Tensors(f),
         NEW index \in 0 .. Rows(f, t[2]) - 1, NEW c \in 0 .. Shape(f, t[2])[1] - 1
  PROVE  LET fmt == Format(f, t[2])
             bytes == BlockBytes(fmt)
             start == BlockStart(at[t], BlockElems(fmt), bytes, Shape(f, t[2])[1], index, c)
         IN /\ fmt \in Formats /\ start \in Nat /\ bytes \in Nat \ {0} /\ at[t] \in Nat
            /\ at[t] <= start /\ start + bytes <= at[t] + Bytes(f, t[2])
            /\ at[t] + index * RowBytes(f, t[2]) <= start
            /\ start + bytes <= at[t] + (index + 1) * RowBytes(f, t[2])
<1> DEFINE fmt == Format(f, t[2])
           elems == BlockElems(fmt)
           bytes == BlockBytes(fmt)
           cols == Shape(f, t[2])[1]
           a == at[t]
           r == RowBytes(f, t[2])
           n == Rows(f, t[2])
           q == (cols \div elems) * bytes
           start == BlockStart(a, elems, bytes, cols, index, c)
<1>1. /\ fmt \in Formats /\ cols \in Nat \ {0} /\ cols % elems = 0
      /\ r \in Nat \ {0} /\ n \in Nat /\ Bytes(f, t[2]) = n * r /\ Bytes(f, t[2]) \in Nat
  BY KnownIs DEF Known
<1>2. a \in Nat
  BY DEF Placed
<1>3. elems \in Nat \ {0} /\ bytes \in Nat \ {0}
  BY <1>1, FormatSizes
<1>4. r = q
  BY DEF RowBytes
<1>5. index \in Nat /\ index + 1 <= n
  BY <1>1
<1> HIDE DEF fmt, elems, bytes, cols, a, r, n
<1>6. /\ start \in Nat /\ a <= start /\ start + bytes <= a + (index + 1) * q
  <2>1. c \in 0 .. cols - 1
    BY DEF cols
  <2>2. QED
    BY <1>1, <1>2, <1>3, <1>5, <2>1, BlockStartIs
<1>7. (index + 1) * r <= n * r
  <2> DEFINE k == index + 1
  <2>1. k \in Nat /\ k <= n
    BY <1>1, <1>5
  <2> HIDE DEF k
  <2>2. r * k <= r * n /\ r * k = k * r /\ r * n = n * r
    BY <1>1, <2>1, ProductGrows
  <2>3. k * r <= n * r
    BY <2>2
  <2>4. QED
    BY <2>3 DEF k
<1>8. a + index * r <= start
  <2> DEFINE x == index * r
             y == (c \div elems) * bytes
  <2>1. start = a + x + y
    BY <1>4 DEF BlockStart
  <2>2. c \div elems \in Nat
    <3>1. c \in Nat
      OBVIOUS
    <3>2. QED
      BY <1>3, <3>1, QuotRem
  <2>3. x \in Nat /\ y \in Nat
    BY <1>1, <1>3, <1>5, <2>2, TimesIsNat
  <2> HIDE DEF x, y, start
  <2>4. a + x <= start
    BY <1>2, <2>1, <2>3
  <2>5. QED
    BY <2>4 DEF x
<1>9. start + bytes <= a + n * r
  <2> DEFINE x == (index + 1) * r
             y == n * r
  <2>1. x <= y /\ start + bytes <= a + x /\ y \in Nat /\ x \in Nat
    <3>1. index + 1 \in Nat
      BY <1>5
    <3>2. QED
      BY <1>1, <1>4, <1>6, <1>7, <3>1, TimesIsNat
  <2> HIDE DEF x, y, start
  <2>2. start + bytes <= a + y
    BY <1>2, <1>3, <1>6, <2>1
  <2>3. QED
    BY <2>2 DEF y
<1> HIDE DEF start
<1>10. QED
  BY <1>1, <1>2, <1>3, <1>4, <1>6, <1>8, <1>9 DEF fmt, elems, bytes, cols, a, r, n, start

-----------------------------------------------------------------------------
(* Rows of a matrix, norms of the heads.                                   *)

\* A matrix of a layer is read through the window of the layer.
LEMMA MatrixRowIs ==
  ASSUME NEW f, NEW at, NEW pl, NEW ch, Loaded(f, at, pl, ch), NEW l \in 0 .. f.layers - 1,
         NEW name \in Matrices, NEW index \in 0 .. Rows(f, name) - 1,
         NEW c \in 0 .. Shape(f, name)[1] - 1
  PROVE  LET planned == PlannedLayer(f, at, pl, l)
             t == <<l, name>>
         IN /\ planned.win # NoWindow
            /\ MatrixElement(Binding(ch, planned.win, pl), planned.base, FormulaSlot(Format(f, name)),
                             CompileLayer(f, l, at).packed[t], Shape(f, name)[1], index, c)
                 = Want(f, at, t, index, c)
<1> DEFINE planned == PlannedLayer(f, at, pl, l)
           t == <<l, name>>
           fmt == Format(f, name)
           elems == BlockElems(fmt)
           bytes == BlockBytes(fmt)
           cols == Shape(f, name)[1]
           a == at[t]
           lay == CompileLayer(f, l, at)
           pack == lay.packed[t]
           start == BlockStart(a, elems, bytes, cols, index, c)
           sh == WindowBase(planned.win, pl)
           blob == Binding(ch, planned.win, pl)
           end == a + Bytes(f, name)
<1>1. f \in Files /\ Descriptor(f) = OK /\ Placed(f, at)
  BY DEF Loaded
<1>2. PICK hi : LayerSees(f, at, pl, ch, l, planned, hi)
  BY LayerIsSeen
<1>3. t \in InLayer(f, l) /\ t[2] = name
  <2>1. name \in LayerNameSet(f)
    BY DEF Matrices, LayerNameSet
  <2>2. QED
    BY <2>1, InLayerIs DEF LayerSet
<1>4. t \in Tensors(f) /\ Bytes(f, name) \in Nat \ {0}
  BY <1>1, <1>3, LayerTensorIs
<1>5. Known(f, t)
  BY <1>1, <1>4, KnownIs
<1>6. fmt \in Formats /\ cols \in Nat \ {0} /\ cols % elems = 0
  BY <1>3, <1>5 DEF Known
<1>7. /\ lay.base \in Nat /\ pack \in Nat \ {0} /\ a = 4 * lay.base + 2 * pack
  BY <1>1, <1>3, LayerTableIs
<1>8. a \in Nat /\ a % 4 = 0
  BY <1>1, <1>4 DEF Placed
<1>9. start \in Nat /\ bytes \in Nat \ {0} /\ a <= start /\ start + bytes <= end
  <2>1. index \in 0 .. Rows(f, t[2]) - 1 /\ c \in 0 .. Shape(f, t[2])[1] - 1
    BY <1>3
  <2>2. QED
    BY <1>1, <1>3, <1>4, <2>1, RowIsInside
<1>10. /\ planned.win # NoWindow /\ hi \in Nat /\ sh \in Nat /\ planned.base = lay.base - sh
       /\ Sees(blob, sh, lay.base, hi) /\ (end - 1) \div 4 <= hi
  <2>1. /\ planned.win # NoWindow /\ hi \in Nat /\ sh \in Nat /\ planned.base = lay.base - sh
        /\ Sees(blob, sh, lay.base, hi) /\ (a + Bytes(f, name) - 1) \div 4 <= hi
    BY <1>2, <1>3 DEF LayerSees
  <2>2. a + Bytes(f, name) - 1 = end - 1
    BY <1>4, <1>8
  <2>3. QED
    BY <2>1, <2>2
<1>11. Want(f, at, t, index, c) = Dequant(fmt, c % elems, FileBlock(start, bytes))
  BY <1>3 DEF Want
<1>12. /\ index \in Nat /\ c \in 0 .. cols - 1
  OBVIOUS
<1>13. end \in Nat
  BY <1>4, <1>8
<1> HIDE DEF planned, t, fmt, elems, bytes, cols, a, lay, pack, start, sh, blob, end
<1>14. planned.base \in Int /\ a = 4 * (planned.base + sh) + 2 * pack
  BY <1>7, <1>10
<1>15. lay.base <= start \div 4 /\ (start + bytes - 1) \div 4 <= hi
  <2>1. lay.base <= start \div 4
    BY <1>7, <1>8, <1>9
  <2>2. (start + bytes - 1) \div 4 <= (end - 1) \div 4 /\ (start + bytes - 1) \div 4 \in Nat
    BY <1>9, <1>13
  <2>3. (end - 1) \div 4 \in Int
    BY <1>13
  <2>4. QED
    BY <1>10, <2>1, <2>2, <2>3
<1>16. MatrixElement(blob, planned.base, FormulaSlot(fmt), pack, cols, index, c)
         = Dequant(fmt, c % elems, FileBlock(start, bytes))
  <2>1. pack \in Nat /\ cols \in Nat
    BY <1>6, <1>7
  <2>2. StartAt(start, a, fmt, cols, index, c)
    BY DEF start, elems, bytes, StartAt
  <2>a. TensorAt(a, planned.base, sh, pack)
    BY <1>14 DEF TensorAt
  <2> DEFINE base == planned.base
  <2>b. base \in Int /\ TensorAt(a, base, sh, pack)
    BY <1>14, <2>a
  <2>3. cols % BlockElems(fmt) = 0 /\ (start + BlockBytes(fmt) - 1) \div 4 <= hi
    BY <1>6, <1>15 DEF elems, bytes
  <2>4. MatrixElement(blob, planned.base, FormulaSlot(fmt), pack, cols, index, c)
         = Dequant(fmt, c % BlockElems(fmt), FileBlock(start, BlockBytes(fmt)))
    <3> HIDE DEF base
    <3>1. MatrixElement(blob, base, FormulaSlot(fmt), pack, cols, index, c)
         = Dequant(fmt, c % BlockElems(fmt), FileBlock(start, BlockBytes(fmt)))
      BY <1>6, <1>8, <1>10, <1>12, <1>15, <2>1, <2>2, <2>3, <2>b, MatrixElementIs
    <3>2. QED
      BY <3>1 DEF base
  <2>5. QED
    BY <2>4 DEF elems, bytes
<1>17. QED
  BY <1>10, <1>11, <1>16, Zenon DEF planned, t, fmt, cols, lay, pack, blob

\* An element of an F32 tensor of one row.
LEMMA WantWord ==
  ASSUME NEW f, NEW at, NEW t, Format(f, t[2]) = "F32", at[t] \in Nat, NEW c \in Nat,
         Shape(f, t[2])[1] \in Nat
  PROVE  Want(f, at, t, 0, c) = Plain(Bits(at[t] + 4 * c, 32))
<1>1. "F32" \in Formats
  BY FormatsAre
<1>2. BlockElems("F32") = 1 /\ BlockBytes("F32") = 4
  BY <1>1, FormatIs
<1> DEFINE a == at[t]
           cols == Shape(f, t[2])[1]
           start == BlockStart(a, 1, 4, cols, 0, c)
<1>3. Want(f, at, t, 0, c) = Dequant("F32", c % 1, FileBlock(start, 4))
  BY <1>2 DEF Want
<1>4. start = a + 4 * c
  <2>1. 0 * ((cols \div 1) * 4) = 0
    <3> DEFINE x == (cols \div 1) * 4
    <3>1. x \in Nat
      OBVIOUS
    <3> HIDE DEF x
    <3>2. 0 * x = 0
      BY <3>1
    <3>3. QED
      BY <3>2 DEF x
  <2>2. (c \div 1) * 4 = 4 * c
    OBVIOUS
  <2>3. start = a + 0 * ((cols \div 1) * 4) + (c \div 1) * 4
    BY DEF BlockStart
  <2>4. QED
    BY <2>1, <2>2, <2>3
<1>5. a + 4 * c \in Nat
  OBVIOUS
<1> HIDE DEF start
<1>6. Dequant("F32", c % 1, FileBlock(start, 4)) = Plain(Bits(start, 32))
  BY <1>4, <1>5, PlainF32Is
<1>7. QED
  BY <1>3, <1>4, <1>6

\* The norm of a head is read through the window of the layer, word by word.
LEMMA HeadNormIs ==
  ASSUME NEW f, NEW at, NEW pl, NEW ch, Loaded(f, at, pl, ch), NEW l \in 0 .. f.layers - 1,
         NEW name \in {"attn_q_norm", "attn_k_norm"} \cap Range(LayerNames(f)),
         NEW c \in 0 .. HeadDim(f) - 1
  PROVE  LET planned == PlannedLayer(f, at, pl, l)
             t == <<l, name>>
         IN /\ planned.win # NoWindow
            /\ Plain(ExtractBits(ReadBlob(Binding(ch, planned.win, pl),
                 CompileLayer(f, l, at).packed[t] \div 2 + planned.base + c), 0, 32))
                 = Want(f, at, t, 0, c)
<1> DEFINE planned == PlannedLayer(f, at, pl, l)
           t == <<l, name>>
           a == at[t]
           lay == CompileLayer(f, l, at)
           pack == lay.packed[t]
           sh == WindowBase(planned.win, pl)
           blob == Binding(ch, planned.win, pl)
           d == HeadDim(f)
           word == pack \div 2 + planned.base + c
           byte == a + 4 * c
<1>1. f \in Files /\ Descriptor(f) = OK /\ Placed(f, at)
  BY DEF Loaded
<1>2. PICK hi : LayerSees(f, at, pl, ch, l, planned, hi)
  BY LayerIsSeen
<1>3. Numbers(f) /\ f.layers \in Nat
  BY <1>1, FilesOK DEF Numbers
<1>4. Accepted(f)
  BY <1>1, <1>3, DescriptorIs
<1>5. name \in LayerNameSet(f)
  BY LayerNamesAre
<1>6. t \in InLayer(f, l) /\ t[2] = name
  BY <1>5, InLayerIs DEF LayerSet
<1>7. HasNorm(f, l, name, d)
  <2>1. f.arch = "qwen3"
    BY <1>5 DEF LayerNameSet
  <2>2. LayerHas(f, l)
    BY <1>3, <1>4, LayerHasAll
  <2>3. QED
    BY <2>1, <2>2 DEF LayerHas
<1>8. d \in Nat \ {0}
  BY <1>3, <1>4, WidthsAre DEF Accepted
<1>9. t \in Tensors(f) /\ Format(f, t[2]) = "F32" /\ Bytes(f, t[2]) = 4 * d
  BY <1>6, <1>7, <1>8, NormBytes DEF HasNorm
<1>10. a \in Nat /\ a % 4 = 0
  BY <1>1, <1>9 DEF Placed
<1>11. lay.base \in Nat /\ pack \in Nat \ {0} /\ pack % 2 = 0 /\ a = 4 * lay.base + 2 * pack
  BY <1>1, <1>6, LayerTableIs
<1>12. /\ planned.win # NoWindow /\ hi \in Nat /\ sh \in Nat /\ planned.base = lay.base - sh
       /\ Sees(blob, sh, lay.base, hi) /\ (a + 4 * d - 1) \div 4 <= hi
  BY <1>2, <1>6, <1>9 DEF LayerSees
<1>13. Want(f, at, t, 0, c) = Plain(Bits(byte, 32))
  <2>1. c \in Nat
    OBVIOUS
  <2>2. QED
    <3>1. Shape(f, t[2])[1] \in Nat
      BY <1>1, <1>9, KnownIs DEF Known
    <3>2. QED
      BY <1>9, <1>10, <2>1, <3>1, WantWord
<1>14. c \in Nat /\ c < d
  BY <1>8
<1> HIDE DEF planned, t, a, lay, pack, sh, blob, d
<1>15. byte \in Nat /\ byte % 4 = 0 /\ word \in Int /\ byte = 4 * (word + sh)
       /\ lay.base <= byte \div 4 /\ byte \div 4 <= hi
  <2>1. byte \in Nat /\ byte % 4 = 0
    BY <1>10, <1>14
  <2>2. word + sh = pack \div 2 + lay.base + c /\ word \in Int
    BY <1>11, <1>12, <1>14
  <2>3. 4 * (pack \div 2) = 2 * pack
    BY <1>11
  <2>4. byte = 4 * (word + sh)
    BY <1>11, <1>14, <2>2, <2>3
  <2>5. byte \div 4 = a \div 4 + c /\ lay.base <= a \div 4
    BY <1>10, <1>11, <1>14
  <2>6. a \div 4 + c <= (a + 4 * d - 1) \div 4
    BY <1>8, <1>10, <1>14
  <2>7. QED
    BY <1>8, <1>10, <1>11, <1>12, <1>14, <2>1, <2>2, <2>4, <2>5, <2>6
<1> HIDE DEF byte, word
<1>16. ExtractBits(ReadBlob(blob, word), 0, 32) = Bits(byte, 32)
  <2>1. WordAt(byte, word, sh)
    BY <1>15 DEF WordAt
  <2>2. QED
    BY <1>12, <1>15, <2>1, WordIs
<1>17. QED
  BY <1>12, <1>13, <1>16, Zenon DEF planned, t, lay, pack, blob, word

-----------------------------------------------------------------------------
(* The bank of norms.                                                      *)

\* The number of an entry of the bank of norms.
BankEntry(l, n, slot, h, c) == (l * n + slot) * h + c

\* Where an entry of the bank of norms is copied from.
LEMMA BankPlace ==
  ASSUME NEW h \in Nat \ {0}, NEW n \in Nat \ {0}, NEW l \in Nat, NEW slot \in 0 .. n - 1,
         NEW c \in 0 .. h - 1
  PROVE  LET position == BankEntry(l, n, slot, h, c)
         IN /\ position \div h = l * n + slot /\ position % h = c
            /\ (position \div h) % n = slot /\ position \div (n * h) = l
<1> DEFINE k == l * n + slot
           position == k * h + c
           r == slot * h + c
<1>1. l * n \in Nat /\ l * n = n * l /\ k \in Nat
  BY TimesIsNat
<1>2. k = n * l + slot
  BY <1>1
<1>3. k \div n = l /\ k % n = slot
  <2> HIDE DEF k
  <2>1. QED
    BY <1>2, DivUnique
<1>4. n * h \in Nat \ {0} /\ h * (slot + 1) <= h * n /\ h * n = n * h /\ slot + 1 \in Nat
  <2>1. slot + 1 \in Nat /\ slot + 1 <= n /\ n >= 1
    OBVIOUS
  <2>2. h * (slot + 1) <= h * n /\ h * n \in Nat
    BY <2>1, ProductGrows
  <2>3. h * 1 <= h * n
    BY <2>1, ProductGrows
  <2>4. h * n = n * h
    OBVIOUS
  <2>5. QED
    BY <2>1, <2>2, <2>3, <2>4
<1>5. r \in 0 .. (n * h) - 1
  <2>1. slot * h \in Nat /\ h * (slot + 1) = slot * h + h
    BY TimesIsNat
  <2> DEFINE x == slot * h
             y == n * h
  <2>2. x \in Nat /\ x + h <= y /\ y \in Nat
    BY <1>4, <2>1
  <2> HIDE DEF x, y
  <2>3. x + c \in 0 .. y - 1
    BY <2>2
  <2>4. QED
    BY <2>3 DEF x, y
<1>6. position = h * k + c
  <2>1. k * h = h * k
    BY <1>1
  <2>2. QED
    BY <2>1
<1>7. position = (n * h) * l + r
  <2>1. k * h = (n * l) * h + slot * h /\ (n * l) * h = (n * h) * l
    BY <1>1, <1>2
  <2>2. (n * h) * l \in Nat /\ slot * h \in Nat
    BY <1>4, TimesIsNat
  <2>3. QED
    BY <2>1, <2>2
<1> HIDE DEF k, position, r
<1>8. position \div h = k /\ position % h = c
  BY <1>1, <1>6, DivUnique
<1>9. position \div (n * h) = l
  <2> DEFINE y == n * h
  <2>1. y \in Nat \ {0} /\ r \in 0 .. y - 1 /\ position = y * l + r
    BY <1>4, <1>5, <1>7
  <2> HIDE DEF y
  <2>2. position \div y = l
    BY <2>1, DivUnique
  <2>3. QED
    BY <2>2 DEF y
<1>10. QED
  BY <1>3, <1>8, <1>9 DEF position, k, BankEntry

\* The bank of norms holds the norms of every layer.
LEMMA BankIs ==
  ASSUME file \in Files, Descriptor(file) = OK, Placed(file, offsets),
         NEW l \in 0 .. file.layers - 1, NEW name \in {"attn_norm", "ffn_norm"},
         NEW c \in 0 .. file.hidden - 1
  PROVE  LET slot == IF name = "attn_norm" THEN 0 ELSE FfnNormSlot
             place == NormBank((l * NormSlots + slot) * file.hidden + c)
         IN Plain(ExtractBits(place, 0, 32)) = Want(file, offsets, <<l, name>>, 0, c)
<1> DEFINE slot == IF name = "attn_norm" THEN 0 ELSE FfnNormSlot
           h == file.hidden
           n == NormSlots
           position == (l * n + slot) * h + c
           t == <<l, name>>
           qk == file.arch = "qwen3"
           a == offsets[t]
           place == NormBank(position)
<1>1. Numbers(file) /\ Accepted(file) /\ file.layers \in Nat
  <2>1. Numbers(file) /\ file.layers \in Nat
    BY FilesOK DEF Numbers
  <2>2. QED
    BY <2>1, DescriptorIs
<1>2. h \in Nat \ {0} /\ n \in Nat \ {0} /\ slot \in 0 .. n - 1 /\ l \in Nat
  <2>1. h \in Nat \ {0}
    BY <1>1 DEF Accepted, Dimensions
  <2>2. QED
    BY <1>1, <2>1 DEF NormSlots, FfnNormSlot
<1>3. position \div h = l * n + slot /\ position % h = c /\ (position \div h) % n = slot
      /\ position \div (n * h) = l
  <2>1. c \in 0 .. h - 1
    OBVIOUS
  <2>2. position = BankEntry(l, n, slot, h, c)
    BY DEF BankEntry
  <2> HIDE DEF slot, h, n, position
  <2>3. QED
    BY <1>2, <2>1, <2>2, BankPlace
<1>4. HasNorm(file, l, name, h)
  <2>1. LayerHas(file, l)
    BY <1>1, LayerHasAll
  <2>2. QED
    BY <2>1 DEF LayerHas
<1>5. t \in Tensors(file) /\ Format(file, t[2]) = "F32" /\ Shape(file, t[2]) = <<h>>
  BY <1>4 DEF HasNorm
<1>6. a \in Nat /\ a % 4 = 0 /\ DOMAIN offsets = Tensors(file)
  BY <1>5 DEF Placed
<1>7. place = a + 4 * c
  <2> DEFINE s == (position \div h) % n
             named == CASE s = 0 -> "attn_norm"
                [] qk /\ s = 1 -> "attn_q_norm"
                [] qk /\ s = 2 -> "attn_k_norm"
                [] s = (IF qk THEN 3 ELSE 1) -> "ffn_norm"
                [] OTHER -> "none"
             who == IF position \div (n * h) = file.layers THEN OutputNorm ELSE <<position \div (n * h), named>>
  <2>1. place = IF who \in DOMAIN offsets THEN offsets[who] + 4 * (position % h) ELSE Lost
    BY DEF NormBank
  <2>2. named = name
    <3>1. name = "attn_norm" => s = 0
      BY <1>3
    <3>2. name = "ffn_norm" => s = (IF qk THEN 3 ELSE 1)
      BY <1>3 DEF FfnNormSlot
    <3> HIDE DEF s, qk
    <3>3. QED
      BY <3>1, <3>2
  <2>3. l # file.layers
    BY <1>1
  <2> HIDE DEF named, position, h, n, place
  <2>4. who = t
    BY <1>3, <2>2, <2>3
  <2> HIDE DEF who
  <2>5. QED
    BY <1>3, <1>5, <1>6, <2>1, <2>4
<1> HIDE DEF place, position, n, slot
<1>8. c \in Nat
  OBVIOUS
<1>9. ExtractBits(place, 0, 32) = Bits(a + 4 * c, 32)
  <2> DEFINE w == (a + 4 * c) \div 4
  <2>1. a + 4 * c = 4 * w /\ w \in Nat
    <3>1. a \in Nat /\ a % 4 = 0
      BY <1>6
    <3> HIDE DEF a
    <3>2. QED
      BY <1>8, <3>1
  <2> HIDE DEF w
  <2>2. ExtractBits(4 * w, 8 * 0, 32) = Bits(4 * w + 0, 32)
    <3>1. 0 \in 0 .. 3 /\ 32 \in Nat /\ 8 * 0 + 32 <= 32
      OBVIOUS
    <3>2. QED
      BY <2>1, <3>1, ExtractIs
  <2>3. 8 * 0 = 0 /\ 4 * w + 0 = 4 * w
    BY <2>1
  <2>4. QED
    BY <1>7, <2>1, <2>2, <2>3
<1>10. Want(file, offsets, t, 0, c) = Plain(Bits(a + 4 * c, 32))
  <2>1. Shape(file, t[2])[1] \in Nat
    BY <1>2, <1>5
  <2>2. QED
    BY <1>5, <1>6, <1>8, <2>1, WantWord
<1>11. QED
  BY <1>9, <1>10 DEF place, position, n, slot, t

-----------------------------------------------------------------------------
(* A window beside another.                                                *)

\* A range half as long as one that has a window, and in the file, has a window.
LEMMA HalfWindow ==
  ASSUME NEW pl, NEW size, IsPlan(pl, size), NEW first \in Nat, NEW last \in Nat,
         ForRange(first, last, pl) # NoWindow,
         NEW h \in Nat \ {0}, first + 2 * h <= last,
         NEW a \in Nat, 4 * (a + h) <= size
  PROVE  ForRange(a, a + h - 1, pl) # NoWindow
<1> DEFINE win == ForRange(first, last, pl)
           w == pl.words
           s == first \div w
           e == last \div w
           n == win.count
           k == (h - 1) \div w
           p == a \div w
           b == a + h - 1
           q == b \div w
<1>1. w \in Nat \ {0} /\ pl.count \in Nat /\ size \in Nat /\ size <= (4 * w) * pl.count
  BY DEF IsPlan
<1>2. n \in 1 .. BindingSlots /\ s + n = e + 1
  BY WindowIs
<1> HIDE DEF win, n
<1>3. /\ s \in Nat /\ first = w * s + (first % w) /\ first % w \in 0 .. w - 1
      /\ e \in Nat /\ last = w * e + (last % w) /\ last % w \in 0 .. w - 1
      /\ p \in Nat /\ a = w * p + (a % w) /\ a % w \in 0 .. w - 1
  BY <1>1, QuotRem
<1>4. h - 1 \in Nat /\ b \in Nat /\ a <= b
  OBVIOUS
<1>5. k \in Nat /\ h - 1 = w * k + ((h - 1) % w) /\ (h - 1) % w \in 0 .. w - 1
  <2> DEFINE j == h - 1
  <2>1. j \in Nat
    BY <1>4
  <2> HIDE DEF j
  <2>2. j \div w \in Nat /\ j = w * (j \div w) + (j % w) /\ j % w \in 0 .. w - 1
    BY <1>1, <2>1, QuotRem
  <2>3. QED
    BY <2>2 DEF j
<1> HIDE DEF w, s, e, k, p, b, q
<1>6. 2 * k < n
  <2>1. SUFFICES ASSUME n <= 2 * k PROVE FALSE
    BY <1>2, <1>5, BlobAssumption
  <2>2. w * n <= w * (2 * k) /\ w * n \in Nat
    BY <1>1, <1>2, <1>5, <2>1, ProductGrows
  <2>3. w * (2 * k) = 2 * (w * k) /\ w * k \in Nat
    BY <1>1, <1>5
  <2>4. w * (e + 1) = w * e + w /\ w * (s + n) = w * s + w * n /\ w * s \in Nat /\ w * e \in Nat
    BY <1>1, <1>2, <1>3
  <2>5. w * e + w = w * s + w * n
    BY <1>2, <2>4
  <2> DEFINE ws == w * s
             we == w * e
             wn == w * n
             wk == w * k
  <2>6. /\ ws \in Nat /\ we \in Nat /\ wn \in Nat /\ wk \in Nat /\ wn <= 2 * wk /\ we + w = ws + wn
        /\ ws <= first /\ last < we + w /\ wk <= h - 1
    BY <1>1, <1>3, <1>5, <2>2, <2>3, <2>4, <2>5
  <2> HIDE DEF ws, we, wn, wk
  <2>7. QED
    BY <1>1, <2>6
<1>7. k + 2 <= BindingSlots
  BY <1>2, <1>5, <1>6, BlobAssumption
<1>8. p <= q /\ q \in Nat
  BY <1>1, <1>4, DivGrows DEF p, q
<1>9. q < p + k + 2
  <2> DEFINE m == p + k + 2
  <2>1. m \in Nat
    BY <1>3, <1>5
  <2>2. w * m = w * p + w * k + 2 * w
    BY <1>1, <1>3, <1>5
  <2>3. w * p \in Nat /\ w * k \in Nat
    BY <1>1, <1>3, <1>5
  <2>4. b < w * m
    <3> DEFINE wp == w * p
               wk == w * k
    <3>1. /\ wp \in Nat /\ wk \in Nat /\ a < wp + w /\ h - 1 < wk + w /\ w * m = wp + wk + 2 * w
      BY <1>1, <1>3, <1>5, <2>2, <2>3
    <3>2. b = a + (h - 1)
      BY DEF b
    <3> HIDE DEF wp, wk, m
    <3>3. QED
      BY <1>1, <1>4, <3>1, <3>2
  <2> HIDE DEF m
  <2>5. q < m
    BY <1>1, <1>4, <2>1, <2>4, DivBelow DEF q
  <2>6. QED
    BY <2>5 DEF m
<1>10. q < pl.count
  <2> DEFINE c == pl.count
  <2>1. c \in Nat /\ size <= 4 * (w * c) /\ w * c \in Nat
    <3>1. (4 * w) * pl.count = 4 * (w * pl.count) /\ w * pl.count \in Nat
      BY <1>1
    <3>2. QED
      BY <1>1, <3>1
  <2>2. b < w * c
    <3> DEFINE x == w * c
    <3>1. x \in Nat /\ 4 * (a + h) <= 4 * x /\ b = a + (h - 1)
      BY <1>1, <2>1 DEF b
    <3> HIDE DEF x
    <3>2. b < x
      BY <1>4, <3>1
    <3>3. QED
      BY <3>2 DEF x
  <2> HIDE DEF c
  <2>3. q < c
    BY <1>1, <1>4, <2>1, <2>2, DivBelow DEF q
  <2>4. QED
    BY <2>3 DEF c
<1>11. q - p + 1 \in 1 .. BindingSlots /\ p + (q - p + 1) <= pl.count /\ p < pl.count
  BY <1>1, <1>3, <1>5, <1>7, <1>8, <1>9, <1>10, BlobAssumption
<1>12. ForRange(a, b, pl).count # 0
  <2>1. ForRange(a, b, pl) = NewWindow(p, q - p + 1, pl)
    BY DEF ForRange, p, q, w
  <2>2. NewWindow(p, q - p + 1, pl).count = q - p + 1
    BY <1>11 DEF NewWindow
  <2>3. QED
    BY <1>3, <1>8, <1>11, <2>1, <2>2
<1>13. ForRange(a, b, pl) # NoWindow
  BY <1>12 DEF NoWindow
<1>14. QED
  BY <1>13 DEF b

-----------------------------------------------------------------------------
(* The final norm.                                                         *)

\* A layer holds two norms as wide as the model.
LEMMA LayerIsLong ==
  ASSUME NEW f \in Files, Descriptor(f) = OK, NEW at, Placed(f, at), NEW l \in 0 .. f.layers - 1
  PROVE  LET span == LayerSpan(f, l, at)
         IN /\ span[1] \div 4 \in Nat /\ (span[2] - 1) \div 4 \in Nat
            /\ (span[1] \div 4) + 2 * f.hidden <= (span[2] - 1) \div 4
<1> DEFINE h == f.hidden
           t == <<l, "attn_norm">>
           u == <<l, "ffn_norm">>
           a == at[t]
           b == at[u]
           base == CompileLayer(f, l, at).base
           last == Greatest(Ends(f, l, at))
           least == Least(Starts(f, l, at))
           span == LayerSpan(f, l, at)
<1>1. Numbers(f) /\ Accepted(f) /\ f.layers \in Nat
  <2>1. Numbers(f) /\ f.layers \in Nat
    BY FilesOK DEF Numbers
  <2>2. QED
    BY <2>1, DescriptorIs
<1>2. h \in Nat \ {0}
  BY <1>1 DEF Accepted, Dimensions
<1>3. HasNorm(f, l, "attn_norm", h) /\ HasNorm(f, l, "ffn_norm", h)
  BY <1>1, LayerHasAll DEF LayerHas
<1>4. Bytes(f, t[2]) = 4 * h /\ Bytes(f, u[2]) = 4 * h
  <2>1. t[2] = "attn_norm" /\ u[2] = "ffn_norm"
    OBVIOUS
  <2>2. QED
    BY <1>2, <1>3, <2>1, NormBytes
<1>5. t \in InLayer(f, l) /\ u \in InLayer(f, l) /\ t # u
  <2>1. t \in LayerSet(f, l) /\ u \in LayerSet(f, l)
    BY DEF LayerSet, LayerNameSet
  <2>2. QED
    BY <2>1, InLayerIs
<1>6. t \in Tensors(f) /\ u \in Tensors(f)
  BY <1>3 DEF HasNorm
<1>7. a \in Nat /\ b \in Nat /\ (a + 4 * h <= b \/ b + 4 * h <= a)
  BY <1>4, <1>5, <1>6 DEF Placed
<1>8. least <= a /\ least <= b /\ a + 4 * h <= last /\ b + 4 * h <= last
      /\ least \in Nat /\ last \in Nat
  BY <1>4, <1>5, LayerExtent
<1>9. base \in Nat /\ 4 * base = least - 4 /\ span = <<4 * base, last>>
  BY LayerTableIs
<1>10. span[1] = 4 * base /\ span[2] = last
  BY <1>9
<1> HIDE DEF h, a, b, base, last, least, span
<1>11. 4 * base + 4 + 8 * h <= last
  BY <1>2, <1>7, <1>8, <1>9
<1>12. (4 * base) \div 4 = base /\ (last - 1) \div 4 \in Nat /\ base + 2 * h <= (last - 1) \div 4
  BY <1>2, <1>8, <1>9, <1>11
<1>13. QED
  BY <1>9, <1>10, <1>12 DEF h, span

\* The final norm is read through a window of its own.
LEMMA FinalNormIs ==
  ASSUME NEW f, NEW at, NEW pl, NEW ch, Loaded(f, at, pl, ch), NEW c \in 0 .. f.hidden - 1
  PROVE  LET weight == at[OutputNorm] \div 4
             win == RmsNormWindow(weight, 0, f.hidden, pl)
         IN /\ win # NoWindow
            /\ Plain(ExtractBits(ReadBlob(Binding(ch, win, pl), weight - WindowBase(win, pl) + c), 0, 32))
                 = Want(f, at, OutputNorm, 0, c)
<1> DEFINE h == f.hidden
           t == OutputNorm
           a == at[t]
           weight == a \div 4
           size == FileSize(f, at)
           win == RmsNormWindow(weight, 0, h, pl)
           blob == Binding(ch, win, pl)
           sh == WindowBase(win, pl)
           word == weight - sh + c
           byte == a + 4 * c
           span == LayerSpan(f, 0, at)
<1>1. /\ f \in Files /\ Descriptor(f) = OK /\ Placed(f, at) /\ size % 4 = 0
      /\ IsPlan(pl, size) /\ Resident(ch, pl, size)
  BY DEF Loaded
<1>2. Numbers(f) /\ Accepted(f) /\ f.layers \in Nat
  <2>1. Numbers(f) /\ f.layers \in Nat
    BY <1>1, FilesOK DEF Numbers
  <2>2. QED
    BY <1>1, <2>1, DescriptorIs
<1>3. h \in Nat \ {0} /\ 0 \in 0 .. f.layers - 1
  BY <1>2 DEF Accepted, Dimensions
<1>4. HasNorm(f, Global, "output_norm", h) /\ t[2] = "output_norm" /\ t = <<Global, "output_norm">>
  BY <1>2, GlobalsHaveAll DEF GlobalsHave, OutputNorm
<1>5. t \in Tensors(f) /\ Format(f, t[2]) = "F32" /\ Shape(f, t[2]) = <<h>> /\ Bytes(f, t[2]) = 4 * h
  <2>1. Bytes(f, "output_norm") = 4 * h
    BY <1>3, <1>4, NormBytes
  <2>2. QED
    BY <1>4, <2>1 DEF HasNorm
<1>6. a \in Nat /\ a % 4 = 0 /\ a + 4 * h <= size
  BY <1>1, <1>5 DEF Placed
<1>7. /\ SpanFits(span[1], span[2], size, pl)
      /\ span[1] \div 4 \in Nat /\ (span[2] - 1) \div 4 \in Nat
      /\ (span[1] \div 4) + 2 * h <= (span[2] - 1) \div 4
  <2>1. SpanFits(span[1], span[2], size, pl)
    BY <1>3 DEF Loaded
  <2>2. QED
    BY <1>1, <1>3, <2>1, LayerIsLong
<1>8. ForRange(span[1] \div 4, (span[2] - 1) \div 4, pl) # NoWindow
  BY <1>7 DEF SpanFits
<1>9. c \in Nat /\ c <= h - 1
  BY <1>3
<1>10. Want(f, at, t, 0, c) = Plain(Bits(byte, 32))
  <2>1. Shape(f, t[2])[1] \in Nat
    BY <1>3, <1>5
  <2>2. QED
    BY <1>5, <1>6, <1>9, <2>1, WantWord
<1> HIDE DEF h, a, size, span, t
<1>11. weight \in Nat /\ a = 4 * weight /\ 4 * (weight + h) <= size /\ size \in Nat
  <2>1. size \in Nat
    BY <1>1 DEF IsPlan
  <2>2. QED
    BY <1>3, <1>6, <2>1
<1> HIDE DEF weight
<1>12. win = ForRange(weight, weight + h - 1, pl)
  <2>1. AtLeast(h, 1) = h
    BY <1>3 DEF AtLeast
  <2>2. AtLeast(weight + (h - 1), 0) = weight + h - 1
    BY <1>3, <1>11 DEF AtLeast
  <2>3. win = ForRange(weight, AtLeast(weight + (AtLeast(h, 1) - 1), 0), pl)
    BY DEF RmsNormWindow
  <2>4. QED
    BY <2>1, <2>2, <2>3
<1>13. win # NoWindow
  BY <1>1, <1>3, <1>7, <1>8, <1>11, <1>12, HalfWindow
<1>14. Sees(blob, sh, weight, weight + h - 1) /\ sh \in Nat
  <2> DEFINE end == weight + h - 1
  <2>1. end \in Nat /\ 4 * end < size
    BY <1>3, <1>11
  <2>2. win = ForRange(weight, end, pl)
    BY <1>12
  <2> HIDE DEF end, win
  <2>3. Sees(Binding(ch, ForRange(weight, end, pl), pl), WindowBase(ForRange(weight, end, pl), pl), weight, end)
        /\ WindowBase(ForRange(weight, end, pl), pl) \in Nat
    BY <1>1, <1>11, <1>13, <2>1, <2>2, SeesWindow
  <2>4. QED
    BY <2>2, <2>3 DEF end
<1> HIDE DEF win, blob, sh
<1>15. /\ byte \in Nat /\ byte % 4 = 0 /\ word \in Int /\ byte = 4 * (word + sh)
       /\ weight <= byte \div 4 /\ byte \div 4 <= weight + h - 1
  BY <1>3, <1>9, <1>11, <1>14
<1> HIDE DEF byte, word
<1>16. ExtractBits(ReadBlob(blob, word), 0, 32) = Bits(byte, 32)
  <2>1. WordAt(byte, word, sh)
    BY <1>15 DEF WordAt
  <2> DEFINE end == weight + h - 1
  <2>2. Sees(blob, sh, weight, end) /\ byte \div 4 <= end
    BY <1>14, <1>15
  <2> HIDE DEF end
  <2>3. QED
    BY <1>15, <2>1, <2>2, WordIs
<1>17. QED
  BY <1>10, <1>13, <1>16, Zenon DEF h, t, a, weight, win, blob, word, sh

-----------------------------------------------------------------------------
(* The embedding.                                                          *)

\* The window of n bytes from a byte on.
RunWindow(byte, n, pl) == ForRange(byte \div 4, (byte \div 4) + ((n - 1) \div 4), pl)

\* A run of bytes inside a span that fits is in a window of its own.
LEMMA InsideFits ==
  ASSUME NEW pl, NEW size, IsPlan(pl, size), NEW first \in Nat, NEW end \in Nat,
         SpanFits(first, end, size, pl),
         NEW byte \in Nat, NEW n \in Nat \ {0}, first <= byte, byte + n <= end
  PROVE  RunWindow(byte, n, pl) # NoWindow
<1> DEFINE p == first \div 4
           q == (end - 1) \div 4
           a == byte \div 4
           b == a + ((n - 1) \div 4)
<1>1. first < end /\ ForRange(p, q, pl) # NoWindow
  BY DEF SpanFits
<1>2. p \in Nat /\ q \in Nat /\ a \in Nat /\ b \in Nat /\ p <= a /\ a <= b
  BY <1>1
<1>3. b <= q
  <2>1. b <= (byte + n - 1) \div 4
    BY <1>2
  <2>2. (byte + n - 1) \div 4 <= q
    BY <1>2
  <2>3. QED
    BY <1>2, <2>1, <2>2
<1> HIDE DEF p, q, a, b
<1>4. ForRange(a, b, pl) # NoWindow
  BY <1>1, <1>2, <1>3, SubWindow
<1>5. QED
  BY <1>4 DEF a, b, RunWindow

\* The bytes a dequantisation of a whole row asks for are those of the row.
LEMMA RowWindowIs ==
  ASSUME NEW f \in Files, Descriptor(f) = OK, NEW t \in Tensors(f), NEW word, NEW pl
  PROVE  DequantWindow(word, Shape(f, t[2])[1], Format(f, t[2]), pl)
           = ForRange(word, word + ((RowBytes(f, t[2]) - 1) \div 4), pl)
<1> DEFINE fmt == Format(f, t[2])
           cols == Shape(f, t[2])[1]
           e == BlockElems(fmt)
           r == RowBytes(f, t[2])
           k == cols \div e
<1>1. fmt \in Formats /\ cols \in Nat \ {0} /\ cols % e = 0 /\ r \in Nat \ {0}
  BY KnownIs DEF Known
<1>2. e \in Nat \ {0}
  BY <1>1, FormatSizes
<1>3. r = k * BlockBytes(fmt)
  BY DEF RowBytes
<1> HIDE DEF fmt, cols, e, r
<1>4. k \in Nat /\ cols = e * k + (cols % e)
  BY <1>1, <1>2, QuotRem
<1> HIDE DEF k
<1>5. cols = e * k
  <2>1. e * k \in Nat
    BY <1>2, <1>4, TimesIsNat
  <2>2. QED
    BY <1>1, <1>4, <2>1
<1>6. (cols + e - 1) \div e = k
  <2> DEFINE m == cols + e - 1
             r0 == e - 1
  <2>1. m = e * k + r0 /\ r0 \in 0 .. e - 1
    <3>1. e * k \in Nat
      BY <1>2, <1>4, TimesIsNat
    <3> DEFINE x == e * k
    <3>2. x \in Nat /\ cols = x
      BY <1>5, <3>1
    <3> HIDE DEF x
    <3>3. m = x + r0 /\ r0 \in 0 .. e - 1
      BY <1>2, <3>2
    <3>4. QED
      BY <3>3 DEF x
  <2> HIDE DEF m, r0
  <2>2. m \div e = k
    BY <1>2, <1>4, <2>1, DivUnique
  <2>3. QED
    BY <2>2 DEF m
<1>7. DivCeil(cols, e) * BlockBytes(fmt) = r
  BY <1>3, <1>6 DEF DivCeil
<1>8. AtLeast(r, 1) = r
  BY <1>1 DEF AtLeast
<1>9. DequantWindow(word, cols, fmt, pl) = ForRange(word, word + ((AtLeast(DivCeil(cols, e) * BlockBytes(fmt), 1) - 1) \div 4), pl)
  BY DEF DequantWindow, e
<1>10. QED
  BY <1>7, <1>8, <1>9 DEF cols, fmt, r

\* The embedding of a token has a window, and is right when its row begins a word.
LEMMA EmbeddingIs ==
  ASSUME NEW f, NEW at, NEW pl, NEW ch, Loaded(f, at, pl, ch), NEW index \in 0 .. f.vocab - 1
  PROVE  LET byte == at[Embedding] + index * RowBytes(f, "token_embd")
             win == DequantWindow(byte \div 4, f.hidden, Format(f, "token_embd"), pl)
             base == (byte \div 4) - WindowBase(win, pl)
         IN /\ win # NoWindow
            /\ byte % 4 = 0 => \A c \in 0 .. f.hidden - 1 :
                 DequantAnyElement(Binding(ch, win, pl), base, FormulaSlot(Format(f, "token_embd")), 0, c)
                   = Want(f, at, Embedding, index, c)
<1> DEFINE t == Embedding
           h == f.hidden
           fmt == Format(f, "token_embd")
           elems == BlockElems(fmt)
           bytes == BlockBytes(fmt)
           r == RowBytes(f, "token_embd")
           a == at[t]
           size == FileSize(f, at)
           byte == a + index * r
           first == byte \div 4
           last == first + ((r - 1) \div 4)
           win == DequantWindow(first, h, fmt, pl)
           sh == WindowBase(win, pl)
           base == first - sh
           blob == Binding(ch, win, pl)
           end == a + Bytes(f, "token_embd")
<1>1. /\ f \in Files /\ Descriptor(f) = OK /\ Placed(f, at) /\ size % 4 = 0
      /\ IsPlan(pl, size) /\ Resident(ch, pl, size)
  BY DEF Loaded
<1>2. Numbers(f) /\ Accepted(f) /\ f.layers \in Nat
  <2>1. Numbers(f) /\ f.layers \in Nat
    BY <1>1, FilesOK DEF Numbers
  <2>2. QED
    BY <1>1, <2>1, DescriptorIs
<1>3. t[2] = "token_embd" /\ HasMatrix(f, Global, "token_embd", h, f.vocab) /\ t = <<Global, "token_embd">>
  BY <1>2, GlobalsHaveAll DEF GlobalsHave, Embedding
<1>4. t \in Tensors(f) /\ Shape(f, t[2]) = <<h, f.vocab>>
  BY <1>3 DEF HasMatrix
<1>5. Shape(f, t[2])[1] = h /\ Rows(f, t[2]) = f.vocab
  <2>1. Len(<<h, f.vocab>>) = 2 /\ <<h, f.vocab>>[1] = h /\ <<h, f.vocab>>[2] = f.vocab
    OBVIOUS
  <2>2. QED
    BY <1>4, <2>1 DEF Rows
<1>6. /\ fmt \in Formats /\ h \in Nat \ {0} /\ h % elems = 0 /\ r \in Nat \ {0}
      /\ Bytes(f, t[2]) = f.vocab * r /\ end \in Nat
      /\ a \in Nat /\ end <= size
  <2>1. Known(f, t)
    BY <1>1, <1>4, KnownIs
  <2>2. a \in Nat /\ a + Bytes(f, t[2]) <= size
    BY <1>1, <1>4 DEF Placed
  <2>3. QED
    BY <1>3, <1>5, <2>1, <2>2 DEF Known
<1>7. elems \in Nat \ {0} /\ bytes \in Nat \ {0}
  BY <1>6, FormatSizes
<1>8. SpanFits(a, end, size, pl)
  <2>1. DOMAIN at = Tensors(f)
    BY <1>1 DEF Placed
  <2>2. t \in {Embedding, Output} \cap DOMAIN at
    BY <1>4, <2>1
  <2>3. SpanFits(at[t], at[t] + Bytes(f, t[2]), size, pl)
    BY <2>2 DEF Loaded
  <2>4. QED
    BY <1>3, <2>3
<1>9. byte \in Nat /\ a <= byte /\ byte + r <= end
  <2>1. index \in Nat /\ index + 1 <= f.vocab /\ f.vocab \in Nat
    BY <1>2 DEF Numbers
  <2> DEFINE v == f.vocab
             x == index * r
             y == v * r
  <2>a. v \in Nat /\ index + 1 <= v
    BY <2>1
  <2>b. Bytes(f, t[2]) = y
    BY <1>6
  <2> HIDE DEF r, v
  <2>2. x \in Nat /\ x + r <= y /\ y \in Nat
    <3>1. index * r \in Nat /\ v * r \in Nat
      BY <1>6, <2>1, <2>a, TimesIsNat
    <3>2. r * (index + 1) <= r * v
      BY <1>6, <2>1, <2>a, ProductGrows
    <3>3. r * (index + 1) = index * r + r /\ r * v = v * r
      BY <1>6, <2>1, <2>a
    <3>4. QED
      BY <3>1, <3>2, <3>3
  <2>3. end = a + y
    BY <1>3, <2>b
  <2> HIDE DEF x, y, a, end
  <2>4. a + x \in Nat /\ a <= a + x /\ a + x + r <= end
    BY <1>6, <2>2, <2>3
  <2>5. QED
    BY <2>4 DEF x
<1>10. win = ForRange(first, last, pl)
  <2>1. DequantWindow(first, Shape(f, t[2])[1], Format(f, t[2]), pl)
          = ForRange(first, first + ((RowBytes(f, t[2]) - 1) \div 4), pl)
    <3> HIDE DEF first, t
    <3>1. QED
      BY <1>1, <1>4, RowWindowIs
  <2>2. QED
    BY <1>3, <1>5, <2>1
<1> HIDE DEF fmt, elems, bytes, r, a, size, byte, end, h
<1>11. ForRange(first, last, pl) # NoWindow
  <2>1. RunWindow(byte, r, pl) # NoWindow
    BY <1>1, <1>6, <1>8, <1>9, InsideFits
  <2>2. QED
    BY <2>1 DEF RunWindow
<1>12. first \in Nat /\ last \in Nat /\ 4 * last < size
  <2>1. size \in Nat
    BY <1>1 DEF IsPlan
  <2>2. QED
    BY <1>6, <1>9, <2>1
<1> DEFINE S(w) == Sees(Binding(ch, w, pl), WindowBase(w, pl), first, last) /\ WindowBase(w, pl) \in Nat
<1>13. Sees(blob, sh, first, last) /\ sh \in Nat
  <2> HIDE DEF first, last, win
  <2>1. S(ForRange(first, last, pl))
    BY <1>1, <1>11, <1>12, SeesWindow
  <2>2. S(win)
    BY <1>10, <2>1
  <2>3. QED
    BY <2>2
<1>14. ASSUME byte % 4 = 0, NEW c \in 0 .. h - 1
       PROVE  DequantAnyElement(blob, base, FormulaSlot(fmt), 0, c) = Want(f, at, t, index, c)
  <2> DEFINE start == BlockStart(byte, elems, bytes, h, 0, c)
             there == BlockStart(a, elems, bytes, h, index, c)
  <2>1. there = start
    <3>1. r = (h \div elems) * bytes
      BY <1>3, <1>5 DEF r, RowBytes, elems, bytes, fmt, h
    <3> DEFINE k == (h \div elems) * bytes
               j == (c \div elems) * bytes
    <3>2. there = a + index * k + j /\ start = byte + 0 * k + j
      BY DEF BlockStart
    <3>3. byte = a + index * k
      BY <3>1 DEF byte
    <3>4. 0 * k = 0
      <4>1. k \in Nat
        BY <1>6, <3>1
      <4> HIDE DEF k
      <4>2. QED
        BY <4>1
    <3> HIDE DEF there, start, k
    <3>5. there = byte + j
      BY <3>2, <3>3
    <3>6. c \div elems \in Nat
      <4>1. c \in Nat
        OBVIOUS
      <4>2. QED
        BY <1>7, <4>1, QuotRem
    <3>7. j \in Nat
      BY <1>7, <3>6, TimesIsNat
    <3> HIDE DEF j
    <3>8. QED
      BY <1>9, <3>2, <3>4, <3>5, <3>7
  <2>2. Want(f, at, t, index, c) = Dequant(fmt, c % elems, FileBlock(there, bytes))
    BY <1>3, <1>5 DEF Want, fmt, elems, bytes, a
  <2>3. DequantAnyElement(blob, base, FormulaSlot(fmt), 0, c)
          = MatrixElement(blob, base, FormulaSlot(fmt), 0, h, 0, c)
    <3>1. base \in Int /\ h \in Nat /\ c \in Nat
      BY <1>6, <1>12, <1>13, <1>14
    <3> HIDE DEF base, blob
    <3>2. QED
      BY <1>6, <3>1, DequantAnyIs
  <2>4. start \in Nat /\ byte <= start /\ start + bytes <= byte + r
    <3>1. r = (h \div elems) * bytes
      BY <1>3, <1>5 DEF r, RowBytes, elems, bytes, fmt, h
    <3>2. 0 \in Nat /\ (0 + 1) * ((h \div elems) * bytes) = r
      <4> DEFINE k == (h \div elems) * bytes
      <4>1. k \in Nat /\ k = r
        BY <1>6, <3>1
      <4> HIDE DEF k
      <4>2. (0 + 1) * k = r
        BY <4>1
      <4>3. QED
        BY <4>2 DEF k
    <3>3. h \in Nat
      BY <1>6
    <3>4. start + bytes <= byte + (0 + 1) * ((h \div elems) * bytes) /\ start \in Nat /\ byte <= start
      BY <1>6, <1>7, <1>9, <1>14, <3>2, <3>3, BlockStartIs
    <3> HIDE DEF start
    <3>5. QED
      BY <3>2, <3>4
  <2>5. StartAt(start, byte, fmt, h, 0, c)
    BY DEF StartAt, elems, bytes
  <2> HIDE DEF start, there, blob, win
  <2>6. first <= start \div 4 /\ (start + bytes - 1) \div 4 <= last
    <3>1. first <= start \div 4
      BY <1>9, <2>4
    <3>2. start + bytes - 1 <= byte + (r - 1)
      BY <1>6, <1>7, <1>9, <2>4
    <3>3. (byte + (r - 1)) \div 4 = first + ((r - 1) \div 4)
      BY <1>6, <1>9, <1>14
    <3>4. (start + bytes - 1) \div 4 <= (byte + (r - 1)) \div 4
      BY <1>6, <1>7, <1>9, <2>4, <3>2
    <3>5. QED
      BY <3>1, <3>3, <3>4
  <2>7. TensorAt(byte, base, sh, 0) /\ base \in Int
    <3>1. byte = 4 * first
      BY <1>9, <1>14
    <3>2. base + sh = first /\ base \in Int
      BY <1>12, <1>13
    <3> HIDE DEF base, first
    <3>3. byte = 4 * (base + sh) + 2 * 0
      BY <1>12, <3>1, <3>2
    <3>4. QED
      BY <3>2, <3>3 DEF TensorAt
  <2>8. h \in Nat /\ 0 \in Nat /\ h % BlockElems(fmt) = 0 /\ (start + BlockBytes(fmt) - 1) \div 4 <= last
    BY <1>6, <2>6 DEF elems, bytes
  <2>9. MatrixElement(blob, base, FormulaSlot(fmt), 0, h, 0, c)
          = Dequant(fmt, c % BlockElems(fmt), FileBlock(start, BlockBytes(fmt)))
    <3> HIDE DEF base, sh, first, last
    <3>1. QED
      BY <1>6, <1>9, <1>13, <1>14, <2>4, <2>5, <2>6, <2>7, <2>8, MatrixElementIs
  <2>10. QED
    BY <2>1, <2>2, <2>3, <2>9 DEF elems, bytes
<1>15. win # NoWindow
  BY <1>10, <1>11
<1>16. QED
  BY <1>14, <1>15 DEF fmt, r, a, byte, h

-----------------------------------------------------------------------------
(* The expanded head.                                                      *)

\* The head is as wide as the model, has a row for every token, and fits a window.
HeadIs(f, at, pl) ==
  LET t == HeadTensor(f) IN
  /\ t \in Tensors(f) /\ Known(f, t) /\ Format(f, t[2]) \in Formats
  /\ f.hidden \in Nat \ {0} /\ f.vocab \in Nat
  /\ Shape(f, t[2]) = <<f.hidden, f.vocab>> /\ Shape(f, t[2])[1] = f.hidden
  /\ Rows(f, t[2]) = f.vocab
  /\ f.hidden % BlockElems(Format(f, t[2])) = 0
  /\ at[t] \in Nat /\ at[t] % 4 = 0 /\ at[t] + Bytes(f, t[2]) <= FileSize(f, at)
  /\ FileSize(f, at) \in Nat
  /\ SpanFits(at[t], at[t] + Bytes(f, t[2]), FileSize(f, at), pl)

\* It is so in a loaded model.
LEMMA HeadIsThere ==
  ASSUME NEW f, NEW at, NEW pl, NEW ch, Loaded(f, at, pl, ch)
  PROVE  HeadIs(f, at, pl)
<1> DEFINE t == HeadTensor(f)
<1>1. f \in Files /\ Descriptor(f) = OK /\ Placed(f, at)
  BY DEF Loaded
<1>2. Numbers(f) /\ Accepted(f) /\ f.layers \in Nat
  <2>1. Numbers(f) /\ f.layers \in Nat
    BY <1>1, FilesOK DEF Numbers
  <2>2. QED
    BY <1>1, <2>1, DescriptorIs
<1>3. t \in Tensors(f) /\ Shape(f, t[2]) = <<f.hidden, f.vocab>> /\ Format(f, t[2]) \in Formats
  BY <1>2, GlobalsHaveAll DEF GlobalsHave
<1>4. Known(f, t)
  BY <1>1, <1>3, KnownIs
<1>5. Shape(f, t[2])[1] = f.hidden /\ Rows(f, t[2]) = f.vocab
  <2>1. Len(<<f.hidden, f.vocab>>) = 2 /\ <<f.hidden, f.vocab>>[1] = f.hidden /\ <<f.hidden, f.vocab>>[2] = f.vocab
    OBVIOUS
  <2>2. QED
    BY <1>3, <2>1 DEF Rows
<1>6. f.hidden \in Nat \ {0} /\ f.vocab \in Nat /\ f.hidden % BlockElems(Format(f, t[2])) = 0
  <2>1. f.vocab \in Nat
    BY <1>2 DEF Numbers
  <2>2. QED
    BY <1>4, <1>5, <2>1 DEF Known
<1>7. DOMAIN at = Tensors(f) /\ at[t] \in Nat /\ at[t] % 4 = 0 /\ at[t] + Bytes(f, t[2]) <= FileSize(f, at)
      /\ FileSize(f, at) \in Nat
  BY <1>1, <1>3 DEF Placed
<1>8. SpanFits(at[t], at[t] + Bytes(f, t[2]), FileSize(f, at), pl)
  <2>1. t \in {Embedding, Output}
    BY DEF HeadTensor
  <2>2. t \in {Embedding, Output} \cap DOMAIN at
    BY <1>3, <1>7, <2>1
  <2>3. QED
    BY <2>2 DEF Loaded
<1>9. QED
  BY <1>3, <1>4, <1>5, <1>6, <1>7, <1>8 DEF HeadIs

\* A byte of the file, extracted from its word.
LEMMA ByteIs ==
  ASSUME NEW byte \in Nat
  PROVE  ExtractBits(byte - (byte % 4), 8 * (byte % 4), 8) = Bits(byte, 8)
<1> DEFINE w == byte \div 4
           r == byte % 4
<1>1. w \in Nat /\ r \in 0 .. 3 /\ byte = 4 * w + r
  OBVIOUS
<1> HIDE DEF w, r
<1>2. ExtractBits(4 * w, 8 * r, 8) = Bits(4 * w + r, 8)
  <2>1. 8 \in Nat /\ 8 * r + 8 <= 32
    BY <1>1
  <2>2. QED
    BY <1>1, <2>1, ExtractIs
<1>3. byte - r = 4 * w
  BY <1>1
<1>4. ExtractBits(byte - r, 8 * r, 8) = Bits(byte, 8)
  BY <1>1, <1>2, <1>3
<1>5. QED
  BY <1>4 DEF r

\* The block of element n of a tensor of whole blocks, and its place in it.
BlockOf(off, elems, bytes, n) == off + (n \div elems) * bytes
IsNumber(n, index, cols, col) == n = index * cols + col

\* The block of an element counted through the whole head is that of its row.
LEMMA BlockOfRow ==
  ASSUME NEW off \in Nat, NEW elems \in Nat \ {0}, NEW bytes \in Nat \ {0}, NEW cols \in Nat,
         cols % elems = 0, NEW index \in Nat, NEW col \in 0 .. cols - 1,
         NEW n \in Nat, IsNumber(n, index, cols, col)
  PROVE  /\ n % elems = col % elems
         /\ BlockOf(off, elems, bytes, n) = BlockStart(off, elems, bytes, cols, index, col)
<1> DEFINE k == cols \div elems
           j == col \div elems
           r == col % elems
           q == index * k
<1>1. k \in Nat /\ cols = elems * k
  <2>1. k \in Nat /\ cols = elems * k + (cols % elems)
    BY QuotRem
  <2> HIDE DEF k
  <2>2. elems * k \in Nat
    BY <2>1, TimesIsNat
  <2>3. QED
    BY <2>1, <2>2
<1>2. j \in Nat /\ r \in 0 .. elems - 1 /\ col = elems * j + r
  <2>1. col \in Nat
    OBVIOUS
  <2>2. QED
    BY <2>1, QuotRem
<1> HIDE DEF k, j, r
<1>3. q \in Nat /\ index * cols = elems * q
  <2>1. q \in Nat
    BY <1>1, TimesIsNat
  <2>2. index * (elems * k) = elems * (index * k)
    BY <1>1
  <2>3. QED
    BY <1>1, <2>1, <2>2
<1> HIDE DEF q
<1>4. n = elems * (q + j) + r /\ q + j \in Nat
  <2>1. elems * (q + j) = elems * q + elems * j /\ elems * q \in Nat /\ elems * j \in Nat
    BY <1>2, <1>3
  <2>2. n = index * cols + col
    BY DEF IsNumber
  <2>3. QED
    BY <1>2, <1>3, <2>1, <2>2
<1>5. n \div elems = q + j /\ n % elems = r
  <2> DEFINE m == q + j
  <2>1. m \in Nat /\ n = elems * m + r
    BY <1>4
  <2> HIDE DEF m
  <2> DEFINE x == elems * m + r
  <2>2. x = elems * m + r /\ n = x
    BY <2>1
  <2> HIDE DEF x
  <2>a. x \div elems = m /\ x % elems = r
    <3>1. elems \in Nat \ {0} /\ m \in Nat /\ r \in 0 .. elems - 1 /\ x = elems * m + r
      BY <1>2, <2>1, <2>2
    <3>2. QED
      BY ONLY <3>1, DivUnique
  <2>b. n \div elems = m /\ n % elems = r
    BY <2>2, <2>a
  <2>3. QED
    BY <2>b DEF m
<1>6. (q + j) * bytes = q * bytes + j * bytes /\ q * bytes = index * (k * bytes)
      /\ q * bytes \in Nat /\ j * bytes \in Nat
  <2>1. (q + j) * bytes = q * bytes + j * bytes /\ q * bytes \in Nat /\ j * bytes \in Nat
    BY <1>2, <1>3
  <2>2. (index * k) * bytes = index * (k * bytes)
    BY <1>1
  <2>3. QED
    BY <2>1, <2>2 DEF q
<1>7. BlockOf(off, elems, bytes, n) = off + q * bytes + j * bytes
  <2>1. BlockOf(off, elems, bytes, n) = off + (q + j) * bytes
    BY <1>5 DEF BlockOf
  <2>2. QED
    BY <1>6, <2>1
<1>8. BlockStart(off, elems, bytes, cols, index, col) = off + q * bytes + j * bytes
  BY <1>6 DEF BlockStart, k, j
<1>9. QED
  BY <1>5, <1>7, <1>8 DEF r

\* What load_output_head_f32 expands to the position of an element.
ExpandedAt(f, at, n) ==
  LET t == HeadTensor(f)
      fmt == Format(f, t[2])
      start == at[t] + (n \div BlockElems(fmt)) * BlockBytes(fmt)
      block == [ i \in 0 .. BlockBytes(fmt) - 1 |->
                   ExtractBits(start + i - ((start + i) % 4), 8 * ((start + i) % 4), 8) ]
  IN { pair[2] : pair \in { p \in CpuBlock(fmt, block) : p[1] = n % BlockElems(fmt) } }

\* It is the element, once.
LEMMA HeadF32Is ==
  ASSUME NEW f, NEW at, NEW pl, HeadIs(f, at, pl), Format(f, HeadTensor(f)[2]) \in CpuFormats,
         NEW index \in Nat, NEW c \in 0 .. f.hidden - 1
  PROVE  ExpandedAt(f, at, index * f.hidden + c) = {Want(f, at, HeadTensor(f), index, c)}
<1> DEFINE t == HeadTensor(f)
           fmt == Format(f, t[2])
           elems == BlockElems(fmt)
           bytes == BlockBytes(fmt)
           h == f.hidden
           a == at[t]
           n == index * h + c
           start == BlockStart(a, elems, bytes, h, index, c)
           first == a + (n \div elems) * bytes
           Block(s) == [ i \in 0 .. bytes - 1 |-> ExtractBits(s + i - ((s + i) % 4), 8 * ((s + i) % 4), 8) ]
           pairs(b, e) == { pair[2] : pair \in { p \in CpuBlock(fmt, b) : p[1] = e } }
<1>1. /\ fmt \in Formats /\ fmt \in CpuFormats /\ h \in Nat \ {0} /\ h % elems = 0 /\ a \in Nat
      /\ Shape(f, t[2])[1] = h
  BY DEF HeadIs
<1>2. elems \in Nat \ {0} /\ bytes \in Nat \ {0}
  BY <1>1, FormatSizes
<1>3. ExpandedAt(f, at, n) = pairs(Block(first), n % elems)
  BY DEF ExpandedAt
<1>4. Want(f, at, t, index, c) = Dequant(fmt, c % elems, FileBlock(start, bytes))
  BY <1>1 DEF Want
<1> HIDE DEF fmt, elems, bytes, a, h, t
<1>5. c \in 0 .. h - 1 /\ h \in Nat
  BY <1>1 DEF h
<1>6. n % elems = c % elems /\ first = start
  <2>1. n \in Nat
    BY <1>1, <1>5, TimesIsNat
  <2>2. IsNumber(n, index, h, c)
    BY DEF IsNumber
  <2>3. first = BlockOf(a, elems, bytes, n)
    BY DEF BlockOf
  <2> HIDE DEF n, first
  <2>4. QED
    BY <1>1, <1>2, <1>5, <2>1, <2>2, <2>3, BlockOfRow
<1>7. start \in Nat
  BY <1>1, <1>2, <1>5, BlockStartIs
<1> HIDE DEF start, first, n
<1>8. Block(start) = FileBlock(start, bytes)
  <2>1. ASSUME NEW i \in 0 .. bytes - 1
        PROVE  ExtractBits(start + i - ((start + i) % 4), 8 * ((start + i) % 4), 8) = Bits(start + i, 8)
    <3> DEFINE m == start + i
    <3>1. m \in Nat
      BY <1>2, <1>7
    <3> HIDE DEF m
    <3>2. ExtractBits(m - (m % 4), 8 * (m % 4), 8) = Bits(m, 8)
      BY <3>1, ByteIs
    <3> DEFINE k == m % 4
    <3>3. k \in 0 .. 3
      BY <3>1
    <3> HIDE DEF k
    <3>4. m - k = start + i - k
      BY <1>2, <1>7, <3>3 DEF m
    <3>5. ExtractBits(m - k, 8 * k, 8) = Bits(m, 8)
      BY <3>2 DEF k
    <3>6. ExtractBits(start + i - k, 8 * k, 8) = Bits(start + i, 8)
      BY <3>4, <3>5 DEF m
    <3>7. QED
      BY <3>6 DEF k, m
  <2>2. QED
    BY <2>1 DEF FileBlock
<1> HIDE DEF Block
<1>9. c % elems \in 0 .. elems - 1
  <2>1. c \in Nat
    BY <1>5
  <2>2. QED
    BY <1>2, <2>1, QuotRem
<1>10. pairs(FileBlock(start, bytes), c % elems) = {Dequant(fmt, c % elems, FileBlock(start, bytes))}
  <2>1. c % elems \in 0 .. BlockElems(fmt) - 1
    BY <1>9 DEF elems
  <2>2. QED
    BY <1>1, <1>7, <2>1, CpuAgrees DEF bytes
<1>11. pairs(Block(first), n % elems) = pairs(FileBlock(start, bytes), c % elems)
  BY <1>6, <1>8
<1> HIDE DEF pairs
<1>12. QED
  BY <1>3, <1>4, <1>10, <1>11 DEF n, h, t

-----------------------------------------------------------------------------
(* The head in the blob.                                                   *)

\* A row of the head, from its first byte to the last.
RowStart(f, at, index) == at[HeadTensor(f)] + index * RowBytes(f, HeadTensor(f)[2])
RowEnd(f, at, index) == at[HeadTensor(f)] + (index + 1) * RowBytes(f, HeadTensor(f)[2]) - 1

\* The rows of the head follow each other, up to the end of the tensor.
LEMMA HeadRowsAre ==
  ASSUME NEW f, NEW at, NEW pl, HeadIs(f, at, pl), NEW k \in Nat
  PROVE  /\ RowStart(f, at, k) \in Nat /\ RowEnd(f, at, k) \in Nat
         /\ RowStart(f, at, k) <= RowEnd(f, at, k)
         /\ RowEnd(f, at, k) + 1 = RowStart(f, at, k + 1)
         /\ \A n \in Nat : k <= n => RowStart(f, at, k) <= RowStart(f, at, n)
                                     /\ RowEnd(f, at, k) <= RowEnd(f, at, n)
         /\ k < f.vocab => RowEnd(f, at, k) < FileSize(f, at)
         /\ RowStart(f, at, f.vocab) = at[HeadTensor(f)] + Bytes(f, HeadTensor(f)[2])
<1> DEFINE t == HeadTensor(f)
           a == at[t]
           r == RowBytes(f, t[2])
           v == f.vocab
           size == FileSize(f, at)
<1>1. /\ a \in Nat /\ r \in Nat \ {0} /\ v \in Nat /\ Bytes(f, t[2]) = v * r
      /\ a + Bytes(f, t[2]) <= size
  BY DEF HeadIs, Known
<1>2. \A n \in Nat : RowStart(f, at, n) = a + n * r /\ RowEnd(f, at, n) = a + (n + 1) * r - 1
  BY DEF RowStart, RowEnd
<1> HIDE DEF a, r, v, size, t
<1>3. \A n \in Nat : n * r \in Nat /\ (n + 1) * r = n * r + r
  BY <1>1, TimesIsNat
<1>4. \A n \in Nat : k <= n => k * r <= n * r
  <2>1. SUFFICES ASSUME NEW n \in Nat, k <= n PROVE k * r <= n * r
    OBVIOUS
  <2>2. r * k <= r * n
    BY <1>1, <2>1, ProductGrows
  <2>3. r * k = k * r /\ r * n = n * r
    BY <1>1
  <2>4. QED
    BY <2>2, <2>3
<1>5. \A n \in Nat : RowStart(f, at, n) = a + n * r /\ RowEnd(f, at, n) = a + n * r + r - 1
  BY <1>1, <1>2, <1>3
<1> DEFINE x == k * r
<1>6. x \in Nat /\ RowStart(f, at, k) = a + x /\ RowEnd(f, at, k) = a + x + r - 1
  BY <1>3, <1>5
<1>7. RowStart(f, at, k + 1) = a + x + r
  <2>1. k + 1 \in Nat /\ (k + 1) * r = x + r
    BY <1>3
  <2>2. RowStart(f, at, k + 1) = a + (k + 1) * r
    BY <1>5, <2>1
  <2> HIDE DEF x
  <2>3. QED
    BY <1>1, <1>6, <2>1, <2>2
<1>8. \A n \in Nat : k <= n => RowStart(f, at, k) <= RowStart(f, at, n)
                                     /\ RowEnd(f, at, k) <= RowEnd(f, at, n)
  <2>1. SUFFICES ASSUME NEW n \in Nat, k <= n
                 PROVE  RowStart(f, at, k) <= RowStart(f, at, n) /\ RowEnd(f, at, k) <= RowEnd(f, at, n)
    OBVIOUS
  <2> DEFINE y == n * r
  <2>2. x <= y /\ y \in Nat /\ RowStart(f, at, n) = a + y /\ RowEnd(f, at, n) = a + y + r - 1
    BY <1>3, <1>4, <1>5, <2>1
  <2> HIDE DEF x, y
  <2>3. QED
    BY <1>1, <1>6, <2>2
<1>9. k < v => RowEnd(f, at, k) < size
  <2>1. SUFFICES ASSUME k < v PROVE RowEnd(f, at, k) < size
    OBVIOUS
  <2> DEFINE y == v * r
  <2>2. (k + 1) * r <= y
    <3>1. k + 1 \in Nat /\ k + 1 <= v
      BY <1>1, <2>1
    <3>2. r * (k + 1) <= r * v
      BY <1>1, <3>1, ProductGrows
    <3>3. r * (k + 1) = (k + 1) * r /\ r * v = v * r
      BY <1>1
    <3>4. QED
      BY <3>2, <3>3
  <2>3. (k + 1) * r = x + r /\ y \in Nat /\ a + y <= size
    BY <1>1, <1>3
  <2> HIDE DEF x, y
  <2>4. size \in Int
    BY DEF HeadIs, size
  <2>5. QED
    BY <1>1, <1>6, <2>2, <2>3, <2>4
<1>10. RowStart(f, at, v) = a + Bytes(f, t[2])
  BY <1>1, <1>5
<1>11. RowStart(f, at, k) \in Nat /\ RowEnd(f, at, k) \in Nat
       /\ RowStart(f, at, k) <= RowEnd(f, at, k) /\ RowEnd(f, at, k) + 1 = RowStart(f, at, k + 1)
  <2> HIDE DEF x
  <2>1. QED
    BY <1>1, <1>6, <1>7
<1>12. QED
  BY <1>8, <1>9, <1>10, <1>11 DEF t, a, v, size

\* The window of rows of the head, whole rows from their first byte to the last.
HeadRange(f, at, from, n, pl) ==
  LmHeadWindow(at[HeadTensor(f)], RowBytes(f, HeadTensor(f)[2]), from, n, pl)

\* The window of rows of the head, as a window of words.
LEMMA HeadRangeIs ==
  ASSUME NEW f, NEW at, NEW pl, HeadIs(f, at, pl), NEW from \in Nat, NEW n \in Nat \ {0}
  PROVE  HeadRange(f, at, from, n, pl)
           = ForRange(RowStart(f, at, from) \div 4, RowEnd(f, at, from + n - 1) \div 4, pl)
<1> DEFINE t == HeadTensor(f)
           a == at[t]
           r == RowBytes(f, t[2])
<1>1. a \in Nat /\ r \in Nat \ {0}
  BY DEF HeadIs, Known
<1>2. RowStart(f, at, from) = a + from * r
  BY DEF RowStart
<1>3. RowEnd(f, at, from + n - 1) = a + (from + n) * r - 1
  <2>1. (from + n - 1) + 1 = from + n
    OBVIOUS
  <2>2. QED
    BY <2>1 DEF RowEnd
<1>4. HeadRange(f, at, from, n, pl)
        = ForRange((a + from * r) \div 4, (a + (from + n) * r - (IF n = 0 THEN 0 ELSE 1)) \div 4, pl)
  BY DEF HeadRange, LmHeadWindow
<1>5. (IF n = 0 THEN 0 ELSE 1) = 1
  OBVIOUS
<1>6. QED
  BY <1>2, <1>3, <1>4, <1>5

\* Rows of the vocabulary have a window.
LEMMA HeadFits ==
  ASSUME NEW f, NEW at, NEW pl, NEW ch, Loaded(f, at, pl, ch), NEW from \in Nat, NEW n \in Nat \ {0},
         from + n <= f.vocab
  PROVE  HeadRange(f, at, from, n, pl) # NoWindow
<1> DEFINE t == HeadTensor(f)
           a == at[t]
           end == a + Bytes(f, t[2])
           size == FileSize(f, at)
           v == f.vocab
           p == RowStart(f, at, from)
           q == RowEnd(f, at, from + n - 1)
<1>1. HeadIs(f, at, pl)
  BY HeadIsThere
<1>2. IsPlan(pl, size)
  BY DEF Loaded
<1>3. a \in Nat /\ v \in Nat /\ SpanFits(a, end, size, pl)
  BY <1>1 DEF HeadIs
<1>4. from \in Nat /\ from + n - 1 \in Nat /\ 0 <= from /\ from <= from + n - 1 /\ from + n - 1 <= v - 1
      /\ v - 1 \in Nat /\ (v - 1) + 1 = v
  BY <1>3
<1>5. RowStart(f, at, 0) = a
  <2> DEFINE r == RowBytes(f, t[2])
  <2>1. r \in Nat
    BY <1>1 DEF HeadIs, Known
  <2>2. RowStart(f, at, 0) = a + 0 * r
    BY DEF RowStart
  <2> HIDE DEF r, a
  <2>3. 0 * r = 0
    BY <2>1
  <2>4. QED
    BY <1>3, <2>2, <2>3
<1>6. a <= p /\ p \in Nat
  <2>1. RowStart(f, at, 0) <= RowStart(f, at, from) /\ RowStart(f, at, from) \in Nat
    BY <1>1, <1>4, HeadRowsAre
  <2>2. QED
    BY <1>5, <2>1
<1>7. q \in Nat /\ p <= q
  <2>1. p <= RowEnd(f, at, from) /\ RowEnd(f, at, from) \in Nat
    BY <1>1, HeadRowsAre
  <2>2. RowEnd(f, at, from) <= q
    BY <1>1, <1>4, HeadRowsAre
  <2>3. q \in Nat
    BY <1>1, <1>4, HeadRowsAre
  <2> HIDE DEF p, q
  <2>4. QED
    BY <1>6, <2>1, <2>2, <2>3
<1>8. q + 1 <= end
  <2>1. q <= RowEnd(f, at, v - 1) /\ RowEnd(f, at, v - 1) + 1 = RowStart(f, at, (v - 1) + 1)
        /\ RowEnd(f, at, v - 1) \in Nat
    <3> DEFINE last == v - 1
               here == from + n - 1
    <3>1. last \in Nat /\ here \in Nat /\ here <= last
      BY <1>4
    <3> HIDE DEF last, here
    <3>2. RowEnd(f, at, here) <= RowEnd(f, at, last) /\ RowEnd(f, at, last) + 1 = RowStart(f, at, last + 1)
          /\ RowEnd(f, at, last) \in Nat
      BY <1>1, <3>1, HeadRowsAre
    <3>3. QED
      BY <3>2 DEF last, here
  <2>2. RowStart(f, at, v) = end
    BY <1>1, HeadRowsAre
  <2> HIDE DEF q, end
  <2>3. QED
    BY <1>4, <1>7, <2>1, <2>2
<1>9. end \in Nat
  BY <1>1, <1>3 DEF HeadIs, Known
<1> HIDE DEF p, q, a, end, size
<1>10. ForRange(p \div 4, q \div 4, pl) # NoWindow
  <2>1. a < end /\ ForRange(a \div 4, (end - 1) \div 4, pl) # NoWindow
    BY <1>3 DEF SpanFits
  <2> DEFINE x == a \div 4
             y == (end - 1) \div 4
             i == p \div 4
             j == q \div 4
  <2>2. x \in Nat /\ y \in Nat /\ i \in Nat /\ j \in Nat /\ x <= i /\ i <= j /\ j <= y
    BY <1>3, <1>6, <1>7, <1>8, <1>9, <2>1
  <2> HIDE DEF x, y, i, j
  <2>3. ForRange(i, j, pl) # NoWindow
    BY <1>2, <2>1, <2>2, SubWindow DEF x, y
  <2>4. QED
    BY <2>3 DEF i, j
<1>11. HeadRange(f, at, from, n, pl) = ForRange(p \div 4, q \div 4, pl)
  BY <1>1, HeadRangeIs DEF p, q
<1>12. QED
  BY <1>10, <1>11

\* Through any window of rows of the head that holds a row of the vocabulary,
\* past its end or not, the row is right.
LEMMA HeadBlobIs ==
  ASSUME NEW f, NEW at, NEW pl, NEW ch, Loaded(f, at, pl, ch),
         Format(f, HeadTensor(f)[2]) # "Q5_0",
         NEW from \in Nat, NEW n \in Nat \ {0}, HeadRange(f, at, from, n, pl) # NoWindow,
         NEW index \in 0 .. f.vocab - 1, from <= index, index <= from + n - 1,
         NEW c \in 0 .. f.hidden - 1
  PROVE  LET t == HeadTensor(f)
             win == HeadRange(f, at, from, n, pl)
         IN HeadElement(Binding(ch, win, pl), Rebase(at[t] \div 4, win, pl),
                        FormulaSlot(Format(f, t[2])), f.hidden, index, c)
              = Want(f, at, t, index, c)
<1> DEFINE t == HeadTensor(f)
           a == at[t]
           h == f.hidden
           fmt == Format(f, t[2])
           elems == BlockElems(fmt)
           bytes == BlockBytes(fmt)
           size == FileSize(f, at)
           win == HeadRange(f, at, from, n, pl)
           first == RowStart(f, at, from) \div 4
           last == RowEnd(f, at, from + n - 1) \div 4
           hi == RowEnd(f, at, index) \div 4
           sh == WindowBase(win, pl)
           blob == Binding(ch, win, pl)
           weight == a \div 4
           off == Rebase(weight, win, pl)
           start == BlockStart(a, elems, bytes, h, index, c)
<1>1. HeadIs(f, at, pl) /\ index \in Nat /\ index < f.vocab
  <2>1. HeadIs(f, at, pl)
    BY HeadIsThere
  <2>2. f.vocab \in Nat
    BY <2>1 DEF HeadIs
  <2>3. QED
    BY <2>1, <2>2
<1>2. /\ f \in Files /\ Descriptor(f) = OK /\ Placed(f, at) /\ size % 4 = 0 /\ size < AddressSpan
      /\ IsPlan(pl, size) /\ Resident(ch, pl, size)
  BY DEF Loaded
<1>3. /\ t \in Tensors(f) /\ fmt \in Formats /\ fmt # "Q5_0" /\ h \in Nat \ {0} /\ h % elems = 0
      /\ Shape(f, t[2])[1] = h /\ Rows(f, t[2]) = f.vocab /\ a \in Nat /\ a % 4 = 0
  BY <1>1 DEF HeadIs
<1>4. win = ForRange(first, last, pl)
  BY <1>1, HeadRangeIs
<1>5. first \in Nat /\ last \in Nat /\ hi \in Nat /\ hi <= last /\ 4 * hi < size
  <2> DEFINE x == RowStart(f, at, from)
             y == RowEnd(f, at, from + n - 1)
             z == RowEnd(f, at, index)
             top == from + n - 1
  <2>1. x \in Nat
    BY <1>1, HeadRowsAre
  <2>2. top \in Nat
    OBVIOUS
  <2>3. y \in Nat
    <3> HIDE DEF top
    <3>1. RowEnd(f, at, top) \in Nat
      BY <1>1, <2>2, HeadRowsAre
    <3>2. QED
      BY <3>1 DEF top
  <2>4. z \in Nat /\ z < size
    BY <1>1, HeadRowsAre
  <2>5. z <= y
    <3> HIDE DEF top
    <3>1. RowEnd(f, at, index) <= RowEnd(f, at, top)
      <4>1. index <= top
        BY DEF top
      <4>2. QED
        BY <1>1, <2>2, <4>1, HeadRowsAre
    <3>2. QED
      BY <3>1 DEF top
  <2>6. size \in Nat
    BY <1>1 DEF HeadIs
  <2> HIDE DEF x, y, z, size
  <2>7. x \div 4 \in Nat /\ y \div 4 \in Nat /\ z \div 4 \in Nat /\ z \div 4 <= y \div 4 /\ 4 * (z \div 4) < size
    BY <2>1, <2>3, <2>4, <2>5, <2>6
  <2>8. QED
    BY <2>7 DEF x, y, z
<1> DEFINE S(w) == Sees(Binding(ch, w, pl), WindowBase(w, pl), first, hi) /\ WindowBase(w, pl) \in Nat
<1>6. Sees(blob, sh, first, hi) /\ sh \in Nat
  <2> HIDE DEF first, last, hi, win
  <2>1. ForRange(first, last, pl) # NoWindow
    BY <1>4 DEF win
  <2>2. S(ForRange(first, last, pl))
    BY <1>2, <1>5, <2>1, SeesPart
  <2>3. S(win)
    BY <1>4, <2>2
  <2>4. QED
    BY <2>3
<1>7. /\ start \in Nat /\ bytes \in Nat \ {0}
      /\ RowStart(f, at, index) <= start /\ start + bytes <= RowEnd(f, at, index) + 1
  <2>1. index \in 0 .. Rows(f, t[2]) - 1 /\ c \in 0 .. Shape(f, t[2])[1] - 1
    BY <1>3
  <2>2. /\ start \in Nat /\ bytes \in Nat \ {0}
        /\ a + index * RowBytes(f, t[2]) <= start
        /\ start + bytes <= a + (index + 1) * RowBytes(f, t[2])
    BY <1>2, <1>3, <2>1, RowIsInside
  <2> DEFINE x == (index + 1) * RowBytes(f, t[2])
  <2>3. x \in Nat
    <3>1. RowBytes(f, t[2]) \in Nat /\ index + 1 \in Nat
      BY <1>1 DEF HeadIs, Known
    <3>2. QED
      BY <3>1, TimesIsNat
  <2>4. RowStart(f, at, index) = a + index * RowBytes(f, t[2]) /\ RowEnd(f, at, index) = a + x - 1
    BY DEF RowStart, RowEnd
  <2>5. start + bytes <= RowEnd(f, at, index) + 1
    <3>1. start + bytes <= a + x
      BY <2>2
    <3> HIDE DEF x, start, bytes, a
    <3>2. QED
      BY <1>3, <2>2, <2>3, <2>4, <3>1
  <2>6. QED
    BY <2>2, <2>4, <2>5
<1>8. Want(f, at, t, index, c) = Dequant(fmt, c % elems, FileBlock(start, bytes))
  BY <1>3 DEF Want
<1>9. off = (weight - sh) % AddressSpan
  BY DEF Rebase
<1>10. a = 4 * weight /\ weight \in Nat
  BY <1>3
<1>11. first <= start \div 4 /\ (start + bytes - 1) \div 4 <= hi
  <2> DEFINE x == RowStart(f, at, from)
             y == RowStart(f, at, index)
             z == RowEnd(f, at, index)
  <2>1. x \in Nat /\ y \in Nat /\ x <= y /\ z \in Nat
    BY <1>1, HeadRowsAre
  <2> HIDE DEF x, y, z, start, bytes
  <2>2. x \div 4 <= start \div 4 /\ (start + bytes - 1) \div 4 <= z \div 4
    BY <1>7, <2>1 DEF y, z
  <2>3. QED
    BY <2>2 DEF x, z
<1>12. hi < AddressSpan
  <2>1. size \in Nat /\ AddressSpan \in Nat
    BY <1>1, BlobAssumption DEF HeadIs
  <2> HIDE DEF hi, size
  <2>2. QED
    BY <1>2, <1>5, <2>1
<1> HIDE DEF off, weight, start, sh, blob, win, first, last, hi, size, S
<1>13. /\ IsRebased(off, weight, sh) /\ HeadAt(a, weight, 0) /\ StartAt(start, a, fmt, h, index, c)
       /\ Covers(first, hi, start, start + BlockBytes(fmt) - 1) /\ h % BlockElems(fmt) = 0
       /\ h \in Nat /\ c \in 0 .. h - 1
  <2>1. IsRebased(off, weight, sh)
    BY <1>9 DEF IsRebased
  <2>2. HeadAt(a, weight, 0)
    BY <1>10 DEF HeadAt
  <2>3. StartAt(start, a, fmt, h, index, c)
    BY DEF StartAt, start
  <2>4. Covers(first, hi, start, start + BlockBytes(fmt) - 1)
    BY <1>11 DEF Covers
  <2>5. QED
    BY <1>3, <2>1, <2>2, <2>3, <2>4
<1> HIDE DEF fmt, elems, bytes, a, h
<1>14. HeadElement(blob, off, FormulaSlot(fmt), h, index, c)
         = Dequant(fmt, c % BlockElems(fmt), FileBlock(start, BlockBytes(fmt)))
  BY <1>1, <1>3, <1>6, <1>10, <1>12, <1>13, HeadElementIs
<1>15. QED
  BY <1>8, <1>14 DEF off, weight, blob, win, fmt, elems, bytes, a, h

-----------------------------------------------------------------------------
(* Tiles of the head.                                                      *)

\* The workgroups that cover n rows.
LEMMA CoversRows ==
  ASSUME NEW n \in Nat, NEW d \in Nat \ {0}
  PROVE  /\ DivCeil(n, d) \in Nat /\ n <= d * DivCeil(n, d)
         /\ n % d = 0 => d * DivCeil(n, d) = n
<1> DEFINE m == n + d - 1
           q == m \div d
<1>1. m \in Nat /\ q = DivCeil(n, d)
  BY DEF DivCeil
<1>2. q \in Nat /\ m = d * q + (m % d) /\ m % d \in 0 .. d - 1
  <2> HIDE DEF m
  <2>1. QED
    BY <1>1, QuotRem
<1> DEFINE x == d * q
           r == m % d
<1>3. x \in Nat /\ m = x + r /\ r \in 0 .. d - 1 /\ m = n + (d - 1)
  <2> HIDE DEF q, m
  <2>1. x \in Nat
    BY <1>2, TimesIsNat
  <2>2. QED
    BY <1>2, <2>1 DEF m
<1> HIDE DEF x, r, m
<1>4. n <= x
  BY <1>3
<1>5. n % d = 0 => x = n
  <2>1. SUFFICES ASSUME n % d = 0 PROVE x = n
    OBVIOUS
  <2> DEFINE k == n \div d
  <2>2. k \in Nat /\ n = d * k
    <3>1. k \in Nat /\ n = d * k + (n % d)
      BY QuotRem
    <3> HIDE DEF k
    <3>2. d * k \in Nat
      BY <3>1, TimesIsNat
    <3>3. QED
      BY <2>1, <3>1, <3>2
  <2> HIDE DEF k
  <2>3. m = d * k + (d - 1) /\ d - 1 \in 0 .. d - 1
    BY <1>3, <2>2
  <2> DEFINE e == d - 1
  <2>4. m = d * k + e /\ e \in 0 .. d - 1
    BY <2>3
  <2> HIDE DEF e
  <2>5. m \div d = k
    BY ONLY <2>2, <2>4, DivUnique, d \in Nat \ {0}
  <2>6. QED
    BY <2>2, <2>5 DEF x
<1>6. QED
  BY <1>1, <1>2, <1>4, <1>5 DEF x

\* The rows of a tile: row index is one of them, and when the vocabulary is of
\* whole workgroups they are all of the vocabulary.
LEMMA TileIs ==
  ASSUME NEW v \in Nat, NEW groups \in Nat \ {0}, NEW index \in 0 .. v - 1
  PROVE  LET total == DivCeil(v, TileRows)
             first == (index \div (TileRows * groups)) * groups
             n == AtMost(total - first, groups) * TileRows
             from == first * TileRows
         IN /\ from \in Nat /\ n \in Nat \ {0} /\ from <= index /\ index <= from + n - 1
            /\ v % TileRows = 0 => from + n <= v
<1> DEFINE d == TileRows
           total == DivCeil(v, d)
           span == d * groups
           k == index \div span
           first == k * groups
           some == AtMost(total - first, groups)
           n == some * d
           from == first * d
<1>1. d \in Nat \ {0}
  BY WeightsAssumption
<1> HIDE DEF d
<1>2. total \in Nat /\ v <= d * total /\ (v % d = 0 => d * total = v)
  BY <1>1, CoversRows
<1> HIDE DEF total
<1>3. span \in Nat \ {0}
  BY <1>1
<1>4. index \in Nat /\ index < v
  OBVIOUS
<1>5. k \in Nat /\ index = span * k + (index % span) /\ index % span \in 0 .. span - 1
  <2> HIDE DEF span
  <2>1. QED
    BY <1>3, <1>4, QuotRem
<1> HIDE DEF k
<1>6. first \in Nat /\ from \in Nat /\ from = span * k /\ d * first = from
  <2>1. first \in Nat
    BY <1>5, TimesIsNat
  <2>2. (k * groups) * d = (d * groups) * k
    BY <1>1, <1>5
  <2>3. from = span * k
    BY <2>2
  <2> HIDE DEF first
  <2>4. first * d \in Nat /\ d * first = first * d
    BY <1>1, <2>1, TimesIsNat
  <2> HIDE DEF span
  <2>5. QED
    BY <2>1, <2>3, <2>4
<1> DEFINE r == index % span
           gd == groups * d
           td == d * total
<1>7. /\ index = from + r /\ r \in Nat /\ r < gd /\ gd \in Nat /\ td \in Nat /\ v <= td
      /\ span = gd
  <2>1. span = gd /\ gd \in Nat /\ td \in Nat
    BY <1>1, <1>2
  <2> HIDE DEF span, gd, td, from
  <2>2. QED
    BY <1>2, <1>3, <1>5, <1>6, <2>1 DEF td
<1>8. first < total
  <2>1. SUFFICES ASSUME total <= first PROVE FALSE
    BY <1>2, <1>6
  <2>2. d * total <= d * first
    BY <1>1, <1>2, <1>6, <2>1, ProductGrows
  <2>3. td <= from
    BY <1>6, <2>2
  <2> HIDE DEF td, from, r, gd, first
  <2>4. QED
    BY <1>4, <1>6, <1>7, <2>3
<1>9. CASE total - first < groups
  <2>1. some = total - first
    BY <1>9 DEF AtMost
  <2>2. n = td - from /\ n > 0
    <3> HIDE DEF first
    <3>1. (total - first) * d = d * total - d * first
      BY <1>1, <1>2, <1>6
    <3>2. total - first \in Nat /\ 1 <= total - first
      BY <1>2, <1>6, <1>8
    <3> DEFINE j == total - first
    <3>3. d * 1 <= d * j /\ d * j = j * d
      <4>1. j \in Nat /\ 1 <= j
        BY <3>2
      <4> HIDE DEF j
      <4>2. QED
        BY <1>1, <4>1, ProductGrows
    <3>4. n = j * d /\ n = d * total - d * first
      BY <2>1, <3>1
    <3>5. n = td - from
      BY <1>6, <3>4
    <3>6. n >= d
      <4> DEFINE y == j * d
      <4>1. d * 1 <= y /\ n = y
        BY <3>3, <3>4
      <4> HIDE DEF y, n
      <4>2. QED
        BY <1>1, <4>1
    <3> HIDE DEF n
    <3>7. QED
      BY <1>1, <3>5, <3>6
  <2> HIDE DEF n, td, from, r, gd
  <2>3. n \in Nat \ {0} /\ from <= index /\ index <= from + n - 1
    BY <1>4, <1>6, <1>7, <2>2
  <2>4. v % d = 0 => from + n <= v
    <3>1. v % d = 0 => td = v
      BY <1>2 DEF td
    <3>2. QED
      BY <1>6, <1>7, <2>2, <3>1
  <2>5. QED
    BY <1>6, <2>3, <2>4 DEF n, from, d, total, k
<1>10. CASE groups <= total - first
  <2>1. some = groups
    <3> HIDE DEF first
    <3>1. ~(total - first < groups)
      BY <1>2, <1>6, <1>10
    <3>2. QED
      BY <3>1 DEF AtMost
  <2>2. n = gd
    BY <2>1
  <2>3. from + gd <= td
    <3> HIDE DEF first
    <3>1. groups + first <= total /\ groups + first \in Nat
      BY <1>2, <1>6, <1>10
    <3>2. d * (groups + first) <= d * total
      BY <1>1, <1>2, <3>1, ProductGrows
    <3>3. d * (groups + first) = groups * d + d * first /\ groups * d \in Nat /\ d * first \in Nat
      BY <1>1, <1>6
    <3>4. d * first = from
      BY <1>6
    <3> HIDE DEF from
    <3>5. QED
      BY <1>6, <1>7, <3>2, <3>3, <3>4
  <2> HIDE DEF n, td, from, r, gd
  <2>4. n \in Nat \ {0} /\ from <= index /\ index <= from + n - 1
    BY <1>4, <1>6, <1>7, <2>2
  <2>5. v % d = 0 => from + n <= v
    <3>1. v % d = 0 => td = v
      BY <1>2 DEF td
    <3>2. QED
      BY <1>6, <1>7, <2>2, <2>3, <3>1
  <2>6. QED
    BY <1>6, <2>4, <2>5 DEF n, from, d, total, k
<1>11. QED
  <2> HIDE DEF first
  <2>1. total - first < groups \/ groups <= total - first
    BY <1>2, <1>6
  <2>2. QED
    BY <1>9, <1>10, <2>1 DEF first

-----------------------------------------------------------------------------
(* The inductive invariant of the load and of the reads.                   *)

Phases ==
  {"admission", "adapter", "device", "check", "upload", "pop", "ready", "stopped", "refused"}

RefusalCodes ==
  LoadCodes \cup Codes \cup DeviceCodes
  \cup {"gpu_unavailable", "gpu_device_unavailable", "unsupported_file_alignment",
        "unsupported_head", "gpu_out_of_memory", "window"}

(* What admission leaves behind: a descriptor without failure, the offsets *)
(* of the file, the layer table compiled from both and a specification     *)
(* that follows the plan.                                                  *)
Admitted ==
  /\ Descriptor(file) = OK /\ FileSize(file, offsets) < AddressSpan
  /\ offsets = OffsetsOf(file) /\ layers = CompileLayers(file, offsets)
  /\ Follows(file, spec)

FileInv ==
  /\ file \in Files /\ phase \in Phases
  /\ phase = "admission" => layers = <<>>
  /\ phase = "refused" => Admitted \/ layers = <<>>
  /\ phase \notin {"admission", "refused"} => Admitted

CodeInv == code \in RefusalCodes \cup {OK} /\ CodeFits(file, code)

(* The limits are those the device check passed, or above them.            *)
DeviceInv ==
  phase \in {"device", "check", "upload", "pop", "ready", "stopped"} =>
    /\ Sufficient(file, spec, offsets, limits)
    /\ limits \in LimitSet /\ limits.binding >= Granule

(* The chunks uploaded so far are the first ones of the plan.              *)
ChunksInv ==
  /\ chunks \in Seq(Nat \X Nat) /\ Len(chunks) <= plan.count
  /\ \A c \in 1 .. Len(chunks) : chunks[c] = ChunkRange(plan, FileSize(file, offsets), c - 1)

PlanInv ==
  /\ phase \in {"admission", "adapter", "device", "check"} => chunks = <<>>
  /\ phase \in {"upload", "pop", "ready", "stopped"} =>
       /\ FileSize(file, offsets) % 4 = 0
       /\ plan = SplitOf(file, offsets, limits) /\ ChunksInv
  /\ phase \in {"pop", "ready", "stopped"} => Len(chunks) = plan.count

HeadInv ==
  phase \in {"pop", "ready", "stopped"} =>
    head \in {"f32", "blob"} /\ Format(file, HeadTensor(file)[2]) \in CpuFormats

ScopeInv == scope \in {"empty", "out_of_memory"} /\ (phase = "ready" => scope = "empty")

(* Nothing is read before the model is ready; only a tile of the head that *)
(* reaches past the vocabulary has no window.                              *)
RowInv ==
  /\ phase \notin {"ready", "stopped"} => row = NoRow
  /\ phase = "stopped" => row.via = "tile" /\ file.vocab % TileRows # 0

LoadInv ==
  FileInv /\ CodeInv /\ DeviceInv /\ PlanInv /\ HeadInv /\ ScopeInv /\ RowInv

(* The row that was read is the row of the file, whatever form it took.    *)
IInv == LoadInv /\ WeightsAreRight

\* A model that was not admitted has nothing yet; nothing of it is wrong.
LEMMA InitIs ==
  Init => IInv
<1> SUFFICES ASSUME Init PROVE IInv
  OBVIOUS
<1> USE DEF Init
<1>1. FileInv /\ CodeInv
  BY DEF FileInv, CodeInv, CodeFits, Phases, RefusalCodes, LoadCodes, Codes, DeviceCodes, OK
<1>2. DeviceInv /\ PlanInv /\ HeadInv /\ ScopeInv /\ RowInv
  BY DEF DeviceInv, PlanInv, HeadInv, ScopeInv, RowInv
<1>3. WeightsAreRight
  BY DEF WeightsAreRight, NoRow
<1>4. QED
  BY <1>1, <1>2, <1>3 DEF IInv, LoadInv

\* PreparedDenseModel::load: a model that passes every check is described
\* without failure, small enough for the addresses, and placed by its writer.
LEMMA AdmitKeeps ==
  LoadInv /\ Admit => LoadInv'
<1> SUFFICES ASSUME LoadInv, Admit PROVE LoadInv'
  OBVIOUS
<1>1. FileInv /\ CodeInv /\ PlanInv /\ ScopeInv /\ RowInv /\ phase = "admission"
  BY DEF LoadInv, Admit
<1>2. /\ file \in Files /\ layers = <<>> /\ chunks = <<>> /\ row = NoRow
  BY <1>1 DEF FileInv, PlanInv, RowInv
<1>3. PICK m \in Scan(file) :
        /\ code' = LoadChecks(file, OffsetsOf(file), m)
        /\ \/ /\ code' = OK /\ phase' = "adapter" /\ layers' = CompileLayers(file, offsets')
              /\ spec' = PreparedSpec(file, m)
           \/ code' # OK /\ phase' = "refused" /\ layers' = layers
  BY DEF Admit
<1>4. /\ offsets' = OffsetsOf(file) /\ UNCHANGED <<file, chunks, scope, row>>
      /\ code' \in LoadCodes \cup Codes \cup {OK} /\ CodeFits(file, code')
      /\ code' = OK => /\ Descriptor(file) = OK /\ FileSize(file, OffsetsOf(file)) < AddressSpan
                       /\ Follows(file, PreparedSpec(file, m))
  BY <1>2, <1>3, LoadIs DEF Admit
<1>5. FileInv'
  <2>1. CASE code' = OK
    <3>1. /\ phase' = "adapter" /\ layers' = CompileLayers(file, offsets')
          /\ spec' = PreparedSpec(file, m)
      BY <1>3, <2>1
    <3>2. Admitted'
      BY <1>4, <2>1, <3>1 DEF Admitted
    <3>3. QED
      BY <1>2, <1>4, <3>1, <3>2 DEF FileInv, Phases
  <2>2. CASE code' # OK
    BY <1>2, <1>3, <1>4, <2>2 DEF FileInv, Phases
  <2>3. QED
    BY <2>1, <2>2
<1>6. CodeInv'
  BY <1>4 DEF CodeInv, RefusalCodes
<1>7. phase' \in {"adapter", "refused"}
  BY <1>3
<1>8. DeviceInv' /\ PlanInv' /\ HeadInv' /\ ScopeInv' /\ RowInv'
  BY <1>1, <1>2, <1>4, <1>7 DEF DeviceInv, PlanInv, HeadInv, ScopeInv, RowInv
<1>9. QED
  BY <1>5, <1>6, <1>8 DEF LoadInv

\* The adapter that is chosen is one of the enumerated.
LEMMA SelectedIs ==
  ASSUME NEW seq \in Adapters, seq # <<>>
  PROVE  SelectAdapter(seq).limits \in LimitSet /\ SelectAdapter(seq).limits.binding >= Granule
<1> DEFINE OfKind(k) == { i \in DOMAIN seq : seq[i].kind = k }
           best == IF OfKind("discrete") # {} THEN OfKind("discrete")
                   ELSE IF OfKind("integrated") # {} THEN OfKind("integrated") ELSE DOMAIN seq
<1>1. seq \in Seq(Range(seq))
  BY AdaptersOK
<1>2. DOMAIN seq = 1 .. Len(seq) /\ Len(seq) \in Nat \ {0}
  BY <1>1
<1>3. best \subseteq DOMAIN seq /\ best # {}
  BY <1>2
<1>4. best \subseteq Nat
  BY <1>2, <1>3
<1>5. SelectAdapter(seq) = seq[Least(best)]
  BY DEF SelectAdapter
<1> HIDE DEF best
<1>6. Least(best) \in best
  BY <1>3, <1>4, LeastIs
<1>7. QED
  BY <1>3, <1>5, <1>6, AdaptersOK

\* check_device on the limits of the adapter.
LEMMA AdapterKeeps ==
  ASSUME NEW seq \in Adapters, LoadInv, Adapter(seq)
  PROVE  LoadInv'
<1>1. FileInv /\ CodeInv /\ PlanInv /\ ScopeInv /\ RowInv /\ phase = "adapter"
  BY DEF LoadInv, Adapter
<1>2. file \in Files /\ Admitted /\ chunks = <<>> /\ row = NoRow
  BY <1>1 DEF FileInv, PlanInv, RowInv
<1>3. UNCHANGED <<file, offsets, layers, spec, chunks, scope, row>>
  BY DEF Adapter
<1>4. Admitted'
  BY <1>2, <1>3 DEF Admitted
<1>5. CASE seq = <<>>
  <2>1. phase' = "refused" /\ code' = "gpu_unavailable"
    BY <1>5 DEF Adapter
  <2>2. FileInv' /\ CodeInv'
    BY <1>2, <1>3, <1>4, <2>1 DEF FileInv, Phases, CodeInv, CodeFits, RefusalCodes
  <2>3. DeviceInv' /\ PlanInv' /\ HeadInv' /\ ScopeInv' /\ RowInv'
    BY <1>1, <1>2, <1>3, <2>1 DEF DeviceInv, PlanInv, HeadInv, ScopeInv, RowInv
  <2>4. QED
    BY <2>2, <2>3 DEF LoadInv
<1>6. CASE seq # <<>>
  <2> DEFINE chosen == SelectAdapter(seq).limits
  <2>1. /\ limits' = chosen /\ code' = CheckDevice(file, spec, offsets, chosen)
        /\ phase' = IF code' = OK THEN "device" ELSE "refused"
    BY <1>6 DEF Adapter
  <2>2. chosen \in LimitSet /\ chosen.binding >= Granule
    BY <1>6, SelectedIs
  <2> HIDE DEF chosen
  <2>3. /\ code' = OK => Sufficient(file, spec, offsets, chosen)
        /\ code' \in DeviceCodes \cup {OK}
    BY <2>1, CheckDeviceIs
  <2>4. FileInv' /\ CodeInv'
    BY <1>2, <1>3, <1>4, <2>1, <2>3 DEF FileInv, Phases, CodeInv, CodeFits, RefusalCodes, DeviceCodes, OK
  <2>5. DeviceInv'
    BY <1>3, <2>1, <2>2, <2>3 DEF DeviceInv
  <2>6. phase' \in {"device", "refused"}
    BY <2>1
  <2>7. PlanInv' /\ HeadInv' /\ ScopeInv' /\ RowInv'
    BY <1>1, <1>2, <1>3, <2>6 DEF PlanInv, HeadInv, ScopeInv, RowInv
  <2>8. QED
    BY <2>4, <2>5, <2>7 DEF LoadInv
<1>7. QED
  BY <1>5, <1>6

-----------------------------------------------------------------------------
(* The steps of a load.                                                    *)

\* The limits of the device that is granted, from those of the adapter.
Granted(lim, s) == [lim EXCEPT !.storage = s, !.invocations = 256]

\* They are the limits of the adapter, but for the two that are asked for.
LEMMA GrantedIs ==
  ASSUME NEW lim \in LimitSet, NEW s \in Nat, s >= 14
  PROVE  /\ Granted(lim, s) \in LimitSet /\ Granted(lim, s).binding = lim.binding
         /\ Granted(lim, s).buffer = lim.buffer /\ Granted(lim, s).storage >= 14
         /\ Granted(lim, s).invocations >= 256
<1> DEFINE mid == [lim EXCEPT !.storage = s]
           final == [mid EXCEPT !.invocations = 256]
<1>1. mid \in LimitSet /\ mid.binding = lim.binding /\ mid.buffer = lim.buffer /\ mid.storage = s
  BY DEF LimitSet
<1>2. Granted(lim, s) = final
  BY DEF Granted
<1> HIDE DEF mid
<1>3. /\ final \in LimitSet /\ final.binding = mid.binding /\ final.buffer = mid.buffer
      /\ final.storage = mid.storage /\ final.invocations = 256
  BY <1>1 DEF LimitSet
<1> HIDE DEF final
<1>4. QED
  BY <1>1, <1>2, <1>3

\* The device has what the adapter had, and what the kernels ask for.
LEMMA RequestKeeps ==
  LoadInv /\ RequestDevice => LoadInv'
<1> SUFFICES ASSUME LoadInv, RequestDevice PROVE LoadInv'
  OBVIOUS
<1>1. FileInv /\ CodeInv /\ DeviceInv /\ PlanInv /\ ScopeInv /\ RowInv /\ phase = "device"
  BY DEF LoadInv, RequestDevice
<1>2. /\ file \in Files /\ Admitted /\ chunks = <<>> /\ row = NoRow
      /\ Sufficient(file, spec, offsets, limits) /\ limits \in LimitSet /\ limits.binding >= Granule
  BY <1>1 DEF FileInv, PlanInv, RowInv, DeviceInv
<1>3. UNCHANGED <<file, offsets, layers, spec, chunks, scope, row>>
  BY DEF RequestDevice
<1>4. Admitted'
  BY <1>2, <1>3 DEF Admitted
<1>5. CASE phase' = "refused" /\ code' = "gpu_device_unavailable"
  <2>1. FileInv' /\ CodeInv'
    BY <1>2, <1>3, <1>4, <1>5 DEF FileInv, Phases, CodeInv, CodeFits, RefusalCodes
  <2>2. DeviceInv' /\ PlanInv' /\ HeadInv' /\ ScopeInv' /\ RowInv'
    BY <1>1, <1>2, <1>3, <1>5 DEF DeviceInv, PlanInv, HeadInv, ScopeInv, RowInv
  <2>3. QED
    BY <2>1, <2>2 DEF LoadInv
<1>6. CASE /\ phase' = "check" /\ UNCHANGED code
           /\ limits' = [limits EXCEPT !.storage = AtLeast(@, 14), !.invocations = 256]
  <2>1. /\ limits' \in LimitSet /\ limits'.binding = limits.binding
        /\ limits'.buffer = limits.buffer /\ limits'.storage >= 14 /\ limits'.invocations >= 256
    <3>1. AtLeast(limits.storage, 14) \in Nat /\ AtLeast(limits.storage, 14) >= 14
      BY <1>2 DEF LimitSet, AtLeast
    <3>2. limits' = Granted(limits, AtLeast(limits.storage, 14))
      BY <1>6, Zenon DEF Granted
    <3>3. PICK s \in Nat : s = AtLeast(limits.storage, 14) /\ s >= 14
      BY <3>1
    <3>4. limits \in LimitSet
      BY <1>2
    <3>5. /\ Granted(limits, s) \in LimitSet /\ Granted(limits, s).binding = limits.binding
          /\ Granted(limits, s).buffer = limits.buffer /\ Granted(limits, s).storage >= 14
          /\ Granted(limits, s).invocations >= 256
      BY <3>3, <3>4, GrantedIs
    <3>6. QED
      BY <3>2, <3>3, <3>5
  <2>2. Sufficient(file, spec, offsets, limits')
    BY <1>2, <2>1, StillSufficient
  <2>3. FileInv' /\ CodeInv'
    BY <1>1, <1>2, <1>3, <1>4, <1>6 DEF FileInv, Phases, CodeInv
  <2>4. DeviceInv'
    BY <1>2, <1>3, <2>1, <2>2 DEF DeviceInv
  <2>5. PlanInv' /\ HeadInv' /\ ScopeInv' /\ RowInv'
    BY <1>1, <1>2, <1>3, <1>6 DEF PlanInv, HeadInv, ScopeInv, RowInv
  <2>6. QED
    BY <2>3, <2>4, <2>5 DEF LoadInv
<1>7. QED
  BY <1>5, <1>6 DEF RequestDevice

\* The second check on the device has the answer of the first.
LEMMA CheckedAgain ==
  ASSUME LoadInv, CheckLoad
  PROVE  code' = IF FileSize(file, offsets) % 4 # 0 THEN "unsupported_file_alignment" ELSE OK
<1>1. DeviceInv /\ phase = "check"
  BY DEF LoadInv, CheckLoad
<1>2. Sufficient(file, spec, offsets, limits)
  BY <1>1 DEF DeviceInv
<1>3. CheckDevice(file, spec, offsets, limits) = OK
  BY <1>2, CheckDeviceIs
<1>4. QED
  BY <1>3 DEF CheckLoad

\* What admission made of the file has a place for every tensor.
LEMMA AdmittedIs ==
  ASSUME file \in Files, Admitted
  PROVE  Placed(file, offsets) /\ FileSize(file, offsets) \in Nat \ {0}
<1>1. Placed(file, offsets)
  BY OffsetsAre DEF Admitted
<1>2. QED
  BY <1>1 DEF Placed

\* try_load_prepared: the chunk plan is the one of the checks.
LEMMA CheckKeeps ==
  LoadInv /\ CheckLoad => LoadInv'
<1> SUFFICES ASSUME LoadInv, CheckLoad PROVE LoadInv'
  OBVIOUS
<1>1. FileInv /\ CodeInv /\ DeviceInv /\ PlanInv /\ ScopeInv /\ RowInv /\ phase = "check"
  BY DEF LoadInv, CheckLoad
<1>2. /\ file \in Files /\ Admitted /\ chunks = <<>> /\ row = NoRow
      /\ Sufficient(file, spec, offsets, limits) /\ limits \in LimitSet /\ limits.binding >= Granule
  BY <1>1 DEF FileInv, PlanInv, RowInv, DeviceInv
<1>3. UNCHANGED <<file, offsets, layers, spec, limits, chunks, scope, head, row>>
  BY DEF CheckLoad
<1>4. Admitted'
  BY <1>2, <1>3 DEF Admitted
<1>5. code' = IF FileSize(file, offsets) % 4 # 0 THEN "unsupported_file_alignment" ELSE OK
  BY CheckedAgain
<1>6. IF code' = OK
      THEN phase' = "upload" /\ plan' = ChunkPlan(FileSize(file, offsets), limits.binding)
      ELSE phase' = "refused" /\ UNCHANGED plan
  BY DEF CheckLoad
<1>7. CodeInv'
  BY <1>3, <1>5 DEF CodeInv, CodeFits, RefusalCodes, OK
<1>8. CASE code' # OK
  <2>1. FileInv'
    BY <1>2, <1>3, <1>4, <1>6, <1>8 DEF FileInv, Phases
  <2>2. DeviceInv' /\ PlanInv' /\ HeadInv' /\ ScopeInv' /\ RowInv'
    BY <1>1, <1>2, <1>3, <1>6, <1>8 DEF DeviceInv, PlanInv, HeadInv, ScopeInv, RowInv
  <2>3. QED
    BY <1>7, <2>1, <2>2 DEF LoadInv
<1>9. CASE code' = OK
  <2>1. phase' = "upload" /\ plan' = SplitOf(file, offsets, limits)
        /\ FileSize(file, offsets) % 4 = 0
    BY <1>5, <1>6, <1>9 DEF SplitOf, OK
  <2>2. FileInv' /\ DeviceInv'
    BY <1>2, <1>3, <1>4, <2>1 DEF FileInv, Phases, DeviceInv
  <2>3. IsPlan(SplitOf(file, offsets, limits), FileSize(file, offsets))
    <3>1. FileSize(file, offsets) \in Nat
      BY <1>2, AdmittedIs
    <3>2. limits.binding \in Nat
      BY <1>2 DEF LimitSet
    <3>3. QED
      BY <1>2, <3>1, <3>2, SplitIs
  <2>4. ChunksInv'
    BY <1>2, <1>3, <2>1, <2>3 DEF ChunksInv, IsPlan
  <2>5. PlanInv'
    BY <1>2, <1>3, <2>1, <2>4 DEF PlanInv
  <2>6. HeadInv' /\ ScopeInv' /\ RowInv'
    BY <1>1, <1>2, <1>3, <2>1 DEF HeadInv, ScopeInv, RowInv
  <2>7. QED
    BY <1>7, <2>2, <2>5, <2>6 DEF LoadInv
<1>10. QED
  BY <1>8, <1>9

\* What holds of the plan while and after the chunks are uploaded.
LEMMA PlanHolds ==
  ASSUME LoadInv, phase \in {"upload", "pop", "ready", "stopped"}
  PROVE  /\ file \in Files /\ Admitted /\ Placed(file, offsets)
         /\ FileSize(file, offsets) \in Nat \ {0} /\ FileSize(file, offsets) % 4 = 0
         /\ Sufficient(file, spec, offsets, limits) /\ limits \in LimitSet /\ limits.binding >= Granule
         /\ plan = SplitOf(file, offsets, limits) /\ plan.bytes <= limits.binding
         /\ IsPlan(plan, FileSize(file, offsets)) /\ ChunksInv
<1>1. FileInv /\ DeviceInv /\ PlanInv
  BY DEF LoadInv
<1>2. /\ file \in Files /\ Admitted
      /\ Sufficient(file, spec, offsets, limits) /\ limits \in LimitSet /\ limits.binding >= Granule
      /\ FileSize(file, offsets) % 4 = 0
      /\ plan = SplitOf(file, offsets, limits) /\ ChunksInv
  BY <1>1 DEF FileInv, DeviceInv, PlanInv
<1>3. Placed(file, offsets) /\ FileSize(file, offsets) \in Nat \ {0}
  BY <1>2, AdmittedIs
<1>4. limits.binding \in Nat /\ FileSize(file, offsets) \in Nat
  BY <1>2, <1>3 DEF LimitSet
<1>5. IsPlan(plan, FileSize(file, offsets)) /\ plan.bytes <= limits.binding
  BY <1>2, <1>4, SplitIs
<1>6. QED
  BY <1>2, <1>3, <1>5

\* The bytes of a chunk that the plan has.
LEMMA ChunkIs ==
  ASSUME NEW pl, NEW size, IsPlan(pl, size), NEW c \in Nat
  PROVE  /\ ChunkRange(pl, size, c) \in Nat \X Nat
         /\ ChunkRange(pl, size, c)[1] = c * pl.bytes
         /\ ChunkRange(pl, size, c)[2] = AtMost((c + 1) * pl.bytes, size)
         /\ c * pl.bytes \in Nat /\ (c + 1) * pl.bytes \in Nat
         /\ (c + 1) * pl.bytes = c * pl.bytes + pl.bytes
<1>1. pl.bytes \in Nat /\ size \in Nat
  BY DEF IsPlan
<1>2. c * pl.bytes \in Nat /\ (c + 1) * pl.bytes \in Nat
  BY <1>1, TimesIsNat
<1>3. (c + 1) * pl.bytes = c * pl.bytes + pl.bytes
  <2>1. \A b \in Nat : (c + 1) * b = c * b + b
    OBVIOUS
  <2>2. QED
    BY <1>1, <2>1
<1>4. AtMost((c + 1) * pl.bytes, size) \in Nat
  BY <1>1, <1>2 DEF AtMost
<1>5. QED
  BY <1>2, <1>3, <1>4 DEF ChunkRange

\* load_from_gguf: the chunks are uploaded one after the other.
LEMMA UploadKeeps ==
  LoadInv /\ UploadChunk => LoadInv'
<1> SUFFICES ASSUME LoadInv, UploadChunk PROVE LoadInv'
  OBVIOUS
<1>1. FileInv /\ CodeInv /\ DeviceInv /\ PlanInv /\ ScopeInv /\ RowInv /\ phase = "upload"
  BY DEF LoadInv, UploadChunk
<1>2. IsPlan(plan, FileSize(file, offsets)) /\ ChunksInv
  BY <1>1, PlanHolds
<1>3. /\ UNCHANGED <<file, offsets, layers, spec, phase, code, limits, plan, head, row>>
      /\ Len(chunks) < plan.count
      /\ chunks' = Append(chunks, ChunkRange(plan, FileSize(file, offsets), Len(chunks)))
  BY DEF UploadChunk
<1> DEFINE next == ChunkRange(plan, FileSize(file, offsets), Len(chunks))
<1>4. Len(chunks) \in Nat /\ chunks \in Seq(Nat \X Nat) /\ plan.count \in Nat
  BY <1>2 DEF ChunksInv, IsPlan
<1>5. next \in Nat \X Nat
  BY <1>2, <1>4, ChunkIs
<1>6. ChunksInv'
  <2> HIDE DEF next
  <2>1. chunks' = Append(chunks, next)
    BY <1>3 DEF next
  <2>2. /\ chunks' \in Seq(Nat \X Nat) /\ Len(chunks') = Len(chunks) + 1
        /\ \A c \in 1 .. Len(chunks) : chunks'[c] = chunks[c]
        /\ chunks'[Len(chunks) + 1] = next
    BY <1>4, <1>5, <2>1
  <2>3. ASSUME NEW c \in 1 .. Len(chunks')
        PROVE  chunks'[c] = ChunkRange(plan, FileSize(file, offsets), c - 1)
    <3>1. CASE c \in 1 .. Len(chunks)
      BY <1>2, <2>2, <3>1 DEF ChunksInv
    <3>2. CASE c = Len(chunks) + 1
      <4>1. c - 1 = Len(chunks)
        BY <1>4, <3>2
      <4>2. QED
        BY <2>2, <3>2, <4>1 DEF next
    <3>3. QED
      BY <1>4, <2>2, <3>1, <3>2
  <2>4. Len(chunks') <= plan.count
    BY <1>3, <1>4, <2>2
  <2>5. QED
    BY <1>3, <2>2, <2>3, <2>4 DEF ChunksInv
<1>7. FileInv' /\ CodeInv' /\ DeviceInv' /\ HeadInv' /\ RowInv'
  BY <1>1, <1>3 DEF FileInv, Admitted, CodeInv, DeviceInv, HeadInv, RowInv
<1>10. ScopeInv'
  BY <1>1, <1>3 DEF ScopeInv, UploadChunk, Allocate
<1>8. PlanInv'
  BY <1>1, <1>3, <1>6 DEF PlanInv
<1>9. QED
  BY <1>7, <1>8, <1>10 DEF LoadInv

\* load_output_head_f32, after the last chunk.
LEMMA HeadKeeps ==
  LoadInv /\ LoadHead => LoadInv'
<1> SUFFICES ASSUME LoadInv, LoadHead PROVE LoadInv'
  OBVIOUS
<1>1. FileInv /\ CodeInv /\ DeviceInv /\ PlanInv /\ ScopeInv /\ RowInv /\ phase = "upload"
  BY DEF LoadInv, LoadHead
<1>2. ChunksInv /\ file \in Files /\ Admitted
  BY <1>1, PlanHolds
<1>3. /\ UNCHANGED <<file, offsets, layers, spec, limits, plan, chunks, row>>
      /\ Len(chunks) = plan.count
  BY DEF LoadHead
<1>4. Admitted' /\ ChunksInv' /\ row = NoRow
  BY <1>1, <1>2, <1>3 DEF Admitted, ChunksInv, RowInv
<1>8. scope' \in {"empty", "out_of_memory"}
  BY <1>1 DEF LoadHead, Allocate, ScopeInv
<1>5. CASE phase' = "refused" /\ code' = "unsupported_head"
  <2>1. FileInv' /\ CodeInv'
    BY <1>2, <1>3, <1>4, <1>5 DEF FileInv, Phases, CodeInv, CodeFits, RefusalCodes
  <2>2. DeviceInv' /\ PlanInv' /\ HeadInv' /\ ScopeInv' /\ RowInv'
    BY <1>3, <1>4, <1>5, <1>8 DEF DeviceInv, PlanInv, HeadInv, ScopeInv, RowInv
  <2>3. QED
    BY <2>1, <2>2 DEF LoadInv
<1>6. CASE /\ Format(file, HeadTensor(file)[2]) \in CpuFormats
           /\ phase' = "pop" /\ UNCHANGED code /\ head' \in {"f32", "blob"}
  <2>1. FileInv' /\ CodeInv' /\ DeviceInv'
    BY <1>1, <1>2, <1>3, <1>4, <1>6 DEF FileInv, Phases, CodeInv, DeviceInv
  <2>2. PlanInv'
    BY <1>1, <1>3, <1>4, <1>6 DEF PlanInv
  <2>3. HeadInv' /\ ScopeInv' /\ RowInv'
    BY <1>3, <1>4, <1>6, <1>8 DEF HeadInv, ScopeInv, RowInv
  <2>4. QED
    BY <2>1, <2>2, <2>3 DEF LoadInv
<1>7. QED
  BY <1>5, <1>6 DEF LoadHead

\* The scopes are popped last: a failed allocation ends the load.
LEMMA PopKeeps ==
  LoadInv /\ PopScopes => LoadInv'
<1> SUFFICES ASSUME LoadInv, PopScopes PROVE LoadInv'
  OBVIOUS
<1>1. FileInv /\ CodeInv /\ DeviceInv /\ PlanInv /\ HeadInv /\ ScopeInv /\ RowInv /\ phase = "pop"
  BY DEF LoadInv, PopScopes
<1>2. file \in Files /\ Admitted /\ row = NoRow /\ ChunksInv
  BY <1>1 DEF FileInv, RowInv, PlanInv
<1>3. UNCHANGED <<file, offsets, layers, spec, limits, plan, chunks, head, row>>
  BY DEF PopScopes
<1>4. Admitted' /\ ChunksInv'
  BY <1>2, <1>3 DEF Admitted, ChunksInv
<1>8. scope' \in {"empty", "out_of_memory"}
  BY <1>1 DEF PopScopes, Allocate, ScopeInv
<1>5. CASE phase' = "refused" /\ code' = "gpu_out_of_memory"
  <2>1. FileInv' /\ CodeInv'
    BY <1>2, <1>3, <1>4, <1>5 DEF FileInv, Phases, CodeInv, CodeFits, RefusalCodes
  <2>2. DeviceInv' /\ PlanInv' /\ HeadInv' /\ ScopeInv' /\ RowInv'
    BY <1>2, <1>3, <1>5, <1>8 DEF DeviceInv, PlanInv, HeadInv, ScopeInv, RowInv
  <2>3. QED
    BY <2>1, <2>2 DEF LoadInv
<1>6. CASE phase' = "ready" /\ UNCHANGED code /\ scope' # "out_of_memory"
  <2>1. FileInv' /\ CodeInv' /\ DeviceInv' /\ HeadInv'
    BY <1>1, <1>2, <1>3, <1>4, <1>6 DEF FileInv, Phases, CodeInv, DeviceInv, HeadInv
  <2>2. PlanInv'
    BY <1>1, <1>3, <1>4, <1>6 DEF PlanInv
  <2>3. ScopeInv'
    BY <1>6, <1>8 DEF ScopeInv
  <2>4. RowInv'
    BY <1>2, <1>3, <1>6 DEF RowInv
  <2>5. QED
    BY <2>1, <2>2, <2>3, <2>4 DEF LoadInv
<1>7. QED
  BY <1>5, <1>6 DEF PopScopes

-----------------------------------------------------------------------------
(* A ready model and what a read leaves.                                   *)

\* A ready model is loaded: its windows see the file.
LEMMA ReadyIs ==
  ASSUME LoadInv, phase = "ready"
  PROVE  /\ Loaded(file, offsets, plan, chunks)
         /\ \A l \in 0 .. file.layers - 1 : layers[l] = CompileLayer(file, l, offsets)
         /\ Format(file, HeadTensor(file)[2]) \in CpuFormats
<1>1. /\ file \in Files /\ Admitted /\ Placed(file, offsets)
      /\ FileSize(file, offsets) \in Nat \ {0} /\ FileSize(file, offsets) % 4 = 0
      /\ Sufficient(file, spec, offsets, limits) /\ plan = SplitOf(file, offsets, limits)
      /\ IsPlan(plan, FileSize(file, offsets)) /\ ChunksInv
  BY PlanHolds
<1>2. Len(chunks) = plan.count /\ Format(file, HeadTensor(file)[2]) \in CpuFormats
  BY DEF LoadInv, PlanInv, HeadInv
<1>3. Resident(chunks, plan, FileSize(file, offsets))
  BY <1>1, <1>2 DEF Resident, ChunksInv
<1>4. WindowsFit(file, offsets, limits)
  BY <1>1 DEF Sufficient
<1>5. Loaded(file, offsets, plan, chunks)
  BY <1>1, <1>3, <1>4 DEF Loaded, Admitted, WindowsFit
<1>6. \A l \in 0 .. file.layers - 1 : layers[l] = CompileLayer(file, l, offsets)
  BY <1>1 DEF Admitted, CompileLayers
<1>7. QED
  BY <1>2, <1>5, <1>6

\* A row is right when each element read is the one the registry names.
RowRight(f, at, r) == \A c \in DOMAIN r.got : r.got[c] = Want(f, at, r.tensor, r.index, c)

\* A row of right elements is right.
LEMMA RowRightIs ==
  ASSUME NEW f, NEW at, NEW t, NEW via, NEW index, NEW value,
         \A c \in DOMAIN value : value[c] = Want(f, at, t, index, c)
  PROVE  RowRight(f, at, [tensor |-> t, via |-> via, index |-> index, got |-> value])
  BY DEF RowRight

\* The property says of a row what RowRight says.
LEMMA WantedIs ==
  RowRight(file, offsets, row) => RowIsRight
  BY DEF RowRight, RowIsRight, Wanted, Want, FileBlock, Bits, BlockStart, RowBytes

\* What a read leaves behind: a right row but for the two cases the property
\* states apart, or no window for a tile of the head that is past the end.
Right(r) ==
  (/\ r.tensor[2] = "attn_k" => KeyLooksLikeQuery
   /\ r.via = "embedding" => (offsets[Embedding] + r.index * RowBytes(file, "token_embd")) % 4 = 0)
    => RowRight(file, offsets, r)

ReadIsFine ==
  /\ Right(row')
  /\ \/ UNCHANGED <<phase, code>>
     \/ /\ phase' = "stopped" /\ code' = "window"
        /\ row'.via = "tile" /\ file.vocab % TileRows # 0

\* A read with a window gives its row.
LEMMA GotIs ==
  ASSUME NEW t, NEW via, NEW index, NEW win, NEW value, win # NoWindow,
         Got(t, via, index, win, value)
  PROVE  /\ row' = [tensor |-> t, via |-> via, index |-> index, got |-> value]
         /\ UNCHANGED <<phase, code>>
  BY DEF Got

\* The window of a layer is the one planned from its table.
LEMMA LayerWindowIsPlanned ==
  ASSUME NEW l, layers[l] = CompileLayer(file, l, offsets)
  PROVE  LayerWindow(l) = PlannedLayer(file, offsets, plan, l)
<1> DEFINE Window(lay) ==
      PlanLayerTensorWindow({ lay.packed[t] : t \in DOMAIN lay.packed }, lay.base,
        { <<offsets[t], Bytes(file, t[2])>> : t \in InLayer(file, l) }, plan)
<1>1. LayerWindow(l) = Window(layers[l])
  BY DEF LayerWindow
<1>2. PlannedLayer(file, offsets, plan, l) = Window(CompileLayer(file, l, offsets))
  BY DEF PlannedLayer
<1> HIDE DEF Window
<1>3. QED
  BY <1>1, <1>2

\* The rows that are looked at exist.
LEMMA SampleIs ==
  ASSUME NEW n, NEW index \in Sample(n)
  PROVE  index \in 0 .. n - 1
  BY DEF Sample

\* A row of a matrix of a layer, decoded with the formula of its own format.
LEMMA ReadMatrixIs ==
  ASSUME LoadInv, phase = "ready", NEW l \in 0 .. file.layers - 1, NEW name \in Matrices,
         NEW index \in 0 .. Rows(file, name) - 1, NEW slot,
         ReadMatrix(l, name, index, slot)
  PROVE  /\ UNCHANGED <<phase, code>> /\ row'.tensor = <<l, name>> /\ row'.via = "layer"
         /\ slot = FormulaSlot(Format(file, name)) => RowRight(file, offsets, row')
<1> DEFINE planned == PlannedLayer(file, offsets, plan, l)
           cols == Shape(file, name)[1]
           blob == Binding(chunks, planned.win, plan)
           value == [ c \in Columns(cols) |->
                        MatrixElement(blob, planned.base, slot,
                          CompileLayer(file, l, offsets).packed[<<l, name>>], cols, index, c) ]
<1>1. Loaded(file, offsets, plan, chunks) /\ layers[l] = CompileLayer(file, l, offsets)
  BY ReadyIs
<1>2. LayerWindow(l) = planned
  BY <1>1, LayerWindowIsPlanned
<1>3. Got(<<l, name>>, "layer", index, planned.win, value)
  BY <1>1, <1>2 DEF ReadMatrix
<1>4. ASSUME NEW c \in 0 .. cols - 1, slot = FormulaSlot(Format(file, name))
      PROVE  /\ planned.win # NoWindow
             /\ MatrixElement(blob, planned.base, slot,
                  CompileLayer(file, l, offsets).packed[<<l, name>>], cols, index, c)
                  = Want(file, offsets, <<l, name>>, index, c)
  BY <1>1, <1>4, MatrixRowIs
<1>5. planned.win # NoWindow
  <2>1. \E hi : LayerSees(file, offsets, plan, chunks, l, planned, hi)
    BY <1>1, LayerIsSeen
  <2>2. QED
    BY <2>1 DEF LayerSees
<1>6. slot = FormulaSlot(Format(file, name)) =>
        \A c \in DOMAIN value : value[c] = Want(file, offsets, <<l, name>>, index, c)
  BY <1>4 DEF Columns
<1> HIDE DEF value, planned
<1>7. /\ row' = [tensor |-> <<l, name>>, via |-> "layer", index |-> index, got |-> value]
      /\ UNCHANGED <<phase, code>>
  BY <1>3, <1>5, GotIs
<1>8. QED
  BY <1>6, <1>7, RowRightIs

-----------------------------------------------------------------------------
(* Reads of the layers and of the final norm.                              *)

\* The selectors of a layer: K has that of Q.
LEMMA SlotsAre ==
  ASSUME LoadInv, phase = "ready", NEW l \in 0 .. file.layers - 1
  PROVE  /\ layers[l].slots.qk = FormulaSlot(Format(file, "attn_q"))
         /\ layers[l].slots.v = FormulaSlot(Format(file, "attn_v"))
         /\ layers[l].slots.attn_out = FormulaSlot(Format(file, "attn_output"))
         /\ layers[l].slots["ffn_gate"] = FormulaSlot(Format(file, "ffn_gate"))
         /\ layers[l].slots["ffn_up"] = FormulaSlot(Format(file, "ffn_up"))
         /\ layers[l].slots.ffn_down = FormulaSlot(Format(file, "ffn_down"))
<1>1. layers[l] = CompileLayer(file, l, offsets)
  BY ReadyIs
<1>2. layers[l].slots =
        [qk |-> FormulaSlot(Format(file, "attn_q")), v |-> FormulaSlot(Format(file, "attn_v")),
         attn_out |-> FormulaSlot(Format(file, "attn_output")),
         ffn_gate |-> FormulaSlot(Format(file, "ffn_gate")),
         ffn_up |-> FormulaSlot(Format(file, "ffn_up")),
         ffn_down |-> FormulaSlot(Format(file, "ffn_down"))]
  BY <1>1 DEF CompileLayer
<1>3. QED
  BY <1>2

\* The projections: each matrix has the formula of its format, but for keys
\* in another format than the queries.
LEMMA ProjectionIs ==
  ASSUME LoadInv, phase = "ready", NEW l \in 0 .. file.layers - 1, NEW name \in Matrices,
         NEW index \in Sample(Rows(file, name)),
         \/ ReadQkv(l, name, index) \/ ReadAttnProj(l, name, index)
         \/ ReadFfnProj(l, name, index) \/ ReadFfnDown(l, name, index)
  PROVE  ReadIsFine
<1>1. index \in 0 .. Rows(file, name) - 1
  BY SampleIs
<1>2. ASSUME NEW slot, ReadMatrix(l, name, index, slot),
             (name = "attn_k" => KeyLooksLikeQuery) => slot = FormulaSlot(Format(file, name))
      PROVE  ReadIsFine
  <2>1. /\ UNCHANGED <<phase, code>> /\ row'.tensor = <<l, name>> /\ row'.via = "layer"
        /\ slot = FormulaSlot(Format(file, name)) => RowRight(file, offsets, row')
    BY <1>1, <1>2, ReadMatrixIs
  <2>2. row'.tensor[2] = name
    BY <2>1
  <2>3. Right(row')
    BY <1>2, <2>1, <2>2 DEF Right
  <2>4. QED
    BY <2>1, <2>3 DEF ReadIsFine
<1>3. CASE ReadQkv(l, name, index)
  <2> DEFINE slot == IF name = "attn_v" THEN layers[l].slots.v ELSE layers[l].slots.qk
  <2>1. ReadMatrix(l, name, index, slot) /\ name \in {"attn_q", "attn_k", "attn_v"}
    BY <1>3 DEF ReadQkv
  <2>2. (name = "attn_k" => KeyLooksLikeQuery) => slot = FormulaSlot(Format(file, name))
    BY <2>1, SlotsAre DEF KeyLooksLikeQuery
  <2> HIDE DEF slot
  <2>3. QED
    BY <1>2, <2>1, <2>2
<1>4. CASE ReadAttnProj(l, name, index)
  <2>1. ReadMatrix(l, name, index, layers[l].slots.attn_out) /\ name = "attn_output"
    BY <1>4 DEF ReadAttnProj
  <2>2. QED
    BY <1>2, <2>1, SlotsAre
<1>5. CASE ReadFfnProj(l, name, index)
  <2>1. ReadMatrix(l, name, index, layers[l].slots[name]) /\ name \in {"ffn_gate", "ffn_up"}
    BY <1>5 DEF ReadFfnProj
  <2>2. layers[l].slots[name] = FormulaSlot(Format(file, name))
    BY <2>1, SlotsAre
  <2>3. QED
    BY <1>2, <2>1, <2>2
<1>6. CASE ReadFfnDown(l, name, index)
  <2>1. ReadMatrix(l, name, index, layers[l].slots.ffn_down) /\ name = "ffn_down"
    BY <1>6 DEF ReadFfnDown
  <2>2. QED
    BY <1>2, <2>1, SlotsAre
<1>7. QED
  BY <1>3, <1>4, <1>5, <1>6

\* A read through a window it has, with the right elements, is fine.
LEMMA FineRead ==
  ASSUME NEW t, NEW via, NEW index, NEW value,
         row' = [tensor |-> t, via |-> via, index |-> index, got |-> value],
         UNCHANGED <<phase, code>>,
         (via = "embedding" => (offsets[Embedding] + index * RowBytes(file, "token_embd")) % 4 = 0)
           => \A c \in DOMAIN value : value[c] = Want(file, offsets, t, index, c)
  PROVE  ReadIsFine
<1>1. row'.via = via /\ row'.index = index
  OBVIOUS
<1>2. (\A c \in DOMAIN value : value[c] = Want(file, offsets, t, index, c))
        => RowRight(file, offsets, row')
  BY RowRightIs
<1>3. Right(row')
  BY <1>1, <1>2 DEF Right
<1>4. QED
  BY <1>3 DEF ReadIsFine

\* The norms of the heads.
LEMMA ReadHeadNormIs ==
  ASSUME LoadInv, phase = "ready", NEW l \in 0 .. file.layers - 1,
         NEW name \in {"attn_q_norm", "attn_k_norm"} \cap Range(LayerNames(file)),
         ReadHeadNorm(l, name)
  PROVE  ReadIsFine
<1> DEFINE planned == PlannedLayer(file, offsets, plan, l)
           blob == Binding(chunks, planned.win, plan)
           Element(c) ==
             Plain(ExtractBits(ReadBlob(blob,
               CompileLayer(file, l, offsets).packed[<<l, name>>] \div 2 + planned.base + c), 0, 32))
           value == [ c \in Columns(HeadDim(file)) |-> Element(c) ]
<1>1. Loaded(file, offsets, plan, chunks) /\ layers[l] = CompileLayer(file, l, offsets)
  BY ReadyIs
<1>2. LayerWindow(l) = planned
  BY <1>1, LayerWindowIsPlanned
<1>3. Got(<<l, name>>, "layer", 0, planned.win, value)
  BY <1>1, <1>2 DEF ReadHeadNorm
<1>4. ASSUME NEW c \in 0 .. HeadDim(file) - 1
      PROVE  Element(c) = Want(file, offsets, <<l, name>>, 0, c)
  BY <1>1, HeadNormIs
<1>5. planned.win # NoWindow
  <2>1. \E hi : LayerSees(file, offsets, plan, chunks, l, planned, hi)
    BY <1>1, LayerIsSeen
  <2>2. QED
    BY <2>1 DEF LayerSees
<1> HIDE DEF Element, planned
<1>6. \A c \in DOMAIN value : value[c] = Want(file, offsets, <<l, name>>, 0, c)
  BY <1>4 DEF Columns
<1> HIDE DEF value
<1>7. /\ row' = [tensor |-> <<l, name>>, via |-> "layer", index |-> 0, got |-> value]
      /\ UNCHANGED <<phase, code>>
  BY <1>3, <1>5, GotIs
<1>8. QED
  BY <1>6, <1>7, FineRead

\* The norms of the layers, from the bank.
LEMMA ReadNormIs ==
  ASSUME LoadInv, phase = "ready", NEW l \in 0 .. file.layers - 1,
         NEW name \in {"attn_norm", "ffn_norm"}, ReadNorm(l, name)
  PROVE  ReadIsFine
<1> DEFINE slot == IF name = "attn_norm" THEN 0 ELSE FfnNormSlot
           base == (l * NormSlots + slot) * file.hidden
           Element(c) == Plain(ExtractBits(NormBank(base + c), 0, 32))
           value == [ c \in Columns(file.hidden) |-> Element(c) ]
<1>1. Loaded(file, offsets, plan, chunks)
  BY ReadyIs
<1>2. row' = [tensor |-> <<l, name>>, via |-> "bank", index |-> 0, got |-> value]
      /\ UNCHANGED <<phase, code>>
  BY DEF ReadNorm
<1>3. ASSUME NEW c \in 0 .. file.hidden - 1
      PROVE  Element(c) = Want(file, offsets, <<l, name>>, 0, c)
  BY <1>1, BankIs DEF Loaded
<1> HIDE DEF Element
<1>4. \A c \in DOMAIN value : value[c] = Want(file, offsets, <<l, name>>, 0, c)
  BY <1>3 DEF Columns
<1> HIDE DEF value
<1>5. QED
  BY <1>2, <1>4, FineRead

\* The final norm.
LEMMA ReadFinalNormIs ==
  ASSUME LoadInv, phase = "ready", ReadFinalNorm
  PROVE  ReadIsFine
<1> DEFINE weight == offsets[OutputNorm] \div 4
           win == RmsNormWindow(weight, 0, file.hidden, plan)
           Element(c) ==
             Plain(ExtractBits(ReadBlob(Binding(chunks, win, plan), weight - WindowBase(win, plan) + c), 0, 32))
           value == [ c \in Columns(file.hidden) |-> Element(c) ]
<1>1. Loaded(file, offsets, plan, chunks)
  BY ReadyIs
<1>2. Got(OutputNorm, "final_norm", 0, win, value)
  BY DEF ReadFinalNorm
<1>3. ASSUME NEW c \in 0 .. file.hidden - 1
      PROVE  win # NoWindow /\ Element(c) = Want(file, offsets, OutputNorm, 0, c)
  BY <1>1, FinalNormIs
<1>4. file.hidden \in Nat \ {0}
  BY <1>1, HeadIsThere DEF HeadIs
<1>5. win # NoWindow
  <2>1. 0 \in 0 .. file.hidden - 1
    BY <1>4
  <2>2. QED
    BY <1>3, <2>1
<1> HIDE DEF Element, win
<1>6. \A c \in DOMAIN value : value[c] = Want(file, offsets, OutputNorm, 0, c)
  BY <1>3 DEF Columns
<1> HIDE DEF value
<1>7. /\ row' = [tensor |-> OutputNorm, via |-> "final_norm", index |-> 0, got |-> value]
      /\ UNCHANGED <<phase, code>>
  BY <1>2, <1>5, GotIs
<1>8. QED
  BY <1>6, <1>7, FineRead

-----------------------------------------------------------------------------
(* Reads of the embedding and of the head.                                 *)

\* The embedding of a token, on a word boundary.
LEMMA ReadEmbeddingIs ==
  ASSUME LoadInv, phase = "ready", NEW index \in Sample(file.vocab), ReadEmbedding(index)
  PROVE  ReadIsFine
<1> DEFINE byte == offsets[Embedding] + index * RowBytes(file, "token_embd")
           win == DequantWindow(byte \div 4, file.hidden, Format(file, "token_embd"), plan)
           base == (byte \div 4) - WindowBase(win, plan)
           Element(c) ==
             DequantAnyElement(Binding(chunks, win, plan), base,
                               FormulaSlot(Format(file, "token_embd")), 0, c)
           value == [ c \in Columns(file.hidden) |-> Element(c) ]
<1>1. Loaded(file, offsets, plan, chunks) /\ index \in 0 .. file.vocab - 1
  BY ReadyIs, SampleIs
<1>2. Got(Embedding, "embedding", index, win, value)
  BY DEF ReadEmbedding, EmbeddingWindow
<1>3. /\ win # NoWindow
      /\ byte % 4 = 0 => \A c \in 0 .. file.hidden - 1 :
           Element(c) = Want(file, offsets, Embedding, index, c)
  BY <1>1, EmbeddingIs
<1> HIDE DEF Element, win
<1>4. byte % 4 = 0 => \A c \in DOMAIN value : value[c] = Want(file, offsets, Embedding, index, c)
  BY <1>3 DEF Columns
<1> HIDE DEF value
<1>5. /\ row' = [tensor |-> Embedding, via |-> "embedding", index |-> index, got |-> value]
      /\ UNCHANGED <<phase, code>>
  BY <1>2, <1>3, GotIs
<1>6. QED
  BY <1>4, <1>5, FineRead

\* The expanded head: each of its elements was written once.
LEMMA ReadHeadF32Is ==
  ASSUME LoadInv, phase = "ready", NEW index \in Sample(file.vocab), ReadHeadF32(index)
  PROVE  ReadIsFine
<1> DEFINE t == HeadTensor(file)
           Written(c) == ExpandedAt(file, offsets, index * file.hidden + c)
           value == [ c \in Columns(file.hidden) |->
                        IF Cardinality(Written(c)) = 1 THEN CHOOSE x \in Written(c) : TRUE
                        ELSE Plain(<<>>) ]
<1>1. /\ Loaded(file, offsets, plan, chunks) /\ index \in 0 .. file.vocab - 1
      /\ Format(file, HeadTensor(file)[2]) \in CpuFormats
  BY ReadyIs, SampleIs
<1>2. HeadIs(file, offsets, plan) /\ index \in Nat
  BY <1>1, HeadIsThere
<1>3. /\ row' = [tensor |-> t, via |-> "head_f32", index |-> index, got |-> value]
      /\ UNCHANGED <<phase, code>>
  BY DEF ReadHeadF32, ExpandedAt
<1>4. ASSUME NEW c \in 0 .. file.hidden - 1
      PROVE  Written(c) = {Want(file, offsets, t, index, c)}
  BY <1>1, <1>2, HeadF32Is
<1> HIDE DEF Written, t
<1>5. ASSUME NEW c \in DOMAIN value
      PROVE  value[c] = Want(file, offsets, t, index, c)
  <2>1. c \in 0 .. file.hidden - 1
    BY <1>5 DEF Columns
  <2>2. Written(c) = {Want(file, offsets, t, index, c)}
    BY <1>4, <2>1
  <2>3. Cardinality(Written(c)) = 1
    BY <2>2, FS_Singleton
  <2>4. (CHOOSE x \in Written(c) : TRUE) = Want(file, offsets, t, index, c)
    BY <2>2
  <2>5. QED
    BY <1>5, <2>3, <2>4
<1> HIDE DEF value
<1>6. QED
  BY <1>3, <1>5, FineRead

\* Rows of the head read from the blob through a window that has them.
LEMMA HeadRowsAreFine ==
  ASSUME LoadInv, phase = "ready", NEW index \in 0 .. file.vocab - 1,
         NEW from \in Nat, NEW n \in Nat \ {0}, from <= index, index <= from + n - 1,
         HeadRange(file, offsets, from, n, plan) # NoWindow, NEW via, via # "embedding",
         HeadRows(index, HeadRange(file, offsets, from, n, plan), via)
  PROVE  ReadIsFine
<1> DEFINE t == HeadTensor(file)
           win == HeadRange(file, offsets, from, n, plan)
           Element(c) ==
             HeadElement(Binding(chunks, win, plan), Rebase(offsets[t] \div 4, win, plan),
                         FormulaSlot(Format(file, t[2])), file.hidden, index, c)
           value == [ c \in Columns(file.hidden) |-> Element(c) ]
<1>1. Loaded(file, offsets, plan, chunks) /\ Format(file, HeadTensor(file)[2]) # "Q5_0"
  BY ReadyIs DEF CpuFormats
<1>2. Got(t, via, index, win, value)
  BY DEF HeadRows
<1>3. ASSUME NEW c \in 0 .. file.hidden - 1
      PROVE  Element(c) = Want(file, offsets, t, index, c)
  BY <1>1, HeadBlobIs
<1> HIDE DEF Element, win, t
<1>4. \A c \in DOMAIN value : value[c] = Want(file, offsets, t, index, c)
  BY <1>3 DEF Columns
<1>5. win # NoWindow
  BY DEF win
<1> HIDE DEF value
<1>6. /\ row' = [tensor |-> t, via |-> via, index |-> index, got |-> value]
      /\ UNCHANGED <<phase, code>>
  BY <1>2, <1>5, GotIs
<1>7. QED
  BY <1>4, <1>6, FineRead

\* The head in the blob: all rows at once, or tile by tile.
LEMMA ReadHeadBlobIs ==
  ASSUME LoadInv, phase = "ready", NEW index \in Sample(file.vocab), NEW groups \in TileGroups,
         ReadHeadBlob(index, groups)
  PROVE  ReadIsFine
<1> DEFINE total == DivCeil(file.vocab, TileRows)
           first == (index \div (TileRows * groups)) * groups
           n == AtMost(total - first, groups) * TileRows
           from == first * TileRows
<1>1. /\ Loaded(file, offsets, plan, chunks) /\ index \in 0 .. file.vocab - 1
      /\ groups \in Nat \ {0}
  BY ReadyIs, SampleIs, WeightsAssumption
<1>2. file.vocab \in Nat \ {0}
  BY <1>1, HeadIsThere DEF HeadIs
<1>3. HeadRange(file, offsets, 0, file.vocab, plan) # NoWindow
  BY <1>1, <1>2, HeadFits
<1>4. \/ HeadRows(index, HeadRange(file, offsets, 0, file.vocab, plan), "head")
      \/ HeadRows(index, HeadRange(file, offsets, from, n, plan), "tile")
  BY DEF ReadHeadBlob, HeadWindow, HeadRange
<1>5. CASE HeadRows(index, HeadRange(file, offsets, 0, file.vocab, plan), "head")
  <2>1. 0 <= index /\ index <= 0 + file.vocab - 1
    BY <1>1, <1>2
  <2>2. QED
    BY <1>1, <1>2, <1>3, <1>5, <2>1, HeadRowsAreFine
<1>6. CASE HeadRows(index, HeadRange(file, offsets, from, n, plan), "tile")
  <2>1. /\ from \in Nat /\ n \in Nat \ {0} /\ from <= index /\ index <= from + n - 1
        /\ file.vocab % TileRows = 0 => from + n <= file.vocab
    BY <1>1, <1>2, TileIs
  <2> HIDE DEF from, n
  <2>2. CASE HeadRange(file, offsets, from, n, plan) # NoWindow
    BY <1>1, <1>6, <2>1, <2>2, HeadRowsAreFine
  <2>3. CASE HeadRange(file, offsets, from, n, plan) = NoWindow
    <3>1. file.vocab % TileRows # 0
      BY <1>1, <2>1, <2>3, HeadFits
    <3>2. /\ phase' = "stopped" /\ code' = "window"
          /\ row' = [tensor |-> HeadTensor(file), via |-> "tile", index |-> index, got |-> <<>>]
      BY <1>6, <2>3 DEF HeadRows, Got
    <3>3. RowRight(file, offsets, row')
      BY <3>2 DEF RowRight
    <3>4. Right(row')
      BY <3>3 DEF Right
    <3>5. QED
      BY <3>1, <3>2, <3>4 DEF ReadIsFine
  <2>4. QED
    BY <2>2, <2>3
<1>7. QED
  BY <1>4, <1>5, <1>6

-----------------------------------------------------------------------------
(* Every step.                                                             *)

\* A read keeps what it reads from, and its row is right.
LEMMA ReadKeeps ==
  LoadInv /\ Read => IInv'
<1> SUFFICES ASSUME LoadInv, Read PROVE IInv'
  OBVIOUS
<1>1. /\ phase = "ready"
      /\ UNCHANGED <<file, offsets, layers, spec, limits, plan, chunks, scope, head>>
  BY DEF Read
<1>2. ReadIsFine
  <2>1. CASE \E l \in 0 .. file.layers - 1 : \E name \in Matrices :
               \E index \in Sample(Rows(file, name)) :
                 \/ ReadQkv(l, name, index) \/ ReadAttnProj(l, name, index)
                 \/ ReadFfnProj(l, name, index) \/ ReadFfnDown(l, name, index)
    BY <1>1, <2>1, ProjectionIs
  <2>2. CASE \E l \in 0 .. file.layers - 1 :
               \E name \in {"attn_q_norm", "attn_k_norm"} \cap Range(LayerNames(file)) :
                 ReadHeadNorm(l, name)
    BY <1>1, <2>2, ReadHeadNormIs
  <2>3. CASE \E l \in 0 .. file.layers - 1 : \E name \in {"attn_norm", "ffn_norm"} : ReadNorm(l, name)
    BY <1>1, <2>3, ReadNormIs
  <2>4. CASE ReadFinalNorm
    BY <1>1, <2>4, ReadFinalNormIs
  <2>5. CASE \E index \in Sample(file.vocab) : ReadEmbedding(index)
    BY <1>1, <2>5, ReadEmbeddingIs
  <2>6. CASE \E index \in Sample(file.vocab) : ReadHeadF32(index)
    BY <1>1, <2>6, ReadHeadF32Is
  <2>7. CASE \E index \in Sample(file.vocab) : \E groups \in TileGroups : ReadHeadBlob(index, groups)
    BY <1>1, <2>7, ReadHeadBlobIs
  <2>8. QED
    BY <2>1, <2>2, <2>3, <2>4, <2>5, <2>6, <2>7 DEF Read
<1>3. /\ phase' \in {"ready", "stopped"}
      /\ phase' = "ready" => code' = code
      /\ phase' = "stopped" => code' = "window" /\ row'.via = "tile" /\ file.vocab % TileRows # 0
  BY <1>1, <1>2 DEF ReadIsFine
<1>4. FileInv /\ CodeInv /\ DeviceInv /\ PlanInv /\ HeadInv /\ ScopeInv
  BY DEF LoadInv
<1>5. file \in Files /\ Admitted /\ ChunksInv
  BY <1>1, PlanHolds
<1>6. Admitted' /\ ChunksInv'
  BY <1>1, <1>5 DEF Admitted, ChunksInv
<1>7. FileInv' /\ CodeInv'
  BY <1>1, <1>3, <1>4, <1>5, <1>6 DEF FileInv, Phases, CodeInv, CodeFits, RefusalCodes
<1>8. DeviceInv' /\ HeadInv' /\ ScopeInv' /\ RowInv'
  BY <1>1, <1>3, <1>4 DEF DeviceInv, HeadInv, ScopeInv, RowInv
<1>9. PlanInv'
  BY <1>1, <1>3, <1>4, <1>6 DEF PlanInv
<1>10. WeightsAreRight'
  <2>1. RowRight(file, offsets, row') => RowIsRight'
    BY <1>1 DEF RowRight, RowIsRight, Wanted, Want, FileBlock, Bits, BlockStart, RowBytes
  <2>2. (IsKey' <=> row'.tensor[2] = "attn_k") /\ (KeyLooksLikeQuery' <=> KeyLooksLikeQuery)
        /\ (WordAligned'
              <=> (offsets[Embedding] + row'.index * RowBytes(file, "token_embd")) % 4 = 0)
    BY <1>1 DEF IsKey, KeyLooksLikeQuery, WordAligned
  <2>3. Right(row')
    BY <1>2 DEF ReadIsFine
  <2>4. QED
    BY <2>1, <2>2, <2>3 DEF WeightsAreRight, Right
<1>11. QED
  BY <1>7, <1>8, <1>9, <1>10 DEF IInv, LoadInv

\* Before a model is ready nothing was read.
LEMMA NothingRead ==
  ASSUME LoadInv, phase \notin {"ready", "stopped"}, row' = row
  PROVE  WeightsAreRight'
  BY DEF LoadInv, RowInv, WeightsAreRight, NoRow

\* Every step keeps the invariant.
LEMMA StepKeeps ==
  IInv /\ [Next]_vars => IInv'
<1> SUFFICES ASSUME IInv, [Next]_vars PROVE IInv'
  OBVIOUS
<1>1. LoadInv /\ WeightsAreRight
  BY DEF IInv
<1>2. CASE Admit
  BY <1>1, <1>2, AdmitKeeps, NothingRead DEF IInv, Admit
<1>3. ASSUME NEW seq \in Adapters, Adapter(seq)
      PROVE  IInv'
  <2>1. phase = "adapter" /\ row' = row
    BY <1>3 DEF Adapter
  <2>2. LoadInv'
    BY <1>1, <1>3, AdapterKeeps
  <2>3. WeightsAreRight'
    BY <1>1, <2>1, NothingRead
  <2>4. QED
    BY <2>2, <2>3 DEF IInv
<1>4. CASE RequestDevice
  BY <1>1, <1>4, RequestKeeps, NothingRead DEF IInv, RequestDevice
<1>5. CASE CheckLoad
  BY <1>1, <1>5, CheckKeeps, NothingRead DEF IInv, CheckLoad
<1>6. CASE UploadChunk
  BY <1>1, <1>6, UploadKeeps, NothingRead DEF IInv, UploadChunk
<1>7. CASE LoadHead
  BY <1>1, <1>7, HeadKeeps, NothingRead DEF IInv, LoadHead
<1>8. CASE PopScopes
  BY <1>1, <1>8, PopKeeps, NothingRead DEF IInv, PopScopes
<1>9. CASE Read
  BY <1>1, <1>9, ReadKeeps
<1>10. CASE UNCHANGED vars
  <2>1. FileInv' /\ CodeInv' /\ DeviceInv' /\ PlanInv'
    BY <1>1, <1>10 DEF vars, LoadInv, FileInv, Admitted, CodeInv, DeviceInv, PlanInv, ChunksInv
  <2>2. HeadInv' /\ ScopeInv' /\ RowInv'
    BY <1>1, <1>10 DEF vars, LoadInv, HeadInv, ScopeInv, RowInv
  <2>3. WeightsAreRight'
    BY <1>1, <1>10 DEF vars, WeightsAreRight, IsKey, KeyLooksLikeQuery, WordAligned, RowIsRight, Wanted
  <2>4. QED
    BY <2>1, <2>2, <2>3 DEF IInv, LoadInv
<1>11. QED
  BY <1>2, <1>3, <1>4, <1>5, <1>6, <1>7, <1>8, <1>9, <1>10 DEF Next

-----------------------------------------------------------------------------
(* The theorems.                                                           *)

\* The load goes through its phases with what each of them has established,
\* and every row that was read is right.
THEOREM LoadIsInductive ==
  Spec => []IInv
<1>1. QED
  BY InitIs, StepKeeps, PTL DEF Spec

\* Every dispatch of an admitted model computes with the bits the registry
\* of formulas names: for every file, limit, chunk plan, row and tile.
THEOREM EveryRowIsRight ==
  Spec => []WeightsAreRight
<1>1. IInv => WeightsAreRight
  BY DEF IInv
<1>2. QED
  BY <1>1, LoadIsInductive, PTL

\* Each tensor of an admitted layer has a packed offset other than zero.
LEMMA TensorsAreThere ==
  LoadInv => NoTensorIsMissing
<1> SUFFICES ASSUME LoadInv, NEW l \in DOMAIN layers, NEW t \in DOMAIN layers[l].packed
             PROVE  layers[l].packed[t] > 0
  BY DEF NoTensorIsMissing
<1>1. Admitted /\ file \in Files
  <2>1. layers = <<>> => DOMAIN layers = {}
    OBVIOUS
  <2>2. layers # <<>>
    BY <2>1
  <2>3. QED
    BY <2>2 DEF LoadInv, FileInv
<1>2. l \in 0 .. file.layers - 1 /\ layers[l] = CompileLayer(file, l, offsets)
  BY <1>1 DEF Admitted, CompileLayers
<1>3. Placed(file, offsets) /\ Descriptor(file) = OK
  BY <1>1, AdmittedIs DEF Admitted
<1>4. /\ DOMAIN layers[l].packed = InLayer(file, l)
      /\ \A u \in InLayer(file, l) : layers[l].packed[u] \in Nat \ {0}
  BY <1>1, <1>2, <1>3, LayerTableIs
<1>5. layers[l].packed[t] \in Nat \ {0}
  BY <1>4
<1>6. QED
  BY <1>5

\* What check_device accepts can be bound: no window is missing but that of
\* a tile past the vocabulary.
THEOREM AdmittedCanDispatch ==
  Spec => []AdmittedIsDispatchable
<1>1. IInv => AdmittedIsDispatchable
  BY TensorsAreThere DEF IInv, LoadInv, RowInv, AdmittedIsDispatchable
<1>2. QED
  BY <1>1, LoadIsInductive, PTL

\* The chunks of a ready model are its file.
LEMMA ReadyIsResident ==
  LoadInv => ReadyMeansResident
<1> SUFFICES ASSUME LoadInv, phase = "ready"
             PROVE  /\ scope = "empty" /\ head # "none"
                    /\ chunks[1][1] = 0 /\ chunks[Len(chunks)][2] = FileSize(file, offsets)
                    /\ \A c \in 1 .. Len(chunks) - 1 : chunks[c][2] = chunks[c + 1][1]
                    /\ \A c \in DOMAIN chunks :
                         chunks[c][2] - chunks[c][1] <= AtMost(limits.binding, limits.buffer)
  BY DEF ReadyMeansResident
<1> DEFINE size == FileSize(file, offsets)
           bytes == plan.bytes
           count == plan.count
<1>1. scope = "empty" /\ head # "none" /\ Len(chunks) = count
  BY DEF LoadInv, ScopeInv, HeadInv, PlanInv
<1>2. /\ size \in Nat \ {0} /\ IsPlan(plan, size) /\ ChunksInv
      /\ Sufficient(file, spec, offsets, limits) /\ plan = SplitOf(file, offsets, limits)
      /\ limits \in LimitSet /\ bytes <= limits.binding
  BY PlanHolds
<1>3. bytes <= AtMost(limits.binding, limits.buffer)
  BY <1>2 DEF Sufficient, AtMost
<1>4. AtMost(limits.binding, limits.buffer) \in Nat
  BY <1>2 DEF LimitSet, AtMost
<1>5. bytes \in Nat /\ count \in Nat /\ size <= bytes * count
  BY <1>2 DEF IsPlan
<1>6. count > 0
  <2>1. bytes * 0 = 0
    BY <1>5
  <2>2. QED
    BY <1>2, <1>5, <2>1
<1>7. bytes * (count - 1) < size
  BY <1>2, <1>6 DEF IsPlan
<1>8. chunks \in Seq(Nat \X Nat) /\ DOMAIN chunks = 1 .. count
  BY <1>1, <1>2 DEF ChunksInv
<1>9. ASSUME NEW c \in 1 .. count
      PROVE  /\ chunks[c] \in Nat \X Nat /\ chunks[c][1] = bytes * (c - 1)
             /\ chunks[c][2] = AtMost(bytes * c, size)
             /\ bytes * (c - 1) \in Nat /\ bytes * c \in Nat
             /\ bytes * c = bytes * (c - 1) + bytes
  <2>1. chunks[c] = ChunkRange(plan, size, c - 1) /\ c - 1 \in Nat /\ (c - 1) + 1 = c
    BY <1>1, <1>2, <1>9 DEF ChunksInv
  <2>2. PICK k \in Nat : k = c - 1 /\ k + 1 = c
    BY <2>1
  <2>3. /\ ChunkRange(plan, size, k) \in Nat \X Nat
        /\ ChunkRange(plan, size, k)[1] = k * bytes
        /\ ChunkRange(plan, size, k)[2] = AtMost((k + 1) * bytes, size)
        /\ k * bytes \in Nat /\ (k + 1) * bytes \in Nat
        /\ (k + 1) * bytes = k * bytes + bytes
    <3>1. IsPlan(plan, size) /\ k \in Nat
      BY <1>2, <2>2
    <3> HIDE DEF size
    <3>2. /\ ChunkRange(plan, size, k) \in Nat \X Nat
          /\ ChunkRange(plan, size, k)[1] = k * plan.bytes
          /\ ChunkRange(plan, size, k)[2] = AtMost((k + 1) * plan.bytes, size)
          /\ k * plan.bytes \in Nat /\ (k + 1) * plan.bytes \in Nat
          /\ (k + 1) * plan.bytes = k * plan.bytes + plan.bytes
      BY ONLY <3>1, ChunkIs
    <3>3. QED
      BY <3>2, Zenon
  <2>4. \A m \in Nat, n \in Nat : m * n = n * m
    OBVIOUS
  <2>5. k * bytes = bytes * k /\ (k + 1) * bytes = bytes * c
    BY <1>5, <2>2, <2>4
  <2> HIDE DEF size, bytes
  <2>6. chunks[c] = ChunkRange(plan, size, k) /\ k = c - 1
    BY <2>1, <2>2
  <2>7. QED
    BY <2>3, <2>5, <2>6
<1> HIDE DEF size, bytes, count
<1>10. chunks[1][1] = 0
  <2>1. bytes * (1 - 1) = 0
    BY <1>5
  <2>2. QED
    BY <1>5, <1>6, <1>9, <2>1
<1>11. chunks[count][2] = size
  <2>1. count \in 1 .. count
    BY <1>5, <1>6
  <2>2. chunks[count][2] = AtMost(bytes * count, size) /\ bytes * count \in Nat
    BY <1>9, <2>1
  <2>3. QED
    BY <1>2, <1>5, <2>2 DEF AtMost
<1>12. ASSUME NEW c \in 1 .. count - 1
       PROVE  chunks[c][2] = chunks[c + 1][1]
  <2>1. c \in 1 .. count /\ c + 1 \in 1 .. count /\ (c + 1) - 1 = c /\ c \in Nat
        /\ count - 1 \in Nat /\ c <= count - 1
    BY <1>5
  <2>2. bytes * c <= bytes * (count - 1) /\ bytes * c \in Nat /\ bytes * (count - 1) \in Nat
    BY <1>5, <2>1, ProductGrows
  <2>3. bytes * c < size
    BY <1>2, <1>7, <2>2
  <2>4. chunks[c][2] = AtMost(bytes * c, size) /\ chunks[c + 1][1] = bytes * c
    BY <1>9, <2>1
  <2>5. QED
    BY <2>3, <2>4 DEF AtMost
<1>13. ASSUME NEW c \in 1 .. count
       PROVE  chunks[c][2] - chunks[c][1] <= AtMost(limits.binding, limits.buffer)
  <2> DEFINE from == bytes * (c - 1)
             to == bytes * c
             most == AtMost(limits.binding, limits.buffer)
  <2>1. /\ chunks[c][1] = from /\ chunks[c][2] = AtMost(to, size)
        /\ from \in Nat /\ to \in Nat /\ to = from + bytes
    BY <1>9
  <2> HIDE DEF from, to, most
  <2>2. AtMost(to, size) <= to /\ AtMost(to, size) \in Nat
    BY <1>2, <2>1 DEF AtMost
  <2>3. bytes <= most /\ most \in Nat
    BY <1>3, <1>4 DEF most
  <2>4. chunks[c][2] - chunks[c][1] <= most
    BY <1>5, <2>1, <2>2, <2>3
  <2>5. QED
    BY <2>4 DEF most
<1>14. QED
  BY <1>1, <1>8, <1>10, <1>11, <1>12, <1>13 DEF size, count

\* A ready model is the whole file in order, within the limits of the device,
\* and none of its allocations failed.
THEOREM ReadyIsWhole ==
  Spec => []ReadyMeansResident
<1>1. IInv => ReadyMeansResident
  BY ReadyIsResident DEF IInv
<1>2. QED
  BY <1>1, LoadIsInductive, PTL

\* No operator of the plan refuses what the descriptor accepted, and the
\* specification differs only as far as the keys of the file allow.
LEMMA DerivationsDoAgree ==
  LoadInv => DerivationsAgree
<1> SUFFICES ASSUME LoadInv PROVE DerivationsAgree
  OBVIOUS
<1>1. CodeInv
  BY DEF LoadInv
<1>2. ASSUME NEW op \in DOMAIN OperatorCode
      PROVE  OperatorCode[op] \notin RefusalCodes \cup {OK}
  BY DEF OperatorCode, RefusalCodes, LoadCodes, Codes, DeviceCodes, OK
<1>3. QED
  BY <1>1, <1>2 DEF CodeInv, CodeFits, DerivationsAgree

\* A check that is made twice is answered the same way twice, by every path
\* of a load that the code has two of.
THEOREM ChecksDoAgree ==
  Spec => ChecksAgree
<1>1. IInv => DerivationsAgree
  BY DerivationsDoAgree DEF IInv
<1>2. ASSUME IInv, Next, phase = "check"
      PROVE  code' \in {OK, "unsupported_file_alignment"}
  <2>1. CheckLoad
    BY <1>2 DEF Next, Admit, Adapter, RequestDevice, UploadChunk, LoadHead, PopScopes, Read
  <2>2. QED
    BY <1>2, <2>1, CheckedAgain DEF IInv
<1>3. IInv /\ DerivationsAgree' /\ [Next]_vars
        => [/\ DerivationsAgree'
            /\ phase = "check" => code' \in {OK, "unsupported_file_alignment"}]_vars
  BY <1>2
<1>4. QED
  BY <1>1, <1>3, LoadIsInductive, PTL DEF Spec, ChecksAgree

\* What the kernels of an admitted model run on is what its plan was checked
\* and budgeted for, in whatever order the keys of its metadata came.
THEOREM SpecDoesFollow ==
  Spec => []SpecFollowsPlan
<1>1. IInv => SpecFollowsPlan
  <2> SUFFICES ASSUME IInv, phase \notin {"admission", "refused"} PROVE Follows(file, spec)
    BY Zenon DEF SpecFollowsPlan, Follows
  <2>1. QED
    BY DEF IInv, LoadInv, FileInv, Admitted
<1>2. QED
  BY <1>1, LoadIsInductive, PTL
=============================================================================
