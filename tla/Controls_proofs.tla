-------------------------- MODULE Controls_proofs --------------------------
(***************************************************************************)
(* The invariants of Controls, for every set of tokens, patterns,          *)
(* sentences, answers and chains.                                          *)
(*                                                                         *)
(* The text and the scan are folds over sequences.  Their values are those *)
(* of each step (FoldValues), and induction over the delta shows that the  *)
(* scanner is right (ScanCorrect).  IInv says of each control what it      *)
(* knows about the streamed text, before and after it is asked about a     *)
(* candidate.                                                              *)
(***************************************************************************)
EXTENDS Controls, SequenceTheorems, WellFoundedInduction, TLAPS

-----------------------------------------------------------------------------
(* Induction over numbers and sequences, and the values of a fold, by step.
   The theorems of the library take a property as an operator: here it is a
   set, T == {n \in Nat : P(n)}. *)

\* Every nonempty set of natural numbers has a least element.
LEMMA LeastElement ==
  ASSUME NEW T, T \subseteq Nat, T # {}
  PROVE  \E x \in T : \A y \in T : x <= y
<1> DEFINE R == OpToRel(<,Nat)
<1>1. IsWellFoundedOn(R, Nat)
  BY NatLessThanWellFounded
<1>2. \A x, y \in Nat : <<y, x>> \in R <=> y < x
  BY DEF OpToRel
<1> HIDE DEF R
<1>3. PICK x \in T : \A y \in T : ~ (<<y, x>> \in R)
  BY <1>1, WFMin
<1>4. \A y \in T : ~(y < x)
  BY <1>2, <1>3
<1>5. \A y \in T : y \in Nat /\ x \in Nat
  OBVIOUS
<1>6. \A y \in T : x <= y
  BY <1>4, <1>5
<1>7. QED
  BY <1>6

\* A set that holds 0 and every successor of its numbers holds them all.
LEMMA Induction ==
  ASSUME NEW T, 0 \in T, \A n \in Nat : n \in T => n + 1 \in T
  PROVE  Nat \subseteq T
<1> DEFINE C == {n \in Nat : n \notin T}
<1>1. SUFFICES ASSUME C # {} PROVE FALSE
  OBVIOUS
<1>2. PICK x \in C : \A y \in C : x <= y
  <2>1. C \subseteq Nat OBVIOUS
  <2> HIDE DEF C
  <2>2. QED BY <1>1, <2>1, LeastElement
<1>3. x # 0 /\ x \in Nat
  OBVIOUS
<1>4. x - 1 \in Nat /\ x - 1 \notin C
  BY <1>2, <1>3
<1>5. QED
  BY <1>4, <1>3

\* A set that holds the empty sequence, and with a sequence each one that is
\* longer by an element, holds all sequences.
LEMMA SeqInduction ==
  ASSUME NEW S, NEW T, <<>> \in T,
         \A s \in Seq(S), e \in S : s \in T => Append(s, e) \in T
  PROVE  Seq(S) \subseteq T
<1> DEFINE N == {n \in Nat : \A s \in Seq(S) : Len(s) = n => s \in T}
<1>1. 0 \in N
  OBVIOUS
<1>2. ASSUME NEW n \in Nat, n \in N PROVE n + 1 \in N
  <2>1. SUFFICES ASSUME NEW s \in Seq(S), Len(s) = n + 1 PROVE s \in T
    OBVIOUS
  <2>2. s # <<>>
    BY <2>1
  <2>3. PICK t \in Seq(S), e \in S : s = Append(t, e)
    BY <2>2, SequenceEmptyOrAppend
  <2>4. Len(t) = n
    BY <2>1, <2>3, AppendProperties
  <2>5. QED
    BY <1>2, <2>3, <2>4
<1>3. Nat \subseteq N
  <2> HIDE DEF N
  <2>1. QED
    BY <1>1, <1>2, Induction
<1>4. QED
  BY <1>3

\* The largest element of a set of positive numbers that holds the bound.
LEMMA MaxIsLargest ==
  ASSUME NEW n \in Nat, NEW s \in SUBSET (1 .. n + 1), n + 1 \in s
  PROVE  Max(s) = n + 1
<1>1. \A y \in s : y \in Nat /\ n + 1 >= y
  OBVIOUS
<1>2. \A x \in s : (\A y \in s : x >= y) => x = n + 1
  BY <1>1
<1>3. QED
  BY <1>1, <1>2 DEF Max

\* A nonempty set of numbers up to n holds its largest element.
LEMMA MaxExists ==
  ASSUME NEW n \in Nat, NEW s \in SUBSET (1 .. n), s # {}
  PROVE  Max(s) \in s /\ \A y \in s : Max(s) >= y
<1> DEFINE T == {k \in Nat : n - k \in s}
<1>1. T \subseteq Nat /\ T # {}
  <2>1. PICK y \in s : TRUE
    OBVIOUS
  <2>2. n - y \in Nat /\ n - (n - y) = y
    OBVIOUS
  <2>3. QED
    BY <2>2
<1>2. PICK k \in T : \A j \in T : k <= j
  <2> HIDE DEF T
  <2>1. QED
    BY <1>1, LeastElement
<1>3. n - k \in s
  OBVIOUS
<1>4. ASSUME NEW y \in s PROVE n - k >= y
  <2>1. n - y \in T
    OBVIOUS
  <2>2. k <= n - y
    BY <1>2, <2>1
  <2>3. k \in Nat /\ y \in Nat
    OBVIOUS
  <2> HIDE DEF T
  <2>4. QED
    BY <2>2, <2>3
<1>5. \E x \in s : \A y \in s : x >= y
  BY <1>3, <1>4
<1>6. QED
  BY <1>5 DEF Max

\* f folds step over every subset of 1 .. n, its largest element last.
FoldsOver(f, A, base, step, n) ==
  /\ f \in [SUBSET (1 .. n) -> A]
  /\ \A s \in SUBSET (1 .. n) :
       f[s] = IF s = {} THEN base ELSE step[<<f[s \ {Max(s)}], Max(s)>>]

\* Such an f exists, for every length.
LEMMA FoldExists ==
  ASSUME NEW A, NEW base \in A, NEW step \in [A \X Nat -> A]
  PROVE  \A n \in Nat : \E f : FoldsOver(f, A, base, step, n)
<1> DEFINE T == {n \in Nat : \E f : FoldsOver(f, A, base, step, n)}
<1>1. 0 \in T
  <2> DEFINE f == [s \in SUBSET (1 .. 0) |-> base]
  <2>1. 1 .. 0 = {}
    OBVIOUS
  <2>2. FoldsOver(f, A, base, step, 0)
    BY <2>1 DEF FoldsOver
  <2>3. QED
    BY <2>2
<1>2. ASSUME NEW n \in Nat, n \in T PROVE n + 1 \in T
  <2>1. PICK g : FoldsOver(g, A, base, step, n)
    BY <1>2
  <2> DEFINE S == SUBSET (1 .. n)
             S1 == SUBSET (1 .. n + 1)
             f == [s \in S1 |-> IF n + 1 \in s THEN step[<<g[s \ {n + 1}], n + 1>>] ELSE g[s]]
  <2>2. \A s \in S1 : s \ {n + 1} \in S
    OBVIOUS
  <2>3. \A s \in S1 : n + 1 \notin s => s \in S
    OBVIOUS
  <2>4. \A s \in S : g[s] \in A
    BY <2>1 DEF FoldsOver
  <2>5. f \in [S1 -> A]
    <3>1. ASSUME NEW s \in S1
          PROVE  (IF n + 1 \in s THEN step[<<g[s \ {n + 1}], n + 1>>] ELSE g[s]) \in A
      <4>1. CASE n + 1 \in s
        <5>1. g[s \ {n + 1}] \in A
          BY <2>2, <2>4
        <5>2. QED
          BY <5>1, <4>1
      <4>2. CASE n + 1 \notin s
        BY <4>2, <2>3, <2>4
      <4>3. QED
        BY <4>1, <4>2
    <3>2. QED
      BY <3>1
  <2>6. ASSUME NEW s \in S1
        PROVE  f[s] = IF s = {} THEN base ELSE step[<<f[s \ {Max(s)}], Max(s)>>]
    <3>1. CASE n + 1 \in s
      <4>1. Max(s) = n + 1
        BY <3>1, MaxIsLargest
      <4>2. s \ {n + 1} \in S1 /\ n + 1 \notin s \ {n + 1}
        OBVIOUS
      <4>3. f[s \ {n + 1}] = g[s \ {n + 1}]
        BY <4>2
      <4>4. f[s] = step[<<g[s \ {n + 1}], n + 1>>]
        BY <3>1
      <4>5. QED
        BY <3>1, <4>1, <4>3, <4>4
    <3>2. CASE n + 1 \notin s
      <4>1. s \in S /\ f[s] = g[s]
        BY <3>2, <2>3
      <4>2. f[s \ {Max(s)}] = g[s \ {Max(s)}]
        BY <3>2
      <4>3. QED
        BY <4>1, <4>2, <2>1 DEF FoldsOver
    <3>3. QED
      BY <3>1, <3>2
  <2>7. FoldsOver(f, A, base, step, n + 1)
    BY <2>5, <2>6 DEF FoldsOver
  <2>8. QED
    BY <2>7
<1>3. Nat \subseteq T
  <2> HIDE DEF T
  <2>1. QED
    BY <1>1, <1>2, Induction
<1>4. QED
  BY <1>3

\* Peeling the largest number off 1 .. k leaves 1 .. k - 1.
LEMMA PrefixIsPeeled ==
  ASSUME NEW n \in Nat, NEW k \in 1 .. n
  PROVE  1 .. k # {} /\ Max(1 .. k) = k /\ (1 .. k) \ {k} = 1 .. (k - 1)
<1>1. /\ k - 1 \in Nat /\ 1 .. k \in SUBSET (1 .. (k - 1) + 1)
      /\ (k - 1) + 1 \in 1 .. k /\ (k - 1) + 1 = k
  OBVIOUS
<1>2. Max(1 .. k) = (k - 1) + 1
  BY <1>1, MaxIsLargest
<1>3. QED
  BY <1>1, <1>2

\* The values of a fold after each of its steps.
FoldValues(F, A, base, step, n) ==
  /\ F \in [0 .. n -> A]
  /\ F[0] = base
  /\ \A i \in 1 .. n : F[i] = step[<<F[i - 1], i>>]

\* They exist.
LEMMA ValuesExist ==
  ASSUME NEW A, NEW base \in A, NEW step \in [A \X Nat -> A], NEW n \in Nat
  PROVE  \E F : FoldValues(F, A, base, step, n)
<1>1. PICK f : FoldsOver(f, A, base, step, n)
  BY FoldExists
<1> DEFINE F == [k \in 0 .. n |-> f[1 .. k]]
<1>2. \A k \in 0 .. n : 1 .. k \in SUBSET (1 .. n)
  OBVIOUS
<1>3. F \in [0 .. n -> A]
  BY <1>1, <1>2 DEF FoldsOver
<1>4. F[0] = base
  <2>1. 1 .. 0 = {}
    OBVIOUS
  <2>2. F[0] = f[{}]
    BY <2>1
  <2>3. QED
    BY <2>2, <1>1 DEF FoldsOver
<1>5. ASSUME NEW i \in 1 .. n PROVE F[i] = step[<<F[i - 1], i>>]
  <2>1. 1 .. i # {} /\ Max(1 .. i) = i /\ (1 .. i) \ {i} = 1 .. (i - 1)
    BY PrefixIsPeeled
  <2>2. 1 .. i \in SUBSET (1 .. n) /\ i \in 0 .. n /\ i - 1 \in 0 .. n
    OBVIOUS
  <2>3. f[1 .. i] = step[<<f[1 .. (i - 1)], i>>]
    BY <1>1, <2>1, <2>2 DEF FoldsOver
  <2>4. QED
    BY <2>2, <2>3
<1>6. QED
  BY <1>3, <1>4, <1>5 DEF FoldValues

\* A function that takes each step from a typed value, whatever it is
\* elsewhere: what the CHOOSE in the definition of a fold is shown to be.
PeelsOff(g, A, base, step, n) ==
  /\ g[{}] = base
  /\ \A s \in SUBSET (1 .. n) :
       s # {} /\ g[s \ {Max(s)}] \in A => g[s] = step[<<g[s \ {Max(s)}], Max(s)>>]

\* On the intervals from 1 it has the values of the fold.
LEMMA PeelingHasValues ==
  ASSUME NEW A, NEW base, NEW step, NEW n \in Nat, NEW g, NEW F,
         PeelsOff(g, A, base, step, n), FoldValues(F, A, base, step, n)
  PROVE  g[1 .. n] = F[n]
<1> DEFINE T == {k \in Nat : k <= n => g[1 .. k] = F[k]}
<1>1. 0 \in T
  <2>1. 1 .. 0 = {}
    OBVIOUS
  <2>2. g[1 .. 0] = base
    BY <2>1 DEF PeelsOff
  <2>3. QED
    BY <2>2 DEF FoldValues
<1>2. ASSUME NEW k \in Nat, k \in T PROVE k + 1 \in T
  <2>1. SUFFICES ASSUME k + 1 <= n PROVE g[1 .. k + 1] = F[k + 1]
    OBVIOUS
  <2>2. k + 1 \in 1 .. n /\ (k + 1) - 1 = k /\ k \in 0 .. n /\ k <= n
    BY <2>1
  <2>3. 1 .. k + 1 # {} /\ Max(1 .. k + 1) = k + 1 /\ (1 .. k + 1) \ {k + 1} = 1 .. k
    BY <2>2, PrefixIsPeeled
  <2>4. 1 .. k + 1 \in SUBSET (1 .. n)
    BY <2>2
  <2>5. g[1 .. k] = F[k] /\ F[k] \in A
    BY <1>2, <2>2 DEF FoldValues
  <2>6. g[1 .. k + 1] = step[<<g[1 .. k], k + 1>>]
    BY <2>3, <2>4, <2>5 DEF PeelsOff
  <2>7. F[k + 1] = step[<<F[k], k + 1>>]
    BY <2>2 DEF FoldValues
  <2>8. QED
    BY <2>5, <2>6, <2>7
<1>3. Nat \subseteq T
  <2> HIDE DEF T
  <2>1. QED
    BY <1>1, <1>2, Induction
<1>4. QED
  BY <1>3

\* Two folds agree on their first n steps.
Agree(short, step, A, n) == \A a \in A, i \in 1 .. n : short[<<a, i>>] = step[<<a, i>>]

\* Then the values of the longer one are those of the shorter one.
LEMMA ValuesOfFront ==
  ASSUME NEW A, NEW base, NEW n \in Nat, NEW m, NEW step, NEW short, NEW F,
         m = n + 1, FoldValues(F, A, base, step, m), Agree(short, step, A, n)
  PROVE  /\ F[n] \in A /\ F[m] = step[<<F[n], m>>]
         /\ \E G : FoldValues(G, A, base, short, n) /\ G[n] = F[n]
<1> DEFINE G == [i \in 0 .. n |-> F[i]]
<1>1. F \in [0 .. m -> A] /\ F[0] = base
  BY DEF FoldValues
<1>2. G \in [0 .. n -> A] /\ G[0] = base /\ G[n] = F[n]
  BY <1>1
<1>3. ASSUME NEW i \in 1 .. n PROVE G[i] = short[<<G[i - 1], i>>]
  <2>1. i \in 1 .. m /\ i \in 0 .. n /\ i - 1 \in 0 .. n /\ i - 1 \in 0 .. m
    OBVIOUS
  <2>2. F[i] = step[<<F[i - 1], i>>] /\ F[i - 1] \in A
    BY <1>1, <2>1 DEF FoldValues
  <2>3. G[i] = F[i] /\ G[i - 1] = F[i - 1]
    BY <2>1
  <2> HIDE DEF G
  <2>4. QED
    BY <2>2, <2>3 DEF Agree
<1>4. FoldValues(G, A, base, short, n) /\ G[n] = F[n]
  <2> HIDE DEF G
  <2>1. QED
    BY <1>2, <1>3 DEF FoldValues
<1>5. F[m] = step[<<F[n], m>>]
  <2>1. m \in 1 .. m /\ m - 1 = n
    OBVIOUS
  <2>2. F[m] = step[<<F[m - 1], m>>]
    BY <2>1 DEF FoldValues
  <2>3. QED
    BY <2>1, <2>2
<1>6. F[n] \in A
  BY <1>1
<1>7. QED
  BY <1>4, <1>5, <1>6

-----------------------------------------------------------------------------
(* Pieces of text                                                          *)

\* One step of TextOf, as a function.
TextStep(s) == [p \in Seq(Chars) \X Nat |->
                  IF p[2] \in 1 .. Len(s) THEN p[1] \o Piece[s[p[2]]] ELSE <<>>]

\* Its type and its value on an element of the sequence.
LEMMA TextStepIs ==
  ASSUME NEW s \in Seq(Tokens)
  PROVE  /\ TextStep(s) \in [Seq(Chars) \X Nat -> Seq(Chars)]
         /\ \A a \in Seq(Chars), m \in 1 .. Len(s) :
              TextStep(s)[<<a, m>>] = a \o Piece[s[m]]
<1> DEFINE A == Seq(Chars)
<1>1. TextStep(s) \in [A \X Nat -> A]
  BY TextTypes DEF TextStep
<1>2. ASSUME NEW a \in A, NEW m \in 1 .. Len(s)
      PROVE  TextStep(s)[<<a, m>>] = a \o Piece[s[m]]
  <2> DEFINE p == <<a, m>>
  <2>1. p \in A \X Nat /\ p[1] = a /\ p[2] = m
    OBVIOUS
  <2>2. TextStep(s) = [q \in A \X Nat |->
                         IF q[2] \in 1 .. Len(s) THEN q[1] \o Piece[s[q[2]]] ELSE <<>>]
    BY DEF TextStep
  <2> HIDE DEF p, A
  <2>3. TextStep(s)[p] = a \o Piece[s[m]]
    BY <2>1, <2>2
  <2>4. QED
    BY <2>3 DEF p
<1>3. QED
  BY <1>1, <1>2

\* TextOf is the fold of its steps.
LEMMA TextIsFold ==
  ASSUME NEW s \in Seq(Tokens), NEW F,
         FoldValues(F, Seq(Chars), <<>>, TextStep(s), Len(s))
  PROVE  TextOf(s) = F[Len(s)]
<1> DEFINE A == Seq(Chars)
           n == Len(s)
           D == SUBSET (1 .. n)
           IsIter(f) == f = [x \in D |-> IF x = {} THEN <<>>
                                         ELSE f[x \ {Max(x)}] \o Piece[s[Max(x)]]]
           Steps(f) == \A x \in D : f[x] = IF x = {} THEN <<>>
                                         ELSE f[x \ {Max(x)}] \o Piece[s[Max(x)]]
           iter == CHOOSE f : IsIter(f)
<1>1. TextOf(s) = iter[1 .. n]
  <2>1. DOMAIN s = 1 .. n
    OBVIOUS
  <2>2. QED
    BY <2>1 DEF TextOf, FoldLeft, MapThenFoldSet
<1>2. n \in Nat /\ <<>> \in A
  OBVIOUS
<1>3. \A x \in D : x # {} => Max(x) \in 1 .. n
  <2> HIDE DEF n
  <2>1. QED
    BY <1>2, MaxExists
<1>4. PICK f : FoldsOver(f, A, <<>>, TextStep(s), n)
  <2> HIDE DEF A
  <2>1. QED
    BY <1>2, TextStepIs, FoldExists DEF A
<1>5. IsIter(f)
  <2>1. ASSUME NEW x \in D, x # {}
        PROVE  f[x] = f[x \ {Max(x)}] \o Piece[s[Max(x)]]
    <3>1. f[x \ {Max(x)}] \in A /\ f[x] = TextStep(s)[<<f[x \ {Max(x)}], Max(x)>>]
      BY <2>1, <1>4 DEF FoldsOver
    <3>2. QED
      BY <1>3, <2>1, <3>1, TextStepIs
  <2>2. f \in [D -> A] /\ f[{}] = <<>>
    BY <1>4 DEF FoldsOver
  <2>3. QED
    BY <2>1, <2>2
<1>6. Steps(iter)
  <2>1. \A g : IsIter(g) => Steps(g)
    OBVIOUS
  <2>2. IsIter(iter)
    <3> HIDE DEF IsIter
    <3>1. QED
      BY <1>5
  <2> HIDE DEF IsIter, Steps, iter
  <2>3. QED
    BY <2>1, <2>2
<1> HIDE DEF iter
<1>7. PeelsOff(iter, A, <<>>, TextStep(s), n)
  <2>1. iter[{}] = <<>>
    BY <1>6
  <2>2. ASSUME NEW x \in D, x # {}, iter[x \ {Max(x)}] \in A
        PROVE  iter[x] = TextStep(s)[<<iter[x \ {Max(x)}], Max(x)>>]
    <3>1. iter[x] = iter[x \ {Max(x)}] \o Piece[s[Max(x)]]
      BY <1>6, <2>2
    <3>2. QED
      BY <3>1, <1>3, <2>2, TextStepIs
  <2>3. QED
    BY <2>1, <2>2 DEF PeelsOff
<1>8. iter[1 .. n] = F[n]
  <2>1. TextStep(s) \in [A \X Nat -> A] /\ FoldValues(F, A, <<>>, TextStep(s), n)
    BY TextStepIs
  <2> HIDE DEF A, n, Steps
  <2>2. QED
    BY <1>2, <1>7, <2>1, PeelingHasValues
<1>9. QED
  BY <1>1, <1>8

\* The text of a longer answer is the shorter one's with the new piece.
LEMMA TextAppend ==
  /\ TextOf(<<>>) = <<>>
  /\ \A s \in Seq(Tokens) : TextOf(s) \in Seq(Chars)
  /\ \A s \in Seq(Tokens), t \in Tokens :
       TextOf(Append(s, t)) = TextOf(s) \o Piece[t]
<1> DEFINE A == Seq(Chars)
<1>1. <<>> \in A
  OBVIOUS
<1>2. ASSUME NEW s \in Seq(Tokens)
      PROVE  TextOf(s) \in A /\ (s = <<>> => TextOf(s) = <<>>)
  <2>1. Len(s) \in Nat /\ (s = <<>> => Len(s) = 0)
    OBVIOUS
  <2>2. TextStep(s) \in [A \X Nat -> A]
    BY TextStepIs
  <2>3. PICK F : FoldValues(F, A, <<>>, TextStep(s), Len(s))
    <3> HIDE DEF A
    <3>1. QED
      BY <1>1, <2>1, <2>2, ValuesExist
  <2>4. TextOf(s) = F[Len(s)]
    BY <2>3, TextIsFold
  <2> HIDE DEF A
  <2>5. QED
    BY <2>1, <2>3, <2>4 DEF FoldValues
<1>3. ASSUME NEW s \in Seq(Tokens), NEW t \in Tokens
      PROVE  TextOf(Append(s, t)) = TextOf(s) \o Piece[t]
  <2> DEFINE u == Append(s, t)
             n == Len(s)
  <2>1. u \in Seq(Tokens) /\ n \in Nat
    OBVIOUS
  <2>2. Len(u) = n + 1 /\ u[n + 1] = t /\ \A i \in 1 .. n : u[i] = s[i]
    OBVIOUS
  <2>3. u = Append(s, t) /\ n = Len(s)
    OBVIOUS
  <2> HIDE DEF u, n
  <2>4. TextStep(u) \in [A \X Nat -> A] /\ TextStep(s) \in [A \X Nat -> A]
    BY <2>1, TextStepIs
  <2>5. PICK F : FoldValues(F, A, <<>>, TextStep(u), Len(u))
    <3>1. Len(u) \in Nat
      BY <2>1
    <3> HIDE DEF A
    <3>2. QED
      BY <1>1, <2>4, <3>1, ValuesExist
  <2>6. Agree(TextStep(s), TextStep(u), A, n)
    <3>1. ASSUME NEW a \in A, NEW i \in 1 .. n
          PROVE  TextStep(s)[<<a, i>>] = TextStep(u)[<<a, i>>]
      <4>1. i \in 1 .. Len(s) /\ i \in 1 .. Len(u) /\ s[i] = u[i]
        BY <2>1, <2>2, <2>3
      <4>2. QED
        BY ZenonT(60), <2>1, <4>1, TextStepIs
    <3>2. QED
      BY <3>1 DEF Agree
  <2>7. /\ F[n] \in A /\ F[Len(u)] = TextStep(u)[<<F[n], Len(u)>>]
        /\ \E G : FoldValues(G, A, <<>>, TextStep(s), n) /\ G[n] = F[n]
    <3> HIDE DEF A
    <3>1. QED
      BY <2>1, <2>2, <2>5, <2>6, ValuesOfFront
  <2>8. TextOf(u) = F[Len(u)] /\ TextOf(s) = F[n]
    BY <2>1, <2>2, <2>3, <2>5, <2>7, TextIsFold
  <2>9. F[Len(u)] = F[n] \o Piece[t]
    <3>1. Len(u) \in 1 .. Len(u) /\ u[Len(u)] = t
      BY <2>1, <2>2
    <3>2. QED
      BY <2>1, <2>2, <2>7, <3>1, TextStepIs
  <2>10. QED
    BY <2>3, <2>8, <2>9
<1>4. <<>> \in Seq(Tokens)
  OBVIOUS
<1>5. QED
  BY <1>2, <1>3, <1>4


-----------------------------------------------------------------------------
(* The scanner: the state is the longest suffix of what was read that      *)
(* begins a pattern.                                                       *)

\* x ends s; x begins p.
Ends(x, s) == /\ Len(x) <= Len(s)
              /\ \A k \in 1 .. Len(x) : s[Len(s) - Len(x) + k] = x[k]

Begins(x, p) == /\ Len(x) <= Len(p)
                /\ \A k \in 1 .. Len(x) : x[k] = p[k]

\* IsPrefix and IsSuffix, element by element.
LEMMA IsPrefixBegins ==
  ASSUME NEW x \in Seq(Chars), NEW p \in Seq(Chars)
  PROVE  IsPrefix(x, p) <=> Begins(x, p)
<1> DEFINE n == Len(x)
<1>1. n \in Nat
  OBVIOUS
<1>2. CASE n <= Len(p)
  <2>1. /\ SubSeq(x, 1, n) \in Seq(Chars) /\ SubSeq(p, 1, n) \in Seq(Chars)
        /\ Len(SubSeq(x, 1, n)) = n /\ Len(SubSeq(p, 1, n)) = n
        /\ \A k \in 1 .. n : SubSeq(x, 1, n)[k] = x[k] /\ SubSeq(p, 1, n)[k] = p[k]
    BY <1>1, <1>2
  <2>2. SubSeq(x, 1, n) = SubSeq(p, 1, n) <=> \A k \in 1 .. n : x[k] = p[k]
    <3> DEFINE a == SubSeq(x, 1, n)
               b == SubSeq(p, 1, n)
    <3>1. /\ a \in Seq(Chars) /\ b \in Seq(Chars) /\ Len(a) = n /\ Len(b) = n
          /\ \A k \in 1 .. n : a[k] = x[k] /\ b[k] = p[k]
      BY <2>1
    <3> HIDE DEF a, b, n
    <3>2. ASSUME \A k \in 1 .. n : x[k] = p[k] PROVE a = b
      BY <3>1, <3>2, SeqEqual
    <3>3. ASSUME a = b PROVE \A k \in 1 .. n : x[k] = p[k]
      BY <3>1, <3>3
    <3>4. QED
      BY <3>2, <3>3 DEF a, b
  <2>3. QED
    BY <1>2, <2>2 DEF IsPrefix, Begins
<1>3. CASE ~(n <= Len(p))
  BY <1>3 DEF IsPrefix, Begins
<1>4. QED
  BY <1>2, <1>3

\* What Reverse, which IsSuffix is defined by, returns.
LEMMA ReverseIs ==
  ASSUME NEW s \in Seq(Chars)
  PROVE  /\ Reverse(s) \in Seq(Chars) /\ Len(Reverse(s)) = Len(s)
         /\ \A k \in 1 .. Len(s) : Reverse(s)[k] = s[Len(s) - k + 1]
<1>1. \A k \in 1 .. Len(s) : (Len(s) - k) + 1 \in 1 .. Len(s)
  OBVIOUS
<1>2. QED
  BY <1>1 DEF Reverse

\* A suffix is a sequence that ends the other.
LEMMA IsSuffixEnds ==
  ASSUME NEW x \in Seq(Chars), NEW s \in Seq(Chars)
  PROVE  IsSuffix(x, s) <=> Ends(x, s)
<1> DEFINE n == Len(x)
           m == Len(s)
<1>1. n \in Nat /\ m \in Nat /\ Len(Reverse(x)) = n /\ Len(Reverse(s)) = m
  BY ReverseIs
<1>2. IsSuffix(x, s) <=> Begins(Reverse(x), Reverse(s))
  BY ReverseIs, IsPrefixBegins DEF IsSuffix
<1>3. ASSUME n <= m, \A k \in 1 .. n : Reverse(x)[k] = Reverse(s)[k]
      PROVE  \A k \in 1 .. n : s[m - n + k] = x[k]
  <2>1. ASSUME NEW k \in 1 .. n PROVE s[m - n + k] = x[k]
    <3> DEFINE j == n - k + 1
    <3> HIDE DEF n, m
    <3>1. j \in 1 .. n /\ j \in 1 .. m /\ n - j + 1 = k /\ m - j + 1 = m - n + k
      BY <1>1, <1>3
    <3> HIDE DEF j
    <3>2. Reverse(x)[j] = x[n - j + 1] /\ Reverse(s)[j] = s[m - j + 1]
      BY <3>1, ReverseIs DEF n, m
    <3>3. Reverse(x)[j] = Reverse(s)[j]
      BY <3>1, <1>3
    <3>4. QED
      BY <3>1, <3>2, <3>3
  <2>2. QED
    BY <2>1
<1>4. ASSUME n <= m, \A k \in 1 .. n : s[m - n + k] = x[k]
      PROVE  \A k \in 1 .. n : Reverse(x)[k] = Reverse(s)[k]
  <2>1. ASSUME NEW k \in 1 .. n PROVE Reverse(x)[k] = Reverse(s)[k]
    <3> DEFINE j == n - k + 1
    <3> HIDE DEF n, m
    <3>1. j \in 1 .. n /\ k \in 1 .. m /\ n - k + 1 = j /\ m - k + 1 = m - n + j
      BY <1>1, <1>4
    <3> HIDE DEF j
    <3>2. Reverse(x)[k] = x[n - k + 1] /\ Reverse(s)[k] = s[m - k + 1]
      BY <3>1, ReverseIs DEF n, m
    <3>3. s[m - n + j] = x[j]
      BY <3>1, <1>4
    <3>4. QED
      BY <3>1, <3>2, <3>3
  <2>2. QED
    BY <2>1
<1>5. QED
  BY <1>1, <1>2, <1>3, <1>4 DEF Begins, Ends

Live(x) == x = <<>> \/ \E p \in Rejects : Begins(x, p)

\* q is the state after reading s.
Tracks(q, s) ==
  /\ Ends(q, s) /\ Live(q)
  /\ \A x \in Seq(Chars) : Ends(x, s) /\ Live(x) => Len(x) <= Len(q)

\* A set of sequences of bounded length has a longest one.
LEMMA LongestExists ==
  ASSUME NEW S, NEW n \in Nat, S # {},
         \A x \in S : x \in Seq(Chars) /\ Len(x) <= n
  PROVE  \E x \in S : \A y \in S : Len(y) <= Len(x)
<1> DEFINE T == {k \in Nat : \E x \in S : Len(x) = n - k}
<1>1. T \subseteq Nat /\ T # {}
  <2>1. PICK x \in S : TRUE
    OBVIOUS
  <2>2. Len(x) \in Nat /\ n - Len(x) \in Nat /\ n - (n - Len(x)) = Len(x)
    BY <2>1
  <2>3. QED
    BY <2>1, <2>2
<1>2. PICK k \in T : \A j \in T : k <= j
  <2> HIDE DEF T
  <2>1. QED
    BY <1>1, LeastElement
<1>3. PICK x \in S : Len(x) = n - k
  OBVIOUS
<1>4. ASSUME NEW y \in S PROVE Len(y) <= Len(x)
  <2>1. Len(y) \in Nat /\ n - Len(y) \in Nat /\ n - (n - Len(y)) = Len(y)
    OBVIOUS
  <2>2. n - Len(y) \in T
    BY <2>1
  <2>3. k <= n - Len(y)
    BY <1>2, <2>2
  <2>4. k \in Nat
    OBVIOUS
  <2> HIDE DEF T
  <2>5. QED
    BY <1>3, <2>1, <2>3, <2>4
<1>5. QED
  BY <1>4

\* NextSid picks a longest live suffix of what it read.
LEMMA NextSidIs ==
  ASSUME NEW q \in Seq(Chars), NEW c \in Chars
  PROVE  Tracks(NextSid(q, c), Append(q, c)) /\ NextSid(q, c) \in Seq(Chars)
<1> DEFINE read == Append(q, c)
           m == Len(read)
           tails == {SubSeq(read, i, m) : i \in 1 .. m + 1}
           live == {x \in tails : x = <<>> \/ \E p \in Rejects : IsPrefix(x, p)}
<1>1. read \in Seq(Chars) /\ m \in Nat
  OBVIOUS
<1>2. ASSUME NEW i \in 1 .. m + 1
      PROVE  /\ SubSeq(read, i, m) \in Seq(Chars)
             /\ Len(SubSeq(read, i, m)) = m + 1 - i
             /\ \A k \in 1 .. m + 1 - i : SubSeq(read, i, m)[k] = read[i + k - 1]
  <2> HIDE DEF read
  <2>1. QED
    BY <1>1
<1>3. ASSUME NEW x \in tails
      PROVE  x \in Seq(Chars) /\ Ends(x, read)
  <2>1. PICK i \in 1 .. m + 1 : x = SubSeq(read, i, m)
    BY <1>3
  <2> HIDE DEF read, tails, live, m
  <2>2. x \in Seq(Chars) /\ Len(x) = m + 1 - i /\ \A k \in 1 .. Len(x) : x[k] = read[i + k - 1]
    BY <1>2, <2>1
  <2>3. \A k \in 1 .. Len(x) : m - Len(x) + k = i + k - 1
    BY <1>1, <2>2
  <2>4. Len(x) <= m
    BY <1>1, <2>2
  <2>5. QED
    BY <2>2, <2>3, <2>4 DEF Ends, m
<1>4. ASSUME NEW x \in Seq(Chars), Ends(x, read)
      PROVE  x \in tails
  <2> DEFINE i == m + 1 - Len(x)
  <2>1. Len(x) \in Nat /\ Len(x) <= m
    BY <1>4 DEF Ends
  <2>2. i \in 1 .. m + 1 /\ m + 1 - i = Len(x) /\ \A k \in 1 .. Len(x) : i + k - 1 = m - Len(x) + k
    BY <1>1, <2>1
  <2> DEFINE y == SubSeq(read, i, m)
  <2>3. y \in tails
    BY <2>2
  <2> HIDE DEF read, tails, live, m, i
  <2>4. y \in Seq(Chars) /\ Len(y) = Len(x) /\ \A k \in 1 .. Len(x) : y[k] = read[m - Len(x) + k]
    BY <1>2, <2>2
  <2>5. \A k \in 1 .. Len(x) : y[k] = x[k]
    BY <2>4, <1>4 DEF Ends, m
  <2> HIDE DEF y
  <2>6. x = y
    BY <2>4, <2>5, SeqEqual
  <2>7. QED
    BY <2>3, <2>6
<1>5. \A x \in tails : x \in live <=> Live(x)
  <2>1. \A x \in tails, p \in Rejects : IsPrefix(x, p) <=> Begins(x, p)
    <3> HIDE DEF tails
    <3>1. QED
      BY <1>3, IsPrefixBegins, TextTypes
  <2> HIDE DEF tails
  <2>2. QED
    BY <2>1 DEF Live
<1>6. \E x \in live : \A y \in live : Len(y) <= Len(x)
  <2>1. <<>> \in live
    <3>1. <<>> \in Seq(Chars) /\ Ends(<<>>, read)
      BY <1>1 DEF Ends
    <3>2. QED
      BY <3>1, <1>4, <1>5 DEF Live
  <2>2. \A x \in live : x \in Seq(Chars) /\ Len(x) <= m
    <3>1. \A x \in live : x \in tails
      OBVIOUS
    <3> HIDE DEF live, tails
    <3>2. QED
      BY <3>1, <1>3 DEF Ends
  <2> HIDE DEF live, m
  <2>3. QED
    BY <1>1, <2>1, <2>2, LongestExists
<1>7. NextSid(q, c) = CHOOSE x \in live : \A y \in live : Len(y) <= Len(x)
  BY DEF NextSid
<1>8. NextSid(q, c) \in live /\ \A y \in live : Len(y) <= Len(NextSid(q, c))
  <2> HIDE DEF live
  <2>1. QED
    BY <1>6, <1>7
<1>9. \A x \in live : x \in tails
  OBVIOUS
<1>10. NextSid(q, c) \in tails
  BY <1>8, <1>9
<1> HIDE DEF live, tails, m
<1>11. QED
  BY <1>3, <1>4, <1>5, <1>8, <1>10 DEF Tracks, read


\* The longest live suffix of the old state and a character is that of the
\* whole text and the character.
LEMMA TracksAppend ==
  ASSUME NEW q \in Seq(Chars), NEW s \in Seq(Chars), NEW c \in Chars, Tracks(q, s),
         NEW r \in Seq(Chars), Tracks(r, Append(q, c))
  PROVE  Tracks(r, Append(s, c))
<1> DEFINE v == Append(q, c)
           u == Append(s, c)
<1>1. /\ u \in Seq(Chars) /\ v \in Seq(Chars) /\ Len(u) = Len(s) + 1 /\ Len(v) = Len(q) + 1
      /\ u[Len(s) + 1] = c /\ v[Len(q) + 1] = c
      /\ \A k \in 1 .. Len(s) : u[k] = s[k]
      /\ \A k \in 1 .. Len(q) : v[k] = q[k]
      /\ Len(q) \in Nat /\ Len(s) \in Nat
  OBVIOUS
<1> HIDE DEF u, v
<1>2. Len(q) <= Len(s) /\ \A k \in 1 .. Len(q) : s[Len(s) - Len(q) + k] = q[k]
  BY DEF Tracks, Ends
<1>3. Ends(v, u)
  <2>1. ASSUME NEW k \in 1 .. Len(v) PROVE u[Len(u) - Len(v) + k] = v[k]
    <3>1. CASE k = Len(v)
      BY <3>1, <1>1, <1>2
    <3>2. CASE k # Len(v)
      <4>1. /\ k \in 1 .. Len(q) /\ Len(u) - Len(v) + k = Len(s) - Len(q) + k
            /\ Len(s) - Len(q) + k \in 1 .. Len(s)
        BY <3>2, <1>1, <1>2
      <4>2. QED
        BY <4>1, <1>1, <1>2
    <3>3. QED
      BY <3>1, <3>2
  <2>2. Len(v) <= Len(u)
    BY <1>1, <1>2
  <2>3. QED
    BY <2>1, <2>2 DEF Ends
<1>4. Ends(r, u)
  <2>1. Ends(r, v)
    BY DEF Tracks, v
  <2>2. Len(r) \in Nat /\ Len(v) \in Nat /\ Len(u) \in Nat /\ Len(r) <= Len(v) /\ Len(v) <= Len(u)
    BY <1>1, <1>3, <2>1 DEF Ends
  <2>3. ASSUME NEW k \in 1 .. Len(r) PROVE u[Len(u) - Len(r) + k] = r[k]
    <3> DEFINE j == Len(v) - Len(r) + k
    <3>1. j \in 1 .. Len(v) /\ Len(u) - Len(v) + j = Len(u) - Len(r) + k
      BY <2>2
    <3> HIDE DEF j
    <3>2. u[Len(u) - Len(v) + j] = v[j]
      BY <3>1, <1>3 DEF Ends
    <3>3. v[Len(v) - Len(r) + k] = r[k]
      BY <2>1 DEF Ends
    <3>4. QED
      BY <3>1, <3>2, <3>3 DEF j
  <2>4. QED
    BY <2>2, <2>3 DEF Ends
<1>5. ASSUME NEW x \in Seq(Chars), Ends(x, u), Live(x) PROVE Len(x) <= Len(r)
  <2>1. CASE x = <<>>
    BY <2>1
  <2>2. CASE x # <<>>
    <3> DEFINE l == Len(x) - 1
               y == SubSeq(x, 1, l)
    <3>1. l \in Nat /\ Len(x) = l + 1 /\ l + 1 <= Len(s) + 1
      BY <2>2, <1>5, <1>1 DEF Ends
    <3>2. y \in Seq(Chars) /\ Len(y) = l /\ \A k \in 1 .. l : y[k] = x[k]
      BY <3>1
    <3> HIDE DEF l, y
    <3>3. Ends(y, s)
      <4>1. ASSUME NEW k \in 1 .. l PROVE s[Len(s) - l + k] = y[k]
        <5>1. Len(u) - Len(x) + k = Len(s) - l + k /\ Len(s) - l + k \in 1 .. Len(s) /\ k \in 1 .. Len(x)
          BY <1>1, <3>1
        <5>2. u[Len(u) - Len(x) + k] = x[k]
          BY <5>1, <1>5 DEF Ends
        <5>3. QED
          BY <5>1, <5>2, <1>1, <3>2
      <4>2. l <= Len(s)
        BY <1>1, <3>1
      <4>3. QED
        BY <4>1, <4>2, <3>2 DEF Ends
    <3>4. Live(y)
      <4>1. PICK p \in Rejects : Begins(x, p)
        BY <1>5, <2>2 DEF Live
      <4>2. p \in Seq(Chars)
        BY TextTypes
      <4>3. Begins(y, p)
        BY <3>1, <3>2, <4>1, <4>2 DEF Begins
      <4>4. QED
        BY <4>3 DEF Live
    <3>5. l <= Len(q)
      BY <3>2, <3>3, <3>4 DEF Tracks
    <3>6. Ends(x, v)
      <4>1. ASSUME NEW k \in 1 .. Len(x) PROVE v[Len(v) - Len(x) + k] = x[k]
        <5> DEFINE j == Len(v) - Len(x) + k
        <5>1. j \in 1 .. Len(v) /\ Len(u) - Len(v) + j = Len(u) - Len(x) + k
          BY <1>1, <3>1, <3>5
        <5> HIDE DEF j
        <5>2. u[Len(u) - Len(v) + j] = v[j]
          BY <5>1, <1>3 DEF Ends
        <5>3. u[Len(u) - Len(x) + k] = x[k]
          BY <1>5 DEF Ends
        <5>4. QED
          BY <5>1, <5>2, <5>3 DEF j
      <4>2. Len(x) <= Len(v)
        BY <1>1, <3>1, <3>5
      <4>3. QED
        BY <4>1, <4>2 DEF Ends
    <3>7. QED
      BY <1>5, <3>6 DEF Tracks, v
  <2>3. QED
    BY <2>1, <2>2
<1>6. QED
  BY <1>4, <1>5 DEF Tracks, u


\* In the state of s a pattern hits exactly if it ends s.
LEMMA HitIff ==
  ASSUME NEW q \in Seq(Chars), NEW s \in Seq(Chars), Tracks(q, s)
  PROVE  Hit(q) <=> \E p \in Rejects : Ends(p, s)
<1>1. ASSUME NEW p \in Rejects PROVE Ends(p, q) <=> Ends(p, s)
  <2>1. p \in Seq(Chars) /\ Begins(p, p) /\ Live(p)
    <3>1. p \in Seq(Chars)
      BY TextTypes
    <3>2. QED
      BY <3>1 DEF Begins, Live
  <2>2. Len(p) \in Nat /\ Len(q) \in Nat /\ Len(s) \in Nat /\ Len(q) <= Len(s)
    BY <2>1 DEF Tracks, Ends
  <2>3. ASSUME Ends(p, s) PROVE Ends(p, q)
    <3>1. Len(p) <= Len(q)
      BY <2>1, <2>3 DEF Tracks
    <3>2. ASSUME NEW k \in 1 .. Len(p) PROVE q[Len(q) - Len(p) + k] = p[k]
      <4> DEFINE j == Len(q) - Len(p) + k
      <4>1. j \in 1 .. Len(q) /\ Len(s) - Len(q) + j = Len(s) - Len(p) + k
        BY <2>2, <3>1
      <4> HIDE DEF j
      <4>2. s[Len(s) - Len(q) + j] = q[j]
        BY <4>1 DEF Tracks, Ends
      <4>3. s[Len(s) - Len(p) + k] = p[k]
        BY <2>3 DEF Ends
      <4>4. QED
        BY <4>1, <4>2, <4>3 DEF j
    <3>3. QED
      BY <3>1, <3>2 DEF Ends
  <2>4. ASSUME Ends(p, q) PROVE Ends(p, s)
    <3>1. Len(p) <= Len(q) /\ Len(p) <= Len(s)
      BY <2>2, <2>4 DEF Ends
    <3>2. ASSUME NEW k \in 1 .. Len(p) PROVE s[Len(s) - Len(p) + k] = p[k]
      <4> DEFINE j == Len(q) - Len(p) + k
      <4>1. j \in 1 .. Len(q) /\ Len(s) - Len(q) + j = Len(s) - Len(p) + k
        BY <2>2, <3>1
      <4> HIDE DEF j
      <4>2. s[Len(s) - Len(q) + j] = q[j]
        BY <4>1 DEF Tracks, Ends
      <4>3. q[Len(q) - Len(p) + k] = p[k]
        BY <2>4 DEF Ends
      <4>4. QED
        BY <4>1, <4>2, <4>3 DEF j
    <3>3. QED
      BY <3>1, <3>2 DEF Ends
  <2>5. QED
    BY <2>3, <2>4
<1>2. \A p \in Rejects : IsSuffix(p, q) <=> Ends(p, q)
  BY IsSuffixEnds, TextTypes
<1>3. QED
  BY <1>1, <1>2 DEF Hit

\* p occurs in s when it ends at some position.
LEMMA OccursIff ==
  ASSUME NEW s \in Seq(Chars), NEW p \in Seq(Chars)
  PROVE  Occurs(s, p) <=> \E i \in 0 .. Len(s) - Len(p) :
                             \A k \in 1 .. Len(p) : s[i + k] = p[k]
<1> DEFINE n == Len(p)
           m == Len(s)
<1>1. n \in Nat /\ m \in Nat
  OBVIOUS
<1>2. ASSUME NEW i \in 0 .. m - n
      PROVE  SubSeq(s, i + 1, i + n) = p <=> \A k \in 1 .. n : s[i + k] = p[k]
  <2> DEFINE b == SubSeq(s, i + 1, i + n)
  <2>1. /\ b \in Seq(Chars) /\ Len(b) = n
        /\ \A k \in 1 .. n : b[k] = s[i + k]
    BY <1>1
  <2> HIDE DEF b
  <2>2. ASSUME \A k \in 1 .. n : s[i + k] = p[k] PROVE b = p
    BY <2>1, <2>2, SeqEqual
  <2>3. ASSUME b = p PROVE \A k \in 1 .. n : s[i + k] = p[k]
    BY <2>1, <2>3
  <2>4. QED
    BY <2>2, <2>3 DEF b
<1>3. QED
  BY <1>2 DEF Occurs

Clean(s) == \A p \in Rejects : ~Occurs(s, p)

\* A pattern in a longer text is in the shorter one, or ends with it.
LEMMA OccursAppend ==
  ASSUME NEW s \in Seq(Chars), NEW c \in Chars, NEW p \in Rejects
  PROVE  Occurs(Append(s, c), p) <=> Occurs(s, p) \/ Ends(p, Append(s, c))
<1> DEFINE u == Append(s, c)
           n == Len(p)
           m == Len(s)
<1>1. /\ u \in Seq(Chars) /\ p \in Seq(Chars) /\ Len(u) = m + 1 /\ m \in Nat /\ n \in Nat
      /\ \A k \in 1 .. m : u[k] = s[k]
  BY TextTypes
<1>2. n > 0
  <2>1. p # <<>> /\ p \in Seq(Chars)
    BY SentencesVisible, TextTypes
  <2>2. QED
    BY <2>1
<1> HIDE DEF u, n, m
<1> USE DEF n
<1>3. ASSUME Occurs(s, p) PROVE Occurs(u, p)
  <2>1. PICK i \in 0 .. m - n : \A k \in 1 .. n : s[i + k] = p[k]
    BY <1>1, <1>3, OccursIff DEF m
  <2>2. i \in 0 .. Len(u) - n /\ \A k \in 1 .. n : i + k \in 1 .. m
    BY <1>1
  <2>3. \A k \in 1 .. n : u[i + k] = p[k]
    BY <1>1, <2>1, <2>2
  <2>4. QED
    BY <1>1, <2>2, <2>3, OccursIff
<1>4. ASSUME Ends(p, u) PROVE Occurs(u, p)
  <2>1. n <= Len(u) /\ \A k \in 1 .. n : u[Len(u) - n + k] = p[k]
    BY <1>4 DEF Ends
  <2>2. Len(u) - n \in 0 .. Len(u) - n
    BY <1>1, <2>1
  <2>3. QED
    BY <1>1, <2>1, <2>2, OccursIff
<1>5. ASSUME Occurs(u, p), ~Ends(p, u) PROVE Occurs(s, p)
  <2>1. PICK i \in 0 .. Len(u) - n : \A k \in 1 .. n : u[i + k] = p[k]
    BY <1>1, <1>5, OccursIff
  <2>2. i # Len(u) - n
    <3>1. SUFFICES ASSUME i = Len(u) - n PROVE FALSE
      OBVIOUS
    <3>2. n <= Len(u)
      BY <1>1
    <3>3. QED
      BY <3>1, <3>2, <2>1, <1>5 DEF Ends
  <2>3. i \in 0 .. m - n /\ \A k \in 1 .. n : i + k \in 1 .. m
    BY <1>1, <2>2
  <2>4. \A k \in 1 .. n : s[i + k] = p[k]
    BY <1>1, <2>1, <2>3
  <2>5. QED
    BY <1>1, <2>3, <2>4, OccursIff DEF m
<1>6. QED
  BY <1>3, <1>4, <1>5 DEF u

\* A clean text stays clean unless a pattern ends with the new character.
LEMMA CleanAppend ==
  ASSUME NEW s \in Seq(Chars), NEW c \in Chars
  PROVE  Clean(Append(s, c)) <=> Clean(s) /\ ~\E p \in Rejects : Ends(p, Append(s, c))
BY OccursAppend DEF Clean

-----------------------------------------------------------------------------
(* A scan is the fold of its steps                                         *)

ScanStep(d) == [p \in Seq(Chars) \X Nat |->
                  IF p[2] \in 1 .. Len(d)
                    THEN IF Hit(p[1]) THEN p[1] ELSE NextSid(p[1], d[p[2]])
                    ELSE p[1]]

\* Its type and its value on a character of the delta.
LEMMA ScanStepIs ==
  ASSUME NEW d \in Seq(Chars)
  PROVE  /\ ScanStep(d) \in [Seq(Chars) \X Nat -> Seq(Chars)]
         /\ \A a \in Seq(Chars), m \in 1 .. Len(d) :
              ScanStep(d)[<<a, m>>] = IF Hit(a) THEN a ELSE NextSid(a, d[m])
<1> DEFINE A == Seq(Chars)
<1>1. ScanStep(d) \in [A \X Nat -> A]
  <2>1. ASSUME NEW p \in A \X Nat
        PROVE  (IF p[2] \in 1 .. Len(d)
                  THEN IF Hit(p[1]) THEN p[1] ELSE NextSid(p[1], d[p[2]])
                  ELSE p[1]) \in A
    <3>1. p[1] \in A /\ \A m \in 1 .. Len(d) : d[m] \in Chars
      OBVIOUS
    <3>2. \A m \in 1 .. Len(d) : NextSid(p[1], d[m]) \in A
      BY <3>1, NextSidIs
    <3> HIDE DEF A
    <3>3. QED
      BY <3>1, <3>2
  <2> HIDE DEF A
  <2>2. QED
    BY <2>1 DEF ScanStep, A
<1>2. ASSUME NEW a \in A, NEW m \in 1 .. Len(d)
      PROVE  ScanStep(d)[<<a, m>>] = IF Hit(a) THEN a ELSE NextSid(a, d[m])
  <2> DEFINE p == <<a, m>>
  <2>1. p \in A \X Nat /\ p[1] = a /\ p[2] = m
    OBVIOUS
  <2>2. ScanStep(d) = [q \in A \X Nat |->
                         IF q[2] \in 1 .. Len(d)
                           THEN IF Hit(q[1]) THEN q[1] ELSE NextSid(q[1], d[q[2]])
                           ELSE q[1]]
    BY DEF ScanStep
  <2> HIDE DEF p, A
  <2>3. ScanStep(d)[p] = IF Hit(a) THEN a ELSE NextSid(a, d[m])
    BY <2>1, <2>2
  <2>4. QED
    BY <2>3 DEF p
<1>3. QED
  BY <1>1, <1>2

\* Scan is the fold of its steps.
LEMMA ScanIsFold ==
  ASSUME NEW q \in Seq(Chars), NEW d \in Seq(Chars), NEW F,
         FoldValues(F, Seq(Chars), q, ScanStep(d), Len(d))
  PROVE  Scan(q, d) = F[Len(d)]
<1> DEFINE A == Seq(Chars)
           n == Len(d)
           D == SUBSET (1 .. n)
           Step(acc, char) == IF Hit(acc) THEN acc ELSE NextSid(acc, char)
           IsIter(f) == f = [x \in D |-> IF x = {} THEN q
                                         ELSE Step(f[x \ {Max(x)}], d[Max(x)])]
           Steps(f) == \A x \in D : f[x] = IF x = {} THEN q
                                         ELSE Step(f[x \ {Max(x)}], d[Max(x)])
           iter == CHOOSE f : IsIter(f)
<1>1. Scan(q, d) = iter[1 .. n]
  <2>1. DOMAIN d = 1 .. n
    OBVIOUS
  <2>2. QED
    BY <2>1 DEF Scan, FoldLeft, MapThenFoldSet
<1>2. n \in Nat /\ q \in A
  OBVIOUS
<1>3. \A x \in D : x # {} => Max(x) \in 1 .. n
  <2> HIDE DEF n
  <2>1. QED
    BY <1>2, MaxExists
<1>4. PICK f : FoldsOver(f, A, q, ScanStep(d), n)
  <2> HIDE DEF A
  <2>1. QED
    BY <1>2, ScanStepIs, FoldExists DEF A
<1>5. IsIter(f)
  <2>1. ASSUME NEW x \in D, x # {}
        PROVE  f[x] = Step(f[x \ {Max(x)}], d[Max(x)])
    <3>1. f[x \ {Max(x)}] \in A /\ f[x] = ScanStep(d)[<<f[x \ {Max(x)}], Max(x)>>]
      BY <2>1, <1>4 DEF FoldsOver
    <3>2. QED
      BY <1>3, <2>1, <3>1, ScanStepIs
  <2>2. f \in [D -> A] /\ f[{}] = q
    BY <1>4 DEF FoldsOver
  <2> HIDE DEF Step
  <2>3. QED
    BY <2>1, <2>2
<1>6. Steps(iter)
  <2>1. \A g : IsIter(g) => Steps(g)
    <3> HIDE DEF Step
    <3>1. QED
      OBVIOUS
  <2>2. IsIter(iter)
    <3> HIDE DEF IsIter
    <3>1. QED
      BY <1>5
  <2> HIDE DEF IsIter, Steps, iter
  <2>3. QED
    BY <2>1, <2>2
<1> HIDE DEF iter
<1>7. PeelsOff(iter, A, q, ScanStep(d), n)
  <2>1. iter[{}] = q
    BY <1>6
  <2>2. ASSUME NEW x \in D, x # {}, iter[x \ {Max(x)}] \in A
        PROVE  iter[x] = ScanStep(d)[<<iter[x \ {Max(x)}], Max(x)>>]
    <3>1. iter[x] = Step(iter[x \ {Max(x)}], d[Max(x)])
      <4> HIDE DEF Step
      <4>1. QED
        BY <1>6, <2>2
    <3>2. QED
      BY <3>1, <1>3, <2>2, ScanStepIs
  <2>3. QED
    BY <2>1, <2>2 DEF PeelsOff
<1>8. iter[1 .. n] = F[n]
  <2>1. FoldValues(F, A, q, ScanStep(d), n)
    OBVIOUS
  <2> HIDE DEF A, n, Steps
  <2>2. QED
    BY <1>2, <1>7, <2>1, PeelingHasValues
<1>9. QED
  BY <1>1, <1>8

\* Scanning a longer delta goes on from where the shorter one ended.
LEMMA ScanAppend ==
  ASSUME NEW q \in Seq(Chars)
  PROVE  /\ Scan(q, <<>>) = q
         /\ \A d \in Seq(Chars) : Scan(q, d) \in Seq(Chars)
         /\ \A d \in Seq(Chars), c \in Chars :
              Scan(q, Append(d, c)) =
                IF Hit(Scan(q, d)) THEN Scan(q, d) ELSE NextSid(Scan(q, d), c)
<1> DEFINE A == Seq(Chars)
<1>1. q \in A
  OBVIOUS
<1>2. ASSUME NEW d \in Seq(Chars)
      PROVE  Scan(q, d) \in A /\ (d = <<>> => Scan(q, d) = q)
  <2>1. Len(d) \in Nat /\ (d = <<>> => Len(d) = 0)
    OBVIOUS
  <2>2. ScanStep(d) \in [A \X Nat -> A]
    BY ScanStepIs
  <2>3. PICK F : FoldValues(F, A, q, ScanStep(d), Len(d))
    <3> HIDE DEF A
    <3>1. QED
      BY <1>1, <2>1, <2>2, ValuesExist
  <2>4. Scan(q, d) = F[Len(d)]
    BY <2>3, ScanIsFold
  <2> HIDE DEF A
  <2>5. QED
    BY <2>1, <2>3, <2>4 DEF FoldValues
<1>3. ASSUME NEW d \in Seq(Chars), NEW c \in Chars
      PROVE  Scan(q, Append(d, c)) =
                IF Hit(Scan(q, d)) THEN Scan(q, d) ELSE NextSid(Scan(q, d), c)
  <2> DEFINE u == Append(d, c)
             n == Len(d)
  <2>1. u \in Seq(Chars) /\ n \in Nat
    OBVIOUS
  <2>2. Len(u) = n + 1 /\ u[n + 1] = c /\ \A i \in 1 .. n : u[i] = d[i]
    OBVIOUS
  <2>3. u = Append(d, c) /\ n = Len(d)
    OBVIOUS
  <2> HIDE DEF u, n
  <2>4. ScanStep(u) \in [A \X Nat -> A]
    BY <2>1, ScanStepIs
  <2>5. PICK F : FoldValues(F, A, q, ScanStep(u), Len(u))
    <3>1. Len(u) \in Nat
      BY <2>1
    <3> HIDE DEF A
    <3>2. QED
      BY <1>1, <2>4, <3>1, ValuesExist
  <2>6. Agree(ScanStep(d), ScanStep(u), A, n)
    <3>1. ASSUME NEW a \in A, NEW i \in 1 .. n
          PROVE  ScanStep(d)[<<a, i>>] = ScanStep(u)[<<a, i>>]
      <4>1. i \in 1 .. Len(d) /\ i \in 1 .. Len(u) /\ d[i] = u[i]
        BY <2>1, <2>2, <2>3
      <4>2. ScanStep(d)[<<a, i>>] = IF Hit(a) THEN a ELSE NextSid(a, d[i])
        BY <4>1, ScanStepIs
      <4>3. ScanStep(u)[<<a, i>>] = IF Hit(a) THEN a ELSE NextSid(a, u[i])
        BY <2>1, <4>1, ScanStepIs
      <4>4. QED
        BY <4>1, <4>2, <4>3
    <3>2. QED
      BY <3>1 DEF Agree
  <2>7. /\ F[n] \in A /\ F[Len(u)] = ScanStep(u)[<<F[n], Len(u)>>]
        /\ \E G : FoldValues(G, A, q, ScanStep(d), n) /\ G[n] = F[n]
    <3> HIDE DEF A
    <3>1. QED
      BY <2>1, <2>2, <2>5, <2>6, ValuesOfFront
  <2>8. Scan(q, u) = F[Len(u)] /\ Scan(q, d) = F[n]
    BY <2>1, <2>2, <2>3, <2>5, <2>7, ScanIsFold
  <2>9. F[Len(u)] = IF Hit(F[n]) THEN F[n] ELSE NextSid(F[n], c)
    <3>1. Len(u) \in 1 .. Len(u) /\ u[Len(u)] = c
      BY <2>1, <2>2
    <3>2. QED
      BY <2>1, <2>2, <2>7, <3>1, ScanStepIs
  <2>10. QED
    BY <2>3, <2>8, <2>9
<1>4. <<>> \in Seq(Chars)
  OBVIOUS
<1>5. QED
  BY <1>2, <1>3, <1>4

\* Scanning on from the state of a clean text finds the first pattern the
\* longer text holds, or leaves the state of the longer text.
ScanResult(q, s, d) ==
  IF Hit(Scan(q, d))
    THEN \E p \in Rejects : Occurs(s \o d, p)
    ELSE Tracks(Scan(q, d), s \o d) /\ Clean(s \o d)

\* By induction on the delta.
LEMMA ScanCorrect ==
  ASSUME NEW q \in Seq(Chars), NEW s \in Seq(Chars), Tracks(q, s), Clean(s)
  PROVE  \A d \in Seq(Chars) : ScanResult(q, s, d)
<1> DEFINE T == {d \in Seq(Chars) : ScanResult(q, s, d)}
<1>1. <<>> \in T
  <2>1. s \o <<>> = s /\ Scan(q, <<>>) = q /\ <<>> \in Seq(Chars)
    BY ScanAppend
  <2>2. ~Hit(q)
    <3>1. SUFFICES ASSUME NEW p \in Rejects, Ends(p, s) PROVE FALSE
      BY HitIff
    <3>2. p \in Seq(Chars) /\ Len(p) <= Len(s) /\ Len(s) - Len(p) \in 0 .. Len(s) - Len(p)
      BY <3>1, TextTypes DEF Ends
    <3>3. Occurs(s, p)
      BY <3>1, <3>2, OccursIff DEF Ends
    <3>4. QED
      BY <3>3 DEF Clean
  <2>3. QED
    BY <2>1, <2>2 DEF ScanResult
<1>2. ASSUME NEW d \in Seq(Chars), NEW c \in Chars, d \in T
      PROVE  Append(d, c) \in T
  <2> DEFINE r == Scan(q, d)
             t == s \o d
  <2>1. ScanResult(q, s, d)
    BY <1>2
  <2>2. /\ r \in Seq(Chars) /\ t \in Seq(Chars) /\ Append(d, c) \in Seq(Chars)
        /\ Scan(q, Append(d, c)) = IF Hit(r) THEN r ELSE NextSid(r, c)
    BY ScanAppend
  <2>3. s \o Append(d, c) = Append(t, c)
    OBVIOUS
  <2> HIDE DEF r, t
  <2>4. CASE Hit(r)
    <3>1. PICK p \in Rejects : Occurs(t, p)
      BY <2>1, <2>4 DEF ScanResult, r, t
    <3>2. Occurs(Append(t, c), p)
      BY <2>2, <3>1, OccursAppend
    <3>3. ScanResult(q, s, Append(d, c))
      BY <2>2, <2>3, <2>4, <3>2 DEF ScanResult
    <3>4. QED
      BY <2>2, <3>3
  <2>5. CASE ~Hit(r)
    <3>1. Tracks(r, t) /\ Clean(t)
      BY <2>1, <2>5 DEF ScanResult, r, t
    <3>2. NextSid(r, c) \in Seq(Chars) /\ Tracks(NextSid(r, c), Append(t, c))
      <4>1. NextSid(r, c) \in Seq(Chars) /\ Tracks(NextSid(r, c), Append(r, c))
        BY <2>2, NextSidIs
      <4>2. QED
        BY <2>2, <3>1, <4>1, TracksAppend
    <3>3. Append(t, c) \in Seq(Chars)
      BY <2>2
    <3>4. Hit(NextSid(r, c)) <=> \E p \in Rejects : Ends(p, Append(t, c))
      BY <3>2, <3>3, HitIff
    <3>5. Clean(Append(t, c)) <=> ~Hit(NextSid(r, c))
      BY <2>2, <3>1, <3>4, CleanAppend
    <3>6. ScanResult(q, s, Append(d, c))
      BY <2>2, <2>3, <2>5, <3>2, <3>5 DEF ScanResult, Clean
    <3>7. QED
      BY <2>2, <3>6
  <2>6. QED
    BY <2>4, <2>5
<1>3. Seq(Chars) \subseteq T
  <2> HIDE DEF T
  <2>1. QED
    BY <1>1, <1>2, SeqInduction
<1>4. QED
  BY <1>3


-----------------------------------------------------------------------------
(* The inductive invariant                                                 *)

Statuses == {"sample", "hook", "NoToken", "Stop", "Length", "Blocked", "EarlyExit"}

TypeInv ==
  /\ chain \in Chains
  /\ masked \in BOOLEAN /\ armed \in BOOLEAN
  /\ tokens \in Seq(Tokens) /\ queue \in Seq(Tokens)
  /\ candidate \in Tokens \cup {Eos}
  /\ asked \in 0 .. Len(chain)
  /\ grammar \in Seq(Chars) /\ sid \in Seq(Chars)
  /\ consumed \in Nat
  /\ status \in Statuses

\* The control of this name was asked about the candidate.
Asked(name) == \E i \in 1 .. asked : chain[i] = name

\* What was scanned is clean, and the state is that of what was scanned.
ScanInv ==
  /\ consumed <= Len(Text)
  /\ Clean(SubSeq(Text, 1, consumed))
  /\ status # "Blocked" => Tracks(sid, SubSeq(Text, 1, consumed))

\* Unless tokens are forced before it is asked, the scanner is one token
\* behind, and not even that once it was asked.
LagInv ==
  In("fse") /\ ~Before("math", "fse") =>
    /\ tokens # <<>> => Len(TextOf(Front(tokens))) <= consumed
    /\ status = "hook" /\ Asked("fse") => consumed = Len(Text)

\* What the mask allowed, the grammar control accepts.
MaskInv ==
  /\ Prefixed(grammar)
  /\ masked /\ status = "hook" /\ ~Asked("grammar")
       => Prefixed(grammar \o Piece[candidate])

\* Until it is asked the grammar is at the text, then at the candidate.
StepInv ==
  In("grammar") /\ ~In("math") =>
    /\ status \in {"sample", "Length"} => grammar = Text
    /\ status = "hook" =>
         grammar = IF Asked("grammar") THEN Text \o Piece[candidate] ELSE Text

\* What is left of the answer is in the queue, and nobody else is asked.
QueueInv ==
  /\ armed => In("math")
  /\ armed /\ chain[1] = "math" =>
       /\ tokens \o queue \in Answers
       /\ status = "EarlyExit" => queue = <<>>
       /\ status = "hook" => asked = 0
       /\ status \notin {"Blocked", "Stop"}

IInv == TypeInv /\ ScanInv /\ LagInv /\ MaskInv /\ StepInv /\ QueueInv /\ BlockIsJustified


-----------------------------------------------------------------------------
(* What the steps have in common                                           *)

\* A further token leaves what was streamed before it in place.
LEMMA TextGrows ==
  ASSUME NEW s \in Seq(Tokens), NEW t \in Tokens
  PROVE  /\ Front(Append(s, t)) = s
         /\ Len(TextOf(s)) <= Len(TextOf(Append(s, t)))
         /\ \A k \in 0 .. Len(TextOf(s)) :
              SubSeq(TextOf(Append(s, t)), 1, k) = SubSeq(TextOf(s), 1, k)
<1> DEFINE u == TextOf(s)
           v == TextOf(Append(s, t))
           w == Piece[t]
<1>1. u \in Seq(Chars) /\ w \in Seq(Chars) /\ v = u \o w /\ v \in Seq(Chars)
  <2>1. Append(s, t) \in Seq(Tokens)
    OBVIOUS
  <2>2. QED
    BY <2>1, TextAppend, TextTypes
<1>2. Front(Append(s, t)) = s
  <2> DEFINE f == Front(Append(s, t))
  <2>1. f \in Seq(Tokens) /\ Len(f) = Len(s) /\ \A i \in 1 .. Len(s) : f[i] = s[i]
    BY DEF Front
  <2> HIDE DEF f
  <2>2. f = s
    BY <2>1, SeqEqual
  <2>3. QED
    BY <2>2 DEF f
<1> HIDE DEF u, v, w
<1>3. Len(u) <= Len(v)
  BY <1>1
<1>4. ASSUME NEW k \in 0 .. Len(u) PROVE SubSeq(v, 1, k) = SubSeq(u, 1, k)
  <2> DEFINE a == SubSeq(v, 1, k)
             b == SubSeq(u, 1, k)
  <2>1. /\ a \in Seq(Chars) /\ b \in Seq(Chars) /\ Len(a) = k /\ Len(b) = k
        /\ \A i \in 1 .. k : a[i] = v[i] /\ b[i] = u[i] /\ v[i] = u[i]
    BY <1>1
  <2> HIDE DEF a, b
  <2>2. a = b
    BY <2>1, SeqEqual
  <2>3. QED
    BY <2>2 DEF a, b
<1>5. QED
  BY <1>2, <1>3, <1>4 DEF u, v

\* The two outcomes of Accept.
LEMMA AcceptIs ==
  ASSUME TypeInv, NEW t \in Tokens \cup {Eos}, Accept(t)
  PROVE  \/ t = Eos /\ tokens' = tokens /\ status' = "Stop"
         \/ t \in Tokens /\ tokens' = Append(tokens, t) /\ status' \in {"Length", "sample"}
BY EosHidden DEF Accept

Grows == tokens' = tokens \/ \E t \in Tokens : tokens' = Append(tokens, t)

\* In either, the tokens grow by one at most.
LEMMA AcceptGrows ==
  ASSUME TypeInv, NEW t \in Tokens \cup {Eos}, Accept(t)
  PROVE  /\ Grows /\ tokens' \in Seq(Tokens)
         /\ status' \in {"Stop", "Length", "sample"}
<1>1. tokens \in Seq(Tokens)
  BY DEF TypeInv
<1>2. QED
  BY <1>1, AcceptIs DEF Grows

\* A chain is a sequence that names each control once.
LEMMA ChainTypes ==
  ASSUME TypeInv
  PROVE  /\ chain \in Seq(Control) /\ Len(chain) \in Nat /\ DOMAIN chain = 1 .. Len(chain)
         /\ \A i, j \in 1 .. Len(chain) : chain[i] = chain[j] => i = j
<1>1. chain \in Chains
  BY DEF TypeInv
<1>2. chain \in Seq(Control)
  BY <1>1, ChainsDistinct
<1>3. DOMAIN chain = 1 .. Len(chain) /\ Len(chain) \in Nat
  BY <1>2
<1>4. QED
  BY <1>1, <1>2, <1>3, ChainsDistinct

\* The text is a sequence of characters.
LEMMA TextTyped ==
  ASSUME TypeInv
  PROVE  Text \in Seq(Chars) /\ Len(Text) \in Nat
<1>1. Text \in Seq(Chars)
  BY TextAppend DEF TypeInv, Text
<1>2. QED
  BY <1>1

\* Asking a control takes it from those that were not asked.
LEMMA AskIs ==
  ASSUME TypeInv, NEW name, Ask(name)
  PROVE  /\ status = "hook" /\ asked \in Nat /\ asked' = asked + 1
         /\ asked + 1 \in 1 .. Len(chain) /\ asked' \in 0 .. Len(chain)
         /\ chain[asked + 1] = name /\ In(name)
         /\ chain' = chain /\ candidate' = candidate /\ masked' = masked
         /\ ~Asked(name) /\ Asked(name)'
         /\ \A other : other # name => (Asked(other)' <=> Asked(other))
<1>1. /\ status = "hook" /\ asked \in Nat /\ asked < Len(chain) /\ Len(chain) \in Nat
      /\ chain[asked + 1] = name /\ asked' = asked + 1
      /\ chain' = chain /\ candidate' = candidate /\ masked' = masked
      /\ DOMAIN chain = 1 .. Len(chain)
  BY ChainTypes DEF Ask, TypeInv
<1>2. asked + 1 \in 1 .. Len(chain) /\ asked' \in 0 .. Len(chain)
  BY <1>1
<1>3. In(name)
  BY <1>1, <1>2 DEF In
<1>4. ~Asked(name)
  <2>1. SUFFICES ASSUME NEW i \in 1 .. asked, chain[i] = name PROVE FALSE
    BY DEF Asked
  <2>2. i \in 1 .. Len(chain) /\ i # asked + 1
    BY <1>1
  <2>3. QED
    BY <1>1, <1>2, <2>1, <2>2, ChainTypes
<1>5. \A other : Asked(other)' <=> Asked(other) \/ other = name
  <2>1. \A i : i \in 1 .. asked + 1 <=> i \in 1 .. asked \/ i = asked + 1
    BY <1>1
  <2>2. \A other : Asked(other)' <=> \E i \in 1 .. asked + 1 : chain[i] = other
    BY <1>1 DEF Asked
  <2>3. QED
    BY <1>1, <2>1, <2>2 DEF Asked
<1>6. QED
  BY <1>1, <1>2, <1>3, <1>4, <1>5

\* The delta is what the scanned text lacks.
LEMMA DeltaIs ==
  ASSUME TypeInv, consumed <= Len(Text)
  PROVE  /\ Delta \in Seq(Chars) /\ SubSeq(Text, 1, consumed) \in Seq(Chars)
         /\ SubSeq(Text, 1, consumed) \o Delta = Text
<1>1. Text \in Seq(Chars) /\ consumed \in Nat /\ Len(Text) \in Nat
  BY TextTyped DEF TypeInv
<1>2. Delta \in Seq(Chars) /\ SubSeq(Text, 1, consumed) \in Seq(Chars)
  <2> DEFINE x == Text
  <2>1. x \in Seq(Chars) /\ Delta = SubSeq(x, consumed + 1, Len(x))
    BY <1>1 DEF Delta
  <2> HIDE DEF x
  <2>2. SubSeq(x, consumed + 1, Len(x)) \in Seq(Chars) /\ SubSeq(x, 1, consumed) \in Seq(Chars)
    BY <1>1, <2>1 DEF x
  <2>3. QED
    BY <2>1, <2>2 DEF x
<1>3. SubSeq(Text, 1, consumed) \o SubSeq(Text, consumed + 1, Len(Text)) = SubSeq(Text, 1, Len(Text))
  <2>1. 1 \in 1 .. Len(Text) + 1 /\ consumed \in 1 - 1 .. Len(Text) /\ Len(Text) \in consumed .. Len(Text)
    BY <1>1
  <2>2. QED
    BY <1>1, <2>1, ConcatAdjacentSubSeq
<1>4. SubSeq(Text, 1, Len(Text)) = Text
  BY <1>1, SubSeqFull
<1>5. QED
  BY <1>2, <1>3, <1>4 DEF Delta

-----------------------------------------------------------------------------
(* Types                                                                   *)

\* Every step keeps the types.
LEMMA Typing ==
  ASSUME TypeInv, [Next]_vars, ScanInv
  PROVE  TypeInv'
<1> USE DEF TypeInv
<1>1. CASE Sample
  <2>1. candidate' \in Tokens \cup {Eos}
    BY <1>1 DEF Sample, Permitted
  <2>2. asked' \in 0 .. Len(chain)
    BY <1>1, ChainTypes DEF Sample
  <2>3. status' \in Statuses
    BY <1>1 DEF Sample, Statuses
  <2>4. QED
    BY <1>1, <2>1, <2>2, <2>3 DEF Sample, controlVars
<1>2. CASE AskFse
  <2>1. asked' \in 0 .. Len(chain) /\ chain' = chain /\ candidate' = candidate /\ masked' = masked
    BY <1>2, AskIs DEF AskFse
  <2>2. sid' \in Seq(Chars)
    BY <1>2, DeltaIs, ScanAppend DEF AskFse, ScanInv
  <2>3. consumed' \in Nat
    BY <1>2, TextTyped DEF AskFse
  <2>4. tokens' = tokens /\ status' \in Statuses
    BY <1>2 DEF AskFse, End, Allow, Statuses
  <2>5. QED
    BY <1>2, <2>1, <2>2, <2>3, <2>4 DEF AskFse
<1>3. CASE AskGrammar
  <2>1. asked' \in 0 .. Len(chain) /\ chain' = chain /\ candidate' = candidate /\ masked' = masked
    BY <1>3, AskIs DEF AskGrammar
  <2>2. grammar \o Piece[candidate] \in Seq(Chars)
    BY TextTypes
  <2>3. grammar' \in Seq(Chars)
    BY <1>3, <2>2 DEF AskGrammar
  <2>4. tokens' = tokens /\ status' \in Statuses
    BY <1>3 DEF AskGrammar, End, Allow, Statuses
  <2>5. QED
    BY <1>3, <2>1, <2>3, <2>4 DEF AskGrammar
<1>4. CASE AskMath
  <2>1. asked' \in 0 .. Len(chain) /\ chain' = chain /\ candidate' = candidate /\ masked' = masked
    BY <1>4, AskIs DEF AskMath
  <2>2. CASE queue # <<>>
    <3>1. Head(queue) \in Tokens \cup {Eos} /\ Tail(queue) \in Seq(Tokens)
      BY <2>2
    <3>2. Accept(Head(queue)) /\ queue' = Tail(queue)
      BY <1>4, <2>2 DEF AskMath
    <3>3. tokens' \in Seq(Tokens) /\ status' \in Statuses
      BY <3>1, <3>2, AcceptGrows DEF Statuses
    <3>4. QED
      BY <1>4, <2>1, <3>1, <3>2, <3>3 DEF AskMath
  <2>3. CASE queue = <<>>
    <3>1. tokens' = tokens /\ status' \in Statuses /\ queue' = queue
      BY <1>4, <2>3 DEF AskMath, End, Allow, Statuses
    <3>2. QED
      BY <1>4, <2>1, <3>1 DEF AskMath
  <2>4. QED
    BY <2>2, <2>3
<1>5. CASE AllAllowed
  <2>1. tokens' \in Seq(Tokens) /\ status' \in Statuses
    BY <1>5, AcceptGrows DEF AllAllowed, Statuses
  <2>2. QED
    BY <1>5, <2>1 DEF AllAllowed, controlVars
<1>6. CASE UNCHANGED vars
  BY <1>6 DEF vars, controlVars
<1>7. QED
  BY <1>1, <1>2, <1>3, <1>4, <1>5, <1>6 DEF Next


-----------------------------------------------------------------------------
(* The scanner                                                             *)

\* A step that does not ask the scanner leaves what was scanned alone.
LEMMA ScanKept ==
  ASSUME TypeInv, ScanInv, status # "Blocked", Grows, sid' = sid, consumed' = consumed
  PROVE  ScanInv'
<1>1. Text' = TextOf(tokens') /\ Text = TextOf(tokens) /\ tokens \in Seq(Tokens)
  BY DEF Text, TypeInv
<1>2. consumed \in 0 .. Len(Text) /\ Len(Text) \in Nat
  BY TextTyped DEF ScanInv, TypeInv
<1>3. consumed <= Len(Text') /\ SubSeq(Text', 1, consumed) = SubSeq(Text, 1, consumed)
  <2>1. CASE tokens' = tokens
    BY <1>1, <1>2, <2>1
  <2>2. CASE \E t \in Tokens : tokens' = Append(tokens, t)
    <3>1. PICK t \in Tokens : tokens' = Append(tokens, t)
      BY <2>2
    <3>2. Len(Text) <= Len(Text') /\ SubSeq(Text', 1, consumed) = SubSeq(Text, 1, consumed)
      BY <1>1, <1>2, <3>1, TextGrows
    <3>3. Len(Text') \in Nat
      <4>1. Append(tokens, t) \in Seq(Tokens)
        BY <1>1
      <4>2. Text' \in Seq(Chars)
        BY <1>1, <3>1, <4>1, TextAppend
      <4>3. QED
        BY <4>2
    <3>4. QED
      BY <1>2, <3>2, <3>3
  <2>3. QED
    BY <2>1, <2>2 DEF Grows
<1>4. QED
  BY <1>3 DEF ScanInv

\* Scanning reaches the end of the text, or a pattern in it.
LEMMA ScanReaches ==
  ASSUME TypeInv, ScanInv, AskFse
  PROVE  /\ Text' = Text /\ tokens' = tokens
         /\ IF status' = "Blocked"
              THEN consumed' = consumed /\ \E p \in Rejects : Occurs(Text, p)
              ELSE consumed' = Len(Text) /\ Tracks(sid', Text) /\ Clean(Text) /\ status' = "hook"
<1>1. status = "hook" /\ tokens' = tokens
  BY DEF AskFse, Ask, End, Allow
<1>2. sid \in Seq(Chars) /\ Tracks(sid, SubSeq(Text, 1, consumed)) /\ Clean(SubSeq(Text, 1, consumed))
  BY <1>1 DEF TypeInv, ScanInv
<1>3. /\ Delta \in Seq(Chars) /\ SubSeq(Text, 1, consumed) \in Seq(Chars)
      /\ SubSeq(Text, 1, consumed) \o Delta = Text
  BY DeltaIs DEF ScanInv
<1>4. ScanResult(sid, SubSeq(Text, 1, consumed), Delta)
  BY <1>2, <1>3, ScanCorrect
<1>5. sid' = Scan(sid, Delta)
  BY DEF AskFse
<1>6. CASE Hit(sid')
  <2>1. status' = "Blocked" /\ consumed' = consumed
    BY <1>6 DEF AskFse, End
  <2>2. \E p \in Rejects : Occurs(Text, p)
    BY <1>3, <1>4, <1>5, <1>6 DEF ScanResult
  <2>3. QED
    BY <1>1, <2>1, <2>2 DEF Text
<1>7. CASE ~Hit(sid')
  <2>1. status' = "hook" /\ consumed' = Len(Text)
    BY <1>1, <1>7 DEF AskFse, Allow
  <2>2. Tracks(sid', Text) /\ Clean(Text)
    BY <1>3, <1>4, <1>5, <1>7 DEF ScanResult
  <2>3. QED
    BY <1>1, <2>1, <2>2 DEF Text
<1>8. QED
  BY <1>6, <1>7

\* The tokens and the text after each action; only the scanner scans.
LEMMA OthersGrow ==
  ASSUME TypeInv, Sample \/ AskGrammar \/ AskMath \/ AllAllowed
  PROVE  Grows /\ sid' = sid /\ consumed' = consumed /\ status \in {"sample", "hook"}
<1> USE DEF TypeInv
<1>1. CASE Sample
  BY <1>1 DEF Sample, controlVars, Grows
<1>2. CASE AskGrammar
  BY <1>2 DEF AskGrammar, Ask, End, Allow, Grows
<1>3. CASE AskMath
  <2>1. CASE queue # <<>>
    <3>1. Head(queue) \in Tokens \cup {Eos}
      BY <2>1
    <3>2. QED
      BY <1>3, <2>1, <3>1, AcceptGrows DEF AskMath, Ask
  <2>2. CASE queue = <<>>
    BY <1>3, <2>2 DEF AskMath, Ask, End, Allow, Grows
  <2>3. QED
    BY <2>1, <2>2
<1>4. CASE AllAllowed
  BY <1>4, AcceptGrows DEF AllAllowed, controlVars
<1>5. QED
  BY <1>1, <1>2, <1>3, <1>4

\* Every step keeps the scanner in the state of what was scanned.
LEMMA Scanning ==
  ASSUME TypeInv, ScanInv, [Next]_vars
  PROVE  ScanInv'
<1>1. CASE AskFse
  <2>1. /\ Text' = Text
        /\ IF status' = "Blocked"
             THEN consumed' = consumed
             ELSE consumed' = Len(Text) /\ Tracks(sid', Text) /\ Clean(Text)
    BY <1>1, ScanReaches
  <2>2. SubSeq(Text, 1, Len(Text)) = Text /\ Len(Text) \in Nat
    BY TextTyped, SubSeqFull
  <2>3. CASE status' = "Blocked"
    <3>1. SubSeq(Text', 1, consumed') = SubSeq(Text, 1, consumed) /\ consumed' <= Len(Text')
      BY <2>1, <2>3 DEF ScanInv
    <3>2. QED
      BY <2>3, <3>1 DEF ScanInv
  <2>4. CASE status' # "Blocked"
    <3>1. SubSeq(Text', 1, consumed') = Text /\ consumed' <= Len(Text')
      BY <2>1, <2>2, <2>4
    <3>2. QED
      BY <2>1, <2>4, <3>1 DEF ScanInv
  <2>5. QED
    BY <2>3, <2>4
<1>2. CASE Sample \/ AskGrammar \/ AskMath \/ AllAllowed
  BY <1>2, OthersGrow, ScanKept
<1>3. CASE UNCHANGED vars
  <2>1. Text' = Text /\ consumed' = consumed /\ sid' = sid /\ status' = status
    BY <1>3 DEF vars, controlVars, Text
  <2>2. SubSeq(Text', 1, consumed') = SubSeq(Text, 1, consumed)
    BY <2>1
  <2>3. QED
    BY <2>1, <2>2 DEF ScanInv
<1>4. QED
  BY <1>1, <1>2, <1>3 DEF Next

\* Every step keeps the scanner at most one token behind.
LEMMA Lagging ==
  ASSUME TypeInv, ScanInv, LagInv, [Next]_vars
  PROVE  LagInv'
<1>1. In("fse")' = In("fse") /\ Before("math", "fse")' = Before("math", "fse") /\ chain' = chain
  <2>1. chain' = chain
    BY DEF Next, Sample, AskFse, AskGrammar, AskMath, AllAllowed, Ask, vars
  <2>2. QED
    BY <2>1 DEF In, Before
<1>2. SUFFICES ASSUME In("fse"), ~Before("math", "fse")
               PROVE  /\ tokens' # <<>> => Len(TextOf(Front(tokens'))) <= consumed'
                      /\ status' = "hook" /\ Asked("fse")' => consumed' = Len(Text')
  BY <1>1 DEF LagInv
<1>3. /\ tokens # <<>> => Len(TextOf(Front(tokens))) <= consumed
      /\ status = "hook" /\ Asked("fse") => consumed = Len(Text)
  BY <1>2 DEF LagInv
<1>4. CASE Sample
  <2>1. ~Asked("fse")'
    BY <1>4 DEF Sample, Asked
  <2>2. QED
    BY <1>3, <1>4, <2>1 DEF Sample, controlVars
<1>5. CASE AskFse
  <2>1. CASE status' = "Blocked"
    BY <1>3, <1>5, <2>1, ScanReaches
  <2>2. CASE status' # "Blocked"
    <3>1. consumed' = Len(Text) /\ Text' = Text /\ tokens' = tokens
      BY <1>5, <2>2, ScanReaches
    <3>2. tokens # <<>> => Len(TextOf(Front(tokens))) <= Len(Text)
      <4>1. SUFFICES ASSUME tokens # <<>> PROVE Len(TextOf(Front(tokens))) <= Len(Text)
        OBVIOUS
      <4>2. Len(TextOf(Front(tokens))) <= consumed /\ consumed <= Len(Text) /\ consumed \in Nat
        BY <1>3, <4>1 DEF ScanInv, TypeInv
      <4>3. Len(Text) \in Nat /\ Len(TextOf(Front(tokens))) \in Nat
        <5>1. Front(tokens) \in Seq(Tokens)
          BY <4>1 DEF Front, TypeInv
        <5>2. TextOf(Front(tokens)) \in Seq(Chars)
          BY <5>1, TextAppend
        <5>3. QED
          BY <5>2, TextTyped
      <4>4. QED
        BY <4>2, <4>3
    <3>3. QED
      BY <3>1, <3>2
  <2>3. QED
    BY <2>1, <2>2
<1>6. CASE AskGrammar
  <2>1. Asked("fse")' <=> Asked("fse")
    BY <1>6, AskIs DEF AskGrammar
  <2>2. tokens' = tokens /\ consumed' = consumed /\ status = "hook" /\ Text' = Text
    BY <1>6 DEF AskGrammar, Ask, End, Allow, Text
  <2>3. QED
    BY <1>3, <2>1, <2>2
<1>7. ASSUME NEW t \in Tokens \cup {Eos}, Accept(t), consumed' = consumed, consumed = Len(Text)
      PROVE  /\ tokens' # <<>> => Len(TextOf(Front(tokens'))) <= consumed'
             /\ status' # "hook"
  <2>1. status' # "hook"
    BY <1>7, AcceptGrows
  <2>2. CASE tokens' = tokens
    BY <1>3, <1>7, <2>1, <2>2
  <2>3. CASE \E x \in Tokens : tokens' = Append(tokens, x)
    <3>1. PICK x \in Tokens : tokens' = Append(tokens, x)
      BY <2>3
    <3>2. Front(tokens') = tokens
      BY <3>1, TextGrows DEF TypeInv
    <3>3. QED
      BY <1>7, <2>1, <3>2, TextTyped DEF Text
  <2>4. QED
    BY <1>7, <2>2, <2>3, AcceptGrows DEF Grows
<1>8. CASE AskMath
  <2>1. status = "hook" /\ consumed' = consumed
    BY <1>8 DEF AskMath, Ask
  <2>2. Asked("fse")
    <3>1. PICK i \in DOMAIN chain : chain[i] = "fse"
      BY <1>2 DEF In
    <3>2. /\ asked + 1 \in 1 .. Len(chain) /\ chain[asked + 1] = "math" /\ asked \in Nat
          /\ DOMAIN chain = 1 .. Len(chain) /\ Len(chain) \in Nat
      BY <1>8, AskIs, ChainTypes DEF AskMath
    <3>3. ~(asked + 1 < i)
      BY <1>2, <3>1, <3>2 DEF Before
    <3>4. i # asked + 1
      BY <3>1, <3>2
    <3>5. i \in 1 .. asked
      BY <3>1, <3>2, <3>3, <3>4
    <3>6. QED
      BY <3>1, <3>5 DEF Asked
  <2>3. consumed = Len(Text)
    BY <1>3, <2>1, <2>2
  <2>4. CASE queue # <<>>
    <3>1. Head(queue) \in Tokens \cup {Eos}
      BY <2>4 DEF TypeInv
    <3>2. Accept(Head(queue))
      BY <1>8, <2>4 DEF AskMath
    <3>3. QED
      BY <1>7, <2>1, <2>3, <3>1, <3>2
  <2>5. CASE queue = <<>>
    <3>1. tokens' = tokens
      BY <1>8, <2>5 DEF AskMath, End, Allow
    <3>2. Text' = Text
      BY <3>1 DEF Text
    <3>3. QED
      BY <1>3, <2>1, <2>3, <3>1, <3>2
  <2>6. QED
    BY <2>4, <2>5
<1>9. CASE AllAllowed
  <2>1. status = "hook" /\ asked = Len(chain) /\ consumed' = consumed /\ Accept(candidate)
    BY <1>9 DEF AllAllowed, controlVars
  <2>2. Asked("fse")
    BY <1>2, <2>1, ChainTypes DEF In, Asked
  <2>3. consumed = Len(Text)
    BY <1>3, <2>1, <2>2
  <2>4. candidate \in Tokens \cup {Eos}
    BY DEF TypeInv
  <2>5. QED
    BY <1>7, <2>1, <2>3, <2>4
<1>10. CASE UNCHANGED vars
  BY <1>3, <1>10 DEF vars, controlVars, Text, Asked
<1>11. QED
  BY <1>4, <1>5, <1>6, <1>8, <1>9, <1>10 DEF Next


-----------------------------------------------------------------------------
(* The grammar                                                             *)

\* The stop token has no text.
LEMMA EosAdds ==
  ASSUME NEW g \in Seq(Chars)
  PROVE  g \o Piece[Eos] = g
BY EosHidden

\* Every step keeps the mask and the control in agreement.
LEMMA Masking ==
  ASSUME TypeInv, MaskInv, [Next]_vars
  PROVE  MaskInv'
<1>1. Prefixed(grammar) /\ grammar \in Seq(Chars)
  BY DEF MaskInv, TypeInv
<1>2. ASSUME grammar' = grammar, masked' = masked,
             masked /\ status' = "hook" /\ ~Asked("grammar")'
               => Prefixed(grammar \o Piece[candidate'])
      PROVE  MaskInv'
  BY <1>1, <1>2 DEF MaskInv, Prefixed
<1>3. CASE Sample
  <2>1. grammar' = grammar /\ masked' = masked
    BY <1>3 DEF Sample, controlVars
  <2>2. ASSUME masked, status' = "hook" PROVE Prefixed(grammar \o Piece[candidate'])
    <3>1. candidate' \in Permitted
      BY <1>3, <2>2 DEF Sample
    <3>2. \/ Prefixed(grammar \o Piece[candidate'])
          \/ candidate' = Eos /\ Accepting
      BY <3>1, <2>2 DEF Permitted
    <3>3. CASE candidate' = Eos
      BY <1>1, <3>3, EosAdds
    <3>4. QED
      BY <3>2, <3>3
  <2>3. QED
    BY <1>2, <2>1, <2>2
<1>4. CASE AskFse
  <2>1. /\ grammar' = grammar /\ masked' = masked /\ candidate' = candidate /\ status = "hook"
        /\ Asked("grammar")' <=> Asked("grammar")
    BY <1>4, AskIs DEF AskFse
  <2>2. QED
    BY <1>2, <2>1 DEF MaskInv
<1>5. CASE AskMath
  <2>1. /\ grammar' = grammar /\ masked' = masked /\ candidate' = candidate /\ status = "hook"
        /\ Asked("grammar")' <=> Asked("grammar")
    BY <1>5, AskIs DEF AskMath
  <2>2. QED
    BY <1>2, <2>1 DEF MaskInv
<1>6. CASE AskGrammar
  <2>1. Asked("grammar")'
    BY <1>6, AskIs DEF AskGrammar
  <2>2. Prefixed(grammar)'
    BY <1>1, <1>6 DEF AskGrammar, Prefixed
  <2>3. QED
    BY <2>1, <2>2 DEF MaskInv
<1>7. CASE AllAllowed
  <2>1. /\ grammar' = grammar /\ masked' = masked
        /\ status' # "hook"
    BY <1>7, AcceptGrows DEF AllAllowed, controlVars, TypeInv
  <2>2. QED
    BY <1>2, <2>1
<1>8. CASE UNCHANGED vars
  <2>1. /\ grammar' = grammar /\ masked' = masked /\ candidate' = candidate /\ status' = status
        /\ Asked("grammar")' <=> Asked("grammar")
    BY <1>8 DEF vars, controlVars, Asked
  <2>2. QED
    BY <1>2, <2>1 DEF MaskInv
<1>9. QED
  BY <1>3, <1>4, <1>5, <1>6, <1>7, <1>8 DEF Next

\* Every step keeps the grammar in step with the text.
LEMMA Stepping ==
  ASSUME TypeInv, StepInv, [Next]_vars
  PROVE  StepInv'
<1>1. chain' = chain
  BY DEF Next, Sample, AskFse, AskGrammar, AskMath, AllAllowed, Ask, vars
<1>2. In("grammar")' = In("grammar") /\ In("math")' = In("math")
  BY <1>1 DEF In
<1>3. SUFFICES ASSUME In("grammar"), ~In("math")
               PROVE  /\ status' \in {"sample", "Length"} => grammar' = Text'
                      /\ status' = "hook" =>
                           grammar' = IF Asked("grammar")' THEN Text' \o Piece[candidate'] ELSE Text'
  BY <1>2 DEF StepInv
<1>4. /\ status \in {"sample", "Length"} => grammar = Text
      /\ status = "hook" => grammar = IF Asked("grammar") THEN Text \o Piece[candidate] ELSE Text
  BY <1>3 DEF StepInv
<1>5. CASE Sample
  <2>1. ~Asked("grammar")'
    BY <1>5 DEF Sample, Asked
  <2>2. grammar' = grammar /\ Text' = Text /\ status = "sample"
    BY <1>5 DEF Sample, controlVars, Text
  <2>3. QED
    BY <1>4, <2>1, <2>2
<1>6. CASE AskFse
  <2>1. /\ grammar' = grammar /\ candidate' = candidate /\ status = "hook" /\ Text' = Text
        /\ Asked("grammar")' <=> Asked("grammar")
        /\ status' \in {"hook", "Blocked"}
    BY <1>6, AskIs DEF AskFse, End, Allow, Text
  <2>2. QED
    BY <1>4, <2>1
<1>7. CASE AskGrammar
  <2>1. /\ candidate' = candidate /\ status = "hook" /\ Text' = Text
        /\ ~Asked("grammar") /\ Asked("grammar")'
        /\ status' \in {"hook", "Blocked", "EarlyExit"}
    BY <1>7, AskIs DEF AskGrammar, End, Allow, Text
  <2>2. status' = "hook" => grammar' = grammar \o Piece[candidate]
    BY <1>7 DEF AskGrammar, End
  <2>3. QED
    BY <1>4, <2>1, <2>2
<1>8. CASE AskMath
  BY <1>3, <1>8, AskIs DEF AskMath
<1>9. CASE AllAllowed
  <2>1. status = "hook" /\ asked = Len(chain) /\ grammar' = grammar /\ Accept(candidate)
    BY <1>9 DEF AllAllowed, controlVars
  <2>2. Asked("grammar")
    BY <1>3, <2>1, ChainTypes DEF In, Asked
  <2>3. grammar = Text \o Piece[candidate]
    BY <1>4, <2>1, <2>2
  <2>4. candidate \in Tokens \cup {Eos} /\ tokens \in Seq(Tokens)
    BY DEF TypeInv
  <2>5. CASE status' = "Stop"
    BY <2>5
  <2>6. CASE status' # "Stop"
    <3>1. candidate \in Tokens /\ tokens' = Append(tokens, candidate) /\ status' \in {"Length", "sample"}
      BY <2>1, <2>4, <2>6, AcceptIs
    <3>2. Text' = Text \o Piece[candidate]
      BY <2>4, <3>1, TextAppend DEF Text
    <3>3. QED
      BY <2>1, <2>3, <3>1, <3>2
  <2>7. QED
    BY <2>5, <2>6
<1>10. CASE UNCHANGED vars
  <2>1. /\ grammar' = grammar /\ candidate' = candidate /\ status' = status /\ Text' = Text
        /\ Asked("grammar")' <=> Asked("grammar")
    BY <1>10 DEF vars, controlVars, Text, Asked
  <2>2. QED
    BY <1>4, <2>1
<1>11. QED
  BY <1>5, <1>6, <1>7, <1>8, <1>9, <1>10 DEF Next

-----------------------------------------------------------------------------
(* The answer queue                                                        *)

\* Every step keeps what was streamed and what is queued together the answer.
LEMMA Queueing ==
  ASSUME TypeInv, QueueInv, [Next]_vars
  PROVE  QueueInv'
<1>1. chain' = chain /\ armed' = armed
  BY DEF Next, Sample, AskFse, AskGrammar, AskMath, AllAllowed, Ask, controlVars, vars
<1>2. (armed => In("math"))'
  BY <1>1 DEF QueueInv, In
<1>3. SUFFICES ASSUME armed, chain[1] = "math"
               PROVE  /\ tokens' \o queue' \in Answers
                      /\ status' = "EarlyExit" => queue' = <<>>
                      /\ status' = "hook" => asked' = 0
                      /\ status' \notin {"Blocked", "Stop"}
  BY <1>1, <1>2 DEF QueueInv
<1>4. /\ tokens \o queue \in Answers
      /\ status = "EarlyExit" => queue = <<>>
      /\ status = "hook" => asked = 0
      /\ status \notin {"Blocked", "Stop"}
  BY <1>3 DEF QueueInv
<1>5. Len(chain) \in Nat /\ Len(chain) # 0
  BY <1>3, ChainTypes DEF QueueInv, In
<1>6. CASE Sample
  BY <1>4, <1>6 DEF Sample, controlVars
<1>7. ASSUME NEW name, Ask(name) PROVE name = "math"
  BY <1>3, <1>4, <1>7, AskIs
<1>8. CASE AskFse
  BY <1>7, <1>8 DEF AskFse
<1>9. CASE AskGrammar
  BY <1>7, <1>9 DEF AskGrammar
<1>10. CASE AskMath
  <2>1. CASE queue # <<>>
    <3>1. queue \in Seq(Tokens) /\ tokens \in Seq(Tokens) /\ Head(queue) \in Tokens
      BY <2>1 DEF TypeInv
    <3>2. Accept(Head(queue)) /\ queue' = Tail(queue)
      BY <1>10, <2>1 DEF AskMath
    <3>3. tokens' = Append(tokens, Head(queue)) /\ status' \in {"Length", "sample"}
      BY <3>1, <3>2, AcceptIs, EosHidden
    <3>4. Append(tokens, Head(queue)) \o Tail(queue) = tokens \o queue
      <4> DEFINE a == Append(tokens, Head(queue)) \o Tail(queue)
                 b == tokens \o queue
      <4>1. a \in Seq(Tokens) /\ b \in Seq(Tokens) /\ Len(a) = Len(b)
        BY <2>1, <3>1
      <4>2. ASSUME NEW i \in 1 .. Len(a) PROVE a[i] = b[i]
        <5> HIDE DEF a, b
        <5>0. i \in Nat /\ Len(tokens) \in Nat
          BY <3>1, <4>1
        <5> USE DEF a, b
        <5>1. CASE i <= Len(tokens)
          BY <2>1, <3>1, <5>1
        <5>2. CASE i = Len(tokens) + 1
          BY <2>1, <3>1, <5>2
        <5>3. CASE i > Len(tokens) + 1
          <6> DEFINE j == i - (Len(tokens) + 1)
                     r == Tail(queue)
          <6>1. /\ r \in Seq(Tokens) /\ Len(r) = Len(queue) - 1
                /\ \A l \in 1 .. Len(r) : r[l] = queue[l + 1]
            BY <2>1, <3>1
          <6>2. j \in 1 .. Len(r) /\ i - Len(tokens) = j + 1
            BY <3>1, <5>3, <6>1
          <6> HIDE DEF r, j
          <6>3. a[i] = r[j]
            BY <3>1, <5>3, <6>1 DEF j, r
          <6>4. b[i] = queue[j + 1]
            BY <3>1, <5>3, <6>1, <6>2
          <6>5. QED
            BY <6>1, <6>2, <6>3, <6>4
        <5> HIDE DEF a, b
        <5>4. QED
          BY <5>0, <5>1, <5>2, <5>3
      <4> HIDE DEF a, b
      <4>3. a = b
        BY <4>1, <4>2, SeqEqual
      <4>4. QED
        BY <4>3 DEF a, b
    <3>5. QED
      BY <1>4, <3>2, <3>3, <3>4
  <2>2. CASE queue = <<>>
    BY <1>3, <1>4, <1>10, <2>2 DEF AskMath, End
  <2>3. QED
    BY <2>1, <2>2
<1>11. CASE AllAllowed
  BY <1>4, <1>5, <1>11 DEF AllAllowed
<1>12. CASE UNCHANGED vars
  BY <1>4, <1>12 DEF vars, controlVars
<1>13. QED
  BY <1>6, <1>8, <1>9, <1>10, <1>11, <1>12 DEF Next

-----------------------------------------------------------------------------
(* What blocks a generation                                                *)

\* A step that blocks has found a pattern.
LEMMA Blocking ==
  ASSUME TypeInv, ScanInv, MaskInv, BlockIsJustified, [Next]_vars
  PROVE  BlockIsJustified'
<1>1. SUFFICES ASSUME status' = "Blocked", masked' \/ ~In("grammar")'
               PROVE  \E p \in Rejects : Occurs(Text', p)
  BY DEF BlockIsJustified
<1>2. chain' = chain /\ masked' = masked
  BY DEF Next, Sample, AskFse, AskGrammar, AskMath, AllAllowed, Ask, vars
<1>3. masked \/ ~In("grammar")
  BY <1>1, <1>2 DEF In
<1>4. CASE AskFse
  BY <1>1, <1>4, ScanReaches
<1>5. CASE AskGrammar
  <2>1. masked /\ status = "hook" /\ ~Asked("grammar")
    BY <1>3, <1>5, AskIs DEF AskGrammar
  <2>2. Prefixed(grammar \o Piece[candidate])
    BY <2>1 DEF MaskInv
  <2>3. status' # "Blocked"
    BY <1>5, <2>1, <2>2 DEF AskGrammar, End, Allow
  <2>4. QED
    BY <1>1, <2>3
<1>6. CASE Sample \/ AllAllowed
  BY <1>1, <1>6, AcceptGrows DEF Sample, AllAllowed, TypeInv
<1>7. CASE AskMath
  <2>1. status' # "Blocked"
    <3>1. queue # <<>> => Head(queue) \in Tokens \cup {Eos}
      BY DEF TypeInv
    <3>2. QED
      BY <1>7, <3>1, AcceptGrows DEF AskMath, Ask, End, Allow
  <2>2. QED
    BY <1>1, <2>1
<1>8. CASE UNCHANGED vars
  <2>1. status = "Blocked" /\ Text' = Text
    BY <1>1, <1>8 DEF vars, Text
  <2>2. QED
    BY <1>3, <2>1 DEF BlockIsJustified
<1>9. QED
  BY <1>4, <1>5, <1>6, <1>7, <1>8 DEF Next


-----------------------------------------------------------------------------
(* The theorems                                                            *)

\* The invariant holds initially.
LEMMA Initial ==
  ASSUME Init
  PROVE  IInv
<1>1. chain \in Seq(Control) /\ Len(chain) \in Nat
  BY ChainsDistinct DEF Init
<1>2. queue \in Seq(Tokens) /\ (queue # <<>> => In("math") /\ queue \in Answers)
  <2>1. CASE In("math")
    <3>1. queue \in Answers
      BY <2>1 DEF Init
    <3>2. QED
      BY <2>1, <3>1, TextTypes
  <2>2. CASE ~In("math")
    <3>1. queue = <<>>
      BY <2>2 DEF Init
    <3>2. QED
      BY <3>1
  <2>3. QED
    BY <2>1, <2>2
<1>3. Text = <<>> /\ tokens = <<>> /\ grammar = <<>> /\ sid = <<>> /\ consumed = 0 /\ status = "sample"
  BY TextAppend DEF Init, Text
<1>4. TypeInv
  BY <1>1, <1>2 DEF Init, TypeInv, Statuses
<1>5. ScanInv
  <2>1. SubSeq(Text, 1, consumed) = <<>> /\ consumed <= Len(Text)
    BY <1>3
  <2>2. <<>> \in Seq(Chars)
    OBVIOUS
  <2>3. Clean(<<>>)
    <3>1. SUFFICES ASSUME NEW p \in Rejects, Occurs(<<>>, p) PROVE FALSE
      BY DEF Clean
    <3>2. p \in Seq(Chars) /\ p # <<>>
      BY TextTypes, SentencesVisible
    <3>3. PICK i \in 0 .. Len(<<>>) - Len(p) : TRUE
      BY <2>2, <3>1, <3>2, OccursIff
    <3>4. Len(p) \in Nat /\ Len(p) # 0
      BY <3>2
    <3>5. QED
      BY <3>3, <3>4
  <2>4. Tracks(<<>>, <<>>)
    BY DEF Tracks, Ends, Live
  <2>5. QED
    BY <1>3, <2>1, <2>3, <2>4 DEF ScanInv
<1>6. LagInv
  BY <1>3 DEF LagInv
<1>7. MaskInv
  <2>1. PICK s \in Language : s \in Seq(Chars)
    BY SentencesVisible, TextTypes
  <2>2. IsPrefix(<<>>, s)
    <3>1. <<>> \in Seq(Chars) /\ Begins(<<>>, s)
      BY <2>1 DEF Begins
    <3>2. QED
      BY <2>1, <3>1, IsPrefixBegins
  <2>3. QED
    BY <1>3, <2>1, <2>2 DEF MaskInv, Prefixed
<1>8. StepInv
  BY <1>3 DEF StepInv
<1>9. QueueInv
  <2>1. armed => queue # <<>>
    BY DEF Init
  <2>2. tokens \o queue = queue
    BY <1>2, <1>3
  <2>3. QED
    BY <1>2, <1>3, <2>1, <2>2 DEF QueueInv
<1>10. BlockIsJustified
  BY <1>3 DEF BlockIsJustified
<1>11. QED
  BY <1>4, <1>5, <1>6, <1>7, <1>8, <1>9, <1>10 DEF IInv

\* The invariant holds in every state.
LEMMA Invariance == Spec => []IInv
<1>1. Init => IInv
  BY Initial
<1>2. IInv /\ [Next]_vars => IInv'
  BY Typing, Scanning, Lagging, Masking, Stepping, Queueing, Blocking DEF IInv
<1>3. QED
  BY <1>1, <1>2, PTL DEF Spec

\* Scanning only what was added since the last call sees every pattern, for
\* every set of patterns, every way a text falls into tokens and every chain:
\* the scanner's state is the longest suffix of what was read that begins a
\* pattern, which is what ScanInv adds.
THEOREM ScanIsComplete == Spec => []ScanLagsOneToken
<1>1. IInv => ScanLagsOneToken
  <2>1. SUFFICES ASSUME IInv, In("fse"), ~Before("math", "fse"), tokens # <<>>,
                        NEW p \in Rejects, Occurs(TextOf(Front(tokens)), p)
                 PROVE  FALSE
    BY DEF ScanLagsOneToken
  <2> DEFINE f == TextOf(Front(tokens))
             g == SubSeq(Text, 1, consumed)
  <2>2. TypeInv /\ ScanInv /\ Len(f) <= consumed
    BY <2>1 DEF IInv, LagInv
  <2>3. PICK s \in Seq(Tokens), t \in Tokens : tokens = Append(s, t)
    BY <2>1, <2>2, SequenceEmptyOrAppend DEF TypeInv
  <2>4. Front(tokens) = s /\ Text = f \o Piece[t] /\ f \in Seq(Chars) /\ Piece[t] \in Seq(Chars)
    BY <2>3, TextGrows, TextAppend, TextTypes DEF Text
  <2>5. /\ Text \in Seq(Chars) /\ Len(Text) \in Nat /\ consumed \in Nat /\ consumed <= Len(Text)
        /\ p \in Seq(Chars)
    BY <2>2, TextTyped, TextTypes DEF TypeInv, ScanInv
  <2>6. g \in Seq(Chars) /\ Len(g) = consumed /\ \A k \in 1 .. consumed : g[k] = Text[k]
    <3> DEFINE x == Text
    <3>1. x \in Seq(Chars) /\ consumed \in Nat /\ consumed <= Len(x) /\ g = SubSeq(x, 1, consumed)
      BY <2>5
    <3> HIDE DEF x, g
    <3>2. g \in Seq(Chars) /\ Len(g) = consumed /\ \A k \in 1 .. consumed : g[k] = x[k]
      BY <3>1
    <3>3. QED
      BY <3>2 DEF x
  <2> HIDE DEF f, g
  <2>7. \A k \in 1 .. Len(f) : Text[k] = f[k]
    BY <2>4
  <2>8. Len(f) \in Nat /\ Len(p) \in Nat
    BY <2>4, <2>5
  <2>9. PICK i \in 0 .. Len(f) - Len(p) : \A k \in 1 .. Len(p) : f[i + k] = p[k]
    BY <2>1, <2>4, <2>5, OccursIff DEF f
  <2>10. i \in 0 .. Len(g) - Len(p)
    BY <2>2, <2>5, <2>6, <2>8
  <2>11. \A k \in 1 .. Len(p) : i + k \in 1 .. Len(f) /\ i + k \in 1 .. consumed
    BY <2>2, <2>5, <2>8
  <2>12. \A k \in 1 .. Len(p) : g[i + k] = p[k]
    BY <2>6, <2>7, <2>9, <2>11
  <2>13. Occurs(g, p)
    BY <2>5, <2>6, <2>10, <2>12, OccursIff
  <2>14. QED
    BY <2>2, <2>13 DEF ScanInv, Clean, g
<1>2. QED
  BY <1>1, Invariance, PTL

\* Only a Reject pattern in the text blocks a generation whose grammar is
\* masked: what the mask allowed the control accepts (MaskInv).
THEOREM BlocksAreJustified == Spec => []BlockIsJustified
<1>1. IInv => BlockIsJustified
  BY DEF IInv
<1>2. QED
  BY <1>1, Invariance, PTL

\* Between two tokens the grammar has accepted exactly the streamed text,
\* wherever its control stands in the chain.
THEOREM GrammarFollows == Spec => []GrammarInStep
<1>1. IInv => GrammarInStep
  <2>1. SUFFICES ASSUME IInv, In("grammar"), ~In("math"), status \in {"sample", "Length"}
                 PROVE  grammar = Text /\ Prefixed(Text)
    BY DEF GrammarInStep
  <2>2. grammar = Text /\ Prefixed(grammar)
    BY <2>1 DEF IInv, StepInv, MaskInv
  <2>3. QED
    BY <2>2 DEF Prefixed
<1>2. QED
  BY <1>1, Invariance, PTL

\* A math bypass that comes first streams its answer and nothing else.
THEOREM AnswerIsComputed == Spec => []AnswerIsExact
<1>1. IInv => AnswerIsExact
  <2>1. SUFFICES ASSUME IInv, armed, chain[1] = "math"
                 PROVE  /\ \E a \in Answers : IsPrefix(tokens, a) /\ tokens \o queue = a
                        /\ status = "EarlyExit" => queue = <<>>
                        /\ status \notin {"Blocked", "Stop"}
    BY DEF AnswerIsExact
  <2>2. /\ tokens \o queue \in Answers
        /\ status = "EarlyExit" => queue = <<>>
        /\ status \notin {"Blocked", "Stop"}
        /\ tokens \in Seq(Tokens) /\ queue \in Seq(Tokens)
    BY <2>1 DEF IInv, QueueInv, TypeInv
  <2>3. IsPrefix(tokens, tokens \o queue)
    <3> DEFINE a == tokens \o queue
               l == SubSeq(tokens, 1, Len(tokens))
               r == SubSeq(a, 1, Len(tokens))
    <3>1. /\ a \in Seq(Tokens) /\ Len(tokens) \in Nat /\ Len(tokens) <= Len(a)
          /\ \A i \in 1 .. Len(tokens) : a[i] = tokens[i]
      BY <2>2
    <3>2. l \in Seq(Tokens) /\ Len(l) = Len(tokens) /\ \A i \in 1 .. Len(tokens) : l[i] = tokens[i]
      BY <2>2
    <3> HIDE DEF a
    <3>3. r \in Seq(Tokens) /\ Len(r) = Len(tokens) /\ \A i \in 1 .. Len(tokens) : r[i] = a[i]
      BY <3>1
    <3> HIDE DEF l, r
    <3>4. l = r
      BY <3>1, <3>2, <3>3, SeqEqual
    <3>5. QED
      BY <3>1, <3>4 DEF IsPrefix, l, r, a
  <2>4. QED
    BY <2>2, <2>3
<1>2. QED
  BY <1>1, Invariance, PTL

=============================================================================
