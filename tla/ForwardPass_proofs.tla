-------------------------- MODULE ForwardPass_proofs --------------------------
(***************************************************************************)
(* The invariants of ForwardPass, for every model, prompt, chunk size,     *)
(* yield interval, budget and tiling.                                      *)
(*                                                                         *)
(* A yield or a readback moves dispatches from the encoder to the GPU and  *)
(* leaves Recorded, the two of them together, as it was: for Recorded such *)
(* a step is silent, and only kernels, turns of the QKV loop and the head  *)
(* extend it.  The rank of a dispatch is its layer and place in the body;  *)
(* what is recorded is sorted by rank, complete below the rank reached and *)
(* empty above it (OrderInv, QkvInv), and the last dispatch by each kernel *)
(* is known at every point (LastInv), so that a copy of all of Recorded    *)
(* shows what it is named after.  What waits in the encoder is counted by  *)
(* the turns since the last yield (PendingInv).                            *)
(***************************************************************************)
EXTENDS ForwardPass, SequenceTheorems, WellFoundedInduction, FiniteSetTheorems,
        TLAPS

-----------------------------------------------------------------------------
(* The largest of some numbers. *)

\* Every nonempty set of natural numbers has a least element.
LEMMA LeastElement ==
  ASSUME NEW T, T \subseteq Nat, T # {}
  PROVE  \E x \in T : \A y \in T : x <= y
<1> DEFINE R == OpToRel(<,Nat)
<1>1. IsWellFoundedOn(R, Nat)
  BY NatLessThanWellFounded
<1>2. \A x, y \in Nat : <<y, x>> \in R <=> y < x
  BY DEF OpToRel
<1> HIDE DEF R
<1>3. PICK x \in T : \A y \in T : ~ (<<y, x>> \in R)
  BY <1>1, WFMin
<1>4. \A y \in T : ~(y < x)
  BY <1>2, <1>3
<1>5. \A y \in T : y \in Nat /\ x \in Nat
  OBVIOUS
<1>6. \A y \in T : x <= y
  BY <1>4, <1>5
<1>7. QED
  BY <1>6

\* The largest element of a set of positive numbers that holds the bound.
LEMMA MaxIsLargest ==
  ASSUME NEW n \in Nat, NEW s \in SUBSET (1 .. n + 1), n + 1 \in s
  PROVE  Max(s) = n + 1
<1>1. \A y \in s : y \in Nat /\ n + 1 >= y
  OBVIOUS
<1>2. \A x \in s : (\A y \in s : x >= y) => x = n + 1
  BY <1>1
<1>3. QED
  BY <1>1, <1>2 DEF Max

\* A nonempty set of numbers up to n holds its largest element.
LEMMA MaxExists ==
  ASSUME NEW n \in Nat, NEW s \in SUBSET (1 .. n), s # {}
  PROVE  Max(s) \in s /\ \A y \in s : Max(s) >= y
<1> DEFINE T == {k \in Nat : n - k \in s}
<1>1. T \subseteq Nat /\ T # {}
  <2>1. PICK y \in s : TRUE
    OBVIOUS
  <2>2. n - y \in Nat /\ n - (n - y) = y
    OBVIOUS
  <2>3. QED
    BY <2>2
<1>2. PICK k \in T : \A j \in T : k <= j
  <2> HIDE DEF T
  <2>1. QED
    BY <1>1, LeastElement
<1>3. n - k \in s
  OBVIOUS
<1>4. ASSUME NEW y \in s PROVE n - k >= y
  <2>1. n - y \in T
    OBVIOUS
  <2>2. k <= n - y
    BY <1>2, <2>1
  <2>3. k \in Nat /\ y \in Nat
    OBVIOUS
  <2> HIDE DEF T
  <2>4. QED
    BY <2>2, <2>3
<1>5. \E x \in s : \A y \in s : x >= y
  BY <1>3, <1>4
<1>6. QED
  BY <1>5 DEF Max

-----------------------------------------------------------------------------
(* The inductive invariant                                                 *)

\* The dispatches of a pass.
Commands == [kernel : Kernels, layer : 0 .. LayerCount, first : Nat, count : Nat]

\* The phases of a call.
Phases == {"Start", "Layers", "Head", "Readback", "Returned", "Ok", "Failed",
           "Panicked"}

\* The types.
TypeInv ==
  /\ options \in Options
  /\ rows \in Prompts /\ from \in Nat /\ from < rows
  /\ phase \in Phases
  /\ layer \in Layers /\ at \in 1 .. 25 /\ offset \in Nat
  /\ encoder \in Seq(Commands) /\ gpu \in Seq(Commands)
  /\ maps \subseteq Outputs

\* The place of a kernel in the body of the layer loop.
Place == [AttnNorm |-> 2, Qkv |-> 4, QkNorm |-> 6, AttnOut |-> 8,
          AttnProj |-> 11, PostAttnNorm |-> 13, FfnNorm |-> 14, FfnProj |-> 16,
          FfnDown |-> 18, PostFfwNorm |-> 21]

\* The kernels of the layer loop.
BodyKernels ==
  {"AttnNorm", "Qkv", "QkNorm", "AttnOut", "AttnProj", "PostAttnNorm",
   "FfnNorm", "FfnProj", "FfnDown", "PostFfwNorm"}

\* How far the pass is.
Reached == IF phase = "Layers" THEN 25 * layer + at ELSE 25 * LayerCount + 26

\* The rows of the current layer whose QKV is recorded.
OffsetInv ==
  /\ phase = "Layers" => /\ offset < BatchSize /\ (at # 4 => offset = 0)
                 /\ \E m \in Nat : offset = m * QkvChunk
  /\ phase \in {"Start", "Ok"} => encoder = <<>> /\ gpu = <<>>

\* A dispatch that a pass may have recorded when it has reached rank n.
Fits(c, n) ==
  /\ c.kernel \in BodyKernels /\ c.layer \in Layers
  /\ \/ Rank(c) < n
     \/ Rank(c) = n /\ c.kernel = "Qkv"
  /\ c.kernel # "Qkv" =>
       Work(c) \in Reference /\ c.first = 0 /\ c.count = BatchSize

\* The dispatches come in the order of their ranks.
Sorted(R) == \A i, j \in DOMAIN R : i < j => Rank(R[i]) <= Rank(R[j])

\* Work w has run once.
RanOnce(R, w) == \E i \in DOMAIN R : Running(R, w) = {i}

\* The rank of the work of a layer.
WorkRank(w) == 25 * w[2] + Place[w[1]]

\* All work of the layers below rank n has run.
RanUpTo(R, n) == \A w \in Reference : w[2] # 0 /\ WorkRank(w) < n => RanOnce(R, w)

\* A sequence of dispatches that is complete and ordered up to n.
Orderly(R, n) ==
  /\ \A i \in DOMAIN R : Fits(R[i], n)
  /\ Sorted(R)
  /\ RanUpTo(R, n)

\* What is recorded is complete and ordered up to the point reached.
OrderInv == phase \in {"Layers", "Head"} => Orderly(Recorded, Reached)

\* The rows of the pass.
Rows == 0 .. BatchSize - 1

\* QKV of row r of layer l has been computed once.
QkvOnce(R, l, r) == \E j \in DOMAIN R : Covering(R, "Qkv", l, r) = {j}

\* QKV is complete below rank n and, in the layer of n, up to row off.
QkvUpTo(R, n, off) ==
  /\ \A l \in Layers, r \in Rows :
       /\ 25 * l + 4 < n \/ (25 * l + 4 = n /\ r < off) => QkvOnce(R, l, r)
       /\ ~(25 * l + 4 < n \/ (25 * l + 4 = n /\ r < off)) => Covering(R, "Qkv", l, r) = {}

\* QkvCoversRows, of the dispatch at i.
RowsBefore(R, i) ==
  /\ R[i].kernel = "QkNorm" =>
       \A r \in Rows : \E j \in 1 .. i - 1 : Covering(R, "Qkv", R[i].layer, r) = {j}
  /\ R[i].kernel = "Qkv" =>
       /\ R[i].first + R[i].count <= BatchSize
       /\ \E j \in 1 .. i - 1 : R[j].kernel = "AttnNorm" /\ R[j].layer = R[i].layer

\* QkvCoversRows, of a sequence.
RowsCovered(R) == \A i \in DOMAIN R : RowsBefore(R, i)

\* QKV is complete up to the row that is next.
QkvInv ==
  /\ phase \in {"Layers", "Head"} => QkvUpTo(Recorded, Reached, offset)
  /\ QkvCoversRows

\* A dispatch of kernel k for layer l that ends with the last row.
Whole(c, k, l) == c.kernel = k /\ c.layer = l /\ c.first + c.count = BatchSize

\* The kernels of the stages that have a buffer.
Stages == {"AttnNorm", "Qkv", "QkNorm", "AttnOut", "FfnNorm", "FfnProj"}

\* The stages of layer l before point p have just been computed.
LastStage(R, l, p) ==
  \A k \in Stages :
    Place[k] < p /\ (k = "FfnNorm" => l \in options.ffnNorm) => Whole(LastOf(R, {k}), k, l)

\* The kernel that a layer ends with.
Out == IF options.postNorm THEN "PostFfwNorm" ELSE "FfnDown"

\* The kernel that wrote the activations last, before point p.
Writer(p) ==
  IF p > 21 THEN Out
  ELSE IF p > 18 THEN "FfnDown"
  ELSE IF p > 13 /\ options.postNorm THEN "PostAttnNorm"
  ELSE IF p > 11 THEN "AttnProj" ELSE Out

\* The activations are what the kernel before point p has made of them.
LastActivation(R, l, p) ==
  IF p <= 11 /\ l = 1
    THEN LastOf(R, ActivationWriters) = NoDispatch
    ELSE Whole(LastOf(R, ActivationWriters), Writer(p), IF p <= 11 THEN l - 1 ELSE l)

\* The buffers hold what the points before the next one wrote.
LastInv ==
  phase = "Layers" => /\ LastStage(Recorded, layer, at)
                      /\ LastActivation(Recorded, layer, at)

\* The places of some kernels.
PendingIn(E, ks) == {j \in DOMAIN E : E[j].kernel \in ks}

\* What waits before point p is of the layer, and of points up to p.
OfLayer(E, l, p) ==
  \A i \in DOMAIN E :
    E[i].layer = l /\ E[i].kernel \in BodyKernels /\ Place[E[i].kernel] <= p

\* How many QKV dispatches can wait at the m-th turn.
Waiting(m) == IF m = 0 THEN 0 ELSE ((m - 1) % YieldInterval) + 1

\* What waits for submission.
PendingInv ==
  phase = "Layers" /\ BatchSize > 1 =>
    /\ OfLayer(encoder, layer, at)
    /\ at > 22 => encoder = <<>>
    /\ at > 10 /\ BatchSize > LargeBatch => PendingIn(encoder, {"AttnOut"}) = {}
    /\ Cardinality(PendingIn(encoder, {"Qkv"}))
         <= IF at = 4 THEN Waiting(offset \div QkvChunk) ELSE YieldInterval

\* What a complete pass has run.
Complete(R) ==
  /\ \A w \in Reference : RanOnce(R, w)
  /\ \A i \in DOMAIN R : R[i].kernel \in {"Qkv", "LmHead"} \/ Work(R[i]) \in Reference
  /\ Sorted(R)
  /\ \A w \in 0 .. HeadWorkgroups - 1 :
       \E q \in DOMAIN R : Covering(R, "LmHead", 0, w) = {q}
  /\ \A i \in DOMAIN R :
       R[i].kernel = "LmHead" =>
         /\ R[i].first + R[i].count <= HeadWorkgroups
         /\ \E f \in 1 .. i - 1 : R[f].kernel = "FinalNorm"

\* What has run when the pass waits for its outputs and returns them.
DoneInv ==
  /\ phase \in {"Readback", "Returned"} => encoder = <<>> /\ Complete(gpu)
  /\ phase = "Returned" => maps = Outputs

-----------------------------------------------------------------------------
(* The body of the layer loop                                              *)

\* The body, point by point.
LEMMA BodyIs ==
  /\ Len(Body) = 25 /\ DOMAIN Body = 1 .. 25
  /\ Body[1] = <<"peel", "residual_in">> /\ Body[2] = <<"kernel", "AttnNorm">>
  /\ Body[3] = <<"peel", "attn_norm">> /\ Body[4] = <<"qkv", "Qkv">>
  /\ Body[5] = <<"peel", "qkv">> /\ Body[6] = <<"kernel", "QkNorm">>
  /\ Body[7] = <<"peel", "qk_norm">> /\ Body[8] = <<"kernel", "AttnOut">>
  /\ Body[9] = <<"peel", "attn_ctx">> /\ Body[10] = <<"check", "attn_out">>
  /\ Body[11] = <<"kernel", "AttnProj">> /\ Body[12] = <<"peel", "attn_residual">>
  /\ Body[13] = <<"kernel", "PostAttnNorm">> /\ Body[14] = <<"kernel", "FfnNorm">>
  /\ Body[15] = <<"peel", "ffn_norm">> /\ Body[16] = <<"kernel", "FfnProj">>
  /\ Body[17] = <<"peel", "ffn_gate_up">> /\ Body[18] = <<"kernel", "FfnDown">>
  /\ Body[19] = <<"peel", "ffn_residual">> /\ Body[20] = <<"check", "ffn_down">>
  /\ Body[21] = <<"kernel", "PostFfwNorm">> /\ Body[22] = <<"check", "boundary">>
  /\ Body[23] = <<"capture", "capture">> /\ Body[24] = <<"dump", "dump">>
  /\ Body[25] = <<"trace", "trace">>
BY DEF Body

\* A kernel of the body has one place in it.
LEMMA PlaceIs ==
  ASSUME NEW k \in BodyKernels
  PROVE  /\ Place[k] \in 2 .. 21 /\ k \in Kernels
         /\ (CHOOSE i \in DOMAIN Body : Body[i][2] = k) = Place[k]
<1>1. /\ Place[k] \in 1 .. 25 /\ Body[Place[k]][2] = k
      /\ Place[k] \in 2 .. 21 /\ k \in Kernels
  BY BodyIs DEF BodyKernels, Place, Kernels
<1>2. ASSUME NEW i \in 1 .. 25, Body[i][2] = k PROVE i = Place[k]
  BY <1>2, BodyIs DEF BodyKernels, Place
<1>3. QED
  BY <1>1, <1>2, BodyIs

\* The rank of a dispatch of a layer.
LEMMA RankIs ==
  ASSUME NEW c, c.kernel \in BodyKernels, c.layer \in Layers
  PROVE  /\ Rank(c) = 25 * c.layer + Place[c.kernel]
         /\ Rank(c) \in Nat
<1>1. c.layer # 0
  BY DEF Layers
<1>2. Rank(c) = 25 * c.layer + Place[c.kernel]
  BY <1>1, PlaceIs, BodyIs DEF Rank
<1>3. c.layer \in Nat /\ Place[c.kernel] \in Nat
  BY PlaceIs DEF Layers
<1>4. QED
  BY <1>2, <1>3

\* The rank of a dispatch of the head.
LEMMA HeadRankIs ==
  ASSUME NEW c, c.layer = 0, NEW i \in 1 .. 4, c.kernel = HeadOrder[i]
  PROVE  Rank(c) = 25 * (LayerCount + 1) + i
<1>1. DOMAIN HeadOrder = 1 .. 4
  BY DEF HeadOrder
<1>2. ASSUME NEW j \in 1 .. 4, HeadOrder[j] = c.kernel PROVE j = i
  BY <1>2 DEF HeadOrder
<1>3. (CHOOSE j \in DOMAIN HeadOrder : HeadOrder[j] = c.kernel) = i
  BY <1>1, <1>2
<1>4. QED
  BY <1>3, BodyIs DEF Rank

-----------------------------------------------------------------------------
(* One more dispatch                                                       *)

\* Q is R with one more dispatch.
Longer(R, c, Q) ==
  /\ Len(R) \in Nat /\ DOMAIN R = 1 .. Len(R) /\ DOMAIN Q = 1 .. Len(R) + 1
  /\ \A i \in DOMAIN R : Q[i] = R[i]
  /\ Q[Len(R) + 1] = c

\* A dispatch that is appended.
LEMMA Appended ==
  ASSUME NEW R \in Seq(Commands), NEW c \in Commands
  PROVE  Longer(R, c, Append(R, c)) /\ Append(R, c) \in Seq(Commands)
BY DEF Longer

\* The last dispatch by some kernels is the new one or the one it was.
LEMMA LastOfAppend ==
  ASSUME NEW R, NEW c, NEW Q, Longer(R, c, Q), NEW ks
  PROVE  LastOf(Q, ks) = IF c.kernel \in ks THEN c ELSE LastOf(R, ks)
<1> DEFINE n == Len(R)
           of == {i \in DOMAIN R : R[i].kernel \in ks}
           of1 == {i \in DOMAIN Q : Q[i].kernel \in ks}
<1>1. /\ n \in Nat /\ DOMAIN Q = 1 .. n + 1 /\ DOMAIN R = 1 .. n
      /\ \A i \in DOMAIN R : Q[i] = R[i]
      /\ Q[n + 1] = c
  BY DEF Longer
<1>2. CASE c.kernel \in ks
  <2>1. of1 \in SUBSET (1 .. n + 1) /\ n + 1 \in of1
    BY <1>1, <1>2
  <2>2. Max(of1) = n + 1
    <3> HIDE DEF of1
    <3>1. QED BY <1>1, <2>1, MaxIsLargest
  <2>3. QED
    BY <1>1, <1>2, <2>1, <2>2 DEF LastOf
<1>3. CASE c.kernel \notin ks
  <2>1. of1 = of /\ of \in SUBSET (1 .. n)
    BY <1>1, <1>3
  <2>2. of # {} => Max(of) \in DOMAIN R
    <3> HIDE DEF of
    <3>1. QED BY <1>1, <2>1, MaxExists
  <2>3. QED
    BY <1>1, <1>3, <2>1, <2>2 DEF LastOf
<1>4. QED
  BY <1>2, <1>3

\* The places of some work.
LEMMA RunningAppend ==
  ASSUME NEW R, NEW c, NEW Q, Longer(R, c, Q), NEW w
  PROVE  Running(Q, w) = IF Work(c) = w THEN Running(R, w) \cup {Len(R) + 1}
                                        ELSE Running(R, w)
BY DEF Running, Longer

\* The dispatches that cover a unit.
LEMMA CoveringAppend ==
  ASSUME NEW R, NEW c, NEW Q, Longer(R, c, Q), NEW k, NEW l, NEW u
  PROVE  Covering(Q, k, l, u) =
           IF c.kernel = k /\ c.layer = l /\ u \in c.first .. c.first + c.count - 1
             THEN Covering(R, k, l, u) \cup {Len(R) + 1} ELSE Covering(R, k, l, u)
<1> DEFINE Is(d) == d.kernel = k /\ d.layer = l /\ u \in d.first .. d.first + d.count - 1
<1>1. /\ Covering(Q, k, l, u) = {j \in DOMAIN Q : Is(Q[j])}
      /\ Covering(R, k, l, u) = {j \in DOMAIN R : Is(R[j])}
  BY DEF Covering
<1> HIDE DEF Is
<1>2. Covering(Q, k, l, u) = IF Is(c) THEN Covering(R, k, l, u) \cup {Len(R) + 1}
                                      ELSE Covering(R, k, l, u)
  BY <1>1 DEF Longer
<1>3. QED
  BY <1>2 DEF Is

-----------------------------------------------------------------------------
(* Order                                                                   *)

\* What a pass is made of.
LEMMA ReferenceIs ==
  /\ \A w \in Reference :
       \/ w[2] = 0 /\ w \in {"CopyPreNorm", "FinalNorm", "CopyOut"} \X {0}
       \/ w[2] \in Layers /\ w[1] \in BodyKernels \ {"Qkv"} /\ w = <<w[1], w[2]>>
  /\ \A k \in BodyKernels \ {"Qkv"}, l \in Layers :
       <<k, l>> \in Reference <=> (k = "FfnNorm" => l \in options.ffnNorm)
<1>1. 0 \notin Layers
  BY DEF Layers
<1>2. QED
  BY <1>1 DEF Reference, BodyKernels

\* No two kernels share a rank.
LEMMA RankIsUnique ==
  ASSUME NEW k \in BodyKernels, NEW l \in Layers,
         NEW h \in BodyKernels, NEW m \in Layers,
         25 * l + Place[k] = 25 * m + Place[h]
  PROVE  k = h /\ l = m
<1>1. /\ Place[k] \in 2 .. 21 /\ Place[h] \in 2 .. 21 /\ l \in Nat /\ m \in Nat
  BY PlaceIs DEF Layers
<1>2. l = m /\ Place[k] = Place[h]
  BY <1>1
<1>3. QED
  BY <1>2 DEF BodyKernels, Place

\* The rank of work is that of its dispatch.
LEMMA WorkRankIs ==
  ASSUME NEW c, c.kernel \in BodyKernels, c.layer \in Layers
  PROVE  WorkRank(Work(c)) = Rank(c) /\ Rank(c) \in Nat /\ Work(c)[2] # 0
<1>1. Work(c)[1] = c.kernel /\ Work(c)[2] = c.layer /\ c.layer # 0
  BY DEF Work, Layers
<1>2. QED
  BY <1>1, RankIs DEF WorkRank

\* Work of a layer has a rank, which is its own.
LEMMA ReferenceRank ==
  ASSUME NEW w \in Reference, w[2] # 0
  PROVE  /\ WorkRank(w) \in Nat
         /\ \A v \in Reference : v[2] # 0 /\ WorkRank(v) = WorkRank(w) => v = w
<1>1. w[2] \in Layers /\ w[1] \in BodyKernels /\ w = <<w[1], w[2]>>
  BY ReferenceIs
<1>2. WorkRank(w) \in Nat
  <2>1. w[2] \in Nat /\ Place[w[1]] \in Nat
    BY <1>1, PlaceIs DEF Layers
  <2>2. QED
    BY <2>1 DEF WorkRank
<1>3. ASSUME NEW v \in Reference, v[2] # 0, WorkRank(v) = WorkRank(w) PROVE v = w
  <2>1. v[2] \in Layers /\ v[1] \in BodyKernels /\ v = <<v[1], v[2]>>
    BY <1>3, ReferenceIs
  <2>2. v[1] = w[1] /\ v[2] = w[2]
    BY <1>1, <1>3, <2>1, RankIsUnique DEF WorkRank
  <2>3. QED
    BY <1>1, <2>1, <2>2
<1>4. QED
  BY <1>2, <1>3

\* No kernel of the pass, apart from QKV, has rank n.
Vacant(n) == \A w \in Reference : w[2] # 0 => WorkRank(w) # n

\* What fits below a rank fits below the next.
LEMMA FitsLonger ==
  ASSUME NEW c, NEW n \in Nat, Fits(c, n)
  PROVE  Fits(c, n + 1) /\ Rank(c) \in Nat /\ Rank(c) <= n
<1>1. Rank(c) \in Nat
  BY RankIs DEF Fits
<1>2. QED
  BY <1>1 DEF Fits

\* Past a rank that no kernel of the pass has, nothing is missing.
LEMMA OrderlyPasses ==
  ASSUME NEW R, NEW n \in Nat, Orderly(R, n), Vacant(n)
  PROVE  Orderly(R, n + 1)
<1>1. \A i \in DOMAIN R : Fits(R[i], n + 1)
  BY FitsLonger DEF Orderly
<1>2. ASSUME NEW w \in Reference, w[2] # 0, WorkRank(w) < n + 1
      PROVE  RanOnce(R, w)
  <2>1. WorkRank(w) \in Nat /\ WorkRank(w) # n
    BY <1>2, ReferenceRank DEF Vacant
  <2>2. WorkRank(w) < n
    BY <1>2, <2>1
  <2>3. QED
    BY <1>2, <2>2 DEF Orderly, RanUpTo
<1>3. QED
  BY <1>1, <1>2 DEF Orderly, RanUpTo

\* What ran once still did, unless it runs again.
LEMMA RanOnceLonger ==
  ASSUME NEW R, NEW c, NEW Q, Longer(R, c, Q), NEW w, RanOnce(R, w), Work(c) # w
  PROVE  RanOnce(Q, w)
<1>1. Running(Q, w) = Running(R, w)
  BY RunningAppend
<1>2. DOMAIN R \subseteq DOMAIN Q
  BY DEF Longer
<1>3. QED
  BY <1>1, <1>2 DEF RanOnce

\* A last dispatch of the largest rank keeps a sequence sorted.
LEMMA SortedLonger ==
  ASSUME NEW R, NEW c, NEW Q, Longer(R, c, Q), Sorted(R),
         \A i \in DOMAIN R : Rank(R[i]) <= Rank(c), Rank(c) \in Nat
  PROVE  Sorted(Q)
<1>1. SUFFICES ASSUME NEW i \in DOMAIN Q, NEW j \in DOMAIN Q, i < j
               PROVE  Rank(Q[i]) <= Rank(Q[j])
  BY DEF Sorted
<1>2. i \in DOMAIN R /\ (j \in DOMAIN R \/ j = Len(R) + 1)
  BY <1>1 DEF Longer
<1>3. QED
  BY <1>1, <1>2 DEF Longer, Sorted

\* A dispatch of the kernel that is next keeps the order.
LEMMA OrderlyAppend ==
  ASSUME NEW R, NEW c, NEW Q, Longer(R, c, Q), NEW n \in Nat, Orderly(R, n),
         c.kernel \in BodyKernels, c.layer \in Layers, Rank(c) = n
  PROVE  /\ c.kernel = "Qkv" => Orderly(Q, n)
         /\ c.kernel # "Qkv" /\ c.first = 0 /\ c.count = BatchSize
              /\ Work(c) \in Reference => Orderly(Q, n + 1)
<1>1. Sorted(Q)
  <2>1. \A i \in DOMAIN R : Rank(R[i]) <= Rank(c)
    BY FitsLonger DEF Orderly
  <2>2. QED
    BY <2>1, SortedLonger DEF Orderly
<1>2. ASSUME NEW i \in DOMAIN Q PROVE Q[i] = c \/ (i \in DOMAIN R /\ Q[i] = R[i])
  <2>1. i \in DOMAIN R \/ i = Len(R) + 1
    BY DEF Longer
  <2>2. QED
    BY <2>1 DEF Longer
<1>3. ASSUME c.kernel = "Qkv"
      PROVE  Orderly(Q, n)
  <2>1. \A i \in DOMAIN Q : Fits(Q[i], n)
    <3>1. Fits(c, n)
      BY <1>3 DEF Fits
    <3>2. QED
      BY <1>2, <3>1 DEF Orderly
  <2>2. ASSUME NEW w \in Reference, w[2] # 0, WorkRank(w) < n PROVE RanOnce(Q, w)
    <3>1. Work(c) # w
      BY <1>3, <2>2, ReferenceIs DEF Work
    <3>2. QED
      BY <2>2, <3>1, RanOnceLonger DEF Orderly, RanUpTo
  <2>3. QED
    BY <1>1, <2>1, <2>2 DEF Orderly, RanUpTo
<1>4. ASSUME c.kernel # "Qkv", c.first = 0, c.count = BatchSize, Work(c) \in Reference
      PROVE  Orderly(Q, n + 1)
  <2>1. \A i \in DOMAIN Q : Fits(Q[i], n + 1)
    <3>1. Rank(c) < n + 1
      OBVIOUS
    <3>2. Fits(c, n + 1)
      BY <1>4, <3>1 DEF Fits
    <3>3. \A i \in DOMAIN R : Fits(R[i], n + 1)
      BY FitsLonger DEF Orderly
    <3>4. QED
      BY <1>2, <3>2, <3>3
  <2>2. RanOnce(Q, Work(c))
    <3>1. ASSUME NEW i \in DOMAIN R, Work(R[i]) = Work(c) PROVE FALSE
      <4>1. Fits(R[i], n)
        BY DEF Orderly
      <4>2. R[i].kernel = c.kernel /\ R[i].layer = c.layer
        BY <3>1 DEF Work
      <4>3. Rank(R[i]) = n
        BY <4>2, RankIs
      <4>4. QED
        BY <1>4, <4>1, <4>2, <4>3 DEF Fits
    <3>2. Running(R, Work(c)) = {}
      BY <3>1 DEF Running
    <3>3. Running(Q, Work(c)) = {Len(R) + 1}
      BY <3>2, RunningAppend
    <3>4. QED
      BY <3>3 DEF RanOnce, Longer
  <2>3. ASSUME NEW w \in Reference, w[2] # 0, WorkRank(w) < n + 1 PROVE RanOnce(Q, w)
    <3>1. CASE w = Work(c)
      BY <2>2, <3>1
    <3>2. CASE w # Work(c)
      <4>1. WorkRank(w) # n
        BY <1>4, <2>3, <3>2, WorkRankIs, ReferenceRank
      <4>2. WorkRank(w) < n
        BY <2>3, <4>1, ReferenceRank
      <4>3. QED
        BY <2>3, <3>2, <4>2, RanOnceLonger DEF Orderly, RanUpTo
    <3>3. QED
      BY <3>1, <3>2
  <2>4. QED
    BY <1>1, <2>1, <2>3 DEF Orderly, RanUpTo
<1>5. QED
  BY <1>3, <1>4

-----------------------------------------------------------------------------
(* QKV                                                                     *)

\* The property, dispatch by dispatch.
LEMMA RowsCoveredIs == QkvCoversRows <=> RowsCovered(Recorded)
BY DEF QkvCoversRows, RowsCovered, RowsBefore, Rows

\* A row that is covered stays covered by the same dispatch.
LEMMA QkvOnceLonger ==
  ASSUME NEW R, NEW c, NEW Q, Longer(R, c, Q), NEW l, NEW r,
         ~(c.kernel = "Qkv" /\ c.layer = l /\ r \in c.first .. c.first + c.count - 1)
  PROVE  /\ QkvOnce(R, l, r) => QkvOnce(Q, l, r)
         /\ Covering(Q, "Qkv", l, r) = Covering(R, "Qkv", l, r)
<1>1. Covering(Q, "Qkv", l, r) = Covering(R, "Qkv", l, r)
  BY CoveringAppend
<1>2. DOMAIN R \subseteq DOMAIN Q
  BY DEF Longer
<1>3. QED
  BY <1>1, <1>2 DEF QkvOnce

\* A dispatch of another kernel changes nothing for QKV.
LEMMA QkvOther ==
  ASSUME NEW R, NEW c, NEW Q, Longer(R, c, Q), NEW n, NEW off, QkvUpTo(R, n, off),
         c.kernel # "Qkv"
  PROVE  QkvUpTo(Q, n, off)
BY QkvOnceLonger DEF QkvUpTo

\* A turn covers the rows that are next.
LEMMA QkvTurnCovers ==
  ASSUME NEW R, NEW c, NEW Q, Longer(R, c, Q), NEW off \in Nat, NEW t \in Nat,
         c.kernel = "Qkv", c.layer \in Layers, c.first = off, c.count = t,
         NEW n, n = 25 * c.layer + 4, QkvUpTo(R, n, off)
  PROVE  QkvUpTo(Q, n, off + t)
<1> DEFINE Is(l, r) == c.layer = l /\ r \in off .. off + t - 1
<1>1. SUFFICES ASSUME NEW l \in Layers, NEW r \in Rows
               PROVE  /\ 25 * l + 4 < n \/ (25 * l + 4 = n /\ r < off + t) => QkvOnce(Q, l, r)
                      /\ ~(25 * l + 4 < n \/ (25 * l + 4 = n /\ r < off + t))
                           => Covering(Q, "Qkv", l, r) = {}
  BY DEF QkvUpTo
<1>2. l \in Nat /\ c.layer \in Nat /\ r \in Int /\ (25 * l + 4 = n <=> c.layer = l)
  BY DEF Layers, Rows
<1>3. CASE Is(l, r)
  <2>1. Covering(R, "Qkv", l, r) = {}
    BY <1>2, <1>3 DEF QkvUpTo
  <2>2. Covering(Q, "Qkv", l, r) = {Len(R) + 1}
    BY <1>3, <2>1, CoveringAppend
  <2>3. QkvOnce(Q, l, r)
    BY <2>2 DEF QkvOnce, Longer
  <2>4. 25 * l + 4 = n /\ r < off + t
    BY <1>2, <1>3
  <2>5. QED
    BY <2>3, <2>4
<1>4. CASE ~Is(l, r)
  <2>1. /\ QkvOnce(R, l, r) => QkvOnce(Q, l, r)
        /\ Covering(Q, "Qkv", l, r) = Covering(R, "Qkv", l, r)
    BY <1>4, QkvOnceLonger
  <2>2. 25 * l + 4 = n /\ r < off + t => r < off
    BY <1>2, <1>4
  <2>3. 25 * l + 4 = n /\ ~(r < off + t) => ~(r < off)
    BY <1>2
  <2>4. QED
    BY <2>1, <2>2, <2>3 DEF QkvUpTo
<1>5. QED
  BY <1>3, <1>4

\* Past the last row, and past every other point, the next rank follows.
LEMMA QkvPasses ==
  ASSUME NEW R, NEW n \in Nat, NEW off, QkvUpTo(R, n, off), BatchSize \in Nat,
         off = BatchSize \/ \A l \in Layers : 25 * l + 4 # n
  PROVE  QkvUpTo(R, n + 1, 0)
<1>1. SUFFICES ASSUME NEW l \in Layers, NEW r \in Rows
               PROVE  /\ 25 * l + 4 < n + 1 \/ (25 * l + 4 = n + 1 /\ r < 0) => QkvOnce(R, l, r)
                      /\ ~(25 * l + 4 < n + 1 \/ (25 * l + 4 = n + 1 /\ r < 0))
                           => Covering(R, "Qkv", l, r) = {}
  BY DEF QkvUpTo
<1>2. l \in Nat /\ r \in Nat /\ ~(r < 0)
  BY DEF Layers, Rows
<1>3. 25 * l + 4 < n + 1 <=> 25 * l + 4 < n \/ 25 * l + 4 = n
  BY <1>2
<1>4. off = BatchSize => r < off
  BY DEF Rows
<1>5. QED
  BY <1>2, <1>3, <1>4 DEF QkvUpTo

\* QK norms come after all rows and QKV after the attention norm: what a
\* dispatch needs so that this stays true.
MayFollow(R, c) ==
  /\ c.kernel = "QkNorm" => \A r \in Rows : QkvOnce(R, c.layer, r)
  /\ c.kernel = "Qkv" =>
       /\ c.first + c.count <= BatchSize
       /\ \E j \in DOMAIN R : R[j].kernel = "AttnNorm" /\ R[j].layer = c.layer
       /\ \A j \in DOMAIN R : ~(R[j].kernel = "QkNorm" /\ R[j].layer = c.layer)

\* A dispatch that may follow keeps the rows covered.
LEMMA RowsCoveredLonger ==
  ASSUME NEW R, NEW c, NEW Q, Longer(R, c, Q), RowsCovered(R), MayFollow(R, c)
  PROVE  RowsCovered(Q)
<1>1. SUFFICES ASSUME NEW i \in DOMAIN Q PROVE RowsBefore(Q, i)
  BY DEF RowsCovered
<1>2. CASE i \in DOMAIN R
  <2>1. Q[i] = R[i] /\ RowsBefore(R, i) /\ i \in 1 .. Len(R) /\ Len(R) \in Nat
    BY <1>2 DEF RowsCovered, Longer
  <2>2. \A j \in 1 .. i - 1 : Q[j] = R[j]
    BY <2>1 DEF Longer
  <2>3. ASSUME R[i].kernel = "QkNorm", NEW r \in Rows
        PROVE  \E j \in 1 .. i - 1 : Covering(Q, "Qkv", R[i].layer, r) = {j}
    <3>1. ~(c.kernel = "Qkv" /\ c.layer = R[i].layer)
      BY <1>2, <2>3 DEF MayFollow
    <3>2. Covering(Q, "Qkv", R[i].layer, r) = Covering(R, "Qkv", R[i].layer, r)
      BY <3>1, QkvOnceLonger
    <3>3. QED
      BY <2>1, <2>3, <3>2 DEF RowsBefore
  <2>4. QED
    BY <2>1, <2>2, <2>3 DEF RowsBefore
<1>3. CASE i = Len(R) + 1
  <2>1. Q[i] = c /\ 1 .. i - 1 = DOMAIN R
    BY <1>3 DEF Longer
  <2>2. ASSUME c.kernel = "QkNorm", NEW r \in Rows
        PROVE  \E j \in 1 .. i - 1 : Covering(Q, "Qkv", c.layer, r) = {j}
    <3>1. PICK j \in DOMAIN R : Covering(R, "Qkv", c.layer, r) = {j}
      BY <2>2 DEF MayFollow, QkvOnce
    <3>2. Covering(Q, "Qkv", c.layer, r) = {j}
      BY <2>2, <3>1, QkvOnceLonger
    <3>3. QED
      BY <2>1, <3>2
  <2>3. ASSUME c.kernel = "Qkv"
        PROVE  /\ c.first + c.count <= BatchSize
               /\ \E j \in 1 .. i - 1 : Q[j].kernel = "AttnNorm" /\ Q[j].layer = c.layer
    BY <2>1, <2>3 DEF MayFollow, Longer
  <2>4. QED
    BY <2>1, <2>2, <2>3 DEF RowsBefore
<1>4. QED
  BY <1>2, <1>3 DEF Longer

-----------------------------------------------------------------------------
(* Steps                                                                   *)

\* Concatenation with what is recorded.
LEMMA Concatenated ==
  ASSUME NEW G \in Seq(Commands), NEW E \in Seq(Commands)
  PROVE  /\ G \o E \in Seq(Commands) /\ (G \o E) \o <<>> = G \o E /\ G \o <<>> = G
         /\ \A c \in Commands : G \o Append(E, c) = Append(G \o E, c)
<1>1. G \o E \in Seq(Commands) /\ (G \o E) \o <<>> = G \o E /\ G \o <<>> = G
  OBVIOUS
<1>2. ASSUME NEW c \in Commands PROVE G \o Append(E, c) = Append(G \o E, c)
  OBVIOUS
<1>3. QED
  BY <1>1, <1>2

\* The rows of a pass.
LEMMA BatchSizeIs ==
  ASSUME TypeInv
  PROVE  BatchSize \in Nat \ {0} /\ from + BatchSize \in Nat /\ from + BatchSize <= rows
<1>1. rows \in Nat /\ from \in Nat /\ from < rows /\ ChunkTokens \in Nat \ {0}
  BY ForwardAssumption DEF TypeInv
<1>2. QED
  BY <1>1 DEF BatchSize, Least

\* The rows of a turn of the QKV loop.
LEMMA ThisChunkIs ==
  ASSUME TypeInv, offset < BatchSize
  PROVE  /\ ThisChunk \in Nat \ {0} /\ offset \in Nat /\ offset + ThisChunk <= BatchSize
         /\ offset + ThisChunk < BatchSize => ThisChunk = QkvChunk
         /\ ~(offset + ThisChunk < BatchSize) => offset + ThisChunk = BatchSize
<1>1. offset \in Nat /\ BatchSize \in Nat \ {0} /\ QkvChunk \in Nat \ {0}
  BY BatchSizeIs, ForwardAssumption DEF TypeInv
<1>2. QED
  BY <1>1 DEF ThisChunk, Least

\* Dispatches of the layer loop are commands.
LEMMA LayerCommand ==
  ASSUME TypeInv, phase = "Layers", Kind \in {"kernel", "qkv"}, NEW f \in Nat, NEW n \in Nat
  PROVE  /\ Dispatch(Point, layer, f, n) \in Commands
         /\ Point \in BodyKernels /\ Place[Point] = at /\ at <= 21
         /\ Point = "Qkv" <=> Kind = "qkv"
<1>1. at \in 1 .. 25 /\ layer \in 0 .. LayerCount
  BY DEF TypeInv, Layers
<1>2. /\ Point \in BodyKernels /\ Place[Point] = at /\ at <= 21
      /\ Point = "Qkv" <=> Kind = "qkv"
  BY <1>1, BodyIs DEF Point, Kind, BodyKernels, Place
<1>3. Point \in Kernels
  BY <1>2, PlaceIs
<1>4. QED
  BY <1>1, <1>2, <1>3 DEF Commands, Dispatch

\* The pass moves on by one point.
Moves ==
  /\ phase = "Layers" /\ phase' \in {"Layers", "Head"}
  /\ layer' \in Layers /\ at' \in 1 .. 25 /\ Reached' = Reached + 1
  /\ phase' = "Layers" => \/ at < 25 /\ at' = at + 1 /\ layer' = layer
                          \/ at = 25 /\ at' = 1 /\ layer' = layer + 1
  /\ phase' = "Head" => at = 25 /\ layer = LayerCount /\ at' = 1

\* Advance takes a pass to the next rank.
LEMMA AdvanceMoves ==
  ASSUME TypeInv, phase = "Layers", Advance
  PROVE  Moves
<1>1. /\ at \in 1 .. 25 /\ layer \in Layers /\ LayerCount \in Nat \ {0} /\ Len(Body) = 25
  BY ForwardAssumption, BodyIs DEF TypeInv
<1>2. CASE at < 25
  <2>1. at' = at + 1 /\ phase' = phase /\ layer' = layer
    BY <1>1, <1>2 DEF Advance
  <2>2. QED
    BY <1>1, <1>2, <2>1 DEF Moves, Reached, Layers
<1>3. CASE at = 25 /\ layer < LayerCount
  <2>1. at' = 1 /\ phase' = phase /\ layer' = layer + 1
    BY <1>1, <1>3 DEF Advance
  <2>2. QED
    BY <1>1, <1>3, <2>1 DEF Moves, Reached, Layers
<1>4. CASE at = 25 /\ layer = LayerCount
  <2>1. at' = 1 /\ phase' = "Head" /\ layer' = layer
    BY <1>1, <1>4 DEF Advance
  <2>2. QED
    BY <1>1, <1>4, <2>1 DEF Moves, Reached, Layers
<1>5. QED
  BY <1>1, <1>2, <1>3, <1>4 DEF Layers

\* The call goes on.
Same == options' = options /\ rows' = rows /\ from' = from

\* A point of the body at which nothing is recorded.
Silent ==
  /\ Moves /\ Same /\ offset' = offset /\ Recorded' = Recorded
  /\ Kind \notin {"kernel", "qkv"} \/ (Point = "FfnNorm" /\ layer \notin options.ffnNorm)
  /\ encoder' \in {encoder, <<>>}
  /\ Kind = "check" /\ Forced => encoder' = <<>>

\* Yields and readbacks submit what is recorded and change nothing else.
LEMMA YieldsAreSilent ==
  ASSUME TypeInv, Peel \/ Checkpoint \/ Capture \/ Trace
  PROVE  Silent /\ gpu' \in Seq(Commands) /\ encoder' \in Seq(Commands)
<1>1. gpu \in Seq(Commands) /\ encoder \in Seq(Commands)
  BY DEF TypeInv
<1>2. /\ phase = "Layers" /\ Advance /\ Same /\ offset' = offset
      /\ Kind \notin {"kernel", "qkv"}
  BY DEF Peel, Checkpoint, Capture, Trace, Same
<1>3. \/ gpu' = gpu /\ encoder' = encoder
      \/ gpu' = gpu \o encoder /\ encoder' = <<>>
  BY DEF Peel, Checkpoint, Capture, Trace, Submit, ForceYield, YieldIfNeeded
<1>4. Recorded' = Recorded
  <2>1. Recorded' = gpu' \o encoder' /\ Recorded = gpu \o encoder
    BY DEF Recorded
  <2>2. QED
    BY <1>1, <1>3, <2>1, Concatenated
<1>5. Moves
  BY <1>2, AdvanceMoves
<1>6. gpu' \in Seq(Commands) /\ encoder' \in Seq(Commands)
  <2>1. gpu \o encoder \in Seq(Commands) /\ <<>> \in Seq(Commands)
    BY <1>1, Concatenated
  <2>2. QED
    BY <1>1, <1>3, <2>1
<1>7. Kind = "check" /\ Forced => encoder' = <<>>
  BY DEF Peel, Checkpoint, Capture, Trace, Submit, ForceYield
<1>8. QED
  BY <1>2, <1>3, <1>4, <1>5, <1>6, <1>7 DEF Silent

\* A kernel of a layer is recorded, for all rows.
KernelRecorded ==
  /\ Moves /\ Same /\ offset' = offset /\ Kind = "kernel"
  /\ Point = "FfnNorm" => layer \in options.ffnNorm
  /\ gpu' = gpu /\ encoder' = Append(encoder, Dispatch(Point, layer, 0, BatchSize))
  /\ Recorded' = Append(Recorded, Dispatch(Point, layer, 0, BatchSize))

\* A kernel that the layer has is recorded; the other steps are silent.
LEMMA KernelSteps ==
  ASSUME TypeInv, Kernel
  PROVE  /\ Silent \/ KernelRecorded
         /\ gpu' \in Seq(Commands) /\ encoder' \in Seq(Commands)
<1>1. gpu \in Seq(Commands) /\ encoder \in Seq(Commands)
  BY DEF TypeInv
<1>2. /\ phase = "Layers" /\ Advance /\ Same /\ offset' = offset /\ gpu' = gpu
      /\ Kind = "kernel"
  BY DEF Kernel, Same
<1>3. Moves
  BY <1>2, AdvanceMoves
<1>4. CASE Point = "FfnNorm" /\ layer \notin options.ffnNorm
  <2>1. encoder' = encoder
    BY <1>4 DEF Kernel
  <2>2. Recorded' = Recorded
    BY <1>2, <2>1 DEF Recorded
  <2>3. QED
    BY <1>1, <1>2, <1>3, <1>4, <2>1, <2>2 DEF Silent
<1>5. CASE ~(Point = "FfnNorm" /\ layer \notin options.ffnNorm)
  <2> DEFINE c == Dispatch(Point, layer, 0, BatchSize)
  <2>1. encoder' = Append(encoder, c)
    BY <1>5 DEF Kernel
  <2>2. c \in Commands
    BY <1>2, LayerCommand, BatchSizeIs
  <2> HIDE DEF c
  <2>3. Recorded' = Append(Recorded, c)
    <3>1. Recorded' = gpu' \o encoder' /\ Recorded = gpu \o encoder
      BY DEF Recorded
    <3>2. QED
      BY <1>1, <1>2, <2>1, <2>2, <3>1, Concatenated
  <2>4. encoder' \in Seq(Commands)
    BY <1>1, <2>1, <2>2
  <2>5. QED
    BY <1>1, <1>2, <1>3, <1>5, <2>1, <2>3, <2>4 DEF KernelRecorded, c
<1>6. QED
  BY <1>4, <1>5

\* What a turn of the QKV loop records: the rows that are next.
TurnRecorded ==
  /\ phase = "Layers" /\ Same /\ at = 4 /\ offset < BatchSize
  /\ ThisChunk \in Nat \ {0}
  /\ \/ /\ offset + ThisChunk < BatchSize /\ ThisChunk = QkvChunk
        /\ offset' = offset + ThisChunk
        /\ phase' = phase /\ layer' = layer /\ at' = at
     \/ offset + ThisChunk = BatchSize /\ offset' = 0 /\ Moves
  /\ \/ IntervalYield /\ encoder' = <<>>
     \/ ~IntervalYield /\ encoder' = Append(encoder, Dispatch("Qkv", layer, offset, ThisChunk))
  /\ Recorded' = Append(Recorded, Dispatch("Qkv", layer, offset, ThisChunk))

\* A turn of the QKV loop records the rows that are next, yield or not.
LEMMA TurnSteps ==
  ASSUME TypeInv, OffsetInv, QkvTurn
  PROVE  /\ TurnRecorded
         /\ gpu' \in Seq(Commands) /\ encoder' \in Seq(Commands)
<1> DEFINE c == Dispatch("Qkv", layer, offset, ThisChunk)
           cmds == Append(encoder, c)
<1>1. gpu \in Seq(Commands) /\ encoder \in Seq(Commands) /\ at \in 1 .. 25
  BY DEF TypeInv
<1>2. /\ phase = "Layers" /\ Same /\ Kind = "qkv"
      /\ \/ IntervalYield /\ gpu' = gpu \o cmds /\ encoder' = <<>>
         \/ ~IntervalYield /\ encoder' = cmds /\ gpu' = gpu
      /\ \/ offset + ThisChunk < BatchSize /\ offset' = offset + ThisChunk
              /\ phase' = phase /\ layer' = layer /\ at' = at
         \/ ~(offset + ThisChunk < BatchSize) /\ offset' = 0 /\ Advance
  <2>1. phase = "Layers" /\ Kind = "qkv" /\ Same
    BY DEF QkvTurn, Same
  <2>2. \/ IntervalYield /\ gpu' = gpu \o cmds /\ encoder' = <<>>
        \/ ~IntervalYield /\ encoder' = cmds /\ gpu' = gpu
    <3> DEFINE d == cmds
    <3>1. /\ IF IntervalYield THEN ForceYield(d)
              ELSE encoder' = d /\ UNCHANGED <<gpu, accumulated>>
      BY DEF QkvTurn
    <3> HIDE DEF d
    <3>2. \/ IntervalYield /\ gpu' = gpu \o d /\ encoder' = <<>>
          \/ ~IntervalYield /\ encoder' = d /\ gpu' = gpu
      BY <3>1 DEF ForceYield, Submit
    <3>3. QED
      BY <3>2 DEF d
  <2>3. \/ offset + ThisChunk < BatchSize /\ offset' = offset + ThisChunk
             /\ phase' = phase /\ layer' = layer /\ at' = at
        \/ ~(offset + ThisChunk < BatchSize) /\ offset' = 0 /\ Advance
    <3>1. IF offset + ThisChunk < BatchSize
            THEN offset' = offset + ThisChunk /\ UNCHANGED <<phase, layer, at>>
            ELSE offset' = 0 /\ Advance
      BY DEF QkvTurn
    <3>2. QED
      BY <3>1
  <2>4. QED
    BY <2>1, <2>2, <2>3
<1>3. Point = "Qkv" /\ at = 4
  BY <1>2, LayerCommand, 0 \in Nat DEF Place
<1>4. /\ offset < BatchSize /\ ThisChunk \in Nat \ {0} /\ offset \in Nat
      /\ offset + ThisChunk < BatchSize => ThisChunk = QkvChunk
      /\ ~(offset + ThisChunk < BatchSize) => offset + ThisChunk = BatchSize
  BY <1>2, ThisChunkIs DEF OffsetInv
<1>5. c \in Commands
  BY <1>2, <1>3, <1>4, LayerCommand
<1> HIDE DEF c
<1>6. cmds \in Seq(Commands) /\ <<>> \in Seq(Commands) /\ gpu \o cmds \in Seq(Commands)
  BY <1>1, <1>5, Concatenated
<1>7. Recorded' = Append(Recorded, c)
  <2>1. Recorded' = gpu' \o encoder' /\ Recorded = gpu \o encoder
    BY DEF Recorded
  <2>2. gpu \o cmds = Append(gpu \o encoder, c)
    BY <1>1, <1>5, Concatenated
  <2>3. (gpu \o cmds) \o <<>> = gpu \o cmds
    BY <1>6
  <2>4. QED
    BY <1>2, <2>1, <2>2, <2>3
<1>8. gpu' \in Seq(Commands) /\ encoder' \in Seq(Commands)
  BY <1>1, <1>2, <1>6
<1>9. ~(offset + ThisChunk < BatchSize) => Moves
  BY <1>2, AdvanceMoves
<1>10. QED
  BY <1>2, <1>3, <1>4, <1>7, <1>8, <1>9 DEF TurnRecorded, c

\* The steps of a call.
LEMMA NextIs ==
  ASSUME TypeInv, OffsetInv, Next
  PROVE  \/ /\ Silent \/ KernelRecorded \/ TurnRecorded
            /\ gpu' \in Seq(Commands) /\ encoder' \in Seq(Commands) /\ maps' = maps
         \/ StartPass \/ OutputHead \/ Mapped \/ NextChunk
         \/ /\ phase' \in {"Failed", "Panicked"}
            /\ UNCHANGED <<options, rows, from, layer, at, offset, encoder, gpu,
                           accumulated, samples, maps>>
<1>1. Peel \/ Checkpoint \/ Capture \/ Trace \/ Kernel \/ QkvTurn => maps' = maps
  BY DEF Peel, Checkpoint, Capture, Trace, Kernel, QkvTurn
<1>2. QED
  BY <1>1, YieldsAreSilent, KernelSteps, TurnSteps
     DEF Next, HeadPanics, GpuLost, GpuLostInCapture

\* What the invariants say of a sequence depends on the call only.
LEMMA SameCall ==
  ASSUME Same
  PROVE  /\ BatchSize' = BatchSize /\ Reference' = Reference /\ Rows' = Rows
         /\ ActivationWriters' = ActivationWriters /\ Out' = Out
BY DEF Same, BatchSize, Reference, Rows, ActivationWriters, Out

\* The order, of the next state.
LEMMA SameOrderly ==
  ASSUME Same, Orderly(Recorded', Reached')
  PROVE  Orderly(Recorded, Reached)'
BY SameCall DEF Orderly, Fits, RanUpTo

\* The rows, of the next state.
LEMMA SameQkv ==
  ASSUME Same
  PROVE  /\ QkvUpTo(Recorded', Reached', offset') => QkvUpTo(Recorded, Reached, offset)'
         /\ RowsCovered(Recorded') => RowsCovered(Recorded)'
BY SameCall DEF QkvUpTo, RowsCovered, RowsBefore

-----------------------------------------------------------------------------
(* The order is kept                                                       *)

\* No kernel belongs to a silent point.
LEMMA SilentIsVacant ==
  ASSUME TypeInv, phase = "Layers",
         Kind \notin {"kernel", "qkv"} \/ (Point = "FfnNorm" /\ layer \notin options.ffnNorm)
  PROVE  /\ Vacant(25 * layer + at)
         /\ Kind \notin {"kernel", "qkv"} => \A k \in BodyKernels : Place[k] # at
<1>1. at \in 1 .. 25 /\ layer \in Layers /\ layer \in Nat
  BY DEF TypeInv, Layers
<1>2. ASSUME NEW k \in BodyKernels, Place[k] = at
      PROVE  Kind \in {"kernel", "qkv"} /\ Point = k
  BY <1>1, <1>2, BodyIs DEF BodyKernels, Place, Kind, Point
<1>3. ASSUME NEW w \in Reference, w[2] # 0, WorkRank(w) = 25 * layer + at PROVE FALSE
  <2>1. w[2] \in Layers /\ w[1] \in BodyKernels /\ w[1] # "Qkv" /\ w = <<w[1], w[2]>>
    BY <1>3, ReferenceIs
  <2>2. w[2] \in Nat /\ Place[w[1]] \in 2 .. 21
    BY <2>1, PlaceIs DEF Layers
  <2>3. w[2] = layer /\ Place[w[1]] = at
    BY <1>1, <1>3, <2>2 DEF WorkRank
  <2>4. w[1] = "FfnNorm" /\ layer \notin options.ffnNorm
    BY <1>2, <2>1, <2>3
  <2>5. QED
    BY <2>1, <2>3, <2>4, ReferenceIs
<1>4. QED
  BY <1>2, <1>3 DEF Vacant

\* The rank that is next.
LEMMA ReachedIs ==
  ASSUME TypeInv, phase = "Layers"
  PROVE  Reached = 25 * layer + at /\ Reached \in Nat /\ layer \in Nat /\ at \in 1 .. 25
BY DEF TypeInv, Reached, Layers

\* A silent point keeps the order.
LEMMA OrderSilent ==
  ASSUME TypeInv, OrderInv, Silent
  PROVE  OrderInv'
<1>1. phase = "Layers" /\ Orderly(Recorded, Reached)
  BY DEF Silent, Moves, OrderInv
<1>2. Vacant(Reached) /\ Reached \in Nat
  BY <1>1, SilentIsVacant, ReachedIs DEF Silent
<1>3. Orderly(Recorded, Reached + 1)
  BY <1>1, <1>2, OrderlyPasses
<1>4. Orderly(Recorded', Reached')
  BY <1>3 DEF Silent, Moves
<1>5. QED
  BY <1>4, SameOrderly DEF Silent, OrderInv

\* A kernel keeps the order.
LEMMA OrderKernel ==
  ASSUME TypeInv, OrderInv, KernelRecorded
  PROVE  OrderInv'
<1> DEFINE c == Dispatch(Point, layer, 0, BatchSize)
<1>1. phase = "Layers" /\ Orderly(Recorded, Reached) /\ Recorded \in Seq(Commands)
  BY Concatenated DEF KernelRecorded, Moves, OrderInv, TypeInv, Recorded
<1>2. /\ c \in Commands /\ Point \in BodyKernels /\ Place[Point] = at /\ Point # "Qkv"
      /\ layer \in Layers /\ layer \in Nat
  BY <1>1, LayerCommand, BatchSizeIs DEF KernelRecorded, TypeInv, Layers
<1>3. /\ c.kernel = Point /\ c.layer = layer /\ c.first = 0 /\ c.count = BatchSize
      /\ Work(c) = <<Point, layer>>
  BY DEF Dispatch, Work
<1>4. Longer(Recorded, c, Append(Recorded, c)) /\ Recorded' = Append(Recorded, c)
  BY <1>1, <1>2, Appended DEF KernelRecorded
<1> HIDE DEF c
<1>5. Rank(c) = Reached /\ Reached \in Nat
  BY <1>1, <1>2, <1>3, RankIs, ReachedIs
<1>6. Work(c) \in Reference
  BY <1>2, <1>3, ReferenceIs DEF KernelRecorded
<1>7. Orderly(Recorded', Reached + 1)
  BY <1>1, <1>2, <1>3, <1>4, <1>5, <1>6, OrderlyAppend
<1>8. QED
  BY <1>7, SameOrderly DEF KernelRecorded, Moves, OrderInv

\* A turn of the QKV loop keeps the order.
LEMMA OrderTurn ==
  ASSUME TypeInv, OrderInv, TurnRecorded
  PROVE  OrderInv'
<1> DEFINE c == Dispatch("Qkv", layer, offset, ThisChunk)
<1>1. phase = "Layers" /\ Orderly(Recorded, Reached) /\ Recorded \in Seq(Commands)
  BY Concatenated DEF TurnRecorded, OrderInv, TypeInv, Recorded
<1>2. /\ c \in Commands /\ layer \in Layers /\ layer \in Nat
      /\ c.kernel = "Qkv" /\ c.layer = layer /\ "Qkv" \in BodyKernels /\ Place["Qkv"] = 4
  BY <1>1 DEF TurnRecorded, TypeInv, Layers, Dispatch, Commands, Kernels, BodyKernels, Place
<1>3. Longer(Recorded, c, Append(Recorded, c)) /\ Recorded' = Append(Recorded, c)
  BY <1>1, <1>2, Appended DEF TurnRecorded
<1> HIDE DEF c
<1>4. Reached = 25 * layer + 4 /\ Reached \in Nat /\ Rank(c) = Reached
  BY <1>1, <1>2, RankIs, ReachedIs DEF TurnRecorded
<1>5. Orderly(Recorded', Reached)
  BY <1>1, <1>2, <1>3, <1>4, OrderlyAppend
<1>6. Vacant(Reached)
  <2>1. ASSUME NEW w \in Reference, w[2] # 0, WorkRank(w) = Reached PROVE FALSE
    <3>1. w[2] \in Layers /\ w[1] \in BodyKernels /\ w[1] # "Qkv"
      BY <2>1, ReferenceIs
    <3>2. w[2] \in Nat /\ Place[w[1]] \in 2 .. 21
      BY <3>1, PlaceIs DEF Layers
    <3>3. Place[w[1]] = 4
      BY <1>2, <1>4, <2>1, <3>2 DEF WorkRank
    <3>4. QED
      BY <3>1, <3>3 DEF Place, BodyKernels
  <2>2. QED
    BY <2>1 DEF Vacant
<1>7. Orderly(Recorded', Reached + 1)
  BY <1>4, <1>5, <1>6, OrderlyPasses
<1>8. Reached' = Reached \/ Reached' = Reached + 1
  BY DEF TurnRecorded, Moves, Reached
<1>9. QED
  BY <1>5, <1>7, <1>8, SameOrderly DEF TurnRecorded, OrderInv

-----------------------------------------------------------------------------
(* QKV is kept                                                             *)

\* The kernels that are ahead and behind.
LEMMA RanKernel ==
  ASSUME TypeInv, OrderInv, phase = "Layers", NEW k \in BodyKernels \ {"Qkv", "FfnNorm"},
         Place[k] < at
  PROVE  \E j \in DOMAIN Recorded : Recorded[j].kernel = k /\ Recorded[j].layer = layer
<1> DEFINE w == <<k, layer>>
<1>1. /\ layer \in Layers /\ layer \in Nat /\ Reached = 25 * layer + at /\ Place[k] \in Nat
      /\ at \in Nat /\ Orderly(Recorded, Reached)
  <2>1. Place[k] \in 2 .. 21
    BY PlaceIs
  <2>2. layer \in Layers /\ Orderly(Recorded, Reached)
    BY DEF TypeInv, OrderInv
  <2>3. layer \in Nat /\ Reached = 25 * layer + at /\ at \in 1 .. 25
    BY ReachedIs
  <2>4. QED
    BY <2>1, <2>2, <2>3
<1>2. w \in Reference /\ w[2] # 0 /\ w[1] = k /\ w[2] = layer
  BY <1>1, ReferenceIs DEF Layers
<1>3. WorkRank(w) < Reached
  BY <1>1, <1>2 DEF WorkRank
<1>4. PICK j \in DOMAIN Recorded : Running(Recorded, w) = {j}
  BY <1>1, <1>2, <1>3 DEF Orderly, RanUpTo, RanOnce
<1>5. Work(Recorded[j]) = w
  BY <1>4 DEF Running
<1>6. QED
  BY <1>5 DEF Work

\* A silent point keeps the rows of QKV.
LEMMA QkvSilent ==
  ASSUME TypeInv, OffsetInv, QkvInv, Silent
  PROVE  QkvInv'
<1>1. /\ phase = "Layers" /\ QkvUpTo(Recorded, Reached, offset) /\ RowsCovered(Recorded)
      /\ Reached = 25 * layer + at /\ Reached \in Nat /\ BatchSize \in Nat
  BY RowsCoveredIs, ReachedIs, BatchSizeIs DEF Silent, Moves, QkvInv
<1>2. at # 4 /\ offset = 0 /\ at \in 1 .. 25
  <2>1. at # 4
    BY BodyIs DEF Silent, Kind, Point
  <2>2. QED
    BY <1>1, <2>1 DEF OffsetInv, TypeInv
<1>3. \A l \in Layers : 25 * l + 4 # Reached
  BY <1>1, <1>2 DEF Layers, TypeInv
<1>4. QkvUpTo(Recorded', Reached', offset')
  <2>1. QkvUpTo(Recorded, Reached + 1, 0)
    BY <1>1, <1>3, QkvPasses
  <2>2. QED
    BY <1>2, <2>1 DEF Silent, Moves
<1>5. RowsCovered(Recorded')
  BY <1>1 DEF Silent
<1>6. QED
  BY <1>4, <1>5, SameQkv, RowsCoveredIs
     DEF Silent, QkvInv, QkvCoversRows, RowsCovered, RowsBefore, Rows

\* A kernel keeps them: QK norm comes when they are complete.
LEMMA QkvKernel ==
  ASSUME TypeInv, OffsetInv, QkvInv, KernelRecorded
  PROVE  QkvInv'
<1> DEFINE c == Dispatch(Point, layer, 0, BatchSize)
<1>1. /\ phase = "Layers" /\ QkvUpTo(Recorded, Reached, offset) /\ RowsCovered(Recorded)
      /\ Reached = 25 * layer + at /\ Reached \in Nat /\ BatchSize \in Nat
      /\ Recorded \in Seq(Commands)
  BY RowsCoveredIs, ReachedIs, BatchSizeIs, Concatenated
     DEF KernelRecorded, Moves, QkvInv, TypeInv, Recorded
<1>2. /\ c \in Commands /\ Point \in BodyKernels /\ Place[Point] = at /\ Point # "Qkv"
      /\ layer \in Layers /\ layer \in Nat
  BY <1>1, LayerCommand DEF KernelRecorded, TypeInv, Layers
<1>3. c.kernel = Point /\ c.layer = layer
  BY DEF Dispatch
<1>4. Longer(Recorded, c, Append(Recorded, c)) /\ Recorded' = Append(Recorded, c)
  BY <1>1, <1>2, Appended DEF KernelRecorded
<1> HIDE DEF c
<1>5. at # 4 /\ offset = 0 /\ at \in 1 .. 25
  <2>1. at # 4
    BY <1>2 DEF Place, BodyKernels
  <2>2. QED
    BY <1>1, <2>1 DEF OffsetInv, TypeInv
<1>6. \A l \in Layers : 25 * l + 4 # Reached
  BY <1>1, <1>2, <1>5 DEF Layers
<1>7. QkvUpTo(Recorded', Reached', offset')
  <2>1. QkvUpTo(Recorded', Reached, 0)
    BY <1>1, <1>2, <1>3, <1>4, <1>5, QkvOther
  <2>2. QkvUpTo(Recorded', Reached + 1, 0)
    BY <1>1, <1>6, <2>1, QkvPasses
  <2>3. QED
    BY <1>5, <2>2 DEF KernelRecorded, Moves
<1>8. MayFollow(Recorded, c)
  <2>1. ASSUME Point = "QkNorm", NEW r \in Rows PROVE QkvOnce(Recorded, layer, r)
    <3>1. at = 6
      BY <1>2, <2>1 DEF Place
    <3>2. 25 * layer + 4 < Reached
      BY <1>1, <1>2, <3>1
    <3>3. QED
      BY <1>1, <1>2, <3>2 DEF QkvUpTo
  <2>2. QED
    BY <1>2, <1>3, <2>1 DEF MayFollow
<1>9. RowsCovered(Recorded')
  BY <1>1, <1>4, <1>8, RowsCoveredLonger
<1>10. QED
  BY <1>7, <1>9, SameQkv, RowsCoveredIs
     DEF KernelRecorded, QkvInv, QkvCoversRows, RowsCovered, RowsBefore, Rows

\* A turn of the QKV loop adds its rows and no others.
LEMMA QkvTurnKept ==
  ASSUME TypeInv, OffsetInv, OrderInv, QkvInv, TurnRecorded
  PROVE  QkvInv'
<1> DEFINE c == Dispatch("Qkv", layer, offset, ThisChunk)
<1>1. /\ phase = "Layers" /\ QkvUpTo(Recorded, Reached, offset) /\ RowsCovered(Recorded)
      /\ Reached = 25 * layer + 4 /\ Reached \in Nat /\ BatchSize \in Nat
      /\ Recorded \in Seq(Commands) /\ at = 4
  BY RowsCoveredIs, ReachedIs, BatchSizeIs, Concatenated
     DEF TurnRecorded, QkvInv, TypeInv, Recorded
<1>2. /\ offset < BatchSize /\ ThisChunk \in Nat \ {0} /\ offset \in Nat
      /\ offset + ThisChunk <= BatchSize
  BY ThisChunkIs DEF TurnRecorded
<1>3. /\ c \in Commands /\ layer \in Layers /\ layer \in Nat
      /\ c.kernel = "Qkv" /\ c.layer = layer /\ c.first = offset /\ c.count = ThisChunk
  BY <1>2 DEF TypeInv, Layers, Dispatch, Commands, Kernels
<1>4. Longer(Recorded, c, Append(Recorded, c)) /\ Recorded' = Append(Recorded, c)
  BY <1>1, <1>3, Appended DEF TurnRecorded
<1> HIDE DEF c
<1>5. QkvUpTo(Recorded', Reached, offset + ThisChunk)
  BY <1>1, <1>2, <1>3, <1>4, QkvTurnCovers
<1>6. QkvUpTo(Recorded', Reached', offset')
  <2>1. CASE offset + ThisChunk < BatchSize
    <3>1. Reached' = Reached /\ offset' = offset + ThisChunk
      BY <1>2, <2>1 DEF TurnRecorded, Reached
    <3>2. QED
      BY <1>5, <3>1
  <2>2. CASE ~(offset + ThisChunk < BatchSize)
    <3>1. Reached' = Reached + 1 /\ offset' = 0 /\ offset + ThisChunk = BatchSize
      BY <2>2 DEF TurnRecorded, Moves
    <3>2. QED
      BY <1>1, <1>5, <3>1, QkvPasses
  <2>3. QED
    BY <2>1, <2>2
<1>7. MayFollow(Recorded, c)
  <2>1. \E j \in DOMAIN Recorded : Recorded[j].kernel = "AttnNorm" /\ Recorded[j].layer = layer
    BY <1>1, RanKernel DEF Place, BodyKernels
  <2>2. ASSUME NEW j \in DOMAIN Recorded, Recorded[j].kernel = "QkNorm",
               Recorded[j].layer = layer
        PROVE  FALSE
    <3>1. Fits(Recorded[j], Reached)
      BY <1>1 DEF OrderInv, Orderly
    <3>2. Rank(Recorded[j]) = 25 * layer + 6
      BY <1>3, <2>2, RankIs DEF Place, BodyKernels
    <3>3. QED
      BY <1>1, <1>3, <2>2, <3>1, <3>2 DEF Fits
  <2>3. QED
    BY <1>2, <1>3, <2>1, <2>2 DEF MayFollow
<1>8. RowsCovered(Recorded')
  BY <1>1, <1>4, <1>7, RowsCoveredLonger
<1>9. QED
  BY <1>6, <1>8, SameQkv, RowsCoveredIs
     DEF TurnRecorded, QkvInv, QkvCoversRows, RowsCovered, RowsBefore, Rows

-----------------------------------------------------------------------------
(* What was written last                                                   *)

\* A point that no stage has.
LEMMA StagePasses ==
  ASSUME NEW R, NEW l, NEW p \in Nat, LastStage(R, l, p),
         \A k \in Stages : Place[k] = p => k = "FfnNorm" /\ l \notin options.ffnNorm
  PROVE  LastStage(R, l, p + 1)
<1>1. SUFFICES ASSUME NEW k \in Stages, Place[k] < p + 1, k = "FfnNorm" => l \in options.ffnNorm
               PROVE  Whole(LastOf(R, {k}), k, l)
  BY DEF LastStage
<1>2. Place[k] \in 2 .. 21
  BY PlaceIs DEF Stages, BodyKernels
<1>3. Place[k] # p
  BY <1>1
<1>4. QED
  BY <1>1, <1>2, <1>3 DEF LastStage

\* A dispatch of the kernel of point p.
LEMMA StageLonger ==
  ASSUME NEW R, NEW c, NEW Q, Longer(R, c, Q), NEW l, NEW p \in Nat, LastStage(R, l, p),
         c.kernel \in BodyKernels, Place[c.kernel] = p
  PROVE  /\ LastStage(Q, l, p)
         /\ Whole(c, c.kernel, l) => LastStage(Q, l, p + 1)
<1>1. ASSUME NEW k \in Stages
      PROVE  /\ Place[k] \in 2 .. 21
             /\ k # c.kernel => Place[k] # p /\ LastOf(Q, {k}) = LastOf(R, {k})
             /\ LastOf(Q, {c.kernel}) = c
  <2>1. Place[k] \in 2 .. 21 /\ (k # c.kernel => Place[k] # p)
    BY PlaceIs DEF Stages, BodyKernels, Place
  <2>2. k # c.kernel => c.kernel \notin {k}
    OBVIOUS
  <2>3. QED
    BY <2>1, <2>2, LastOfAppend
<1>2. LastStage(Q, l, p)
  BY <1>1 DEF LastStage
<1>3. ASSUME Whole(c, c.kernel, l), NEW k \in Stages, Place[k] < p + 1,
             k = "FfnNorm" => l \in options.ffnNorm
      PROVE  Whole(LastOf(Q, {k}), k, l)
  <2>1. CASE k = c.kernel
    BY <1>1, <1>3, <2>1
  <2>2. CASE k # c.kernel
    <3>1. Place[k] # p
      BY <1>1, <2>2
    <3>2. Place[k] \in Nat
      BY PlaceIs DEF Stages, BodyKernels
    <3>3. Place[k] < p
      BY <1>3, <3>1, <3>2
    <3>4. QED
      BY <1>1, <1>3, <2>2, <3>3 DEF LastStage
  <2>3. QED
    BY <2>1, <2>2
<1>4. QED
  BY <1>2, <1>3 DEF LastStage

\* The activations are written at four points, two of them only with post
\* norms.
WritesAt(p) == p \in {11, 18} \/ (p \in {13, 21} /\ options.postNorm)

\* A point that does not write the activations.
LEMMA ActivationPasses ==
  ASSUME NEW R, NEW l, NEW p \in Nat, LastActivation(R, l, p), ~WritesAt(p)
  PROVE  LastActivation(R, l, p + 1)
<1>1. p + 1 <= 11 <=> p <= 11
  BY DEF WritesAt
<1>2. Writer(p + 1) = Writer(p)
  <2>1. (p + 1 > 18 <=> p > 18) /\ (p + 1 > 11 <=> p > 11)
    BY DEF WritesAt
  <2>2. CASE options.postNorm
    <3>1. (p + 1 > 21 <=> p > 21) /\ (p + 1 > 13 <=> p > 13)
      BY <2>2 DEF WritesAt
    <3>2. QED
      BY <2>1, <3>1 DEF Writer
  <2>3. CASE ~options.postNorm
    BY <2>1, <2>3 DEF Writer, Out
  <2>4. QED
    BY <2>2, <2>3
<1>3. QED
  BY <1>1, <1>2 DEF LastActivation

\* A dispatch of the kernel of point p.
LEMMA ActivationLonger ==
  ASSUME NEW R, NEW c, NEW Q, Longer(R, c, Q), NEW l, l \in Nat \ {0}, NEW p \in Nat,
         LastActivation(R, l, p),
         c.kernel \in BodyKernels, Place[c.kernel] = p
  PROVE  /\ c.kernel = "Qkv" => LastActivation(Q, l, p) /\ LastActivation(Q, l, p + 1)
         /\ Whole(c, c.kernel, l) => LastActivation(Q, l, p + 1)
<1>1. CASE c.kernel \in ActivationWriters
  <2>1. /\ c.kernel # "Qkv" /\ p > 10 /\ Writer(p + 1) = c.kernel
        /\ ~(p + 1 <= 11)
    BY <1>1 DEF ActivationWriters, Place, Writer, Out
  <2>2. LastOf(Q, ActivationWriters) = c
    BY <1>1, LastOfAppend
  <2>3. QED
    BY <2>1, <2>2 DEF LastActivation
<1>2. CASE c.kernel \notin ActivationWriters
  <2>1. LastOf(Q, ActivationWriters) = LastOf(R, ActivationWriters)
    BY <1>2, LastOfAppend
  <2>2. LastActivation(Q, l, p)
    BY <2>1 DEF LastActivation
  <2>3. ~WritesAt(p)
    BY <1>2 DEF ActivationWriters, BodyKernels, Place, WritesAt
  <2>4. QED
    BY <2>2, <2>3, ActivationPasses
<1>3. QED
  BY <1>1, <1>2

\* What was written last, of the next state.
LEMMA SameLast ==
  ASSUME Same
  PROVE  /\ LastStage(Recorded', layer', at') => LastStage(Recorded, layer, at)'
         /\ LastActivation(Recorded', layer', at') => LastActivation(Recorded, layer, at)'
<1>1. options' = options /\ BatchSize' = BatchSize /\ ActivationWriters' = ActivationWriters
  BY SameCall DEF Same
<1>2. LastStage(Recorded', layer', at') => LastStage(Recorded, layer, at)'
  BY <1>1 DEF LastStage, Whole
<1>3. LastActivation(Recorded', layer', at') => LastActivation(Recorded, layer, at)'
  BY <1>1 DEF LastActivation, Whole, Writer, Out
<1>4. QED
  BY <1>2, <1>3

\* The next layer begins with what the layer ended with.
LEMMA LastMoves ==
  ASSUME TypeInv, Moves, Same,
         LastStage(Recorded', layer, at + 1), LastActivation(Recorded', layer, at + 1)
  PROVE  LastInv'
<1>1. layer \in Nat \ {0} /\ at \in 1 .. 25
  BY DEF TypeInv, Layers
<1>2. SUFFICES ASSUME phase' = "Layers"
               PROVE  LastStage(Recorded', layer', at') /\ LastActivation(Recorded', layer', at')
  BY SameLast DEF LastInv
<1>3. CASE at' = at + 1 /\ layer' = layer
  BY <1>3
<1>4. CASE at = 25 /\ at' = 1 /\ layer' = layer + 1
  <2>1. LastStage(Recorded', layer', 1)
    <3>1. \A k \in Stages : ~(Place[k] < 1)
      BY DEF Stages, Place
    <3>2. QED
      BY <3>1 DEF LastStage
  <2>2. Whole(LastOf(Recorded', ActivationWriters), Out, layer)
    BY <1>4 DEF LastActivation, Writer
  <2>3. Writer(1) = Out /\ layer + 1 # 1 /\ (layer + 1) - 1 = layer
    BY <1>1 DEF Writer
  <2>4. LastActivation(Recorded', layer + 1, 1)
    BY <2>2, <2>3 DEF LastActivation
  <2>5. QED
    BY <1>4, <2>1, <2>4
<1>5. QED
  BY <1>2, <1>3, <1>4 DEF Moves

\* A silent point keeps what was written last.
LEMMA LastSilent ==
  ASSUME TypeInv, LastInv, Silent
  PROVE  LastInv'
<1>1. /\ phase = "Layers" /\ at \in 1 .. 25 /\ at \in Nat
      /\ LastStage(Recorded, layer, at) /\ LastActivation(Recorded, layer, at)
  <2>1. phase = "Layers"
    BY DEF Silent, Moves
  <2>2. at \in 1 .. 25
    BY DEF TypeInv
  <2>3. QED
    BY <2>1, <2>2 DEF LastInv
<1>2. \A k \in BodyKernels : Place[k] = at => k = "FfnNorm" /\ layer \notin options.ffnNorm
  <2>1. CASE Kind \notin {"kernel", "qkv"}
    BY <1>1, <2>1, SilentIsVacant DEF Silent
  <2>2. CASE Point = "FfnNorm" /\ layer \notin options.ffnNorm /\ Kind \in {"kernel", "qkv"}
    <3>1. Place["FfnNorm"] = at
      BY <1>1, <2>2, LayerCommand, 0 \in Nat
    <3>2. QED
      BY <2>2, <3>1 DEF Place, BodyKernels
  <2>3. QED
    BY <2>1, <2>2 DEF Silent
<1>3. LastStage(Recorded, layer, at + 1)
  <2>1. \A k \in Stages : k \in BodyKernels
    BY DEF Stages, BodyKernels
  <2>2. QED
    BY <1>1, <1>2, <2>1, StagePasses
<1>4. ~WritesAt(at)
  BY <1>2 DEF WritesAt, BodyKernels, Place
<1>5. LastActivation(Recorded, layer, at + 1)
  BY <1>1, <1>4, ActivationPasses
<1>6. QED
  BY <1>3, <1>5, LastMoves DEF Silent

\* A kernel is the last that wrote its buffer.
LEMMA LastKernel ==
  ASSUME TypeInv, LastInv, KernelRecorded
  PROVE  LastInv'
<1> DEFINE c == Dispatch(Point, layer, 0, BatchSize)
<1>1. /\ phase = "Layers" /\ at \in Nat /\ layer \in Nat \ {0} /\ Recorded \in Seq(Commands)
      /\ LastStage(Recorded, layer, at) /\ LastActivation(Recorded, layer, at)
  <2>1. /\ phase = "Layers" /\ at \in Nat /\ layer \in Nat \ {0}
        /\ gpu \in Seq(Commands) /\ encoder \in Seq(Commands)
    BY DEF KernelRecorded, Moves, TypeInv, Layers
  <2>2. QED
    BY <2>1, Concatenated DEF LastInv, Recorded
<1>2. c \in Commands /\ Point \in BodyKernels /\ Place[Point] = at
  BY <1>1, LayerCommand, BatchSizeIs DEF KernelRecorded
<1>3. c.kernel = Point /\ Whole(c, Point, layer)
  BY BatchSizeIs DEF Dispatch, Whole
<1>4. Longer(Recorded, c, Append(Recorded, c)) /\ Recorded' = Append(Recorded, c)
  BY <1>1, <1>2, Appended DEF KernelRecorded
<1> HIDE DEF c
<1>5. LastStage(Recorded', layer, at + 1)
  BY <1>1, <1>2, <1>3, <1>4, StageLonger
<1>6. LastActivation(Recorded', layer, at + 1)
  BY <1>1, <1>2, <1>3, <1>4, ActivationLonger
<1>7. QED
  BY <1>5, <1>6, LastMoves DEF KernelRecorded

\* The last turn of the QKV loop ends with the last row.
LEMMA LastTurn ==
  ASSUME TypeInv, LastInv, TurnRecorded
  PROVE  LastInv'
<1> DEFINE c == Dispatch("Qkv", layer, offset, ThisChunk)
<1>1. /\ phase = "Layers" /\ at = 4 /\ layer \in Nat \ {0} /\ Recorded \in Seq(Commands)
      /\ LastStage(Recorded, layer, at) /\ LastActivation(Recorded, layer, at)
      /\ offset \in Nat /\ ThisChunk \in Nat /\ layer \in Layers
  BY Concatenated DEF TurnRecorded, LastInv, TypeInv, Recorded, Layers
<1>2. c \in Commands /\ "Qkv" \in BodyKernels /\ Place["Qkv"] = at
  BY <1>1 DEF Layers, Dispatch, Commands, Kernels, BodyKernels, Place
<1>3. c.kernel = "Qkv" /\ c.layer = layer /\ c.first + c.count = offset + ThisChunk
  BY DEF Dispatch
<1>4. Longer(Recorded, c, Append(Recorded, c)) /\ Recorded' = Append(Recorded, c)
  BY <1>1, <1>2, Appended DEF TurnRecorded
<1> HIDE DEF c
<1>5. /\ LastStage(Recorded', layer, at)
      /\ Whole(c, "Qkv", layer) => LastStage(Recorded', layer, at + 1)
  BY <1>1, <1>2, <1>3, <1>4, StageLonger
<1>6. LastActivation(Recorded', layer, at) /\ LastActivation(Recorded', layer, at + 1)
  <2>1. /\ c.kernel = "Qkv" /\ c.kernel \in BodyKernels /\ Place[c.kernel] = at
        /\ Longer(Recorded, c, Recorded')
    BY <1>2, <1>3, <1>4
  <2>2. layer \in Nat \ {0} /\ at \in Nat /\ LastActivation(Recorded, layer, at)
    BY <1>1
  <2>3. QED
    BY <2>1, <2>2, ActivationLonger
<1>7. CASE phase' = phase /\ layer' = layer /\ at' = at
  BY <1>1, <1>5, <1>6, <1>7, SameLast DEF TurnRecorded, LastInv
<1>8. CASE offset + ThisChunk = BatchSize /\ Moves
  BY <1>3, <1>5, <1>6, <1>8, LastMoves DEF Whole, TurnRecorded
<1>9. QED
  BY <1>7, <1>8 DEF TurnRecorded

-----------------------------------------------------------------------------
(* What waits for submission                                               *)

\* Quotient and remainder.
LEMMA Quotient ==
  ASSUME NEW d \in Nat \ {0}, NEW m \in Nat
  PROVE  m % d \in 0 .. d - 1 /\ m \div d \in Nat /\ m = (m \div d) * d + (m % d)
<1>1. m % d \in 0 .. d - 1 /\ m \div d \in Nat
  OBVIOUS
<1>2. m = (m \div d) * d + (m % d)
  BY Z3T(30)
<1>3. QED
  BY <1>1, <1>2

\* The quotient and the remainder of a multiple.
LEMMA Multiple ==
  ASSUME NEW d \in Nat \ {0}, NEW q \in Nat, NEW m, m = q * d
  PROVE  m \div d = q /\ m % d = 0
  OBVIOUS

\* Between two multiples the remainder counts.
LEMMA RemainderCounts ==
  ASSUME NEW d \in Nat \ {0}, NEW m \in Nat, NEW n, n = m + 1, n % d # 0
  PROVE  n % d = (m % d) + 1
<1> DEFINE q == m \div d
           r == m % d
<1>1. q \in Nat /\ r \in 0 .. d - 1 /\ m = q * d + r
  BY Quotient
<1> HIDE DEF q, r
<1>2. CASE r = d - 1
  <2>1. q + 1 \in Nat /\ n = (q + 1) * d
    BY <1>1, <1>2
  <2>2. PICK s \in Nat : n = s * d
    BY <2>1
  <2>3. n % d = 0
    BY <2>2, Multiple
  <2>4. QED
    BY <2>3
<1>3. CASE r # d - 1
  <2>1. r + 1 \in 0 .. d - 1 /\ n = q * d + (r + 1)
    BY <1>1, <1>3
  <2>2. n % d = r + 1
    BY <1>1, <2>1
  <2>3. QED
    BY <2>2 DEF r
<1>4. QED
  BY <1>2, <1>3

\* No more than an interval waits, and a turn that does not yield adds one.
LEMMA WaitingIs ==
  ASSUME NEW m \in Nat
  PROVE  /\ Waiting(m) \in 0 .. YieldInterval
         /\ ~(m > 0 /\ m % YieldInterval = 0) => Waiting(m + 1) = Waiting(m) + 1
<1>1. YieldInterval \in Nat \ {0}
  BY ForwardAssumption
<1>2. CASE m = 0
  <2>1. 0 % YieldInterval = 0
    BY <1>1
  <2>2. Waiting(m) = 0 /\ Waiting(m + 1) = 1
    BY <1>2, <2>1 DEF Waiting
  <2>3. QED
    BY <1>1, <1>2, <2>2
<1>3. CASE m > 0
  <2>1. (m - 1) % YieldInterval \in 0 .. YieldInterval - 1 /\ m - 1 \in Nat
    BY <1>1, <1>3, Quotient
  <2>2. Waiting(m) = ((m - 1) % YieldInterval) + 1 /\ Waiting(m + 1) = (m % YieldInterval) + 1
    BY <1>3 DEF Waiting
  <2>3. m % YieldInterval # 0 => m % YieldInterval = ((m - 1) % YieldInterval) + 1
    <3>1. m = (m - 1) + 1
      BY <1>3
    <3>2. QED
      BY <1>1, <2>1, <3>1, RemainderCounts
  <2>4. QED
    BY <1>1, <1>3, <2>1, <2>2, <2>3
<1>4. QED
  BY <1>2, <1>3

\* The places are finitely many, and the new dispatch adds at most one.
LEMMA PendingAppend ==
  ASSUME NEW R, NEW c, NEW Q, Longer(R, c, Q), NEW ks
  PROVE  /\ c.kernel \notin ks => PendingIn(Q, ks) = PendingIn(R, ks)
         /\ Cardinality(PendingIn(R, ks)) \in Nat
         /\ Cardinality(PendingIn(Q, ks)) \in Nat
         /\ Cardinality(PendingIn(Q, ks)) <= Cardinality(PendingIn(R, ks)) + 1
<1> DEFINE P == PendingIn(R, ks)
<1>1. P \subseteq 1 .. Len(R) /\ Len(R) \in Nat
  BY DEF PendingIn, Longer
<1>2. IsFiniteSet(P)
  <2>1. IsFiniteSet(1 .. Len(R))
    BY <1>1, FS_Interval
  <2>2. QED
    BY <1>1, <2>1, FS_Subset
<1>3. Len(R) + 1 \notin P
  BY <1>1
<1>4. Cardinality(P) \in Nat
  BY <1>2, FS_CardinalityType
<1>5. CASE c.kernel \in ks
  <2>1. PendingIn(Q, ks) = P \cup {Len(R) + 1}
    BY <1>5 DEF PendingIn, Longer
  <2>2. Cardinality(PendingIn(Q, ks)) = Cardinality(P) + 1
    BY <1>2, <1>3, <2>1, FS_AddElement
  <2>3. QED
    BY <1>4, <1>5, <2>2
<1>6. CASE c.kernel \notin ks
  <2>1. PendingIn(Q, ks) = P
    BY <1>6 DEF PendingIn, Longer
  <2>2. QED
    BY <1>4, <2>1
<1>7. QED
  BY <1>5, <1>6

\* Nothing waits.
LEMMA PendingEmpty ==
  ASSUME NEW ks, NEW E, \A i \in DOMAIN E : E[i].kernel \notin ks
  PROVE  PendingIn(E, ks) = {} /\ Cardinality(PendingIn(E, ks)) = 0
<1>1. PendingIn(E, ks) = {}
  BY DEF PendingIn
<1>2. QED
  BY <1>1, FS_EmptySet

\* With an empty encoder nothing waits.
LEMMA EmptyWaits ==
  ASSUME TypeInv'
  PROVE  encoder' = <<>> => PendingInv'
<1>1. SUFFICES ASSUME encoder' = <<>> PROVE PendingInv'
  OBVIOUS
<1>2. DOMAIN encoder' = {}
  BY <1>1
<1>3. \A ks : PendingIn(encoder', ks) = {} /\ Cardinality(PendingIn(encoder', ks)) = 0
  BY <1>2, PendingEmpty
<1>4. 0 <= IF at' = 4 THEN Waiting(offset' \div QkvChunk) ELSE YieldInterval
  <2>1. offset' \div QkvChunk \in Nat /\ YieldInterval \in Nat
    <3>1. offset' \in Nat /\ QkvChunk \in Nat \ {0} /\ YieldInterval \in Nat
      BY ForwardAssumption DEF TypeInv
    <3>2. QED
      BY <3>1, Quotient
  <2>2. Waiting(offset' \div QkvChunk) \in Nat
    BY <2>1, WaitingIs
  <2>3. QED
    BY <2>1, <2>2
<1>5. OfLayer(encoder, layer, at)'
  BY <1>2 DEF OfLayer
<1>6. QED
  BY <1>1, <1>3, <1>4, <1>5 DEF PendingInv

\* A silent point keeps the bound, and a forced one empties the encoder.
LEMMA PendingSilent ==
  ASSUME TypeInv, TypeInv', OffsetInv, PendingInv, Silent
  PROVE  PendingInv'
<1>1. SUFFICES ASSUME encoder' # <<>>, phase' = "Layers", BatchSize' > 1
               PROVE  PendingInv'
  BY EmptyWaits DEF PendingInv
<1>2. /\ phase = "Layers" /\ at \in 1 .. 25 /\ encoder' = encoder /\ BatchSize' = BatchSize
      /\ OfLayer(encoder, layer, at) /\ at <= 22 /\ offset' = offset /\ layer \in Layers
  BY <1>1, SameCall DEF Silent, Moves, PendingInv, TypeInv
<1>3. at' = at + 1 /\ layer' = layer
  BY <1>2 DEF Silent, Moves
<1>4. ~(Kind = "check" /\ Forced)
  BY <1>1 DEF Silent
<1>5. at # 22 /\ (BatchSize > LargeBatch => at # 10) /\ at # 4
  <2>1. at # 4
    BY BodyIs DEF Silent, Kind, Point
  <2>2. QED
    BY SMTT(30), <1>1, <1>2, <1>4, <2>1, BodyIs DEF Kind, Point, Forced
<1>6. OfLayer(encoder', layer', at')
  <2>1. ASSUME NEW i \in DOMAIN encoder PROVE Place[encoder[i].kernel] <= at + 1
    <3>1. Place[encoder[i].kernel] \in Nat /\ Place[encoder[i].kernel] <= at
      BY <1>2, PlaceIs DEF OfLayer
    <3>2. QED
      BY <1>2, <3>1
  <2>2. QED
    BY <1>2, <1>3, <2>1 DEF OfLayer
<1>7. at' > 10 /\ BatchSize' > LargeBatch => PendingIn(encoder', {"AttnOut"}) = {}
  BY <1>1, <1>2, <1>3, <1>5 DEF PendingInv
<1>8. Cardinality(PendingIn(encoder', {"Qkv"}))
         <= IF at' = 4 THEN Waiting(offset' \div QkvChunk) ELSE YieldInterval
  <2>1. CASE at = 3
    <3>1. \A i \in DOMAIN encoder : encoder[i].kernel \notin {"Qkv"}
      BY <1>2, <2>1 DEF OfLayer, Place
    <3>2. Cardinality(PendingIn(encoder', {"Qkv"})) = 0
      BY <1>2, <3>1, PendingEmpty
    <3>3. offset' \div QkvChunk \in Nat
      <4>1. offset' \in Nat
        BY DEF TypeInv
      <4>2. QkvChunk \in Nat \ {0}
        BY ForwardAssumption
      <4>3. QED
        BY <4>1, <4>2, Quotient
    <3>4. Waiting(offset' \div QkvChunk) \in Nat
      BY <3>3, WaitingIs
    <3>5. QED
      BY <1>3, <2>1, <3>2, <3>4
  <2>2. CASE at # 3
    BY <1>1, <1>2, <1>3, <1>5, <2>2 DEF PendingInv
  <2>3. QED
    BY <2>1, <2>2
<1>9. ~(at' > 22)
  <2>1. at \in 1 .. 25 /\ at <= 22 /\ at # 22
    BY <1>2, <1>5
  <2>2. QED
    BY <1>3, <2>1
<1>10. OfLayer(encoder, layer, at)'
  BY <1>6 DEF OfLayer
<1>11. QED
  BY <1>7, <1>8, <1>9, <1>10 DEF PendingInv, PendingIn

\* A kernel keeps the bound.
LEMMA PendingKernel ==
  ASSUME TypeInv, TypeInv', OffsetInv, PendingInv, KernelRecorded
  PROVE  PendingInv'
<1> DEFINE c == Dispatch(Point, layer, 0, BatchSize)
<1>1. SUFFICES ASSUME phase' = "Layers", BatchSize' > 1 PROVE PendingInv'
  BY DEF PendingInv
<1>2. /\ phase = "Layers" /\ at \in 1 .. 25 /\ BatchSize' = BatchSize
      /\ offset' = offset /\ encoder' = Append(encoder, c) /\ encoder \in Seq(Commands)
  BY SameCall DEF KernelRecorded, Moves, TypeInv
<1>3. OfLayer(encoder, layer, at) /\ at <= 22
  <2>1. OfLayer(encoder, layer, at)
    BY <1>1, <1>2 DEF PendingInv
  <2>2. at <= 21
    BY <1>2, LayerCommand, 0 \in Nat DEF KernelRecorded
  <2>3. QED
    BY <1>2, <2>1, <2>2
<1>4. c \in Commands /\ Point \in BodyKernels /\ Place[Point] = at /\ at <= 21
  BY <1>2, LayerCommand, BatchSizeIs DEF KernelRecorded
<1>5. c.kernel = Point /\ c.layer = layer
  BY DEF Dispatch
<1>6. Longer(encoder, c, encoder')
  BY <1>2, <1>4, Appended
<1> HIDE DEF c
<1>7. at' = at + 1 /\ layer' = layer
  BY <1>1, <1>2, <1>4 DEF KernelRecorded, Moves
<1>8. OfLayer(encoder, layer, at)'
  <2>1. ASSUME NEW i \in DOMAIN encoder'
        PROVE  /\ encoder'[i].layer = layer /\ encoder'[i].kernel \in BodyKernels
               /\ Place[encoder'[i].kernel] <= at + 1
    <3>1. CASE i \in DOMAIN encoder
      <4>1. encoder'[i] = encoder[i]
        BY <1>6, <3>1 DEF Longer
      <4>2. /\ encoder[i].layer = layer /\ encoder[i].kernel \in BodyKernels
            /\ Place[encoder[i].kernel] <= at
        BY <1>3, <3>1 DEF OfLayer
      <4>3. Place[encoder[i].kernel] \in 2 .. 21
        BY <4>2, PlaceIs
      <4>4. at \in Nat
        BY <1>2
      <4>5. Place[encoder[i].kernel] <= at + 1
        BY <4>2, <4>3, <4>4
      <4>6. QED
        BY <4>1, <4>2, <4>5
    <3>2. CASE i \notin DOMAIN encoder
      <4>1. encoder'[i] = c
        BY <1>6, <3>2 DEF Longer
      <4>2. QED
        BY <1>2, <1>4, <1>5, <4>1
    <3>3. QED
      BY <3>1, <3>2
  <2>2. QED
    BY <1>7, <2>1 DEF OfLayer
<1>9. at' > 10 /\ BatchSize' > LargeBatch => PendingIn(encoder', {"AttnOut"}) = {}
  <2>1. SUFFICES ASSUME at' > 10, BatchSize' > LargeBatch
                 PROVE  PendingIn(encoder', {"AttnOut"}) = {}
    OBVIOUS
  <2>2. Point # "AttnOut" /\ at # 10
    BY <1>2, <1>4, <1>7, <2>1 DEF Place, BodyKernels
  <2>3. at > 10
    BY <1>2, <1>7, <2>1, <2>2
  <2>4. PendingIn(encoder, {"AttnOut"}) = {}
    BY <1>1, <1>2, <2>1, <2>3 DEF PendingInv
  <2>5. QED
    BY <1>5, <1>6, <2>2, <2>4, PendingAppend
<1>10. Cardinality(PendingIn(encoder', {"Qkv"}))
         <= IF at' = 4 THEN Waiting(offset' \div QkvChunk) ELSE YieldInterval
  <2>1. Point # "Qkv" /\ at # 4 /\ at # 3
    <3>1. Point # "Qkv"
      BY <1>2, LayerCommand, 0 \in Nat DEF KernelRecorded
    <3>2. QED
      BY <1>4, <3>1 DEF Place, BodyKernels
  <2>2. Cardinality(PendingIn(encoder, {"Qkv"})) <= YieldInterval
    BY <1>1, <1>2, <2>1 DEF PendingInv
  <2>3. PendingIn(encoder', {"Qkv"}) = PendingIn(encoder, {"Qkv"})
    BY <1>5, <1>6, <2>1, PendingAppend
  <2>4. at' # 4
    BY <1>2, <1>7, <2>1
  <2>5. QED
    BY <2>2, <2>3, <2>4
<1>11. ~(at' > 22)
  BY <1>2, <1>4, <1>7
<1>12. QED
  BY <1>8, <1>9, <1>10, <1>11 DEF PendingInv, PendingIn

\* A turn of the QKV loop keeps the bound: it yields in time.
LEMMA PendingTurn ==
  ASSUME TypeInv, TypeInv', OffsetInv, PendingInv, TurnRecorded
  PROVE  PendingInv'
<1> DEFINE c == Dispatch("Qkv", layer, offset, ThisChunk)
           m == offset \div QkvChunk
<1>1. SUFFICES ASSUME encoder' # <<>>, phase' = "Layers", BatchSize' > 1 PROVE PendingInv'
  BY EmptyWaits DEF PendingInv
<1>2. /\ phase = "Layers" /\ at = 4 /\ BatchSize' = BatchSize /\ layer \in Layers
      /\ encoder' = Append(encoder, c) /\ encoder \in Seq(Commands)
      /\ ~IntervalYield
  BY <1>1, SameCall DEF TurnRecorded, TypeInv
<1>3. OfLayer(encoder, layer, at) /\ Cardinality(PendingIn(encoder, {"Qkv"})) <= Waiting(m)
  BY <1>1, <1>2 DEF PendingInv
<1>4. /\ c \in Commands /\ c.kernel = "Qkv" /\ c.layer = layer
      /\ "Qkv" \in BodyKernels /\ Place["Qkv"] = 4
  <2>1. ThisChunk \in Nat /\ offset \in Nat
    BY DEF TurnRecorded, TypeInv
  <2>2. QED
    BY <1>2, <2>1 DEF Layers, Dispatch, Commands, Kernels, BodyKernels, Place
<1>5. Longer(encoder, c, encoder')
  BY <1>2, <1>4, Appended
<1> HIDE DEF c
<1>6. at' \in {4, 5} /\ layer' = layer
  BY <1>1, <1>2 DEF TurnRecorded, Moves
<1>7. OfLayer(encoder, layer, at)'
  <2>1. ASSUME NEW i \in DOMAIN encoder'
        PROVE  /\ encoder'[i].layer = layer /\ encoder'[i].kernel \in BodyKernels
               /\ Place[encoder'[i].kernel] <= 4
    <3>1. CASE i \in DOMAIN encoder
      <4>1. encoder'[i] = encoder[i]
        BY <1>5, <3>1 DEF Longer
      <4>2. QED
        BY <1>2, <1>3, <3>1, <4>1 DEF OfLayer
    <3>2. CASE i \notin DOMAIN encoder
      <4>1. encoder'[i] = c
        BY <1>5, <3>2 DEF Longer
      <4>2. QED
        BY <1>4, <4>1
    <3>3. QED
      BY <3>1, <3>2
  <2>2. \A i \in DOMAIN encoder' : Place[encoder'[i].kernel] \in 2 .. 21
    BY <2>1, PlaceIs
  <2>3. \A i \in DOMAIN encoder' : Place[encoder'[i].kernel] <= at'
    BY <1>6, <2>1, <2>2
  <2>4. QED
    BY <1>6, <2>1, <2>3 DEF OfLayer
<1>8. m \in Nat /\ offset = m * QkvChunk
  <2>1. PICK q \in Nat : offset = q * QkvChunk
    BY <1>2 DEF OffsetInv
  <2>2. QkvChunk \in Nat \ {0}
    BY ForwardAssumption
  <2>3. offset \div QkvChunk = q
    BY <2>1, <2>2, Multiple
  <2>4. QED
    BY <2>1, <2>3
<1>9. ~(m > 0 /\ m % YieldInterval = 0)
  BY <1>1, <1>2 DEF IntervalYield
<1>10. /\ Waiting(m) \in 0 .. YieldInterval /\ Waiting(m + 1) = Waiting(m) + 1
       /\ Waiting(m + 1) \in 0 .. YieldInterval
  <2> HIDE DEF m
  <2>1. m + 1 \in Nat
    BY <1>8
  <2>2. QED
    BY <1>8, <1>9, <2>1, WaitingIs
<1>11. Cardinality(PendingIn(encoder', {"Qkv"})) <= Waiting(m + 1)
  <2>1. /\ Cardinality(PendingIn(encoder, {"Qkv"})) \in Nat
        /\ Cardinality(PendingIn(encoder', {"Qkv"})) \in Nat
        /\ Cardinality(PendingIn(encoder', {"Qkv"}))
             <= Cardinality(PendingIn(encoder, {"Qkv"})) + 1
    BY <1>5, PendingAppend
  <2> HIDE DEF m
  <2>2. QED
    BY <1>3, <1>10, <2>1
<1>12. Cardinality(PendingIn(encoder', {"Qkv"}))
         <= IF at' = 4 THEN Waiting(offset' \div QkvChunk) ELSE YieldInterval
  <2>1. CASE at' = 4
    <3>1. offset' = offset + QkvChunk
      BY <1>2, <2>1 DEF TurnRecorded, Moves
    <3>2. QkvChunk \in Nat \ {0}
      BY ForwardAssumption
    <3>3. offset' \div QkvChunk = m + 1
      <4>1. m + 1 \in Nat /\ offset' = (m + 1) * QkvChunk
        <5> HIDE DEF m
        <5>1. QED
          BY <1>8, <3>1, <3>2
      <4> DEFINE q == m + 1
      <4>2. q \in Nat /\ offset' = q * QkvChunk
        BY <4>1
      <4> HIDE DEF q
      <4>3. offset' \div QkvChunk = q
        BY <3>2, <4>2, Multiple
      <4>4. QED
        BY <4>3 DEF q
    <3>4. QED
      BY <1>11, <2>1, <3>3
  <2>2. CASE at' # 4
    <3>1. Cardinality(PendingIn(encoder', {"Qkv"})) \in Nat /\ YieldInterval \in Nat
      BY <1>5, PendingAppend, ForwardAssumption
    <3> HIDE DEF m
    <3>2. Cardinality(PendingIn(encoder', {"Qkv"})) <= YieldInterval
      BY <1>10, <1>11, <3>1
    <3>3. QED
      BY <2>2, <3>2
  <2>3. QED
    BY <2>1, <2>2
<1>13. ~(at' > 10) /\ ~(at' > 22)
  BY <1>6
<1>14. QED
  BY <1>7, <1>12, <1>13 DEF PendingInv, PendingIn

-----------------------------------------------------------------------------
(* The head                                                                *)

\* The tile of a workgroup, and no other.
InTile(c, w) == w \in c.first .. c.first + c.count - 1

\* T tiles of S are what W takes.
Tiling(T, W, S) == S \in Nat \ {0} /\ W \in Nat \ {0} /\ T = (W + S - 1) \div S

\* Every unit is in one tile, and every tile begins before the end.
LEMMA TilesCover ==
  ASSUME NEW S, NEW W, NEW T, Tiling(T, W, S)
  PROVE  /\ T \in Nat \ {0}
         /\ \A i \in 0 .. T - 1 : i * S \in Nat /\ i * S < W
         /\ \A w \in 0 .. W - 1 :
              \E q \in 0 .. T - 1 :
                 /\ q * S <= w /\ w < q * S + S
                 /\ \A i \in 0 .. T - 1 : i * S <= w /\ w < i * S + S => i = q
<1> DEFINE V == W + S - 1
           r == V % S
<1>0. S \in Nat \ {0} /\ W \in Nat \ {0} /\ T = (W + S - 1) \div S
  BY DEF Tiling
<1>1. V \in Nat /\ T \in Nat /\ r \in 0 .. S - 1 /\ V = T * S + r
  <2>1. V \in Nat
    BY <1>0
  <2> HIDE DEF V
  <2>2. V % S \in 0 .. S - 1 /\ V \div S \in Nat /\ V = (V \div S) * S + (V % S)
    BY <1>0, <2>1, Quotient
  <2>3. T = V \div S
    BY <1>0 DEF V
  <2>4. QED
    BY <2>1, <2>2, <2>3
<1>2. T * S \in Nat /\ T * S >= W /\ T * S <= W + S - 1
  BY <1>0, <1>1
<1>3. T # 0
  BY <1>0, <1>2
<1>4. ASSUME NEW i \in 0 .. T - 1 PROVE i * S \in Nat /\ i * S < W
  <2>1. i \in Nat /\ i + 1 <= T
    BY <1>1
  <2>2. (i + 1) * S <= T * S
    BY <1>0, <1>1, <2>1
  <2>3. (i + 1) * S = i * S + S /\ i * S \in Nat
    BY <1>0, <2>1
  <2>4. QED
    BY <1>0, <1>2, <2>2, <2>3
<1>5. ASSUME NEW w \in 0 .. W - 1
      PROVE  \E q \in 0 .. T - 1 :
                 /\ q * S <= w /\ w < q * S + S
                 /\ \A i \in 0 .. T - 1 : i * S <= w /\ w < i * S + S => i = q
  <2> DEFINE q == w \div S
             s == w % S
  <2>1. q \in Nat /\ s \in 0 .. S - 1 /\ w = q * S + s
    <3>1. w \in Nat
      BY <1>0
    <3>2. w % S \in 0 .. S - 1 /\ w \div S \in Nat /\ w = (w \div S) * S + (w % S)
      BY <1>0, <3>1, Quotient
    <3>3. QED
      BY <3>2
  <2>2. \A i \in Nat : i * S <= w /\ w < i * S + S => i = q
    <3>1. SUFFICES ASSUME NEW i \in Nat, i * S <= w, w < i * S + S PROVE i = q
      OBVIOUS
    <3> DEFINE t == w - i * S
    <3>2. i * S \in Nat /\ t \in 0 .. S - 1 /\ w = i * S + t
      BY <1>0, <3>1
    <3> HIDE DEF t
    <3>3. (i * S + t) \div S = i
      BY <1>0, <3>2
    <3>4. QED
      BY <3>2, <3>3
  <2> HIDE DEF q, s
  <2>3. q * S \in Nat /\ q * S <= w /\ w < q * S + S
    BY <1>0, <2>1
  <2>4. q < T
    <3>1. SUFFICES ASSUME q >= T PROVE FALSE
      BY <1>1, <2>1
    <3>2. q * S >= T * S
      BY <1>0, <1>1, <2>1, <3>1
    <3>3. QED
      BY <1>0, <1>2, <2>3, <3>2
  <2>5. q \in 0 .. T - 1
    BY <1>1, <2>1, <2>4
  <2>6. \A i \in 0 .. T - 1 : i \in Nat
    OBVIOUS
  <2>7. QED
    BY <2>2, <2>3, <2>5, <2>6
<1>6. QED
  BY <1>1, <1>3, <1>4, <1>5

\* The dispatches of the LM head cover the vocabulary once.
LEMMA LmHeadIs ==
  /\ LmHead \in Seq(Commands)
  /\ \A i \in DOMAIN LmHead :
       /\ LmHead[i].kernel = "LmHead" /\ LmHead[i].layer = 0
       /\ LmHead[i].first + LmHead[i].count <= HeadWorkgroups
  /\ \A w \in 0 .. HeadWorkgroups - 1 :
       \E q \in DOMAIN LmHead : \A i \in DOMAIN LmHead : InTile(LmHead[i], w) <=> i = q
<1> DEFINE W == HeadWorkgroups
           S == SafeWorkgroups
<1>1. W \in Nat \ {0} /\ S \in Nat \ {0}
  BY ForwardAssumption
<1>2. \A f, n \in Nat : /\ Dispatch("LmHead", 0, f, n) \in Commands
                        /\ Dispatch("LmHead", 0, f, n).kernel = "LmHead"
                        /\ Dispatch("LmHead", 0, f, n).layer = 0
                        /\ Dispatch("LmHead", 0, f, n).first = f
                        /\ Dispatch("LmHead", 0, f, n).count = n
  BY ForwardAssumption DEF Commands, Kernels, Dispatch
<1>3. CASE options.head = "f32" \/ HeadWorkgroups <= SafeWorkgroups
  <2> DEFINE c == Dispatch("LmHead", 0, 0, W)
  <2>1. LmHead = <<c>>
    BY <1>3 DEF LmHead
  <2>2. c \in Commands /\ c.kernel = "LmHead" /\ c.layer = 0 /\ c.first = 0 /\ c.count = W
    BY <1>1, <1>2
  <2> HIDE DEF c
  <2>3. DOMAIN LmHead = {1} /\ LmHead[1] = c /\ LmHead \in Seq(Commands)
    BY <2>1, <2>2
  <2>4. \A w \in 0 .. W - 1 : InTile(c, w)
    BY <1>1, <2>2 DEF InTile
  <2>5. c.first + c.count <= W
    BY <1>1, <2>2
  <2>6. QED
    BY <2>2, <2>3, <2>4, <2>5
<1>4. CASE ~(options.head = "f32" \/ HeadWorkgroups <= SafeWorkgroups)
  <2>1. LmHead = [i \in 1 .. Tiles |-> Tile(i - 1)]
    BY <1>4 DEF LmHead
  <2>2. Tiles = (W + S - 1) \div S
    BY DEF Tiles
  <2> DEFINE T == Tiles
  <2> HIDE DEF T
  <2>3. T = (W + S - 1) \div S
    BY <2>2 DEF T
  <2> HIDE DEF W, S
  <2>4. /\ T \in Nat \ {0}
        /\ \A i \in 0 .. T - 1 : i * S \in Nat /\ i * S < W
        /\ \A w \in 0 .. W - 1 :
              \E q \in 0 .. T - 1 :
                 /\ q * S <= w /\ w < q * S + S
                 /\ \A i \in 0 .. T - 1 : i * S <= w /\ w < i * S + S => i = q
    <3>1. Tiling(T, W, S)
      BY <1>1, <2>3 DEF Tiling
    <3>2. QED
      BY <3>1, TilesCover
  <2>5. ASSUME NEW i \in 0 .. T - 1
        PROVE  /\ Tile(i) \in Commands /\ Tile(i).kernel = "LmHead" /\ Tile(i).layer = 0
               /\ Tile(i).first + Tile(i).count <= W
               /\ \A w \in 0 .. W - 1 : InTile(Tile(i), w) <=> i * S <= w /\ w < i * S + S
    <3> DEFINE f == i * S
               n == Least(W - f, S)
    <3>1. Tile(i) = Dispatch("LmHead", 0, f, n)
      BY DEF Tile, W, S
    <3>2. f \in Nat /\ f < W
      BY <2>4
    <3> HIDE DEF f
    <3>3. n \in Nat /\ f + n <= W /\ (n = S \/ f + n = W) /\ n <= S
      BY <1>1, <3>2 DEF Least
    <3> HIDE DEF n
    <3>4. /\ Tile(i) \in Commands /\ Tile(i).kernel = "LmHead" /\ Tile(i).layer = 0
          /\ Tile(i).first = f /\ Tile(i).count = n
      BY <1>2, <3>1, <3>2, <3>3
    <3>5. \A w \in 0 .. W - 1 : InTile(Tile(i), w) <=> f <= w /\ w < f + S
      BY <1>1, <3>2, <3>3, <3>4 DEF InTile
    <3>6. QED
      BY <3>3, <3>4, <3>5 DEF f
  <2>6. /\ DOMAIN LmHead = 1 .. T
        /\ \A i \in 1 .. T : i - 1 \in 0 .. T - 1 /\ LmHead[i] = Tile(i - 1)
    BY <2>1, <2>4 DEF T
  <2>7. \A i \in 1 .. T : LmHead[i] \in Commands
    BY <2>5, <2>6
  <2>8. LmHead \in Seq(Commands)
    BY <2>1, <2>4, <2>6, <2>7 DEF T
  <2>9. ASSUME NEW w \in 0 .. W - 1
        PROVE  \E q \in DOMAIN LmHead : \A i \in DOMAIN LmHead : InTile(LmHead[i], w) <=> i = q
    <3>1. PICK q \in 0 .. T - 1 :
                 /\ q * S <= w /\ w < q * S + S
                 /\ \A i \in 0 .. T - 1 : i * S <= w /\ w < i * S + S => i = q
      BY <2>4
    <3>2. \A i \in 0 .. T - 1 : InTile(Tile(i), w) <=> i = q
      BY <2>5, <3>1
    <3>3. q + 1 \in 1 .. T /\ \A i \in 1 .. T : i - 1 = q <=> i = q + 1
      BY <2>4
    <3>4. QED
      BY <2>6, <3>2, <3>3
  <2>10. \A i \in DOMAIN LmHead :
       /\ LmHead[i].kernel = "LmHead" /\ LmHead[i].layer = 0
       /\ LmHead[i].first + LmHead[i].count <= W
    BY <2>5, <2>6
  <2>11. QED
    BY <2>8, <2>9, <2>10 DEF W
<1>5. QED
  BY <1>3, <1>4

\* What the head records.
HeadCommands ==
  (<<Dispatch("CopyPreNorm", 0, 0, 1), Dispatch("FinalNorm", 0, 0, 1)>> \o LmHead)
    \o <<Dispatch("CopyOut", 0, 0, 1)>>

\* The head, dispatch by dispatch.
LEMMA HeadIs ==
  LET T == HeadCommands
      n == Len(LmHead)
  IN /\ T \in Seq(Commands) /\ n \in Nat /\ DOMAIN LmHead = 1 .. n /\ DOMAIN T = 1 .. n + 3
     /\ T[1] = Dispatch("CopyPreNorm", 0, 0, 1) /\ T[2] = Dispatch("FinalNorm", 0, 0, 1)
     /\ \A i \in 1 .. n : T[i + 2] = LmHead[i]
     /\ T[n + 3] = Dispatch("CopyOut", 0, 0, 1)
<1> DEFINE a == Dispatch("CopyPreNorm", 0, 0, 1)
           b == Dispatch("FinalNorm", 0, 0, 1)
           c == Dispatch("CopyOut", 0, 0, 1)
           L == LmHead
<1>1. a \in Commands /\ b \in Commands /\ c \in Commands /\ L \in Seq(Commands)
  BY LmHeadIs, ForwardAssumption DEF Commands, Kernels, Dispatch
<1>2. HeadCommands = (<<a, b>> \o L) \o <<c>>
  BY DEF HeadCommands
<1> HIDE DEF a, b, c, L
<1> DEFINE n == Len(L)
           M == <<a, b>> \o L
<1>3. n \in Nat /\ DOMAIN L = 1 .. n
  BY <1>1
<1>4. /\ M \in Seq(Commands) /\ Len(M) = n + 2 /\ M[1] = a /\ M[2] = b
      /\ \A i \in 1 .. n : M[i + 2] = L[i]
  <2>1. <<a, b>> \in Seq(Commands) /\ Len(<<a, b>>) = 2 /\ <<a, b>>[1] = a /\ <<a, b>>[2] = b
    BY <1>1
  <2>2. /\ M \in Seq(Commands) /\ Len(M) = 2 + n
        /\ \A i \in 1 .. 2 + n : M[i] = IF i <= 2 THEN <<a, b>>[i] ELSE L[i - 2]
    BY <1>1, <2>1, ConcatProperties
  <2>3. M[1] = a /\ M[2] = b
    BY <1>3, <2>1, <2>2
  <2>4. ASSUME NEW i \in 1 .. n PROVE M[i + 2] = L[i]
    <3>1. i + 2 \in 1 .. 2 + n /\ ~(i + 2 <= 2) /\ (i + 2) - 2 = i
      BY <1>3
    <3>2. QED
      BY <2>2, <3>1
  <2>5. Len(M) = n + 2
    BY <1>3, <2>2
  <2>6. QED
    BY <2>2, <2>3, <2>4, <2>5
<1> DEFINE T == M \o <<c>>
<1>5. /\ T \in Seq(Commands) /\ Len(T) = n + 3
      /\ \A i \in 1 .. n + 2 : T[i] = M[i]
      /\ T[n + 3] = c
  <2> HIDE DEF M
  <2>1. <<c>> \in Seq(Commands) /\ Len(<<c>>) = 1 /\ <<c>>[1] = c
    BY <1>1
  <2>2. /\ T \in Seq(Commands) /\ Len(T) = Len(M) + 1
        /\ \A i \in 1 .. Len(M) + 1 : T[i] = IF i <= Len(M) THEN M[i] ELSE <<c>>[i - Len(M)]
    BY <1>4, <2>1, ConcatProperties
  <2> HIDE DEF T, n
  <2>3. Len(T) = n + 3
    BY <1>3, <1>4, <2>2
  <2>4. ASSUME NEW i \in 1 .. n + 2 PROVE T[i] = M[i]
    <3>1. i \in 1 .. Len(M) + 1 /\ i <= Len(M)
      BY <1>3, <1>4
    <3>2. QED
      BY <2>2, <3>1
  <2>5. T[n + 3] = c
    <3>1. n + 3 \in 1 .. Len(M) + 1 /\ ~(n + 3 <= Len(M)) /\ (n + 3) - Len(M) = 1
      BY <1>3, <1>4
    <3>2. QED
      BY <2>1, <2>2, <3>1
  <2>6. QED
    BY <2>2, <2>3, <2>4, <2>5
<1>6. DOMAIN T = 1 .. n + 3
  BY <1>5
<1>7. \A i \in 1 .. n : T[i + 2] = L[i]
  <2> HIDE DEF T, M, n
  <2>1. \A i \in 1 .. n : i + 2 \in 1 .. n + 2
    BY <1>3
  <2>2. QED
    BY <1>4, <1>5, <2>1
<1>8. T[1] = a /\ T[2] = b
  <2> HIDE DEF T, M, n
  <2>1. 1 \in 1 .. n + 2 /\ 2 \in 1 .. n + 2
    BY <1>3
  <2>2. QED
    BY <1>4, <1>5, <2>1
<1>9. HeadCommands = T
  BY <1>2
<1> HIDE DEF T, M
<1>10. QED
  BY <1>3, <1>5, <1>6, <1>7, <1>8, <1>9 DEF a, b, c, L

\* The head in terms of what the properties ask.
HeadComplete(T) ==
  /\ \A i \in DOMAIN T :
       /\ T[i].layer = 0 /\ T[i].kernel \in {"CopyPreNorm", "FinalNorm", "LmHead", "CopyOut"}
       /\ Rank(T[i]) \in Nat /\ Rank(T[i]) >= 25 * LayerCount + 26
       /\ T[i].kernel = "LmHead" =>
            T[i].first + T[i].count <= HeadWorkgroups /\ 2 < i
       /\ T[i].kernel # "LmHead" => Work(T[i]) \in Reference
  /\ Sorted(T)
  /\ \A k \in {"CopyPreNorm", "FinalNorm", "CopyOut"} : RanOnce(T, <<k, 0>>)
  /\ \A w \in 0 .. HeadWorkgroups - 1 : \E q \in DOMAIN T : Covering(T, "LmHead", 0, w) = {q}
  /\ 2 \in DOMAIN T /\ T[2].kernel = "FinalNorm"

\* The head is complete, with or without tiles.
LEMMA HeadIsComplete == HeadComplete(HeadCommands)
<1> DEFINE T == HeadCommands
           n == Len(LmHead)
           B == 25 * (LayerCount + 1)
<1>1. /\ n \in Nat /\ DOMAIN LmHead = 1 .. n /\ DOMAIN T = 1 .. n + 3
      /\ T[1] = Dispatch("CopyPreNorm", 0, 0, 1) /\ T[2] = Dispatch("FinalNorm", 0, 0, 1)
      /\ \A i \in 1 .. n : T[i + 2] = LmHead[i]
      /\ T[n + 3] = Dispatch("CopyOut", 0, 0, 1)
  BY HeadIs
<1> HIDE DEF T
<1>2. /\ T[1].kernel = "CopyPreNorm" /\ T[1].layer = 0
      /\ T[2].kernel = "FinalNorm" /\ T[2].layer = 0
      /\ T[n + 3].kernel = "CopyOut" /\ T[n + 3].layer = 0
  BY <1>1 DEF Dispatch
<1>3. ASSUME NEW i \in 3 .. n + 2
      PROVE  /\ i - 2 \in DOMAIN LmHead /\ T[i] = LmHead[i - 2]
             /\ T[i].kernel = "LmHead" /\ T[i].layer = 0
             /\ T[i].first + T[i].count <= HeadWorkgroups
  <2> HIDE DEF n
  <2>1. i - 2 \in 1 .. n /\ (i - 2) + 2 = i
    BY <1>1
  <2>2. T[i] = LmHead[i - 2]
    BY <1>1, <2>1
  <2>3. QED
    BY <1>1, <2>1, <2>2, LmHeadIs
<1> HIDE DEF n
<1>4. \A i \in DOMAIN T : i = 1 \/ i = 2 \/ i \in 3 .. n + 2 \/ i = n + 3
  BY <1>1
<1>5. /\ HeadOrder[1] = "CopyPreNorm" /\ HeadOrder[2] = "FinalNorm"
      /\ HeadOrder[3] = "LmHead" /\ HeadOrder[4] = "CopyOut"
  BY DEF HeadOrder
<1>6. /\ Rank(T[1]) = B + 1 /\ Rank(T[2]) = B + 2 /\ Rank(T[n + 3]) = B + 4
      /\ \A i \in 3 .. n + 2 : Rank(T[i]) = B + 3
  <2>1. 1 \in 1 .. 4 /\ 2 \in 1 .. 4 /\ 3 \in 1 .. 4 /\ 4 \in 1 .. 4
    OBVIOUS
  <2>2. QED
    BY <1>2, <1>3, <1>5, <2>1, HeadRankIs
<1>7. B \in Nat /\ B + 1 = 25 * LayerCount + 26
  BY ForwardAssumption
<1> HIDE DEF B
<1>8. Sorted(T)
  <2>1. SUFFICES ASSUME NEW i \in 1 .. n + 3, NEW j \in 1 .. n + 3, i < j
                 PROVE  Rank(T[i]) <= Rank(T[j])
    BY <1>1 DEF Sorted
  <2>2. CASE i = 1
    <3>1. j = 2 \/ j \in 3 .. n + 2 \/ j = n + 3
      BY <1>1, <2>1, <2>2
    <3>2. QED
      BY <1>6, <1>7, <2>2, <3>1
  <2>3. CASE i = 2
    <3>1. j \in 3 .. n + 2 \/ j = n + 3
      BY <1>1, <2>1, <2>3
    <3>2. QED
      BY <1>6, <1>7, <2>3, <3>1
  <2>4. CASE i \in 3 .. n + 2
    <3>1. j \in 3 .. n + 2 \/ j = n + 3
      BY <1>1, <2>1, <2>4
    <3>2. QED
      BY <1>6, <1>7, <2>4, <3>1
  <2>5. i # n + 3
    BY <1>1, <2>1
  <2>6. QED
    BY <1>1, <2>2, <2>3, <2>4, <2>5
<1>9. ASSUME NEW i \in DOMAIN T
      PROVE  /\ T[i].layer = 0 /\ T[i].kernel \in {"CopyPreNorm", "FinalNorm", "LmHead", "CopyOut"}
             /\ Rank(T[i]) \in Nat /\ Rank(T[i]) >= 25 * LayerCount + 26
             /\ T[i].kernel = "LmHead" =>
                  T[i].first + T[i].count <= HeadWorkgroups /\ 2 < i
             /\ T[i].kernel # "LmHead" => Work(T[i]) \in Reference
  <2>1. CASE i \in 3 .. n + 2
    <3>1. Rank(T[i]) \in Nat /\ Rank(T[i]) >= 25 * LayerCount + 26 /\ 2 < i
      BY <1>6, <1>7, <2>1
    <3>2. QED
      BY <1>3, <2>1, <3>1
  <2>2. CASE i = 1 \/ i = 2 \/ i = n + 3
    <3>1. Rank(T[i]) \in Nat /\ Rank(T[i]) >= 25 * LayerCount + 26
      BY <1>6, <1>7, <2>2
    <3>2. T[i].layer = 0 /\ T[i].kernel \in {"CopyPreNorm", "FinalNorm", "CopyOut"}
      BY <1>2, <2>2
    <3>3. Work(T[i]) \in Reference
      BY <3>2 DEF Work, Reference
    <3>4. QED
      BY <3>1, <3>2, <3>3
  <2>3. QED
    BY <1>4, <2>1, <2>2
<1>10. ASSUME NEW k \in {"CopyPreNorm", "FinalNorm", "CopyOut"}
       PROVE  RanOnce(T, <<k, 0>>)
  <2> DEFINE place == IF k = "CopyPreNorm" THEN 1 ELSE IF k = "FinalNorm" THEN 2 ELSE n + 3
  <2>1. place \in DOMAIN T /\ T[place].kernel = k /\ T[place].layer = 0
    BY <1>1, <1>2
  <2>2. \A i \in DOMAIN T : T[i].kernel = k => i = place
    BY <1>2, <1>3, <1>4
  <2> HIDE DEF place
  <2>3. Running(T, <<k, 0>>) = {place}
    BY <2>1, <2>2 DEF Running, Work
  <2>4. QED
    BY <2>1, <2>3 DEF RanOnce
<1>11. ASSUME NEW w \in 0 .. HeadWorkgroups - 1
       PROVE  \E q \in DOMAIN T : Covering(T, "LmHead", 0, w) = {q}
  <2>1. PICK q \in DOMAIN LmHead : \A i \in DOMAIN LmHead : InTile(LmHead[i], w) <=> i = q
    BY LmHeadIs
  <2>2. q + 2 \in 3 .. n + 2 /\ q + 2 \in DOMAIN T /\ (q + 2) - 2 = q
    BY <1>1
  <2>3. \A i \in DOMAIN T : T[i].kernel = "LmHead" <=> i \in 3 .. n + 2
    BY <1>1, <1>2, <1>3, <1>4
  <2>4. ASSUME NEW i \in 3 .. n + 2 PROVE InTile(T[i], w) <=> i = q + 2
    <3>1. InTile(T[i], w) <=> i - 2 = q
      BY <1>3, <2>1
    <3>2. i - 2 = q <=> i = q + 2
      BY <1>1, <2>2
    <3>3. QED
      BY <3>1, <3>2
  <2>5. Covering(T, "LmHead", 0, w) =
          {i \in DOMAIN T : T[i].kernel = "LmHead" /\ T[i].layer = 0 /\ InTile(T[i], w)}
    BY DEF Covering, InTile
  <2>6. Covering(T, "LmHead", 0, w) = {q + 2}
    BY <1>3, <2>2, <2>3, <2>4, <2>5
  <2>7. QED
    BY <2>2, <2>6
<1>12. QED
  BY <1>1, <1>2, <1>8, <1>9, <1>10, <1>11 DEF HeadComplete, T

\* Q is R followed by T.
Joined(R, T, Q) ==
  /\ Len(R) \in Nat /\ Len(T) \in Nat
  /\ DOMAIN R = 1 .. Len(R) /\ DOMAIN T = 1 .. Len(T) /\ DOMAIN Q = 1 .. Len(R) + Len(T)
  /\ \A i \in DOMAIN R : Q[i] = R[i]
  /\ \A i \in DOMAIN T : Len(R) + i \in DOMAIN Q /\ Q[Len(R) + i] = T[i]

\* A concatenation is joined.
LEMMA JoinedIs ==
  ASSUME NEW R \in Seq(Commands), NEW T \in Seq(Commands)
  PROVE  Joined(R, T, R \o T)
BY ConcatProperties DEF Joined

\* A place of Q is one of R or of T.
LEMMA JoinedPlaces ==
  ASSUME NEW R, NEW T, NEW Q, Joined(R, T, Q), NEW i \in DOMAIN Q
  PROVE  \/ i \in DOMAIN R /\ Q[i] = R[i]
         \/ \E j \in DOMAIN T : i = Len(R) + j /\ Q[i] = T[j]
<1>1. CASE i <= Len(R)
  BY <1>1 DEF Joined
<1>2. CASE i > Len(R)
  <2>1. i - Len(R) \in DOMAIN T /\ i = Len(R) + (i - Len(R))
    BY <1>2 DEF Joined
  <2>2. QED
    BY <2>1 DEF Joined
<1>3. QED
  BY <1>1, <1>2 DEF Joined

\* What only one part has, the whole has once if the part does.
LEMMA OnceJoined ==
  ASSUME NEW R, NEW T, NEW Q, Joined(R, T, Q), NEW P
  PROVE  /\ \A i \in DOMAIN R :
              {j \in DOMAIN R : R[j] \in P} = {i} /\ (\A j \in DOMAIN T : T[j] \notin P)
               => {j \in DOMAIN Q : Q[j] \in P} = {i}
         /\ \A i \in DOMAIN T :
              {j \in DOMAIN T : T[j] \in P} = {i} /\ (\A j \in DOMAIN R : R[j] \notin P)
               => {j \in DOMAIN Q : Q[j] \in P} = {Len(R) + i}
<1>1. ASSUME NEW i \in DOMAIN R, {j \in DOMAIN R : R[j] \in P} = {i},
             \A j \in DOMAIN T : T[j] \notin P
      PROVE  {j \in DOMAIN Q : Q[j] \in P} = {i}
  <2>1. i \in DOMAIN Q /\ Q[i] = R[i]
    BY DEF Joined
  <2>2. ASSUME NEW j \in DOMAIN Q, Q[j] \in P PROVE j = i
    BY <1>1, <2>2, JoinedPlaces
  <2>3. QED
    BY <1>1, <2>1, <2>2
<1>2. ASSUME NEW i \in DOMAIN T, {j \in DOMAIN T : T[j] \in P} = {i},
             \A j \in DOMAIN R : R[j] \notin P
      PROVE  {j \in DOMAIN Q : Q[j] \in P} = {Len(R) + i}
  <2>1. Len(R) + i \in DOMAIN Q /\ Q[Len(R) + i] = T[i]
    BY DEF Joined
  <2>2. ASSUME NEW j \in DOMAIN Q, Q[j] \in P PROVE j = Len(R) + i
    BY <1>2, <2>2, JoinedPlaces
  <2>3. QED
    BY <1>2, <2>1, <2>2
<1>3. QED
  BY <1>1, <1>2

\* What one part has once and the other does not, the whole has once.
LEMMA OnceInWhole ==
  ASSUME NEW R, NEW T, NEW Q, Joined(R, T, Q), NEW P,
         \/ /\ \E i \in DOMAIN R : {j \in DOMAIN R : R[j] \in P} = {i}
            /\ \A j \in DOMAIN T : T[j] \notin P
         \/ /\ \E i \in DOMAIN T : {j \in DOMAIN T : T[j] \in P} = {i}
            /\ \A j \in DOMAIN R : R[j] \notin P
  PROVE  \E i \in DOMAIN Q : {j \in DOMAIN Q : Q[j] \in P} = {i}
<1>1. /\ \A i \in DOMAIN R : i \in DOMAIN Q
      /\ \A i \in DOMAIN T : Len(R) + i \in DOMAIN Q
  BY DEF Joined
<1>2. QED
  BY <1>1, OnceJoined

\* Work of one part has run once in the whole.
LEMMA RanOnceJoined ==
  ASSUME NEW R, NEW T, NEW Q, Joined(R, T, Q), NEW w,
         \/ RanOnce(R, w) /\ \A j \in DOMAIN T : Work(T[j]) # w
         \/ RanOnce(T, w) /\ \A j \in DOMAIN R : Work(R[j]) # w
  PROVE  RanOnce(Q, w)
<1> DEFINE P == {Q[j] : j \in Running(Q, w)}
<1>1. \A j \in DOMAIN Q : Q[j] \in P <=> Work(Q[j]) = w
  BY DEF Running
<1>2. /\ \A j \in DOMAIN R : R[j] \in P <=> Work(R[j]) = w
      /\ \A j \in DOMAIN T : T[j] \in P <=> Work(T[j]) = w
  <2> HIDE DEF P
  <2>1. \A j \in DOMAIN R : j \in DOMAIN Q /\ Q[j] = R[j]
    BY DEF Joined
  <2>2. \A j \in DOMAIN T : Len(R) + j \in DOMAIN Q /\ Q[Len(R) + j] = T[j]
    BY DEF Joined
  <2>3. QED
    BY <1>1, <2>1, <2>2
<1> HIDE DEF P
<1>3. /\ Running(R, w) = {j \in DOMAIN R : R[j] \in P}
      /\ Running(T, w) = {j \in DOMAIN T : T[j] \in P}
      /\ Running(Q, w) = {j \in DOMAIN Q : Q[j] \in P}
  BY <1>1, <1>2 DEF Running
<1>4. QED
  BY <1>2, <1>3, OnceInWhole DEF RanOnce

\* So is a unit that one part covers.
LEMMA CoveredJoined ==
  ASSUME NEW R, NEW T, NEW Q, Joined(R, T, Q), NEW k, NEW l, NEW u,
         \A j \in DOMAIN R : R[j].kernel # k,
         \E i \in DOMAIN T : Covering(T, k, l, u) = {i}
  PROVE  \E i \in DOMAIN Q : Covering(Q, k, l, u) = {i}
<1> DEFINE P == {Q[j] : j \in Covering(Q, k, l, u)}
           Is(c) == c.kernel = k /\ c.layer = l /\ u \in c.first .. c.first + c.count - 1
<1>1. /\ Covering(Q, k, l, u) = {j \in DOMAIN Q : Is(Q[j])}
      /\ Covering(T, k, l, u) = {j \in DOMAIN T : Is(T[j])}
      /\ \A j \in DOMAIN R : ~Is(R[j])
  BY DEF Covering
<1> HIDE DEF Is
<1>2. \A j \in DOMAIN Q : Q[j] \in P <=> Is(Q[j])
  BY <1>1
<1> HIDE DEF P
<1>3. /\ \A j \in DOMAIN R : R[j] \notin P
      /\ \A j \in DOMAIN T : T[j] \in P <=> Is(T[j])
  <2>1. \A j \in DOMAIN R : j \in DOMAIN Q /\ Q[j] = R[j]
    BY DEF Joined
  <2>2. \A j \in DOMAIN T : Len(R) + j \in DOMAIN Q /\ Q[Len(R) + j] = T[j]
    BY DEF Joined
  <2>3. QED
    BY <1>1, <1>2, <2>1, <2>2
<1>4. /\ Covering(T, k, l, u) = {j \in DOMAIN T : T[j] \in P}
      /\ Covering(Q, k, l, u) = {j \in DOMAIN Q : Q[j] \in P}
  BY <1>1, <1>2, <1>3
<1>5. QED
  BY <1>3, <1>4, OnceInWhole

\* The head changes nothing about QKV.
LEMMA RowsCoveredJoined ==
  ASSUME NEW R, NEW T, NEW Q, Joined(R, T, Q), RowsCovered(R),
         \A j \in DOMAIN T : T[j].kernel \notin {"Qkv", "QkNorm"}
  PROVE  RowsCovered(Q)
<1>1. SUFFICES ASSUME NEW i \in DOMAIN Q PROVE RowsBefore(Q, i)
  BY DEF RowsCovered
<1>2. CASE i \in DOMAIN R /\ Q[i] = R[i]
  <2>1. RowsBefore(R, i) /\ \A j \in 1 .. i - 1 : j \in DOMAIN R /\ Q[j] = R[j]
    BY <1>2 DEF RowsCovered, Joined
  <2>2. \A l, r : Covering(Q, "Qkv", l, r) = Covering(R, "Qkv", l, r)
    <3>1. SUFFICES ASSUME NEW l, NEW r PROVE Covering(Q, "Qkv", l, r) = Covering(R, "Qkv", l, r)
      OBVIOUS
    <3> DEFINE Is(c) == c.kernel = "Qkv" /\ c.layer = l /\ r \in c.first .. c.first + c.count - 1
    <3>2. /\ Covering(Q, "Qkv", l, r) = {j \in DOMAIN Q : Is(Q[j])}
          /\ Covering(R, "Qkv", l, r) = {j \in DOMAIN R : Is(R[j])}
          /\ \A j \in DOMAIN T : ~Is(T[j])
      BY DEF Covering
    <3> HIDE DEF Is
    <3>3. \A j \in DOMAIN R : j \in DOMAIN Q /\ Q[j] = R[j]
      BY DEF Joined
    <3>4. \A j \in DOMAIN Q : Is(Q[j]) => j \in DOMAIN R
      BY <3>2, JoinedPlaces
    <3>5. QED
      BY <3>2, <3>3, <3>4
  <2>3. QED
    BY <1>2, <2>1, <2>2 DEF RowsBefore
<1>3. CASE Q[i].kernel \notin {"Qkv", "QkNorm"}
  BY <1>3 DEF RowsBefore
<1>4. QED
  BY <1>2, <1>3, JoinedPlaces

\* The layers and the head make a pass.
LEMMA CompleteJoined ==
  ASSUME NEW R, NEW T, NEW Q, Joined(R, T, Q),
         Orderly(R, 25 * LayerCount + 26), HeadComplete(T)
  PROVE  Complete(Q)
<1> DEFINE n == 25 * LayerCount + 26
<1>1. LayerCount \in Nat \ {0} /\ n \in Nat
  BY ForwardAssumption
<1> HIDE DEF n
<1>2. Orderly(R, n)
  BY DEF n
<1>3. ASSUME NEW i \in DOMAIN R
      PROVE  /\ R[i].kernel \in BodyKernels /\ R[i].layer \in Layers /\ R[i].layer # 0
             /\ Rank(R[i]) \in Nat /\ Rank(R[i]) <= n
             /\ R[i].kernel = "Qkv" \/ Work(R[i]) \in Reference
  <2>1. Fits(R[i], n)
    BY <1>2 DEF Orderly
  <2>2. QED
    BY <1>1, <2>1, FitsLonger DEF Fits, Layers
<1>4. ASSUME NEW w \in Reference PROVE RanOnce(Q, w)
  <2>1. CASE w[2] = 0
    <3>1. w \in {"CopyPreNorm", "FinalNorm", "CopyOut"} \X {0}
      <4>1. 0 \notin Layers
        BY DEF Layers
      <4>2. QED
        BY <2>1, <4>1, ReferenceIs
    <3>2. PICK k \in {"CopyPreNorm", "FinalNorm", "CopyOut"} : w = <<k, 0>>
      BY <3>1
    <3>3. RanOnce(T, w)
      BY <3>2 DEF HeadComplete
    <3>4. \A j \in DOMAIN R : Work(R[j]) # w
      BY <1>3, <3>2 DEF Work
    <3>5. QED
      BY <3>3, <3>4, RanOnceJoined
  <2>2. CASE w[2] # 0
    <3>1. w[2] \in Layers /\ w[1] \in BodyKernels /\ w = <<w[1], w[2]>>
      BY <2>2, ReferenceIs
    <3>2. WorkRank(w) < n
      <4>1. w[2] \in 1 .. LayerCount /\ Place[w[1]] \in 2 .. 21
        BY <3>1, PlaceIs DEF Layers
      <4>2. QED
        BY <1>1, <4>1 DEF WorkRank, n
    <3>3. RanOnce(R, w)
      BY <1>2, <2>2, <3>2 DEF Orderly, RanUpTo
    <3>4. \A j \in DOMAIN T : T[j].layer = 0
      BY DEF HeadComplete
    <3>5. \A j \in DOMAIN T : Work(T[j]) # w
      BY <2>2, <3>4 DEF Work
    <3>6. QED
      BY <3>3, <3>5, RanOnceJoined
  <2>3. QED
    BY <2>1, <2>2
<1>5. ASSUME NEW i \in DOMAIN Q
      PROVE  Q[i].kernel \in {"Qkv", "LmHead"} \/ Work(Q[i]) \in Reference
  <2>1. \A j \in DOMAIN T : T[j].kernel = "LmHead" \/ Work(T[j]) \in Reference
    BY DEF HeadComplete
  <2>2. QED
    BY <1>3, <2>1, JoinedPlaces
<1>6. Sorted(Q)
  <2>1. SUFFICES ASSUME NEW i \in DOMAIN Q, NEW j \in DOMAIN Q, i < j
                 PROVE  Rank(Q[i]) <= Rank(Q[j])
    BY DEF Sorted
  <2>2. Sorted(R) /\ Sorted(T) /\ \A k \in DOMAIN T : Rank(T[k]) >= n
    BY <1>2 DEF HeadComplete, Orderly, n
  <2>3. CASE j \in DOMAIN R
    <3>1. i \in DOMAIN R /\ Q[i] = R[i] /\ Q[j] = R[j]
      BY <2>1, <2>3 DEF Joined
    <3>2. QED
      BY <2>1, <2>2, <2>3, <3>1 DEF Sorted
  <2>4. CASE j \notin DOMAIN R
    <3>1. PICK t \in DOMAIN T : j = Len(R) + t /\ Q[j] = T[t]
      BY <2>4, JoinedPlaces
    <3>2. CASE i \in DOMAIN R
      <4>1. Q[i] = R[i] /\ Rank(R[i]) \in Nat /\ Rank(R[i]) <= n /\ Rank(T[t]) >= n
        BY <1>3, <2>2, <3>2 DEF Joined
      <4>2. Rank(T[t]) \in Nat
        BY <3>1 DEF HeadComplete
      <4>3. QED
        BY <1>1, <3>1, <4>1, <4>2
    <3>3. CASE i \notin DOMAIN R
      <4>1. PICK s \in DOMAIN T : i = Len(R) + s /\ Q[i] = T[s]
        BY <3>3, JoinedPlaces
      <4>2. s < t
        BY <2>1, <3>1, <4>1 DEF Joined
      <4>3. QED
        BY <2>2, <3>1, <4>1, <4>2 DEF Sorted
    <3>4. QED
      BY <3>2, <3>3
  <2>5. QED
    BY <2>3, <2>4
<1>7. ASSUME NEW w \in 0 .. HeadWorkgroups - 1
      PROVE  \E q \in DOMAIN Q : Covering(Q, "LmHead", 0, w) = {q}
  <2>1. \A j \in DOMAIN R : R[j].kernel # "LmHead"
    BY <1>3 DEF BodyKernels
  <2>2. \E i \in DOMAIN T : Covering(T, "LmHead", 0, w) = {i}
    BY DEF HeadComplete
  <2>3. QED
    BY <2>1, <2>2, CoveredJoined
<1>8. ASSUME NEW i \in DOMAIN Q, Q[i].kernel = "LmHead"
      PROVE  /\ Q[i].first + Q[i].count <= HeadWorkgroups
             /\ \E f \in 1 .. i - 1 : Q[f].kernel = "FinalNorm"
  <2>1. \A j \in DOMAIN R : R[j].kernel # "LmHead"
    BY <1>3 DEF BodyKernels
  <2>2. PICK t \in DOMAIN T : i = Len(R) + t /\ Q[i] = T[t]
    BY <1>8, <2>1, JoinedPlaces
  <2>3. T[t].first + T[t].count <= HeadWorkgroups /\ 2 < t
    BY <1>8, <2>2 DEF HeadComplete
  <2>4. 2 \in DOMAIN T /\ T[2].kernel = "FinalNorm"
    BY DEF HeadComplete
  <2>5. Len(R) + 2 \in 1 .. i - 1 /\ Q[Len(R) + 2] = T[2]
    BY <2>2, <2>3, <2>4 DEF Joined
  <2>6. QED
    BY <2>2, <2>3, <2>4, <2>5
<1>9. QED
  BY <1>4, <1>5, <1>6, <1>7, <1>8 DEF Complete

-----------------------------------------------------------------------------
(* Types                                                                   *)

\* The head is submitted behind what is recorded.
LEMMA HeadSubmitted ==
  ASSUME TypeInv, OutputHead
  PROVE  /\ encoder' = <<>> /\ Same /\ phase = "Head" /\ phase' = "Readback"
         /\ gpu' \in Seq(Commands) /\ Recorded' = gpu'
         /\ Joined(Recorded, HeadCommands, gpu')
<1> DEFINE A == <<Dispatch("CopyPreNorm", 0, 0, 1), Dispatch("FinalNorm", 0, 0, 1)>>
           L == LmHead
           C == <<Dispatch("CopyOut", 0, 0, 1)>>
<1>1. /\ gpu' = gpu \o (((encoder \o A) \o L) \o C) /\ encoder' = <<>>
      /\ HeadCommands = (A \o L) \o C /\ Recorded = gpu \o encoder
      /\ Recorded' = gpu' \o encoder'
  BY DEF OutputHead, Submit, HeadCommands, Recorded
<1>2. A \in Seq(Commands) /\ L \in Seq(Commands) /\ C \in Seq(Commands)
  <2>1. /\ Dispatch("CopyPreNorm", 0, 0, 1) \in Commands
        /\ Dispatch("FinalNorm", 0, 0, 1) \in Commands
        /\ Dispatch("CopyOut", 0, 0, 1) \in Commands
    BY ForwardAssumption DEF Commands, Kernels, Dispatch
  <2>2. QED
    BY <2>1, LmHeadIs
<1> HIDE DEF A, L, C
<1>3. gpu \in Seq(Commands) /\ encoder \in Seq(Commands)
  BY DEF TypeInv
<1>4. encoder \o A \in Seq(Commands) /\ A \o L \in Seq(Commands)
      /\ (A \o L) \o C \in Seq(Commands) /\ gpu \o encoder \in Seq(Commands)
  BY <1>2, <1>3
<1>5. ((encoder \o A) \o L) \o C = encoder \o ((A \o L) \o C)
  <2> DEFINE B == A \o L
  <2>1. (encoder \o A) \o L = encoder \o B
    BY <1>2, <1>3, ConcatAssociative
  <2>2. B \in Seq(Commands)
    BY <1>4
  <2> HIDE DEF B
  <2>3. (encoder \o B) \o C = encoder \o (B \o C)
    BY SMTT(30), <1>2, <1>3, <2>2, ConcatAssociative
  <2>4. QED
    BY <2>1, <2>3 DEF B
<1>6. gpu' = Recorded \o HeadCommands
  <2> DEFINE D == (A \o L) \o C
  <2>1. D \in Seq(Commands)
    BY <1>4
  <2>2. gpu' = gpu \o (encoder \o D) /\ HeadCommands = D
    BY <1>1, <1>5
  <2> HIDE DEF D
  <2>3. gpu \o (encoder \o D) = (gpu \o encoder) \o D
    BY <1>3, <2>1, ConcatAssociative
  <2>4. QED
    BY <1>1, <2>2, <2>3
<1>7. Joined(Recorded, HeadCommands, Recorded \o HeadCommands)
  BY <1>1, <1>4, JoinedIs
<1>8. gpu' \in Seq(Commands)
  BY <1>1, <1>4, <1>6
<1>9. gpu' \o <<>> = gpu'
  BY <1>8
<1>10. QED
  BY <1>1, <1>6, <1>7, <1>8, <1>9 DEF OutputHead, Same

\* A call starts with its first pass, from nothing.
LEMMA TypeInit ==
  ASSUME Init
  PROVE  TypeInv /\ OffsetInv
<1>1. /\ options \in Options /\ rows \in Prompts /\ rows \in Nat \ {0} /\ from = 0
      /\ phase = "Start" /\ layer = 1 /\ at = 1 /\ offset = 0
      /\ encoder = <<>> /\ gpu = <<>> /\ maps = {} /\ LayerCount \in Nat \ {0}
  BY ForwardAssumption DEF Init
<1>2. <<>> \in Seq(Commands)
  OBVIOUS
<1>3. TypeInv
  BY <1>1, <1>2 DEF TypeInv, Phases, Layers
<1>4. QED
  BY <1>1, <1>3 DEF OffsetInv

\* A call that has failed.
Ends ==
  /\ phase' \in {"Failed", "Panicked"}
  /\ UNCHANGED <<options, rows, from, layer, at, offset, encoder, gpu,
                 accumulated, samples, maps>>

\* The steps keep the types.
LEMMA TypeKept ==
  ASSUME TypeInv, OffsetInv, Next
  PROVE  TypeInv'
<1>1. /\ options \in Options /\ rows \in Prompts /\ from \in Nat /\ from < rows
      /\ phase \in Phases /\ layer \in Layers /\ at \in 1 .. 25 /\ offset \in Nat
      /\ encoder \in Seq(Commands) /\ gpu \in Seq(Commands) /\ maps \subseteq Outputs
  BY DEF TypeInv
<1>2. CASE /\ Silent \/ KernelRecorded \/ TurnRecorded
           /\ gpu' \in Seq(Commands) /\ encoder' \in Seq(Commands) /\ maps' = maps
  <2>1. Same
    BY <1>2 DEF Silent, KernelRecorded, TurnRecorded
  <2>2. phase' \in Phases /\ layer' \in Layers /\ at' \in 1 .. 25
    BY <1>1, <1>2 DEF Silent, KernelRecorded, TurnRecorded, Moves, Phases
  <2>3. offset' \in Nat
    BY <1>1, <1>2 DEF Silent, KernelRecorded, TurnRecorded
  <2>4. QED
    BY <1>1, <1>2, <2>1, <2>2, <2>3 DEF Same, TypeInv
<1>3. CASE StartPass
  <2>1. 1 \in Layers
    BY ForwardAssumption DEF Layers
  <2>2. QED
    BY <1>1, <1>3, <2>1 DEF StartPass, TypeInv, Phases
<1>4. CASE OutputHead
  <2>1. gpu' \in Seq(Commands) /\ encoder' \in Seq(Commands)
    BY <1>4, HeadSubmitted
  <2>2. QED
    BY <1>1, <1>4, <2>1 DEF OutputHead, TypeInv, Phases
<1>5. CASE Mapped
  <2>1. maps' \subseteq Outputs /\ phase' \in Phases
    BY <1>1, <1>5 DEF Mapped, Received, Phases
  <2>2. QED
    BY <1>1, <1>5, <2>1 DEF Mapped, TypeInv
<1>6. CASE NextChunk
  <2>1. /\ from' \in Nat /\ from' < rows
        /\ phase' \in Phases
    BY <1>1, <1>6, BatchSizeIs DEF NextChunk, MoreChunks, Phases
  <2>2. <<>> \in Seq(Commands)
    OBVIOUS
  <2>3. QED
    BY <1>1, <1>6, <2>1, <2>2 DEF NextChunk, TypeInv
<1>7. CASE Ends
  BY <1>1, <1>7 DEF Ends, TypeInv, Phases
<1>8. QED
  BY <1>2, <1>3, <1>4, <1>5, <1>6, <1>7, NextIs DEF Ends

\* The rows of a layer are counted in whole chunks, and only while its QKV
\* runs; between passes nothing is recorded.
LEMMA OffsetKept ==
  ASSUME TypeInv, OffsetInv, Next
  PROVE  OffsetInv'
<1>1. /\ offset \in Nat /\ at \in 1 .. 25 /\ BatchSize \in Nat \ {0} /\ QkvChunk \in Nat \ {0}
  BY BatchSizeIs, ForwardAssumption DEF TypeInv
<1>2. 0 = 0 * QkvChunk /\ 0 \in Nat
  BY <1>1
<1>3. CASE Silent \/ KernelRecorded
  <2>1. /\ phase = "Layers" /\ phase' \in {"Layers", "Head"} /\ offset' = offset
        /\ BatchSize' = BatchSize
    BY <1>3, SameCall DEF Silent, KernelRecorded, Moves
  <2>2. at # 4
    BY <1>3, BodyIs DEF Silent, KernelRecorded, Kind, Point
  <2>3. offset < BatchSize /\ offset = 0
    BY <2>1, <2>2 DEF OffsetInv
  <2>4. QED
    BY <1>2, <2>1, <2>3 DEF OffsetInv
<1>4. CASE TurnRecorded
  <2>1. phase = "Layers" /\ BatchSize' = BatchSize /\ at = 4
    BY <1>4, SameCall DEF TurnRecorded
  <2>2. CASE /\ offset + ThisChunk < BatchSize /\ ThisChunk = QkvChunk
             /\ offset' = offset + ThisChunk
             /\ phase' = phase /\ layer' = layer /\ at' = at
    <3>1. PICK m \in Nat : offset = m * QkvChunk
      BY <2>1 DEF OffsetInv
    <3>2. m + 1 \in Nat /\ offset' = (m + 1) * QkvChunk
      BY <1>1, <2>2, <3>1
    <3>3. offset' < BatchSize
      BY <2>2
    <3>4. QED
      BY <2>1, <2>2, <3>2, <3>3 DEF OffsetInv
  <2>3. CASE offset' = 0 /\ Moves
    <3>1. phase' \in {"Layers", "Head"}
      BY <2>3 DEF Moves
    <3>2. QED
      BY <1>1, <1>2, <2>1, <2>3, <3>1 DEF OffsetInv
  <2>4. QED
    BY <1>4, <2>2, <2>3 DEF TurnRecorded
<1>5. CASE StartPass
  <2>1. BatchSize' = BatchSize /\ phase' = "Layers" /\ offset' = 0
    BY <1>5 DEF StartPass, BatchSize
  <2>2. QED
    BY <1>1, <1>2, <2>1 DEF OffsetInv
<1>6. CASE OutputHead \/ Mapped \/ Ends
  <2>1. phase' \notin {"Layers", "Start", "Ok"}
    BY <1>6 DEF OutputHead, Mapped, Ends
  <2>2. QED
    BY <2>1 DEF OffsetInv
<1>7. CASE NextChunk
  <2>1. phase' # "Layers" /\ encoder' = <<>> /\ gpu' = <<>>
    BY <1>7 DEF NextChunk
  <2>2. QED
    BY <2>1 DEF OffsetInv
<1>8. QED
  BY <1>3, <1>4, <1>5, <1>6, <1>7, NextIs DEF Ends

-----------------------------------------------------------------------------
(* The steps outside the layer loop                                        *)

\* A complete pass, of the next state.
LEMMA SameComplete ==
  ASSUME Same, Complete(gpu')
  PROVE  Complete(gpu)'
BY SameCall DEF Complete

\* QkvCoversRows in terms of what is recorded.
LEMMA SameRows ==
  ASSUME Same, RowsCovered(Recorded')
  PROVE  QkvCoversRows'
BY SameCall, RowsCoveredIs DEF QkvCoversRows, RowsCovered, RowsBefore, Rows

\* Nothing is recorded yet.
LEMMA NothingRecorded ==
  ASSUME NEW R, R = <<>>
  PROVE  /\ RowsCovered(R) /\ LastStage(R, 1, 1) /\ LastActivation(R, 1, 1)
         /\ Orderly(R, 26) /\ QkvUpTo(R, 26, 0)
<1>1. DOMAIN R = {}
  OBVIOUS
<1>2. RowsCovered(R)
  BY <1>1 DEF RowsCovered
<1>3. LastStage(R, 1, 1)
  BY DEF LastStage, Stages, Place
<1>4. LastActivation(R, 1, 1)
  BY <1>1 DEF LastActivation, LastOf
<1>5. \A l \in Layers : l \in Nat /\ l >= 1
  BY ForwardAssumption DEF Layers
<1>6. Orderly(R, 26)
  <2>1. \A w \in Reference : w[2] # 0 => ~(WorkRank(w) < 26)
    <3>1. SUFFICES ASSUME NEW w \in Reference, w[2] # 0 PROVE ~(WorkRank(w) < 26)
      OBVIOUS
    <3>2. w[2] \in Layers /\ w[1] \in BodyKernels
      BY <3>1, ReferenceIs
    <3>3. w[2] \in Nat /\ w[2] >= 1 /\ Place[w[1]] \in 2 .. 21
      BY <1>5, <3>2, PlaceIs
    <3>4. ~(25 * w[2] + Place[w[1]] < 26)
      <4> DEFINE l == w[2]
                 p == Place[w[1]]
      <4>1. l \in Nat /\ l >= 1 /\ p \in Nat /\ p > 1
        BY SMTT(30), <3>3
      <4> HIDE DEF l, p
      <4>2. ~(25 * l + p < 26)
        BY <4>1
      <4>3. QED
        BY <4>2 DEF l, p
    <3>5. QED
      BY <3>4 DEF WorkRank
  <2>2. QED
    BY <1>1, <2>1 DEF Orderly, Sorted, RanUpTo
<1>7. QkvUpTo(R, 26, 0)
  <2>1. \A k, l, u : Covering(R, k, l, u) = {}
    BY <1>1 DEF Covering
  <2>2. \A l \in Layers : ~(25 * l + 4 < 26) /\ 25 * l + 4 # 26
    BY <1>5
  <2>3. QED
    BY <2>1, <2>2 DEF QkvUpTo
<1>8. QED
  BY <1>2, <1>3, <1>4, <1>6, <1>7

\* A pass begins with nothing recorded.
LEMMA StartKeeps ==
  ASSUME TypeInv, TypeInv', OffsetInv, StartPass
  PROVE  OrderInv' /\ QkvInv' /\ LastInv' /\ PendingInv' /\ DoneInv'
<1>1. /\ encoder' = <<>> /\ gpu' = <<>> /\ Same /\ phase' = "Layers"
      /\ layer' = 1 /\ at' = 1 /\ offset' = 0
  BY DEF StartPass, OffsetInv, Same
<1>2. Recorded' = <<>> /\ Reached' = 26
  <2>1. Recorded' = gpu' \o encoder' /\ <<>> \o <<>> = <<>>
    BY DEF Recorded
  <2>2. QED
    BY <1>1, <2>1 DEF Reached
<1>3. /\ RowsCovered(Recorded') /\ LastStage(Recorded', layer', at')
      /\ LastActivation(Recorded', layer', at') /\ Orderly(Recorded', Reached')
      /\ QkvUpTo(Recorded', Reached', offset')
  BY <1>1, <1>2, NothingRecorded
<1>4. OrderInv'
  BY <1>1, <1>3, SameOrderly DEF OrderInv
<1>5. QkvInv'
  BY <1>1, <1>3, SameQkv, SameRows DEF QkvInv
<1>6. LastInv'
  BY <1>1, <1>3, SameLast DEF LastInv
<1>7. PendingInv'
  BY <1>1, EmptyWaits
<1>8. DoneInv'
  BY <1>1 DEF DoneInv
<1>9. QED
  BY <1>4, <1>5, <1>6, <1>7, <1>8

\* Submitting the head completes the pass.
LEMMA HeadKeeps ==
  ASSUME TypeInv, OrderInv, QkvInv, OutputHead
  PROVE  OrderInv' /\ QkvInv' /\ LastInv' /\ PendingInv' /\ DoneInv'
<1>1. /\ encoder' = <<>> /\ Same /\ phase = "Head" /\ phase' = "Readback"
      /\ Recorded' = gpu' /\ Joined(Recorded, HeadCommands, gpu')
  BY HeadSubmitted
<1>2. Orderly(Recorded, 25 * LayerCount + 26) /\ RowsCovered(Recorded)
  BY <1>1, RowsCoveredIs DEF OrderInv, QkvInv, Reached
<1>3. HeadComplete(HeadCommands)
  BY HeadIsComplete
<1>4. Complete(gpu')
  BY <1>1, <1>2, <1>3, CompleteJoined
<1>5. RowsCovered(gpu')
  <2>1. \A j \in DOMAIN HeadCommands : HeadCommands[j].kernel \notin {"Qkv", "QkNorm"}
    BY <1>3 DEF HeadComplete
  <2>2. QED
    BY <1>1, <1>2, <2>1, RowsCoveredJoined
<1>6. DoneInv'
  BY <1>1, <1>4, SameComplete DEF DoneInv
<1>7. QkvInv'
  BY <1>1, <1>5, SameRows DEF QkvInv
<1>8. OrderInv' /\ LastInv' /\ PendingInv'
  BY <1>1 DEF OrderInv, LastInv, PendingInv
<1>9. QED
  BY <1>6, <1>7, <1>8

\* The steps after the head record nothing.
LEMMA OthersKeep ==
  ASSUME TypeInv, QkvInv, DoneInv, Mapped \/ NextChunk \/ Ends
  PROVE  OrderInv' /\ QkvInv' /\ LastInv' /\ PendingInv' /\ DoneInv'
<1>1. phase' \notin {"Layers", "Head"}
  BY DEF Mapped, NextChunk, Ends
<1>2. OrderInv' /\ LastInv' /\ PendingInv'
  BY <1>1 DEF OrderInv, LastInv, PendingInv
<1>3. CASE Mapped \/ Ends
  <2>1. Same /\ gpu' = gpu /\ encoder' = encoder /\ Recorded' = Recorded
    BY <1>3 DEF Mapped, Ends, Same, Recorded
  <2>2. QkvInv'
    <3>1. RowsCovered(Recorded')
      BY <2>1, RowsCoveredIs DEF QkvInv
    <3>2. QED
      BY <1>1, <2>1, <3>1, SameRows DEF QkvInv
  <2>3. DoneInv'
    <3>1. CASE Mapped
      <4>1. phase = "Readback" /\ Complete(gpu') /\ encoder' = <<>>
        BY <2>1, <3>1 DEF Mapped, DoneInv
      <4>2. phase' = "Returned" => maps' = Outputs
        BY <3>1 DEF Mapped
      <4>3. QED
        BY <2>1, <4>1, <4>2, SameComplete DEF DoneInv
    <3>2. CASE Ends
      BY <3>2 DEF Ends, DoneInv
    <3>3. QED
      BY <1>3, <3>1, <3>2
  <2>4. QED
    BY <1>2, <2>2, <2>3
<1>4. CASE NextChunk
  <2>1. gpu' = <<>> /\ encoder' = <<>> /\ phase' \in {"Start", "Ok"}
    BY <1>4 DEF NextChunk
  <2>2. DOMAIN Recorded' = {}
    <3>1. Recorded' = gpu' \o encoder' /\ <<>> \o <<>> = <<>> /\ DOMAIN <<>> = {}
      BY DEF Recorded
    <3>2. QED
      BY <2>1, <3>1
  <2>3. QkvInv' /\ DoneInv'
    BY <1>1, <2>1, <2>2 DEF QkvInv, QkvCoversRows, DoneInv
  <2>4. QED
    BY <1>2, <2>3
<1>5. QED
  BY <1>3, <1>4

-----------------------------------------------------------------------------
(* What the readbacks show                                                 *)

\* What it takes for a sample to show what it is named after.
LEMMA FreshIs ==
  ASSUME NEW s, NEW c, s.shows = c, NEW l,
         l = IF s.point = "residual_in" THEN s.layer - 1 ELSE s.layer
  PROVE  /\ l = 0 /\ c = NoDispatch => Fresh(s)
         /\ l # 0 /\ c.layer = l /\ c.kernel = Meant(s) /\ c.first + c.count = s.batch => Fresh(s)
BY DEF Fresh

\* A layer's points before the one that is next show what they are named
\* after, if the copy shows what is recorded.
LEMMA SampleIsFresh ==
  ASSUME TypeInv, phase = "Layers", LastInv,
         Kind \in {"peel", "capture", "dump", "trace"},
         Point = "ffn_norm" => layer \in options.ffnNorm
  PROVE  Fresh(Sample(Point, Recorded))
<1> DEFINE s == Sample(Point, Recorded)
<1>1. /\ s.point = Point /\ s.layer = layer /\ s.batch = BatchSize
      /\ s.shows = LastOf(Recorded, Writers(Point))
  BY DEF Sample
<1>2. at \in 1 .. 25 /\ layer \in Nat \ {0}
  BY DEF TypeInv, Layers
<1>3. LastStage(Recorded, layer, at) /\ LastActivation(Recorded, layer, at)
  BY DEF LastInv
<1> SUFFICES Fresh(s)
  OBVIOUS
<1> HIDE DEF s
<1>4. CASE Point \in DOMAIN StageKernel
  <2> DEFINE k == StageKernel[Point]
  <2>1. /\ k \in Stages /\ Place[k] < at /\ (k = "FfnNorm" => Point = "ffn_norm")
        /\ Point # "residual_in"
    BY <1>2, <1>4, BodyIs DEF Kind, Point, StageKernel, Stages, Place
  <2>2. Writers(Point) = {k} /\ Meant(s) = k
    BY <1>1, <1>4 DEF Writers, Meant
  <2> HIDE DEF k
  <2>3. Whole(LastOf(Recorded, {k}), k, layer)
    BY <1>3, <2>1 DEF LastStage
  <2>4. layer # 0 /\ layer = IF s.point = "residual_in" THEN s.layer - 1 ELSE s.layer
    BY <1>1, <1>2, <2>1
  <2>5. QED
    BY <1>1, <2>2, <2>3, <2>4, FreshIs DEF Whole
<1>5. CASE Point \notin DOMAIN StageKernel
  <2>1. Writers(Point) = ActivationWriters
    BY <1>5 DEF Writers
  <2>2. CASE Point = "residual_in"
    <3>1. at = 1
      BY <1>2, <2>2, BodyIs DEF Point
    <3>2. Writer(1) = Out /\ Meant(s) = Out
      BY <1>1, <1>5, <2>2 DEF Writer, Meant, Out
    <3> DEFINE l == layer - 1
    <3>0. l = IF s.point = "residual_in" THEN s.layer - 1 ELSE s.layer
      BY <1>1, <2>2
    <3>3. CASE layer = 1
      <4>1. l = 0 /\ LastOf(Recorded, ActivationWriters) = NoDispatch
        BY <1>3, <3>1, <3>3 DEF LastActivation
      <4> HIDE DEF l
      <4>2. QED
        BY <1>1, <2>1, <3>0, <4>1, FreshIs
    <3>4. CASE layer # 1
      <4>1. l # 0 /\ Whole(LastOf(Recorded, ActivationWriters), Out, l)
        BY <1>2, <1>3, <3>1, <3>2, <3>4 DEF LastActivation
      <4> HIDE DEF l
      <4>2. QED
        BY <1>1, <2>1, <3>0, <3>2, <4>1, FreshIs DEF Whole
    <3>5. QED
      BY <3>3, <3>4
  <2>3. CASE Point # "residual_in"
    <3>1. at > 11 /\ Writer(at) = Meant(s)
      <4>1. \/ Point = "attn_residual" /\ at = 12
            \/ Point = "ffn_residual" /\ at = 19
            \/ Point \in {"capture", "dump", "trace"} /\ at \in 23 .. 25
        BY <1>2, <1>5, <2>3, BodyIs DEF Point, Kind, StageKernel
      <4>2. QED
        BY <1>1, <1>5, <4>1 DEF Writer, Meant, Out
    <3>2. Whole(LastOf(Recorded, ActivationWriters), Meant(s), layer)
      BY <1>2, <1>3, <3>1 DEF LastActivation
    <3>3. layer # 0 /\ layer = IF s.point = "residual_in" THEN s.layer - 1 ELSE s.layer
      BY <1>1, <1>2, <2>3
    <3>4. QED
      BY <1>1, <2>1, <3>2, <3>3, FreshIs DEF Whole
  <2>4. QED
    BY <2>2, <2>3
<1>6. QED
  BY <1>4, <1>5

\* A sample that shows what it should, or that is not meant to.
Shown(s) ==
  \/ s.point \in {"capture", "dump"} /\ s.batch = 1
  \/ s.point = "ffn_norm" /\ s.layer \notin options.ffnNorm
  \/ Fresh(s)

\* A copy of all that is recorded is one.
LEMMA SampleIsShown ==
  ASSUME TypeInv, phase = "Layers", LastInv,
         Kind \in {"peel", "capture", "dump", "trace"}
  PROVE  Shown(Sample(Point, Recorded))
<1> DEFINE s == Sample(Point, Recorded)
<1>1. s.point = Point /\ s.layer = layer
  BY DEF Sample
<1>2. Fresh(s) \/ (Point = "ffn_norm" /\ layer \notin options.ffnNorm)
  BY SampleIsFresh
<1> SUFFICES Shown(s)
  OBVIOUS
<1> HIDE DEF s
<1>3. QED
  BY <1>1, <1>2 DEF Shown

\* In a pass of several rows the encoder is empty when the captures copy.
LEMMA CaptureIsShown ==
  ASSUME TypeInv, phase = "Layers", LastInv, PendingInv, Kind \in {"capture", "dump"}
  PROVE  Shown(Sample(Point, gpu))
<1> DEFINE s == Sample(Point, gpu)
<1>1. s.point = Point /\ s.batch = BatchSize
  BY DEF Sample
<1>2. at \in 23 .. 24 /\ Point \in {"capture", "dump"}
  <2>1. at \in 1 .. 25
    BY DEF TypeInv
  <2>2. QED
    BY <2>1, BodyIs DEF Kind, Point
<1>3. BatchSize \in Nat \ {0}
  BY BatchSizeIs
<1>4. CASE BatchSize = 1
  <2> SUFFICES Shown(s)
    OBVIOUS
  <2> HIDE DEF s
  <2>1. QED
    BY <1>1, <1>2, <1>4 DEF Shown
<1>5. CASE BatchSize # 1
  <2>1. encoder = <<>>
    BY <1>2, <1>3, <1>5 DEF PendingInv
  <2>2. Recorded = gpu
    BY <2>1, Concatenated DEF Recorded, TypeInv
  <2>3. QED
    BY <2>2, SampleIsShown
<1>6. QED
  BY <1>4, <1>5

\* Every step keeps what the samples show, and adds at most one that is right.
LEMMA SamplesKept ==
  ASSUME TypeInv, LastInv, PendingInv, SamplesAreFresh, Next
  PROVE  SamplesAreFresh'
<1>1. /\ \A s \in samples' : s \in samples \/ Shown(s)
      /\ options' = options
  <2>1. CASE Peel
    <3>1. /\ phase = "Layers" /\ Kind = "peel" /\ options' = options
          /\ samples' = samples \/ samples' = samples \cup {Sample(Point, Recorded)}
      BY <2>1 DEF Peel, Recorded
    <3>2. Shown(Sample(Point, Recorded))
      BY <3>1, SampleIsShown
    <3>3. QED
      BY <3>1, <3>2
  <2>2. CASE Trace
    <3>1. /\ phase = "Layers" /\ Kind = "trace" /\ options' = options
          /\ samples' = samples \/ samples' = samples \cup {Sample(Point, Recorded)}
      BY <2>2 DEF Trace, Recorded
    <3>2. Shown(Sample(Point, Recorded))
      BY <3>1, SampleIsShown
    <3>3. QED
      BY <3>1, <3>2
  <2>3. CASE Capture
    <3>1. /\ phase = "Layers" /\ Kind \in {"capture", "dump"} /\ options' = options
          /\ samples' = samples \/ samples' = samples \cup {Sample(Point, gpu)}
      BY <2>3 DEF Capture
    <3>2. Shown(Sample(Point, gpu))
      BY <3>1, CaptureIsShown
    <3>3. QED
      BY <3>1, <3>2
  <2>4. CASE StartPass \/ Kernel \/ QkvTurn \/ Checkpoint \/ OutputHead \/ HeadPanics
               \/ Mapped \/ NextChunk \/ GpuLost \/ GpuLostInCapture
    <3>1. samples' = samples /\ options' = options
      BY <2>4 DEF StartPass, Kernel, QkvTurn, Checkpoint, OutputHead, HeadPanics,
                  Mapped, NextChunk, GpuLost, GpuLostInCapture
    <3>2. QED
      BY <3>1
  <2>5. QED
    BY <2>1, <2>2, <2>3, <2>4 DEF Next
<1>2. \A s \in samples' : Shown(s)
  BY <1>1 DEF SamplesAreFresh, Shown
<1>3. \A s : Shown(s) =>
        \/ s.point \in {"capture", "dump"} /\ s.batch = 1
        \/ s.point = "ffn_norm" /\ s.layer \notin options'.ffnNorm
        \/ Fresh(s)'
  BY <1>1 DEF Shown, Fresh, Meant
<1>4. QED
  BY <1>2, <1>3 DEF SamplesAreFresh

-----------------------------------------------------------------------------
(* The theorems                                                            *)

\* The inductive invariant.
IInv ==
  /\ TypeInv /\ OffsetInv /\ OrderInv /\ QkvInv /\ LastInv /\ PendingInv /\ DoneInv
  /\ SamplesAreFresh

\* The invariant holds when a call starts.
LEMMA InitIInv ==
  ASSUME Init
  PROVE  IInv
<1>1. phase = "Start" /\ samples = {} /\ gpu = <<>> /\ encoder = <<>>
  BY DEF Init
<1>2. DOMAIN Recorded = {}
  <2>1. <<>> \o <<>> = <<>> /\ DOMAIN <<>> = {}
    OBVIOUS
  <2>2. QED
    BY <1>1, <2>1 DEF Recorded
<1>3. TypeInv /\ OffsetInv
  BY TypeInit
<1>4. OrderInv /\ QkvInv /\ LastInv /\ PendingInv /\ DoneInv /\ SamplesAreFresh
  BY <1>1, <1>2 DEF OrderInv, QkvInv, QkvCoversRows, LastInv, PendingInv, DoneInv,
                    SamplesAreFresh
<1>5. QED
  BY <1>3, <1>4 DEF IInv

\* Every step keeps the invariant.
LEMMA StepIInv ==
  ASSUME IInv, [Next]_vars
  PROVE  IInv'
<1>1. CASE Next
  <2>1. /\ TypeInv /\ OffsetInv /\ OrderInv /\ QkvInv /\ LastInv /\ PendingInv /\ DoneInv
        /\ SamplesAreFresh
    BY DEF IInv
  <2>2. TypeInv' /\ OffsetInv' /\ SamplesAreFresh'
    BY <1>1, <2>1, TypeKept, OffsetKept, SamplesKept
  <2>3. CASE Silent \/ KernelRecorded \/ TurnRecorded
    <3>1. OrderInv'
      BY <2>1, <2>3, OrderSilent, OrderKernel, OrderTurn
    <3>2. QkvInv'
      BY <2>1, <2>3, QkvSilent, QkvKernel, QkvTurnKept
    <3>3. LastInv'
      BY <2>1, <2>3, LastSilent, LastKernel, LastTurn
    <3>4. PendingInv'
      BY <2>1, <2>2, <2>3, PendingSilent, PendingKernel, PendingTurn
    <3>5. DoneInv'
      BY <2>1, <2>3 DEF Silent, KernelRecorded, TurnRecorded, Moves, DoneInv
    <3>6. QED
      BY <2>2, <3>1, <3>2, <3>3, <3>4, <3>5 DEF IInv
  <2>4. CASE StartPass
    BY <2>1, <2>2, <2>4, StartKeeps DEF IInv
  <2>5. CASE OutputHead
    BY <2>1, <2>2, <2>5, HeadKeeps DEF IInv
  <2>6. CASE Mapped \/ NextChunk \/ Ends
    BY <2>1, <2>2, <2>6, OthersKeep DEF IInv
  <2>7. QED
    BY <1>1, <2>1, <2>3, <2>4, <2>5, <2>6, NextIs DEF Ends
<1>2. CASE UNCHANGED vars
  <2>1. TypeInv'
    BY <1>2 DEF IInv, TypeInv, vars
  <2>2. OffsetInv'
    BY <1>2 DEF IInv, OffsetInv, BatchSize, vars
  <2>3. Same /\ Recorded' = Recorded /\ Reached' = Reached
    BY <1>2 DEF Same, Recorded, Reached, vars
  <2>4. OrderInv'
    BY <1>2, <2>3, SameOrderly DEF IInv, OrderInv, vars
  <2>5. QkvInv'
    BY <1>2, <2>3, SameQkv, SameRows, RowsCoveredIs DEF IInv, QkvInv, vars
  <2>6. LastInv'
    BY <1>2, <2>3, SameLast DEF IInv, LastInv, vars
  <2>7. PendingInv'
    BY <1>2, <2>3, SameCall DEF IInv, PendingInv, OfLayer, PendingIn, vars
  <2>8. DoneInv'
    BY <1>2, <2>3, SameComplete DEF IInv, DoneInv, vars
  <2>9. SamplesAreFresh'
    BY <1>2 DEF IInv, SamplesAreFresh, Fresh, Meant, vars
  <2>10. QED
    BY <2>1, <2>2, <2>4, <2>5, <2>6, <2>7, <2>8, <2>9 DEF IInv
<1>3. QED
  BY <1>1, <1>2

\* The invariant holds in every reachable state.
THEOREM Invariant == Spec => []IInv
BY InitIInv, StepIInv, PTL DEF Spec

\* A pass that returns has run on the GPU the QKV of every row, the kernels
\* of every layer in order and once each, and every workgroup of the
\* vocabulary, whatever yields, readbacks, chunks and tiles it was cut into.
THEOREM PassCompletes == Spec => []PassIsComplete
<1>1. IInv => PassIsComplete
  <2>1. SUFFICES ASSUME IInv PROVE PassIsComplete
    OBVIOUS
  <2>2. QkvCoversRows
    BY <2>1 DEF IInv, QkvInv
  <2>3. phase = "Returned" => Complete(gpu) /\ maps = Outputs
    BY <2>1 DEF IInv, DoneInv
  <2>4. GpuRunsThePass
    BY <2>3 DEF GpuRunsThePass, Complete, RanOnce, Sorted
  <2>5. HeadCoversVocabulary
    BY <2>3, FS_Singleton DEF HeadCoversVocabulary, Complete
  <2>6. QED
    BY <2>2, <2>4, <2>5 DEF PassIsComplete
<1>2. QED
  BY <1>1, Invariant, PTL

\* In a prefill a submission stays below what the yields are there for.
THEOREM SubmissionsStayBounded == Spec => []SubmissionsBounded
<1>1. IInv => SubmissionsBounded
  <2>1. SUFFICES ASSUME IInv, phase = "Layers", BatchSize > 1
                 PROVE  /\ \A i, j \in DOMAIN encoder : encoder[i].layer = encoder[j].layer
                        /\ Cardinality(Pending({"Qkv"})) <= YieldInterval
                        /\ BatchSize > LargeBatch =>
                             Pending({"AttnOut"}) = {} \/ Pending({"AttnProj"}) = {}
    BY DEF SubmissionsBounded
  <2>2. TypeInv /\ PendingInv
    BY <2>1 DEF IInv
  <2>3. OfLayer(encoder, layer, at) /\ at \in 1 .. 25
    BY <2>1, <2>2 DEF PendingInv, TypeInv
  <2>4. \A i, j \in DOMAIN encoder : encoder[i].layer = encoder[j].layer
    BY <2>3 DEF OfLayer
  <2>5. Cardinality(Pending({"Qkv"})) <= YieldInterval
    <3> DEFINE n == Cardinality(PendingIn(encoder, {"Qkv"}))
               m == offset \div QkvChunk
    <3>1. n = Cardinality(Pending({"Qkv"}))
      BY DEF Pending, PendingIn
    <3>2. n <= IF at = 4 THEN Waiting(m) ELSE YieldInterval
      BY <2>1, <2>2 DEF PendingInv
    <3>3. n \in Nat
      <4> DEFINE c == Dispatch("CopyOut", 0, 0, 1)
      <4>1. c \in Commands
        BY ForwardAssumption DEF Commands, Kernels, Dispatch
      <4>2. encoder \in Seq(Commands)
        BY <2>2 DEF TypeInv
      <4> HIDE DEF c
      <4>3. Longer(encoder, c, Append(encoder, c))
        BY <4>1, <4>2, Appended
      <4>4. QED
        BY <4>3, PendingAppend
    <3>4. m \in Nat
      <4>1. offset \in Nat /\ QkvChunk \in Nat \ {0}
        BY <2>2, ForwardAssumption DEF TypeInv
      <4>2. QED
        BY <4>1, Quotient
    <3> HIDE DEF n, m
    <3>5. Waiting(m) \in 0 .. YieldInterval /\ YieldInterval \in Nat
      BY <3>4, WaitingIs, ForwardAssumption
    <3>6. n <= YieldInterval
      BY <3>2, <3>3, <3>5
    <3>7. QED
      BY <3>1, <3>6
  <2>6. BatchSize > LargeBatch => Pending({"AttnOut"}) = {} \/ Pending({"AttnProj"}) = {}
    <3>1. CASE at > 10
      BY <2>1, <2>2, <3>1 DEF PendingInv, Pending, PendingIn
    <3>2. CASE ~(at > 10)
      <4>1. Place["AttnProj"] = 11
        BY DEF Place
      <4>2. \A i \in DOMAIN encoder : encoder[i].kernel # "AttnProj"
        BY <2>3, <3>2, <4>1 DEF OfLayer
      <4>3. QED
        BY <4>2 DEF Pending
    <3>3. QED
      BY <3>1, <3>2
  <2>7. QED
    BY <2>4, <2>5, <2>6
<1>2. QED
  BY <1>1, Invariant, PTL

\* What the readbacks show is what they are named after.
THEOREM SamplesStayFresh == Spec => []SamplesAreFresh
<1>1. IInv => SamplesAreFresh
  BY DEF IInv
<1>2. QED
  BY <1>1, Invariant, PTL

=============================================================================
