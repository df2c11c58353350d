------------------------ MODULE LayerKernels_proofs ------------------------
(***************************************************************************)
(* Proofs about LayerKernels: for every width of a model, every number of  *)
(* rows and lanes and every order of the invocations of a dispatch, a      *)
(* layer leaves its output and its keys and values, the readbacks show     *)
(* what they are named after, and a shift moves the cache.                 *)
(*                                                                         *)
(* A dispatch is reduced to what each of its kernels stores in which cell  *)
(* (Effect): no invocation stores in a cell that another one loads or      *)
(* stores, so the order does not matter.  A layer is ten stages of memory  *)
(* (Stage); the invariant says that memory is at the stage of the          *)
(* operation that is next.                                                 *)
(***************************************************************************)
EXTENDS LayerKernels, FiniteSetTheorems, TLAPS

-----------------------------------------------------------------------------
(* Arithmetic.                                                             *)

\* Products of natural numbers are natural numbers and grow with a factor.
LEMMA Products ==
  ASSUME NEW a \in Nat, NEW b \in Nat, NEW n \in Nat
  PROVE  /\ a * n \in Nat /\ n * a = a * n
         /\ a <= b => a * n <= b * n
         /\ (a + 1) * n = a * n + n
<1>1. a * n \in Nat /\ b * n \in Nat
  OBVIOUS
<1>2. ASSUME a <= b PROVE a * n <= b * n
  <2>1. PICK d \in Nat : b = a + d
    <3>1. b - a \in Nat /\ b = a + (b - a)
      BY <1>2
    <3>2. QED
      BY <3>1
  <2>2. b * n = a * n + d * n /\ d * n \in Nat
    BY <2>1
  <2>3. QED
    BY <1>1, <2>2
<1>3. QED
  BY <1>1, <1>2

\* A place in a row of rows names the row and the place in it.
LEMMA PlaceIsUnique ==
  ASSUME NEW n \in Nat \ {0}, NEW t \in Nat, NEW s \in Nat,
         NEW i \in 0 .. n - 1, NEW j \in 0 .. n - 1
  PROVE  /\ t * n + i = s * n + j <=> t = s /\ i = j
         /\ t * n + i \in Nat
         /\ (t * n + i) \div n = t /\ (t * n + i) % n = i
<1>1. t * n \in Nat /\ s * n \in Nat
  BY Products
<1>2. ASSUME NEW a \in Nat, NEW b \in Nat, NEW k \in 0 .. n - 1, NEW l \in 0 .. n - 1, a < b
      PROVE  a * n + k < b * n + l
  <2>1. a + 1 <= b /\ a + 1 \in Nat
    BY <1>2
  <2>2. (a + 1) * n <= b * n /\ (a + 1) * n = a * n + n /\ a * n \in Nat /\ b * n \in Nat
    BY <2>1, Products
  <2>3. QED
    BY <2>2
<1>3. t * n + i = s * n + j <=> t = s /\ i = j
  <2>1. CASE t < s
    BY <1>1, <1>2, <2>1
  <2>2. CASE s < t
    BY <1>1, <1>2, <2>2
  <2>3. CASE s = t
    BY <1>1, <2>3
  <2>4. QED
    BY <2>1, <2>2, <2>3
<1>4. t * n + i \in Nat
  BY <1>1
<1> DEFINE q == (t * n + i) \div n
           r == (t * n + i) % n
<1>5. q \in Nat /\ r \in 0 .. n - 1 /\ t * n + i = n * q + r
  BY <1>4
<1> HIDE DEF q, r
<1>6. n * q = q * n /\ q * n \in Nat
  BY <1>5, Products
<1>7. q = t /\ r = i
  <2>1. CASE t < q
    BY <1>1, <1>2, <1>5, <1>6, <2>1
  <2>2. CASE q < t
    BY <1>1, <1>2, <1>5, <1>6, <2>2
  <2>3. CASE q = t
    BY <1>1, <1>5, <1>6, <2>3
  <2>4. QED
    BY <1>5, <2>1, <2>2, <2>3
<1>8. QED
  BY <1>3, <1>4, <1>7 DEF q, r

\* A row of n places in a buffer of m rows.
LEMMA PlaceIsBelow ==
  ASSUME NEW n \in Nat \ {0}, NEW m \in Nat, NEW t \in 0 .. m - 1, NEW i \in 0 .. n - 1
  PROVE  t * n + i \in 0 .. m * n - 1
<1>1. t + 1 <= m /\ t + 1 \in Nat /\ t \in Nat
  OBVIOUS
<1>2. (t + 1) * n <= m * n /\ (t + 1) * n = t * n + n /\ t * n \in Nat /\ m * n \in Nat
  BY <1>1, Products
<1>3. QED
  BY <1>2

\* Each place below m rows of n is in one of them.
LEMMA PlaceExists ==
  ASSUME NEW n \in Nat \ {0}, NEW m \in Nat, NEW x \in 0 .. m * n - 1
  PROVE  x \div n \in 0 .. m - 1 /\ x % n \in 0 .. n - 1 /\ x = (x \div n) * n + (x % n)
<1> DEFINE q == x \div n
           r == x % n
<1>0. m * n \in Nat
  BY Products
<1>1. x \in Nat /\ q \in Nat /\ r \in 0 .. n - 1 /\ x = n * q + r
  BY <1>0
<1> HIDE DEF q, r
<1>2. n * q = q * n /\ q * n \in Nat
  BY <1>1, Products
<1>3. q < m
  <2>1. CASE m <= q
    <3>1. m * n <= q * n
      BY <1>1, <2>1, Products
    <3>2. QED
      BY <1>0, <1>1, <1>2, <3>1
  <2>2. QED
    BY <1>1, <2>1
<1>4. QED
  BY <1>1, <1>2, <1>3 DEF q, r

\* Every binding a shader declares is in its layout with the same access.
LEMMA PipelinesExist == PipelinesAreCreated
<1>1. CompatibleWith(LayerLayout, LayerDecls)
  BY DEF CompatibleWith, LayerLayout, LayerDecls, LayerStateDecls, LayerChunkDecls, Slots,
         Also, ChunkSlots
<1>2. CompatibleWith(Int4Layout, Int4Decls)
  BY DEF CompatibleWith, Int4Layout, Int4Decls, Slots, Int4Extra
<1>3. /\ CompatibleWith(QuantizeLayout, QuantizeDecls)
      /\ CompatibleWith(ShiftLayout, ShiftDecls)
      /\ CompatibleWith(ShiftInt4Layout, ShiftInt4Decls)
  BY DEF CompatibleWith, QuantizeLayout, QuantizeDecls, ShiftLayout, ShiftDecls,
         ShiftInt4Layout, ShiftInt4Decls, Slots
<1>4. /\ CompatibleWith(BindlessLayout, ProbeDecls)
      /\ CompatibleWith(DequantLayout, DequantDecls)
      /\ CompatibleWith(DequantAnyLayout, DequantAnyDecls)
  BY DEF CompatibleWith, BindlessLayout, ProbeDecls, DequantLayout, DequantDecls,
         DequantAnyLayout, DequantAnyDecls, Slots, ChunkSlots
<1>5. /\ CompatibleWith(MatMulLayout, MatMulDecls)
      /\ CompatibleWith(MatMulF32Layout, MatMulF32Decls)
      /\ CompatibleWith(RmsNormLayout, RmsNormDecls)
      /\ CompatibleWith(LmHeadLayout, HeadDecls)
  BY DEF CompatibleWith, MatMulLayout, MatMulDecls, MatMulF32Layout, MatMulF32Decls,
         RmsNormLayout, RmsNormDecls, LmHeadLayout, HeadDecls, Slots, ChunkSlots
<1>6. QED
  BY <1>1, <1>2, <1>3, <1>4, <1>5
     DEF PipelinesAreCreated, Pipelines, Pipe, OtherPipelines

\* The pipelines of the layer have the layer's layout.
LEMMA LayerPipelinesLayout ==
  \A k \in LayerPipelines : Pipelines[k].layout = LayerLayout
BY DEF Pipelines, Pipe, LayerPipelines, OtherPipelines

\* The layouts of the pipelines around the cache and around a single kernel.
LEMMA OtherPipelinesLayout ==
  /\ Pipelines["QuantizeKv"].layout = QuantizeLayout
  /\ Pipelines["RopeShift"].layout = ShiftLayout
  /\ Pipelines["RopeShiftInt4"].layout = ShiftInt4Layout
  /\ Pipelines["Probe"].layout = BindlessLayout
  /\ Pipelines["Dequant"].layout = DequantLayout
  /\ Pipelines["DequantAny"].layout = DequantAnyLayout
  /\ Pipelines["MatMul"].layout = MatMulLayout
  /\ Pipelines["MatMulF32"].layout = MatMulF32Layout
  /\ Pipelines["RmsNorm"].layout = RmsNormLayout
  /\ Pipelines["LmHead"].layout = LmHeadLayout
BY DEF Pipelines, Pipe, OtherPipelines, LayerPipelines

\* The group of the layer's kernels, whatever the number of chunks.
LEMMA LayerGroupIsAccepted ==
  ASSUME NEW n \in Nat
  PROVE  /\ AcceptsGroup(LayerGroup(n))
         /\ \A k \in LayerPipelines : AcceptsDispatch(k, LayerGroup(n))
<1> DEFINE L == LayerLayout
           B == Also(LayerBuffers(KCache, VCache, CacheParams), ChunkBuffers(n))
<1>1. LayerGroup(n).layout = L /\ LayerGroup(n).buffers = B
  BY DEF LayerGroup, Group
<1>2. /\ DOMAIN L = ChunkSlots \cup 1 .. 9 /\ DOMAIN B = ChunkSlots \cup 1 .. 9
      /\ \A b \in ChunkSlots : L[b] = "read"
      /\ L[5] = "read" /\ L[6] = "read"
      /\ L[1] = "write" /\ L[2] = "write" /\ L[7] = "write" /\ L[8] = "write"
      /\ L[3] = "uniform" /\ L[4] = "uniform" /\ L[9] = "uniform"
  BY DEF LayerLayout, Slots, ChunkSlots, Also, LayerBuffers, ChunkBuffers
<1>3. /\ B[1] = <<"act">> /\ B[2] = <<"temp">> /\ B[3] = <<"offsets">>
      /\ B[4] = <<"params">> /\ B[5] = <<"norm_bank">> /\ B[6] = <<"rope">>
      /\ B[7] = <<"K">> /\ B[8] = <<"V">> /\ B[9] = <<"cache_params">>
      /\ \A b \in ChunkSlots : B[b][1] \in {"chunk", "dummy"}
  BY DEF ChunkSlots, Also, LayerBuffers, ChunkBuffers, KCache, VCache, CacheParams
<1> HIDE DEF L, B
<1>4. \A b \in DOMAIN L : L[b] \in AllowedAs(B[b])
  BY <1>2, <1>3 DEF AllowedAs, Uniforms, ChunkSlots
<1>5. \A b, c \in DOMAIN B : B[b] = B[c] /\ L[b] = "write" => b = c
  BY <1>2, <1>3 DEF ChunkSlots
<1>6. QED
  BY <1>1, <1>2, <1>4, <1>5, LayerPipelinesLayout DEF AcceptsGroup, AcceptsDispatch, L

\* The groups of the cache kernels.
LEMMA CacheGroupsAreAccepted ==
  /\ AcceptsGroup(RequantizeGroup) /\ AcceptsDispatch("QuantizeKv", RequantizeGroup)
  /\ AcceptsGroup(ShiftGroup) /\ AcceptsDispatch("RopeShift", ShiftGroup)
  /\ AcceptsGroup(ShiftF32Group) /\ AcceptsDispatch("RopeShift", ShiftF32Group)
  /\ AcceptsGroup(ShiftInt4Group) /\ AcceptsDispatch("RopeShiftInt4", ShiftInt4Group)
<1>1. AcceptsGroup(RequantizeGroup) /\ AcceptsDispatch("QuantizeKv", RequantizeGroup)
  <2> DEFINE L == QuantizeLayout
             B == CacheBuffers
  <2>1. RequantizeGroup.layout = L /\ RequantizeGroup.buffers = B
    BY DEF RequantizeGroup, Group
  <2>2. /\ DOMAIN L = 0 .. 6 /\ DOMAIN B = 0 .. 6
        /\ L[0] = "read" /\ L[1] = "read" /\ L[2] = "write" /\ L[3] = "write"
        /\ L[4] = "write" /\ L[5] = "write" /\ L[6] = "uniform"
        /\ B[0] = <<"K">> /\ B[1] = <<"V">> /\ B[2] = <<"PK">> /\ B[3] = <<"PV">>
        /\ B[4] = <<"SK">> /\ B[5] = <<"SV">> /\ B[6] = <<"quant_params">>
    BY DEF QuantizeLayout, Slots, CacheBuffers, From, KCache, VCache
  <2> HIDE DEF L, B
  <2>3. \A b \in DOMAIN L : L[b] \in AllowedAs(B[b])
    BY <2>2 DEF AllowedAs, Uniforms
  <2>4. \A b, c \in DOMAIN B : B[b] = B[c] /\ L[b] = "write" => b = c
    BY <2>2
  <2>5. QED
    BY <2>1, <2>2, <2>3, <2>4, OtherPipelinesLayout DEF AcceptsGroup, AcceptsDispatch, L
<1>2. AcceptsGroup(ShiftGroup) /\ AcceptsDispatch("RopeShift", ShiftGroup)
  <2> DEFINE L == ShiftLayout
             B == From(0, << Scratch("K"), Scratch("V"), KCache, VCache,
                             <<"shift_params">> >>)
  <2>1. ShiftGroup.layout = L /\ ShiftGroup.buffers = B
    BY DEF ShiftGroup, Group
  <2>2. /\ DOMAIN L = 0 .. 4 /\ DOMAIN B = 0 .. 4
        /\ L[0] = "read" /\ L[1] = "read" /\ L[2] = "write" /\ L[3] = "write"
        /\ L[4] = "uniform"
        /\ B[0] = <<"scratch", "K">> /\ B[1] = <<"scratch", "V">> /\ B[2] = <<"K">>
        /\ B[3] = <<"V">> /\ B[4] = <<"shift_params">>
    BY DEF ShiftLayout, Slots, From, KCache, VCache, Scratch
  <2> HIDE DEF L, B
  <2>3. \A b \in DOMAIN L : L[b] \in AllowedAs(B[b])
    BY <2>2 DEF AllowedAs, Uniforms
  <2>4. \A b, c \in DOMAIN B : B[b] = B[c] /\ L[b] = "write" => b = c
    BY <2>2
  <2>5. QED
    BY <2>1, <2>2, <2>3, <2>4, OtherPipelinesLayout DEF AcceptsGroup, AcceptsDispatch, L
<1>3. AcceptsGroup(ShiftInt4Group) /\ AcceptsDispatch("RopeShiftInt4", ShiftInt4Group)
  <2> DEFINE L == ShiftInt4Layout
             B == From(0, << <<"shift_params">>, Scratch("PK"), Scratch("SK"),
                             Scratch("PV"), Scratch("SV"), <<"PK">>, <<"SK">>,
                             <<"PV">>, <<"SV">> >>)
  <2>1. ShiftInt4Group.layout = L /\ ShiftInt4Group.buffers = B
    BY DEF ShiftInt4Group, Group
  <2>2. /\ DOMAIN L = 0 .. 8 /\ DOMAIN B = 0 .. 8 /\ L[0] = "uniform"
        /\ L[1] = "read" /\ L[2] = "read" /\ L[3] = "read" /\ L[4] = "read"
        /\ L[5] = "write" /\ L[6] = "write" /\ L[7] = "write" /\ L[8] = "write"
        /\ B[0] = <<"shift_params">> /\ B[1] = <<"scratch", "PK">>
        /\ B[2] = <<"scratch", "SK">> /\ B[3] = <<"scratch", "PV">>
        /\ B[4] = <<"scratch", "SV">> /\ B[5] = <<"PK">> /\ B[6] = <<"SK">>
        /\ B[7] = <<"PV">> /\ B[8] = <<"SV">>
    BY DEF ShiftInt4Layout, Slots, From, Scratch
  <2> HIDE DEF L, B
  <2>3. \A b \in DOMAIN L : L[b] \in AllowedAs(B[b])
    BY <2>2 DEF AllowedAs, Uniforms
  <2>4. \A b, c \in DOMAIN B : B[b] = B[c] /\ L[b] = "write" => b = c
    BY <2>2
  <2>5. QED
    BY <2>1, <2>2, <2>3, <2>4, OtherPipelinesLayout DEF AcceptsGroup, AcceptsDispatch, L
<1>4. QED
  BY <1>1, <1>2, <1>3 DEF ShiftF32Group

\* A window or one buffer, then the output and the parameters.
LEMMA UnaryFits ==
  ASSUME NEW L, NEW h, NEW F \in SUBSET ({0} \cup 10 .. 16), DOMAIN h = F,
         \A b \in F : h[b][1] \in {"chunk", "dummy", "weights"},
         DOMAIN L = F \cup {1, 2}, \A b \in F : L[b] = "read",
         L[1] = "write", L[2] = "uniform"
  PROVE  /\ AcceptsGroup(Group(L, Also(h, Unary)))
         /\ \A b, c \in DOMAIN L :
              Also(h, Unary)[b] = Also(h, Unary)[c] /\ L[b] = "write" => b = c
<1> DEFINE B == Also(h, Unary)
<1>1. /\ DOMAIN B = F \cup {1, 2} /\ B[1] = <<"output">> /\ B[2] = <<"small_params">>
      /\ \A b \in F : B[b][1] \in {"chunk", "dummy", "weights"}
  BY DEF Also, Unary
<1> HIDE DEF B
<1>2. \A b \in DOMAIN L : L[b] \in AllowedAs(B[b])
  <2>1. ASSUME NEW b \in F PROVE B[b] \notin Uniforms
    BY <1>1 DEF Uniforms
  <2>2. B[1] \notin Uniforms /\ B[2] \in Uniforms
    BY <1>1 DEF Uniforms
  <2>3. QED
    BY <2>1, <2>2 DEF AllowedAs
<1>3. \A b, c \in DOMAIN L : B[b] = B[c] /\ L[b] = "write" => b = c
  <2>1. \A b \in F : B[b] # B[1]
    BY <1>1
  <2>2. B[2] # B[1]
    BY <1>1
  <2>3. QED
    BY <2>1, <2>2
<1>4. AcceptsGroup(Group(L, B))
  BY <1>1, <1>2 DEF AcceptsGroup, Group
<1>5. QED
  BY <1>3, <1>4 DEF B

\* A window or one buffer, then the input, the output and the parameters.
LEMMA BinaryFits ==
  ASSUME NEW L, NEW h, NEW F \in SUBSET ({0} \cup 10 .. 16), DOMAIN h = F,
         \A b \in F : h[b][1] \in {"chunk", "dummy", "weights"},
         DOMAIN L = F \cup {1, 2, 3}, \A b \in F : L[b] = "read",
         L[1] = "read", L[2] = "write", L[3] = "uniform"
  PROVE  /\ AcceptsGroup(Group(L, Also(h, Binary)))
         /\ \A b, c \in DOMAIN L :
              Also(h, Binary)[b] = Also(h, Binary)[c] /\ L[b] = "write" => b = c
<1> DEFINE B == Also(h, Binary)
<1>1. /\ DOMAIN B = F \cup {1, 2, 3} /\ B[1] = <<"input">> /\ B[2] = <<"output">>
      /\ B[3] = <<"small_params">>
      /\ \A b \in F : B[b][1] \in {"chunk", "dummy", "weights"}
  BY DEF Also, Binary
<1> HIDE DEF B
<1>2. \A b \in DOMAIN L : L[b] \in AllowedAs(B[b])
  <2>1. ASSUME NEW b \in F PROVE B[b] \notin Uniforms
    BY <1>1 DEF Uniforms
  <2>2. B[1] \notin Uniforms /\ B[2] \notin Uniforms /\ B[3] \in Uniforms
    BY <1>1 DEF Uniforms
  <2>3. QED
    BY <2>1, <2>2 DEF AllowedAs
<1>3. \A b, c \in DOMAIN L : B[b] = B[c] /\ L[b] = "write" => b = c
  <2>1. \A b \in F : B[b] # B[2]
    BY <1>1
  <2>2. B[1] # B[2] /\ B[3] # B[2]
    BY <1>1
  <2>3. QED
    BY <2>1, <2>2
<1>4. AcceptsGroup(Group(L, B))
  BY <1>1, <1>2 DEF AcceptsGroup, Group
<1>5. QED
  BY <1>3, <1>4 DEF B

\* The groups around a single kernel: a window or one buffer in front of two
\* or three others.
LEMMA SingleGroupsAreAccepted ==
  ASSUME NEW n \in Nat, NEW s \in SingleKernels(n)
  PROVE  AcceptsGroup(s[2]) /\ AcceptsDispatch(s[1], s[2])
<1> DEFINE Fits(k, group) == AcceptsGroup(group) /\ AcceptsDispatch(k, group)
<1>1. ASSUME NEW L, NEW B, NEW k, AcceptsGroup(Group(L, B)), Pipelines[k].layout = L,
             \A b, c \in DOMAIN L : B[b] = B[c] /\ L[b] = "write" => b = c
      PROVE  Fits(k, Group(L, B))
  BY <1>1 DEF AcceptsGroup, AcceptsDispatch, Group
<1> HIDE DEF Fits
<1>2. /\ DOMAIN FirstChunk = {0} /\ FirstChunk[0][1] = "chunk"
      /\ \A m \in Nat : /\ DOMAIN ChunkBuffers(m) = ChunkSlots
                        /\ \A b \in ChunkSlots : ChunkBuffers(m)[b][1] \in {"chunk", "dummy"}
      /\ DOMAIN From(0, << <<"weights">> >>) = {0}
      /\ From(0, << <<"weights">> >>)[0][1] = "weights"
      /\ ChunkSlots \subseteq {0} \cup 10 .. 16
  BY DEF FirstChunk, From, ChunkBuffers, ChunkSlots
<1>3. Fits("Dequant", DequantGroup)
  <2>1. /\ DOMAIN DequantLayout = {0} \cup {1, 2} /\ DequantLayout[0] = "read"
        /\ DequantLayout[1] = "write" /\ DequantLayout[2] = "uniform"
    BY DEF DequantLayout, Slots
  <2>2. /\ AcceptsGroup(Group(DequantLayout, Also(FirstChunk, Unary)))
        /\ \A b, c \in DOMAIN DequantLayout :
             Also(FirstChunk, Unary)[b] = Also(FirstChunk, Unary)[c]
               /\ DequantLayout[b] = "write" => b = c
    BY <1>2, <2>1, UnaryFits
  <2>3. QED
    BY <1>1, <2>2, OtherPipelinesLayout DEF DequantGroup
<1>4. ASSUME NEW m \in Nat
      PROVE  Fits("DequantAny", DequantAnyGroup(m)) /\ Fits("DequantAny", DequantRequestGroup(m))
  <2> DEFINE B == Also(ChunkBuffers(m), Unary)
  <2>1. /\ DOMAIN DequantAnyLayout = ChunkSlots \cup {1, 2}
        /\ \A b \in ChunkSlots : DequantAnyLayout[b] = "read"
        /\ DequantAnyLayout[1] = "write" /\ DequantAnyLayout[2] = "uniform"
    BY DEF DequantAnyLayout, Slots, ChunkSlots
  <2>2. RequestLayout = DequantAnyLayout
    BY DEF RequestLayout, DequantAnyLayout
  <2>3. /\ AcceptsGroup(Group(DequantAnyLayout, B))
        /\ \A b, c \in DOMAIN DequantAnyLayout :
             B[b] = B[c] /\ DequantAnyLayout[b] = "write" => b = c
    BY <1>2, <2>1, UnaryFits
  <2>4. Fits("DequantAny", Group(DequantAnyLayout, B))
    BY <1>1, <2>3, OtherPipelinesLayout
  <2>5. QED
    BY <2>2, <2>4 DEF DequantAnyGroup, DequantRequestGroup
<1>5. Fits("MatMul", MatMulGroup)
  <2> DEFINE B == Also(FirstChunk, Binary)
  <2>1. /\ DOMAIN MatMulLayout = {0} \cup {1, 2, 3} /\ MatMulLayout[0] = "read"
        /\ MatMulLayout[1] = "read" /\ MatMulLayout[2] = "write"
        /\ MatMulLayout[3] = "uniform"
    BY DEF MatMulLayout, Slots
  <2>2. /\ {0} \in SUBSET ({0} \cup 10 .. 16) /\ DOMAIN FirstChunk = {0}
        /\ \A b \in {0} : FirstChunk[b][1] \in {"chunk", "dummy", "weights"}
    BY <1>2
  <2>3. /\ AcceptsGroup(Group(MatMulLayout, B))
        /\ \A b, c \in DOMAIN MatMulLayout :
             B[b] = B[c] /\ MatMulLayout[b] = "write" => b = c
    BY <2>1, <2>2, BinaryFits
  <2>4. Pipelines["MatMul"].layout = MatMulLayout
    BY OtherPipelinesLayout
  <2> HIDE DEF B
  <2>5. Fits("MatMul", Group(MatMulLayout, B))
    BY <1>1, <2>3, <2>4
  <2>6. QED
    BY <2>5 DEF B, MatMulGroup
<1>6. Fits("MatMulF32", MatMulF32Group)
  <2> DEFINE B == Also(From(0, << <<"weights">> >>), Binary)
  <2>1. /\ DOMAIN MatMulF32Layout = {0} \cup {1, 2, 3} /\ MatMulF32Layout[0] = "read"
        /\ MatMulF32Layout[1] = "read" /\ MatMulF32Layout[2] = "write"
        /\ MatMulF32Layout[3] = "uniform"
    BY DEF MatMulF32Layout, Slots
  <2>2. /\ {0} \in SUBSET ({0} \cup 10 .. 16) /\ DOMAIN From(0, << <<"weights">> >>) = {0}
        /\ \A b \in {0} : From(0, << <<"weights">> >>)[b][1] \in {"chunk", "dummy", "weights"}
    BY <1>2
  <2>3. /\ AcceptsGroup(Group(MatMulF32Layout, B))
        /\ \A b, c \in DOMAIN MatMulF32Layout :
             B[b] = B[c] /\ MatMulF32Layout[b] = "write" => b = c
    BY <2>1, <2>2, BinaryFits
  <2>4. Pipelines["MatMulF32"].layout = MatMulF32Layout
    BY OtherPipelinesLayout
  <2> HIDE DEF B
  <2>5. Fits("MatMulF32", Group(MatMulF32Layout, B))
    BY <1>1, <2>3, <2>4
  <2>6. QED
    BY <2>5 DEF B, MatMulF32Group
<1>7. Fits("RmsNorm", RmsNormGroup(n))
  <2> DEFINE B == Also(ChunkBuffers(n), Binary)
  <2>1. /\ DOMAIN RmsNormLayout = ChunkSlots \cup {1, 2, 3}
        /\ \A b \in ChunkSlots : RmsNormLayout[b] = "read"
        /\ RmsNormLayout[1] = "read" /\ RmsNormLayout[2] = "write"
        /\ RmsNormLayout[3] = "uniform"
    BY DEF RmsNormLayout, Slots, ChunkSlots
  <2>2. /\ AcceptsGroup(Group(RmsNormLayout, B))
        /\ \A b, c \in DOMAIN RmsNormLayout :
             B[b] = B[c] /\ RmsNormLayout[b] = "write" => b = c
    BY <1>2, <2>1, BinaryFits
  <2>3. Pipelines["RmsNorm"].layout = RmsNormLayout
    BY OtherPipelinesLayout
  <2> HIDE DEF B
  <2>4. Fits("RmsNorm", Group(RmsNormLayout, B))
    BY <1>1, <2>2, <2>3
  <2>5. QED
    BY <2>4 DEF B, RmsNormGroup
<1>8. Fits("LmHead", HeadGroup(n))
  <2> DEFINE B == Also(ChunkBuffers(n), Binary)
  <2>1. /\ DOMAIN LmHeadLayout = ChunkSlots \cup {1, 2, 3}
        /\ \A b \in ChunkSlots : LmHeadLayout[b] = "read"
        /\ LmHeadLayout[1] = "read" /\ LmHeadLayout[2] = "write"
        /\ LmHeadLayout[3] = "uniform"
    BY DEF LmHeadLayout, Slots, ChunkSlots
  <2>2. /\ AcceptsGroup(Group(LmHeadLayout, B))
        /\ \A b, c \in DOMAIN LmHeadLayout :
             B[b] = B[c] /\ LmHeadLayout[b] = "write" => b = c
    BY <1>2, <2>1, BinaryFits
  <2>3. Pipelines["LmHead"].layout = LmHeadLayout
    BY OtherPipelinesLayout
  <2> HIDE DEF B
  <2>4. Fits("LmHead", Group(LmHeadLayout, B))
    BY <1>1, <2>2, <2>3
  <2>5. QED
    BY <2>4 DEF B, HeadGroup
<1>9. Fits("Probe", ProbeGroup)
  <2> DEFINE B == From(0, << <<"chunk", 1>>, <<"output">> >>)
  <2>1. /\ ProbeGroup.layout = BindlessLayout /\ ProbeGroup.buffers = B
        /\ DOMAIN BindlessLayout = {0, 1} /\ DOMAIN B = {0, 1}
        /\ BindlessLayout[0] = "read" /\ BindlessLayout[1] = "write"
        /\ B[0] = <<"chunk", 1>> /\ B[1] = <<"output">>
    BY DEF ProbeGroup, Group, BindlessLayout, Slots, From
  <2>2. QED
    BY <2>1, OtherPipelinesLayout DEF Fits, AcceptsGroup, AcceptsDispatch, AllowedAs, Uniforms
<1>10. Fits(s[1], s[2])
  BY <1>3, <1>4, <1>5, <1>6, <1>7, <1>8, <1>9
     DEF SingleKernels, DequantRowsGroup, DequantBlobGroup, HeadF32Group, FinalNormGroup,
         HeadTileGroup, LoopHeadGroup, LoopTileGroup
<1>11. QED
  BY <1>10 DEF Fits

\* The widths of a layer and where its scratch areas end: every area is in the
\* token's scratch, the query behind the norm and the context, and the norm
\* that a model without a gate keeps behind everything the attention uses.
LEMMA Widths ==
  ASSUME g \in Geometries
  PROVE  /\ g.dim \in Nat \ {0} /\ g.heads \in Nat \ {0} /\ g.kvHeads \in Nat \ {0}
         /\ g.headDim \in Nat \ {0} /\ g.ffn \in Nat \ {0} /\ g.batch \in Nat \ {0}
         /\ g.start \in Nat /\ MaxSeq \in Nat \ {0} /\ Lanes \in Nat \ {0}
         /\ PackWidth \in Nat \ {0}
         /\ g.gated \in BOOLEAN /\ g.postNorm \in BOOLEAN /\ g.qkNorm \in BOOLEAN
         /\ g.q4kDown \in BOOLEAN
         /\ g.start + g.batch <= MaxSeq /\ g.chunks \in Nat
         /\ DimQ \in Nat \ {0} /\ DimKv \in Nat \ {0} /\ Stride \in Nat \ {0}
         /\ QueryOffset \in Nat /\ g.dim <= QueryOffset /\ DimQ <= QueryOffset
         /\ (DimQ <= g.dim => QueryOffset = g.dim)
         /\ QueryOffset + DimQ <= Stride
         /\ StashOffset \in Nat /\ DimQ <= StashOffset /\ StashOffset + g.dim <= Stride
         /\ FfnOffset \in Nat /\ FfnOffset = 2 * g.ffn /\ FfnOffset + g.dim <= Stride
         /\ ~g.gated => QueryOffset + DimQ <= FfnOffset /\ StashOffset + g.dim <= FfnOffset
<1> DEFINE q == g.heads * g.headDim
           kv == g.kvHeads * g.headDim
<1>1. /\ g.dim \in Nat \ {0} /\ g.heads \in Nat \ {0} /\ g.kvHeads \in Nat \ {0}
      /\ g.headDim \in Nat \ {0} /\ g.ffn \in Nat \ {0} /\ g.batch \in Nat \ {0}
      /\ g.start \in Nat /\ MaxSeq \in Nat \ {0} /\ Lanes \in Nat \ {0}
      /\ PackWidth \in Nat \ {0}
      /\ g.gated \in BOOLEAN /\ g.postNorm \in BOOLEAN /\ g.qkNorm \in BOOLEAN
      /\ g.q4kDown \in BOOLEAN
      /\ g.start + g.batch <= MaxSeq /\ g.chunks \in Nat
  BY LayerAssumption DEF GeometryType
<1>2. q \in Nat \ {0} /\ kv \in Nat \ {0}
  <2>1. ASSUME NEW a \in Nat \ {0}, NEW b \in Nat \ {0} PROVE a * b \in Nat \ {0}
    <3>1. a * b \in Nat /\ 1 * b <= a * b /\ 1 * b = b
      BY Products
    <3>2. QED
      BY <3>1
  <2>2. QED
    BY <1>1, <2>1
<1>3. StashFits(g) /\ NormIsKept(g)
  BY LayerAssumption
<1>4. /\ DimQ = q /\ DimKv = kv
      /\ Stride = Larger(g.dim + q + 2 * kv + 2 * g.ffn, Larger(g.dim, q) + q)
      /\ QueryOffset = Larger(g.dim, q) /\ StashOffset = g.dim + q /\ FfnOffset = 2 * g.ffn
      /\ 2 * g.dim + q <= Stride
      /\ g.gated \/ 2 * g.ffn >= Larger(2 * g.dim, q) + q
  BY <1>3 DEF DimQ, DimKv, Stride, StrideOf, StashFits, NormIsKept, QueryOffset, StashOffset,
              FfnOffset
<1> HIDE DEF q, kv
<1>5. QED
  BY ONLY <1>1, <1>2, <1>4 DEF Larger

-----------------------------------------------------------------------------
(* Cells: an address names its token, position and column.                 *)

\* Two cells of the scratch, of the residual stream or of a cache are the same
\* only at the same place, and no cell is in two buffers.
LEMMA CellsAreUnique ==
  ASSUME g \in Geometries
  PROVE  /\ \A t, s \in Nat, i, j \in 0 .. Stride - 1 : Temp(t, i) = Temp(s, j) <=> t = s /\ i = j
         /\ \A t, s \in Nat, i, j \in Rows : Act(t, i) = Act(s, j) <=> t = s /\ i = j
         /\ \A b, d, p, o, i, j : p \in Nat /\ o \in Nat /\ i \in 0 .. DimKv - 1
               /\ j \in 0 .. DimKv - 1 =>
              (Cache(b, p, i) = Cache(d, o, j) <=> b = d /\ p = o /\ i = j)
         /\ \A t, s, i, j : Temp(t, i) # Act(s, j)
         /\ \A b \in {"K", "V"} : \A t, s, i, j :
              Temp(t, i) # Cache(b, s, j) /\ Act(t, i) # Cache(b, s, j)
<1>0. Stride \in Nat \ {0} /\ g.dim \in Nat \ {0} /\ DimKv \in Nat \ {0}
  BY Widths
<1>1. ASSUME NEW t \in Nat, NEW s \in Nat, NEW i \in 0 .. Stride - 1, NEW j \in 0 .. Stride - 1
      PROVE  Temp(t, i) = Temp(s, j) <=> t = s /\ i = j
  <2>1. t * Stride + i = s * Stride + j <=> t = s /\ i = j
    BY <1>0, PlaceIsUnique
  <2>2. QED
    BY <2>1 DEF Temp
<1>2. ASSUME NEW t \in Nat, NEW s \in Nat, NEW i \in Rows, NEW j \in Rows
      PROVE  Act(t, i) = Act(s, j) <=> t = s /\ i = j
  <2>1. t * g.dim + i = s * g.dim + j <=> t = s /\ i = j
    BY <1>0, PlaceIsUnique DEF Rows
  <2>2. QED
    BY <2>1 DEF Act
<1>3. ASSUME NEW b, NEW d, NEW p \in Nat, NEW o \in Nat, NEW i \in 0 .. DimKv - 1,
             NEW j \in 0 .. DimKv - 1
      PROVE  Cache(b, p, i) = Cache(d, o, j) <=> b = d /\ p = o /\ i = j
  <2>1. p * DimKv + i = o * DimKv + j <=> p = o /\ i = j
    BY <1>0, PlaceIsUnique
  <2>2. QED
    BY <2>1 DEF Cache
<1>4. ASSUME NEW t, NEW s, NEW i, NEW j PROVE Temp(t, i) # Act(s, j)
  BY DEF Temp, Act
<1>5. ASSUME NEW b \in {"K", "V"}, NEW t, NEW s, NEW i, NEW j
      PROVE  Temp(t, i) # Cache(b, s, j) /\ Act(t, i) # Cache(b, s, j)
  BY DEF Temp, Act, Cache
<1>6. QED
  BY <1>1, <1>2, <1>3, <1>4, <1>5

\* A place of the scratch is where it is.
LEMMA TempIsUnique ==
  ASSUME g \in Geometries
  PROVE  \A t, s \in Nat, i, j \in 0 .. Stride - 1 : Temp(t, i) = Temp(s, j) <=> t = s /\ i = j
BY CellsAreUnique

\* So is a place of the residual stream.
LEMMA ActIsUnique ==
  ASSUME g \in Geometries
  PROVE  \A t, s \in Nat, i, j \in Rows : Act(t, i) = Act(s, j) <=> t = s /\ i = j
BY CellsAreUnique

\* And of a cache.
LEMMA CacheIsUnique ==
  ASSUME g \in Geometries
  PROVE  \A b, d : \A p, o \in Nat, i, j \in 0 .. DimKv - 1 :
           Cache(b, p, i) = Cache(d, o, j) <=> b = d /\ p = o /\ i = j
BY CellsAreUnique

\* The buffers do not overlap.
LEMMA BuffersAreApart ==
  /\ \A t, s, i, j : Temp(t, i) # Act(s, j)
  /\ \A t, s, i, j : Temp(t, i) # Cache("K", s, j) /\ Temp(t, i) # Cache("V", s, j)
  /\ \A t, s, i, j : Act(t, i) # Cache("K", s, j) /\ Act(t, i) # Cache("V", s, j)
  /\ \A t, s, i, j : Cache("K", t, i) # Cache("V", s, j)
<1>1. \A t, s, i, j : Temp(t, i) # Act(s, j)
  BY DEF Temp, Act
<1>2. \A t, s, i, j : Temp(t, i) # Cache("K", s, j) /\ Temp(t, i) # Cache("V", s, j)
  BY DEF Temp, Cache
<1>3. \A t, s, i, j : Act(t, i) # Cache("K", s, j) /\ Act(t, i) # Cache("V", s, j)
  BY DEF Act, Cache
<1>4. \A t, s, i, j : Cache("K", t, i) # Cache("V", s, j)
  BY DEF Cache
<1>5. QED
  BY <1>1, <1>2, <1>3, <1>4

\* The elements of a head are columns of its buffer.
LEMMA HeadColumns ==
  ASSUME g \in Geometries
  PROVE  /\ \A h \in 0 .. g.heads - 1, d \in 0 .. g.headDim - 1 :
              h * g.headDim + d \in 0 .. DimQ - 1
         /\ \A h \in 0 .. g.kvHeads - 1, d \in 0 .. g.headDim - 1 :
              h * g.headDim + d \in 0 .. DimKv - 1
         /\ \A h, k \in Nat, d, e \in 0 .. g.headDim - 1 :
              /\ h * g.headDim + d = k * g.headDim + e <=> h = k /\ d = e
              /\ h * g.headDim + d \in Nat
              /\ (h * g.headDim + d) \div g.headDim = h
              /\ (h * g.headDim + d) % g.headDim = d
         /\ \A c \in 0 .. DimQ - 1 :
              /\ c \div g.headDim \in 0 .. g.heads - 1 /\ c % g.headDim \in 0 .. g.headDim - 1
              /\ c = (c \div g.headDim) * g.headDim + (c % g.headDim)
         /\ \A c \in 0 .. DimKv - 1 :
              /\ c \div g.headDim \in 0 .. g.kvHeads - 1 /\ c % g.headDim \in 0 .. g.headDim - 1
              /\ c = (c \div g.headDim) * g.headDim + (c % g.headDim)
<1>1. g.headDim \in Nat \ {0} /\ g.heads \in Nat /\ g.kvHeads \in Nat
  BY Widths
<1>2. \A h \in 0 .. g.heads - 1, d \in 0 .. g.headDim - 1 :
        h * g.headDim + d \in 0 .. DimQ - 1
  BY <1>1, PlaceIsBelow DEF DimQ
<1>3. \A h \in 0 .. g.kvHeads - 1, d \in 0 .. g.headDim - 1 :
        h * g.headDim + d \in 0 .. DimKv - 1
  BY <1>1, PlaceIsBelow DEF DimKv
<1>4. \A h, k \in Nat, d, e \in 0 .. g.headDim - 1 :
        /\ h * g.headDim + d = k * g.headDim + e <=> h = k /\ d = e
        /\ h * g.headDim + d \in Nat
        /\ (h * g.headDim + d) \div g.headDim = h
        /\ (h * g.headDim + d) % g.headDim = d
  BY <1>1, PlaceIsUnique
<1>5. \A c \in 0 .. DimQ - 1 :
        /\ c \div g.headDim \in 0 .. g.heads - 1 /\ c % g.headDim \in 0 .. g.headDim - 1
        /\ c = (c \div g.headDim) * g.headDim + (c % g.headDim)
  BY <1>1, PlaceExists DEF DimQ
<1>6. \A c \in 0 .. DimKv - 1 :
        /\ c \div g.headDim \in 0 .. g.kvHeads - 1 /\ c % g.headDim \in 0 .. g.headDim - 1
        /\ c = (c \div g.headDim) * g.headDim + (c % g.headDim)
  BY <1>1, PlaceExists DEF DimKv
<1>7. QED
  BY <1>2, <1>3, <1>4, <1>5, <1>6

\* Every column is an element of a head.
LEMMA HeadsCover ==
  ASSUME g \in Geometries
  PROVE  /\ \A c \in 0 .. DimQ - 1 :
              \E h \in 0 .. g.heads - 1, d \in 0 .. g.headDim - 1 : c = h * g.headDim + d
         /\ \A c \in 0 .. DimKv - 1 :
              \E h \in 0 .. g.kvHeads - 1, d \in 0 .. g.headDim - 1 : c = h * g.headDim + d
<1>1. ASSUME NEW c \in 0 .. DimQ - 1
      PROVE  \E h \in 0 .. g.heads - 1, d \in 0 .. g.headDim - 1 : c = h * g.headDim + d
  <2> DEFINE h == c \div g.headDim
             d == c % g.headDim
  <2>1. h \in 0 .. g.heads - 1 /\ d \in 0 .. g.headDim - 1 /\ c = h * g.headDim + d
    BY HeadColumns
  <2> HIDE DEF h, d
  <2>2. QED
    BY <2>1
<1>2. ASSUME NEW c \in 0 .. DimKv - 1
      PROVE  \E h \in 0 .. g.kvHeads - 1, d \in 0 .. g.headDim - 1 : c = h * g.headDim + d
  <2> DEFINE h == c \div g.headDim
             d == c % g.headDim
  <2>1. h \in 0 .. g.kvHeads - 1 /\ d \in 0 .. g.headDim - 1 /\ c = h * g.headDim + d
    BY HeadColumns
  <2> HIDE DEF h, d
  <2>2. QED
    BY <2>1
<1>3. QED
  BY <1>1, <1>2

\* The head of the cache that a head of the queries reads.
LEMMA KvHeadExists ==
  ASSUME g \in Geometries, NEW h \in 0 .. g.heads - 1
  PROVE  h \div (g.heads \div g.kvHeads) \in 0 .. g.kvHeads - 1
<1> DEFINE n == g.heads \div g.kvHeads
<1>1. g.heads \in Nat \ {0} /\ g.kvHeads \in Nat \ {0} /\ g.heads % g.kvHeads = 0
  BY Widths, LayerAssumption
<1>2. n \in Nat /\ g.heads = g.kvHeads * n
  BY <1>1
<1>3. n \in Nat \ {0}
  <2>1. CASE n = 0
    BY <1>1, <1>2, <2>1
  <2>2. QED
    BY <1>2, <2>1
<1> HIDE DEF n
<1>4. h \in 0 .. g.kvHeads * n - 1
  BY <1>2
<1>5. h \div n \in 0 .. g.kvHeads - 1
  BY <1>1, <1>3, <1>4, PlaceExists
<1>6. QED
  BY <1>5 DEF n

\* What is allocated.
InMemory(m) == DOMAIN m = UNION {BufferCells(b) : b \in Buffers}

\* Every place of the scratch, of the residual stream and of the caches is
\* allocated.
LEMMA CellsExist ==
  ASSUME g \in Geometries, NEW m, InMemory(m), ~CacheOnly
  PROVE  /\ \A t \in Tokens, i \in 0 .. Stride - 1 : Temp(t, i) \in DOMAIN m
         /\ \A t \in Tokens, i \in Rows : Act(t, i) \in DOMAIN m
         /\ \A b \in {"K", "V"}, p \in Positions, c \in 0 .. DimKv - 1 :
              Cache(b, p, c) \in DOMAIN m
<1>1. /\ BufferCells("temp") \subseteq DOMAIN m /\ BufferCells("act") \subseteq DOMAIN m
      /\ BufferCells("K") \subseteq DOMAIN m /\ BufferCells("V") \subseteq DOMAIN m
  BY DEF InMemory, Buffers
<1>2. /\ BufferCells("temp") = {<<"temp", i>> : i \in 0 .. g.batch * Stride - 1}
      /\ BufferCells("act") = {<<"act", i>> : i \in 0 .. g.batch * g.dim - 1}
      /\ BufferCells("K") = KvCells("K") /\ BufferCells("V") = KvCells("V")
  BY DEF BufferCells, Src, ScratchNames
<1>3. ASSUME NEW t \in Tokens, NEW i \in 0 .. Stride - 1 PROVE Temp(t, i) \in DOMAIN m
  <2>1. t * Stride + i \in 0 .. g.batch * Stride - 1
    BY Widths, PlaceIsBelow DEF Tokens
  <2>2. QED
    BY <1>1, <1>2, <2>1 DEF Temp
<1>4. ASSUME NEW t \in Tokens, NEW i \in Rows PROVE Act(t, i) \in DOMAIN m
  <2>1. t * g.dim + i \in 0 .. g.batch * g.dim - 1
    BY Widths, PlaceIsBelow DEF Tokens, Rows
  <2>2. QED
    BY <1>1, <1>2, <2>1 DEF Act
<1>5. ASSUME NEW b \in {"K", "V"}, NEW p \in Positions, NEW c \in 0 .. DimKv - 1
      PROVE  Cache(b, p, c) \in DOMAIN m
  <2>1. p * DimKv + c \in 0 .. MaxSeq * DimKv - 1
    BY Widths, PlaceIsBelow DEF Positions
  <2>2. QED
    BY <1>1, <1>2, <2>1 DEF Cache, KvCells
<1>6. QED
  BY <1>3, <1>4, <1>5

-----------------------------------------------------------------------------
(* A dispatch.                                                             *)

\* No two invocations store the same cell with different values, and none
\* loads what another one stores.
Apart(k) ==
  \A x, y, t, u \in Nat : \A a \in Kernel(k, x, t), b \in Kernel(k, y, u) :
    /\ a.cell = b.cell => a = b
    /\ x # y \/ t # u => a.cell \notin b.loads

\* No invocation stores the cell.
Untouched(k, c) == \A x, t \in Nat : \A s \in Kernel(k, x, t) : s.cell # c

\* A result depends on what is loaded.
LEMMA SameResult ==
  ASSUME NEW m, NEW n, NEW s, \A c \in s.loads : Load(m, c) = Load(n, c)
  PROVE  Result(m, s) = Result(n, s)
<1>1. {Load(m, c) : c \in s.loads} = {Load(n, c) : c \in s.loads}
  OBVIOUS
<1> DEFINE R(loaded) ==
             IF s.op = "copy" THEN CHOOSE v \in loaded : TRUE
             ELSE IF loaded = Needs(s.value) THEN s.value
             ELSE Val("junk", s.cell[1], s.cell[2])
<1>2. /\ Result(m, s) = R({Load(m, c) : c \in s.loads})
      /\ Result(n, s) = R({Load(n, c) : c \in s.loads})
  BY DEF Result
<1> HIDE DEF R
<1>3. QED
  BY <1>1, <1>2

\* A store changes its cell and no other.
LEMMA StoresLand ==
  ASSUME NEW m, NEW S, \A a, b \in S : a.cell = b.cell => a = b
  PROVE  /\ DOMAIN After(m, S) = DOMAIN m
         /\ \A s \in S : s.cell \in DOMAIN m => After(m, S)[s.cell] = Result(m, s)
         /\ \A c \in DOMAIN m : (\A s \in S : s.cell # c) => After(m, S)[c] = m[c]
<1>1. DOMAIN After(m, S) = DOMAIN m
  BY DEF After
<1>2. ASSUME NEW s \in S, s.cell \in DOMAIN m PROVE After(m, S)[s.cell] = Result(m, s)
  <2>1. (CHOOSE d \in S : d.cell = s.cell) = s
    <3>1. \E d \in S : d.cell = s.cell
      OBVIOUS
    <3>2. (CHOOSE d \in S : d.cell = s.cell) \in S /\ (CHOOSE d \in S : d.cell = s.cell).cell = s.cell
      BY <3>1
    <3>3. QED
      BY <3>2
  <2>2. QED
    BY <1>2, <2>1 DEF After
<1>3. ASSUME NEW c \in DOMAIN m, \A s \in S : s.cell # c PROVE After(m, S)[c] = m[c]
  BY <1>3 DEF After
<1>4. QED
  BY <1>1, <1>2, <1>3

\* Whichever invocation is first: every store lands with what it computes
\* from the memory before the dispatch, and nothing else changes.
LEMMA Executed ==
  ASSUME NEW o, o.columns \in Nat, o.rows \in Nat, Apart(o.kernel), Execute(o)
  PROVE  /\ DOMAIN memory' = DOMAIN memory
         /\ \A x \in 0 .. o.columns - 1, t \in 0 .. o.rows - 1 :
              \A s \in Kernel(o.kernel, x, t) :
                s.cell \in DOMAIN memory => memory'[s.cell] = Result(memory, s)
         /\ \A c \in DOMAIN memory : Untouched(o.kernel, c) => memory'[c] = memory[c]
<1> DEFINE Of(w) == Kernel(o.kernel, w[1], w[2])
           all == {w \in (0 .. o.columns - 1) \X (0 .. o.rows - 1) : Of(w) # {}}
<1>1. ASSUME NEW w \in all
      PROVE  w[1] \in Nat /\ w[2] \in Nat /\ w = <<w[1], w[2]>>
  OBVIOUS
<1>2. ASSUME NEW w \in all, NEW v \in all, NEW a \in Of(w), NEW b \in Of(v)
      PROVE  (a.cell = b.cell => a = b) /\ (w # v => a.cell \notin b.loads)
  <2>1. w # v => w[1] # v[1] \/ w[2] # v[2]
    BY <1>1
  <2>2. QED
    BY <1>1, <2>1 DEF Apart
<1>3. ASSUME NEW x \in 0 .. o.columns - 1, NEW t \in 0 .. o.rows - 1,
             NEW s \in Kernel(o.kernel, x, t)
      PROVE  \E w \in all : s \in Of(w)
  <2>1. <<x, t>> \in all /\ s \in Of(<<x, t>>)
    OBVIOUS
  <2>2. QED
    BY <2>1
<1>4. ASSUME NEW c, Untouched(o.kernel, c), NEW w \in all, NEW s \in Of(w) PROVE s.cell # c
  BY <1>1, <1>4 DEF Untouched
<1>5. CASE all = {}
  <2>1. memory' = memory
    BY <1>5 DEF Execute
  <2>2. QED
    BY <1>3, <1>5, <2>1
<1>6. CASE all # {}
  <2>1. PICK first \in all :
          memory' = After(After(memory, Of(first)), UNION {Of(w) : w \in all \ {first}})
    BY <1>6 DEF Execute
  <2> DEFINE m == After(memory, Of(first))
             rest == UNION {Of(w) : w \in all \ {first}}
  <2>2. memory' = After(m, rest)
    BY <2>1
  <2> HIDE DEF m
  <2>3. ASSUME NEW s \in rest PROVE \E w \in all : w # first /\ s \in Of(w)
    OBVIOUS
  <2>4. \A a, b \in rest : a.cell = b.cell => a = b
    BY <1>2, <2>3
  <2>5. ASSUME NEW a \in Of(first), NEW b \in Of(first), a.cell = b.cell PROVE a = b
    BY <1>2, <2>5
  <2>6. ASSUME NEW w \in all, w # first, NEW s \in Of(w) PROVE s \in rest
    BY <2>6
  <2>7. /\ DOMAIN m = DOMAIN memory
        /\ \A s \in Of(first) : s.cell \in DOMAIN memory => m[s.cell] = Result(memory, s)
        /\ \A c \in DOMAIN memory : (\A s \in Of(first) : s.cell # c) => m[c] = memory[c]
    BY <2>5, StoresLand DEF m
  <2>8. /\ DOMAIN memory' = DOMAIN m
        /\ \A s \in rest : s.cell \in DOMAIN m => memory'[s.cell] = Result(m, s)
        /\ \A c \in DOMAIN m : (\A s \in rest : s.cell # c) => memory'[c] = m[c]
    <3>1. /\ DOMAIN After(m, rest) = DOMAIN m
          /\ \A s \in rest : s.cell \in DOMAIN m => After(m, rest)[s.cell] = Result(m, s)
          /\ \A c \in DOMAIN m : (\A s \in rest : s.cell # c) => After(m, rest)[c] = m[c]
      <4> HIDE DEF rest
      <4>1. QED
        BY <2>4, StoresLand
    <3>2. QED
      BY <2>2, <3>1
  <2> HIDE DEF m, rest, all, Of
  <2>9. ASSUME NEW w \in all, NEW s \in Of(w), s.cell \in DOMAIN memory
        PROVE  memory'[s.cell] = Result(memory, s)
    <3>1. CASE w # first
      <4>1. \A c \in s.loads : Load(m, c) = Load(memory, c)
        <5>1. ASSUME NEW c \in s.loads PROVE \A a \in Of(first) : a.cell # c
          BY <1>2, <3>1
        <5>2. QED
          BY <2>7, <5>1 DEF Load
      <4>2. Result(m, s) = Result(memory, s)
        BY <4>1, SameResult
      <4>3. s \in rest
        BY <2>6, <3>1
      <4>4. QED
        BY <2>7, <2>8, <2>9, <4>2, <4>3
    <3>2. CASE w = first
      <4>1. m[s.cell] = Result(memory, s)
        BY <2>7, <2>9, <3>2
      <4>2. CASE \E d \in rest : d.cell = s.cell
        <5>1. PICK d \in rest : d.cell = s.cell
          BY <4>2
        <5>2. PICK v \in all : v # first /\ d \in Of(v)
          BY <2>3
        <5>3. d = s
          BY <1>2, <5>1, <5>2
        <5>4. \A c \in d.loads : Load(m, c) = Load(memory, c)
          <6>1. ASSUME NEW c \in d.loads PROVE \A a \in Of(first) : a.cell # c
            BY <1>2, <5>2
          <6>2. QED
            BY <2>7, <6>1 DEF Load
        <5>5. Result(m, d) = Result(memory, d)
          BY <5>4, SameResult
        <5>6. QED
          BY <2>7, <2>8, <2>9, <5>1, <5>3, <5>5
      <4>3. CASE \A d \in rest : d.cell # s.cell
        BY <2>7, <2>8, <2>9, <4>1, <4>3
      <4>4. QED
        BY <4>2, <4>3
    <3>3. QED
      BY <3>1, <3>2
  <2>10. ASSUME NEW c \in DOMAIN memory, Untouched(o.kernel, c) PROVE memory'[c] = memory[c]
    <3>1. \A s \in Of(first) : s.cell # c
      BY <1>4, <2>10
    <3>2. \A s \in rest : s.cell # c
      BY <1>4, <2>3, <2>10
    <3>3. QED
      BY <2>7, <2>8, <3>1, <3>2
  <2>11. QED
    BY <1>3, <2>7, <2>8, <2>9, <2>10
<1>7. QED
  BY <1>5, <1>6

-----------------------------------------------------------------------------
(* Values and areas.                                                       *)

\* What each value of a layer depends on.
LEMMA NeedsOf ==
  /\ \A t, c : Needs(Val("norm", t, c)) = OfRow("x", t)
  /\ \A t, c : Needs(Val("q", t, c)) = OfRow("norm", t)
  /\ \A t, c : Needs(Val("k", t, c)) = OfRow("norm", t - g.start)
  /\ \A t, c : Needs(Val("v", t, c)) = OfRow("norm", t - g.start)
  /\ \A t, c : Needs(Val("qn", t, c)) = OfHead("q", t, c \div g.headDim)
  /\ \A t, c : Needs(Val("kn", t, c)) = OfHead("k", t, c \div g.headDim)
  /\ \A t, c : Needs(Val("proj", t, c)) = Contexts(t)
  /\ \A t, c : Needs(Val("act_proj", t, c)) = {Val("x", t, c)} \cup Contexts(t)
  /\ \A t, c : Needs(Val("act_attn", t, c)) = {Val("act_proj", t, c)} \cup OfRow("proj", t)
  /\ \A t, c : Needs(Val("ffn_norm", t, c)) = OfRow(AttnOutput, t)
  /\ \A t, c : Needs(Val("gate_up", t, c)) = OfRow(FfnInput, t)
  /\ \A t, c : Needs(Val("one", t, c)) = {}
  /\ \A t, c : Needs(Val("down", t, c)) = GateUps(t)
  /\ \A t, c : Needs(Val("act_down", t, c)) = {Val(AttnOutput, t, c)} \cup GateUps(t)
  /\ \A t, c : Needs(Val("act_out", t, c)) = {Val("act_down", t, c)} \cup OfRow("down", t)
  /\ \A t, c : Needs(Val("scale_k", t, c)) = OfHead("old_k", t, c)
  /\ \A t, c : Needs(Val("packed_k", t, c)) = OfHead("old_k", t, c)
  /\ \A t, c : Needs(Val("scale_v", t, c)) = OfHead("old_v", t, c)
  /\ \A t, c : Needs(Val("packed_v", t, c)) = OfHead("old_v", t, c)
<1>1. \A t, c : Needs(Val("norm", t, c)) = OfRow("x", t)
  BY DEF Needs, Val
<1>2. \A t, c : Needs(Val("q", t, c)) = OfRow("norm", t)
  BY DEF Needs, Val
<1>3. \A t, c : /\ Needs(Val("k", t, c)) = OfRow("norm", t - g.start)
                /\ Needs(Val("v", t, c)) = OfRow("norm", t - g.start)
  BY DEF Needs, Val
<1>4. \A t, c : /\ Needs(Val("qn", t, c)) = OfHead("q", t, c \div g.headDim)
                /\ Needs(Val("kn", t, c)) = OfHead("k", t, c \div g.headDim)
  BY DEF Needs, Val
<1>5. \A t, c : /\ Needs(Val("proj", t, c)) = Contexts(t)
                /\ Needs(Val("act_proj", t, c)) = {Val("x", t, c)} \cup Contexts(t)
  BY DEF Needs, Val
<1>6. \A t, c :
        /\ Needs(Val("act_attn", t, c)) = {Val("act_proj", t, c)} \cup OfRow("proj", t)
        /\ Needs(Val("ffn_norm", t, c)) = OfRow(AttnOutput, t)
  BY DEF Needs, Val
<1>7. \A t, c : /\ Needs(Val("gate_up", t, c)) = OfRow(FfnInput, t)
                /\ Needs(Val("one", t, c)) = {}
  BY DEF Needs, Val
<1>8. \A t, c : /\ Needs(Val("down", t, c)) = GateUps(t)
                /\ Needs(Val("act_down", t, c)) = {Val(AttnOutput, t, c)} \cup GateUps(t)
  BY DEF Needs, Val
<1>9. \A t, c : Needs(Val("act_out", t, c)) = {Val("act_down", t, c)} \cup OfRow("down", t)
  BY DEF Needs, Val
<1>10. \A t, c : /\ Needs(Val("scale_k", t, c)) = OfHead("old_k", t, c)
                 /\ Needs(Val("packed_k", t, c)) = OfHead("old_k", t, c)
                 /\ Needs(Val("scale_v", t, c)) = OfHead("old_v", t, c)
                 /\ Needs(Val("packed_v", t, c)) = OfHead("old_v", t, c)
  BY DEF Needs, Val
<1>11. QED
  BY <1>1, <1>2, <1>3, <1>4, <1>5, <1>6, <1>7, <1>8, <1>9, <1>10

\* A context needs its own query, the keys of its head at every position up to
\* its own, and their values in its own column.
LEMMA NeedsOfContext ==
  ASSUME NEW t, NEW c
  PROVE  LET kv == (c \div g.headDim) \div (g.heads \div g.kvHeads)
         IN Needs(Val("context", t, c)) =
              OfHead(QName, t, c \div g.headDim) \cup KeysOf(kv, 0 .. g.start + t)
                \cup ValuesOf(kv * g.headDim + (c % g.headDim), 0 .. g.start + t)
BY DEF Needs, Val

\* The values of cells.
Image(m, S) == {m[c] : c \in S}

\* A store whose loads are what its value needs stores the value.
LEMMA Computed ==
  ASSUME NEW m, NEW cell, NEW value, NEW loads, loads \subseteq DOMAIN m,
         Image(m, loads) = Needs(value)
  PROVE  Result(m, Store(cell, value, loads)) = value
<1> DEFINE s == Store(cell, value, loads)
           loaded == {Load(m, c) : c \in loads}
<1>1. s.op = "compute" /\ s.value = value /\ s.loads = loads /\ s.cell = cell
  BY DEF Store
<1>2. loaded = Image(m, loads)
  BY DEF Load, Image
<1> HIDE DEF s
<1>3. QED
  <2>1. Result(m, s) = value
    BY <1>1, <1>2 DEF Result
  <2>2. QED
    BY <2>1 DEF s

\* A store is its cell, its value and its loads.
LEMMA StoreFields ==
  \A cell, value, loads : /\ Store(cell, value, loads).cell = cell
                          /\ Store(cell, value, loads).loads = loads
                          /\ Store(cell, value, loads).value = value
                          /\ Store(cell, value, loads).op = "compute"
BY DEF Store

\* What is a store has these.
LEMMA StoreIs ==
  \A cell, value, loads, s : s = Store(cell, value, loads) => s.cell = cell /\ s.loads = loads
BY StoreFields

\* n columns of every token's scratch from o on; the residual stream; the
\* call's own rows of a cache; the rows of the earlier calls.
TempIs(m, o, n, what) ==
  \A t \in Tokens, i \in 0 .. n - 1 : m[Temp(t, o + i)] = Val(what, t, i)
ActIs(m, what) == \A t \in Tokens, i \in Rows : m[Act(t, i)] = Val(what, t, i)
CacheIs(m, b, what) ==
  \A t \in Tokens, c \in 0 .. DimKv - 1 :
    m[Cache(b, g.start + t, c)] = Val(what, g.start + t, c)
PastIs(m) ==
  \A p \in 0 .. g.start - 1, c \in 0 .. DimKv - 1 :
    m[Cache("K", p, c)] = Val(KName, p, c) /\ m[Cache("V", p, c)] = Val("v", p, c)

\* The values of a row of the residual stream.
LEMMA RowLoads ==
  ASSUME NEW m, NEW what, ActIs(m, what), NEW t \in Tokens
  PROVE  Image(m, ActRow(t)) = OfRow(what, t)
BY DEF ActIs, Image, ActRow, OfRow

\* The values of an area of a token's scratch.
LEMMA AreaLoads ==
  ASSUME NEW m, NEW o, NEW n, NEW what, TempIs(m, o, n, what), NEW t \in Tokens
  PROVE  Image(m, TempRow(t, o, n)) = {Val(what, t, i) : i \in 0 .. n - 1}
BY DEF TempIs, Image, TempRow

\* The values of a head of the queries.
LEMMA QueryLoads ==
  ASSUME g \in Geometries, NEW m, NEW what, TempIs(m, QueryOffset, DimQ, what),
         NEW t \in Tokens, NEW h \in 0 .. g.heads - 1
  PROVE  Image(m, QHead(t, h)) = OfHead(what, t, h)
<1>1. ASSUME NEW d \in 0 .. g.headDim - 1
      PROVE  m[Temp(t, QueryOffset + h * g.headDim + d)] = Val(what, t, h * g.headDim + d)
  <2>1. h * g.headDim + d \in 0 .. DimQ - 1 /\ h * g.headDim \in Nat /\ QueryOffset \in Nat
    <3>1. h \in Nat /\ g.headDim \in Nat /\ g.heads \in Nat /\ QueryOffset \in Nat
      BY Widths
    <3>2. h * g.headDim \in Nat
      BY <3>1, Products
    <3>3. QED
      BY <3>1, <3>2, HeadColumns
  <2>2. QueryOffset + h * g.headDim + d = QueryOffset + (h * g.headDim + d)
    BY <2>1
  <2>3. QED
    BY <2>1, <2>2 DEF TempIs
<1>2. QED
  BY <1>1 DEF Image, QHead, TempRow, OfHead

\* The values of a head of a cache at a position.
LEMMA CacheHeadLoads ==
  ASSUME g \in Geometries, NEW m, NEW b, NEW what, NEW p,
         \A c \in 0 .. DimKv - 1 : m[Cache(b, p, c)] = Val(what, p, c),
         NEW h \in 0 .. g.kvHeads - 1
  PROVE  Image(m, CacheHead(b, p, h)) = OfHead(what, p, h)
<1>1. \A d \in 0 .. g.headDim - 1 : h * g.headDim + d \in 0 .. DimKv - 1
  BY HeadColumns
<1>2. QED
  BY <1>1 DEF Image, CacheHead, OfHead

\* Which kernel is which.
LEMMA KernelsAre ==
  \A x, t :
    /\ Kernel("AttnNorm", x, t) = AttnNorm(x, t)
    /\ Kernel("Qkv", x, t) = Qkv(x, t) /\ Kernel("QkvCoop", x, t) = Qkv(x, t)
    /\ Kernel("QkNorm", x, t) = QkNorm(x, t)
    /\ Kernel("AttnOut", x, t) = AttnOut(x, t)
    /\ Kernel("AttnProj", x, t) = AttnProj(x, t)
    /\ Kernel("AttnProjCoop", x, t) = AttnProj(x, t)
    /\ Kernel("PostAttnNorm", x, t) = PostAttnNorm(x, t)
    /\ Kernel("FfnNorm", x, t) = FfnNorm(x, t)
    /\ Kernel("FfnProj", x, t) = FfnProj(x, t)
    /\ Kernel("FfnStaged", x, t) = FfnStaged(x, t)
    /\ Kernel("FfnDown", x, t) = FfnDown(x, t)
    /\ Kernel("FfnDownCoop", x, t) = FfnDown(x, t)
    /\ Kernel("PostFfwNorm", x, t) = PostFfwNorm(x, t)
    /\ Kernel("QuantizeKv", x, t) = QuantizeKv(x, t)
    /\ Kernel("RopeShift", x, t) = RopeShift(x, t)
    /\ Kernel("RopeShiftInt4", x, t) = RopeShiftInt4(x, t)
BY DEF Kernel, QkvCoop, AttnProjCoop, FfnDownCoop

\* A dispatch of the kernel over at least n columns and the call's rows.
Runs(o, k, n) ==
  /\ o.kernel = k /\ o.columns \in Nat /\ n <= o.columns /\ o.rows = g.batch
  /\ Execute(o)

\* What a dispatch leaves behind.
Effect(k, n) ==
  /\ DOMAIN memory' = DOMAIN memory
  /\ \A x \in 0 .. n - 1, t \in Tokens : \A s \in Kernel(k, x, t) :
       s.cell \in DOMAIN memory => memory'[s.cell] = Result(memory, s)
  /\ \A c \in DOMAIN memory : Untouched(k, c) => memory'[c] = memory[c]

\* A dispatch of a kernel whose invocations are apart has that effect.
LEMMA RunsLeave ==
  ASSUME g \in Geometries, NEW o, NEW k, NEW n \in Nat, Apart(k), Runs(o, k, n)
  PROVE  Effect(k, n)
<1>1. /\ o.kernel = k /\ o.columns \in Nat /\ n <= o.columns /\ o.rows = g.batch
      /\ Execute(o) /\ g.batch \in Nat
  BY Widths DEF Runs
<1>2. /\ DOMAIN memory' = DOMAIN memory
      /\ \A x \in 0 .. o.columns - 1, t \in 0 .. o.rows - 1 :
              \A s \in Kernel(o.kernel, x, t) :
                s.cell \in DOMAIN memory => memory'[s.cell] = Result(memory, s)
      /\ \A c \in DOMAIN memory : Untouched(o.kernel, c) => memory'[c] = memory[c]
  BY <1>1, Executed
<1>3. QED
  BY <1>1, <1>2 DEF Effect, Tokens

-----------------------------------------------------------------------------
(* What every kernel of a layer needs.                                     *)

\* A layer's memory.
LayerMemory == g \in Geometries /\ InMemory(memory) /\ ~CacheOnly

\* The stores of a kernel are in the columns lo to hi - 1 of the scratch.
InScratch(k, lo, hi) ==
  \A x, t \in Nat : \A s \in Kernel(k, x, t) :
    \E u \in Nat, i \in lo .. hi - 1 : s.cell = Temp(u, i)

\* The residual stream, the caches and the columns from lo to hi - 1 of the
\* scratch are left alone.
LeavesAct(k) == \A t \in Nat, i \in Rows : Untouched(k, Act(t, i))
LeavesCaches(k) ==
  \A b \in {"K", "V"}, p \in Nat, c \in 0 .. DimKv - 1 : Untouched(k, Cache(b, p, c))
LeavesPast(k) ==
  \A b \in {"K", "V"}, p \in 0 .. g.start - 1, c \in 0 .. DimKv - 1 :
    Untouched(k, Cache(b, p, c))
LeavesTemp(k, lo, hi) == \A t \in Nat, i \in lo .. hi - 1 : Untouched(k, Temp(t, i))

\* A kernel that stores in a part of the scratch leaves the rest alone.
LEMMA ScratchFrame ==
  ASSUME g \in Geometries, NEW k, NEW lo \in Nat, NEW hi \in Nat, hi <= Stride,
         InScratch(k, lo, hi)
  PROVE  /\ LeavesAct(k) /\ LeavesCaches(k) /\ LeavesTemp(k, 0, lo) /\ LeavesTemp(k, hi, Stride)
<1>0. Stride \in Nat
  BY Widths
<1>1. ASSUME NEW t \in Nat, NEW i \in Rows PROVE Untouched(k, Act(t, i))
  <2>1. ASSUME NEW x \in Nat, NEW u \in Nat, NEW s \in Kernel(k, x, u) PROVE s.cell # Act(t, i)
    BY CellsAreUnique DEF InScratch
  <2>2. QED
    BY <2>1 DEF Untouched
<1>2. ASSUME NEW b \in {"K", "V"}, NEW p \in Nat, NEW c \in 0 .. DimKv - 1
      PROVE  Untouched(k, Cache(b, p, c))
  <2>1. ASSUME NEW x \in Nat, NEW u \in Nat, NEW s \in Kernel(k, x, u)
        PROVE  s.cell # Cache(b, p, c)
    <3>1. PICK v \in Nat, j \in lo .. hi - 1 : s.cell = Temp(v, j)
      BY DEF InScratch
    <3>2. QED
      BY <3>1, BuffersAreApart
  <2>2. QED
    BY <2>1 DEF Untouched
<1>3. ASSUME NEW t \in Nat, NEW i \in 0 .. Stride - 1, i \notin lo .. hi - 1
      PROVE  Untouched(k, Temp(t, i))
  <2>1. ASSUME NEW x \in Nat, NEW u \in Nat, NEW s \in Kernel(k, x, u) PROVE s.cell # Temp(t, i)
    <3>1. PICK v \in Nat, j \in lo .. hi - 1 : s.cell = Temp(v, j)
      BY DEF InScratch
    <3>2. j \in 0 .. Stride - 1 /\ i # j
      BY <1>0, <1>3
    <3>3. QED
      BY <3>1, <3>2, CellsAreUnique
  <2>2. QED
    BY <2>1 DEF Untouched
<1>4. LeavesTemp(k, 0, lo) /\ LeavesTemp(k, hi, Stride)
  <2>1. ASSUME NEW t \in Nat, NEW i \in 0 .. lo - 1 PROVE Untouched(k, Temp(t, i))
    <3>1. CASE i \in 0 .. Stride - 1
      BY <1>3, <3>1
    <3>2. CASE i >= Stride
      <4>1. \A j \in lo .. hi - 1 : FALSE
        BY <1>0, <3>2
      <4>2. QED
        BY <4>1 DEF InScratch, Untouched
    <3>3. QED
      BY <1>0, <3>1, <3>2
  <2>2. ASSUME NEW t \in Nat, NEW i \in hi .. Stride - 1 PROVE Untouched(k, Temp(t, i))
    BY <1>0, <1>3
  <2>3. QED
    BY <2>1, <2>2 DEF LeavesTemp
<1>5. QED
  BY <1>1, <1>2, <1>4 DEF LeavesAct, LeavesCaches

\* What a dispatch leaves alone keeps its values.
LEMMA ActKept ==
  ASSUME LayerMemory, NEW k, NEW n, Effect(k, n), LeavesAct(k), NEW what, ActIs(memory, what)
  PROVE  ActIs(memory', what)
<1>1. ASSUME NEW t \in Tokens, NEW i \in Rows PROVE memory'[Act(t, i)] = Val(what, t, i)
  <2>1. t \in Nat /\ Act(t, i) \in DOMAIN memory /\ memory[Act(t, i)] = Val(what, t, i)
    BY CellsExist DEF ActIs, Tokens, LayerMemory
  <2>2. QED
    BY <2>1 DEF Effect, LeavesAct
<1>2. QED
  BY <1>1 DEF ActIs

\* The same for the caches.
LEMMA CacheKept ==
  ASSUME LayerMemory, NEW k, NEW n, Effect(k, n), LeavesCaches(k)
  PROVE  /\ PastIs(memory) => PastIs(memory')
         /\ \A b \in {"K", "V"} : \A what : CacheIs(memory, b, what) => CacheIs(memory', b, what)
<1>1. ASSUME NEW b \in {"K", "V"}, NEW p \in 0 .. g.start + g.batch - 1, NEW c \in 0 .. DimKv - 1
      PROVE  memory'[Cache(b, p, c)] = memory[Cache(b, p, c)]
  <2>1. p \in Nat /\ p \in Positions
    BY Widths DEF Positions, LayerMemory
  <2>2. Cache(b, p, c) \in DOMAIN memory
    BY <2>1, CellsExist DEF LayerMemory
  <2>3. QED
    BY <2>1, <2>2 DEF Effect, LeavesCaches
<1>2. PastIs(memory) => PastIs(memory')
  BY <1>1, Widths DEF PastIs, LayerMemory
<1>3. ASSUME NEW b \in {"K", "V"}, NEW what, CacheIs(memory, b, what)
      PROVE  CacheIs(memory', b, what)
  <2>1. \A t \in Tokens : g.start + t \in 0 .. g.start + g.batch - 1
    BY Widths DEF Tokens, LayerMemory
  <2>2. QED
    BY <1>1, <1>3, <2>1 DEF CacheIs
<1>4. QED
  BY <1>2, <1>3

\* The same for the positions of the earlier calls.
LEMMA PastKept ==
  ASSUME LayerMemory, NEW k, NEW n, Effect(k, n), LeavesPast(k), PastIs(memory)
  PROVE  PastIs(memory')
<1>1. ASSUME NEW b \in {"K", "V"}, NEW p \in 0 .. g.start - 1, NEW c \in 0 .. DimKv - 1
      PROVE  memory'[Cache(b, p, c)] = memory[Cache(b, p, c)]
  <2>1. p \in Nat /\ p \in Positions
    BY Widths DEF Positions, LayerMemory
  <2>2. Cache(b, p, c) \in DOMAIN memory
    BY <2>1, CellsExist DEF LayerMemory
  <2>3. QED
    BY <2>2 DEF Effect, LeavesPast
<1>2. QED
  BY <1>1 DEF PastIs

\* The same for an area of the scratch.
LEMMA TempKept ==
  ASSUME LayerMemory, NEW k, NEW n, Effect(k, n), NEW lo \in Nat, NEW hi \in Nat,
         LeavesTemp(k, lo, hi), NEW o \in Nat, NEW w \in Nat, lo <= o, o + w <= hi, hi <= Stride,
         NEW what, TempIs(memory, o, w, what)
  PROVE  TempIs(memory', o, w, what)
<1>1. ASSUME NEW t \in Tokens, NEW i \in 0 .. w - 1
      PROVE  memory'[Temp(t, o + i)] = Val(what, t, i)
  <2>1. /\ t \in Nat /\ o + i \in lo .. hi - 1 /\ o + i \in 0 .. Stride - 1
        /\ memory[Temp(t, o + i)] = Val(what, t, i)
    BY Widths DEF TempIs, Tokens, LayerMemory
  <2>2. Temp(t, o + i) \in DOMAIN memory
    BY <2>1, CellsExist DEF LayerMemory
  <2>3. QED
    BY <2>1, <2>2 DEF Effect, LeavesTemp
<1>2. QED
  BY <1>1 DEF TempIs

\* A store of the dispatch whose loads are what its value needs.
LEMMA ValueLands ==
  ASSUME NEW k, NEW n, Effect(k, n), NEW x \in 0 .. n - 1, NEW t \in Tokens,
         NEW cell \in DOMAIN memory, NEW value, NEW loads,
         Store(cell, value, loads) \in Kernel(k, x, t),
         loads \subseteq DOMAIN memory, Image(memory, loads) = Needs(value)
  PROVE  memory'[cell] = value
<1> DEFINE s == Store(cell, value, loads)
<1>1. s.cell = cell /\ Result(memory, s) = value
  BY StoreFields, Computed
<1> HIDE DEF s
<1>2. s \in Kernel(k, x, t)
  BY DEF s
<1>3. memory'[s.cell] = Result(memory, s)
  BY <1>1, <1>2 DEF Effect
<1>4. QED
  BY <1>1, <1>3

\* Images of unions.
LEMMA ImageOfUnion ==
  \A m, S, T : Image(m, S \cup T) = Image(m, S) \cup Image(m, T)
BY DEF Image

\* The image of one cell.
LEMMA ImageOfCell == \A m, c : Image(m, {c}) = {m[c]}
BY DEF Image

\* What is loaded is allocated.
LEMMA LoadsExist ==
  ASSUME LayerMemory, NEW t \in Tokens
  PROVE  /\ ActRow(t) \subseteq DOMAIN memory
         /\ \A o, n \in Nat : o + n <= Stride => TempRow(t, o, n) \subseteq DOMAIN memory
<1>1. ActRow(t) \subseteq DOMAIN memory
  BY CellsExist DEF ActRow, LayerMemory
<1>2. ASSUME NEW o \in Nat, NEW n \in Nat, o + n <= Stride, NEW i \in 0 .. n - 1
      PROVE  Temp(t, o + i) \in DOMAIN memory
  <2>1. o + i \in 0 .. Stride - 1
    BY <1>2, Widths DEF LayerMemory
  <2>2. QED
    BY <2>1, CellsExist DEF LayerMemory
<1>3. QED
  BY <1>1, <1>2 DEF TempRow

-----------------------------------------------------------------------------
(* AttnNorm.                                                               *)

\* The stores of AttnNorm: the norm, twice in a model without a gate.
LEMMA NormStores ==
  ASSUME g \in Geometries, NEW x \in Nat, NEW t \in Nat, NEW s \in AttnNorm(x, t)
  PROVE  /\ x \in Rows /\ t \in Tokens /\ s.loads = ActRow(t)
         /\ \E o \in {0, FfnOffset} : /\ o = FfnOffset => ~g.gated
                                      /\ o + x \in 0 .. Stride - 1
                                      /\ s = Store(Temp(t, o + x), Val("norm", t, x), ActRow(t))
<1>1. x < g.dim /\ t < g.batch
  BY DEF AttnNorm, Row
<1>2. x \in Rows /\ t \in Tokens
  BY <1>1, Widths DEF Rows, Tokens
<1>3. PICK o \in {0} \cup (IF g.gated THEN {} ELSE {FfnOffset}) :
        s = Store(Temp(t, o + x), Val("norm", t, x), ActRow(t))
  BY <1>1 DEF AttnNorm, Row
<1>4. o \in {0, FfnOffset} /\ (o = FfnOffset => ~g.gated) /\ o + x \in 0 .. Stride - 1
  BY <1>2, <1>3, Widths DEF Rows
<1>5. QED
  BY <1>2, <1>3, <1>4, StoreFields

\* The invocations of AttnNorm are apart and stay in the scratch.
LEMMA NormApart ==
  ASSUME g \in Geometries
  PROVE  Apart("AttnNorm") /\ InScratch("AttnNorm", 0, Stride)
<1>1. ASSUME NEW x \in Nat, NEW y \in Nat, NEW t \in Nat, NEW u \in Nat,
             NEW a \in AttnNorm(x, t), NEW b \in AttnNorm(y, u)
      PROVE  (a.cell = b.cell => a = b) /\ a.cell \notin b.loads
  <2>1. /\ x \in Rows /\ t \in Tokens /\ y \in Rows /\ u \in Tokens /\ b.loads = ActRow(u)
    BY NormStores
  <2>2. PICK o \in {0, FfnOffset} :
          /\ o = FfnOffset => ~g.gated
          /\ o + x \in 0 .. Stride - 1
          /\ a = Store(Temp(t, o + x), Val("norm", t, x), ActRow(t))
    BY NormStores
  <2>3. PICK e \in {0, FfnOffset} :
          /\ e = FfnOffset => ~g.gated
          /\ e + y \in 0 .. Stride - 1
          /\ b = Store(Temp(u, e + y), Val("norm", u, y), ActRow(u))
    BY NormStores
  <2>4. a.cell = Temp(t, o + x) /\ b.cell = Temp(u, e + y)
    BY <2>2, <2>3, StoreFields
  <2>5. ASSUME a.cell = b.cell PROVE a = b
    <3>1. t = u /\ o + x = e + y
      BY <2>2, <2>3, <2>4, <2>5, CellsAreUnique
    <3>2. o = e /\ x = y
      BY <2>1, <2>2, <2>3, <3>1, Widths DEF Rows
    <3>3. QED
      BY <2>2, <2>3, <3>1, <3>2
  <2>6. a.cell \notin b.loads
    BY <2>1, <2>4, CellsAreUnique DEF ActRow
  <2>7. QED
    BY <2>5, <2>6
<1>2. ASSUME NEW x \in Nat, NEW t \in Nat, NEW s \in AttnNorm(x, t)
      PROVE  \E u \in Nat, i \in 0 .. Stride - 1 : s.cell = Temp(u, i)
  <2>1. PICK o \in {0, FfnOffset} : /\ o + x \in 0 .. Stride - 1
                                    /\ s = Store(Temp(t, o + x), Val("norm", t, x), ActRow(t))
    BY NormStores
  <2>2. s.cell = Temp(t, o + x)
    BY <2>1, StoreFields
  <2>3. QED
    BY <2>1, <2>2
<1>3. Apart("AttnNorm")
  BY <1>1, KernelsAre DEF Apart
<1>4. InScratch("AttnNorm", 0, Stride)
  BY <1>2, KernelsAre DEF InScratch
<1>5. QED
  BY <1>3, <1>4

\* AttnNorm leaves the norm at the start of each token's scratch and, without a
\* gate, behind the FFN's rows.
LEMMA NormRuns ==
  ASSUME LayerMemory, ActIs(memory, "x"), PastIs(memory), NEW o, Runs(o, "AttnNorm", g.dim)
  PROVE  /\ DOMAIN memory' = DOMAIN memory /\ PastIs(memory')
         /\ ActIs(memory', "x") /\ TempIs(memory', 0, g.dim, "norm")
         /\ ~g.gated => TempIs(memory', FfnOffset, g.dim, "norm")
<1>0. g \in Geometries /\ g.dim \in Nat /\ Stride \in Nat
  BY Widths DEF LayerMemory
<1>1. Effect("AttnNorm", g.dim)
  BY <1>0, NormApart, RunsLeave
<1>2. LeavesAct("AttnNorm") /\ LeavesCaches("AttnNorm")
  BY <1>0, NormApart, ScratchFrame
<1>3. ASSUME NEW t \in Tokens, NEW i \in Rows, NEW e \in {0, FfnOffset},
             e = FfnOffset => ~g.gated
      PROVE  memory'[Temp(t, e + i)] = Val("norm", t, i)
  <2>1. t \in Nat /\ t < g.batch /\ i \in Nat /\ i < g.dim /\ i \in 0 .. g.dim - 1
    BY <1>0, Widths DEF Tokens, Rows
  <2>2. Store(Temp(t, e + i), Val("norm", t, i), ActRow(t)) \in Kernel("AttnNorm", i, t)
    BY <1>3, <2>1, KernelsAre DEF AttnNorm, Row
  <2>3. e + i \in 0 .. Stride - 1
    BY <1>0, <1>3, <2>1, Widths
  <2>4. Temp(t, e + i) \in DOMAIN memory
    BY <2>3, CellsExist DEF LayerMemory
  <2>5. ActRow(t) \subseteq DOMAIN memory
    BY LoadsExist
  <2>6. Image(memory, ActRow(t)) = Needs(Val("norm", t, i))
    BY RowLoads, NeedsOf
  <2>7. QED
    BY <1>1, <2>1, <2>2, <2>4, <2>5, <2>6, ValueLands
<1>4. TempIs(memory', 0, g.dim, "norm")
  BY <1>0, <1>3, Widths DEF TempIs, Rows
<1>5. ~g.gated => TempIs(memory', FfnOffset, g.dim, "norm")
  BY <1>3 DEF TempIs, Rows
<1>6. ActIs(memory', "x") /\ PastIs(memory')
  BY <1>1, <1>2, ActKept, CacheKept
<1>7. QED
  BY <1>1, <1>4, <1>5, <1>6 DEF Effect

-----------------------------------------------------------------------------
(* Qkv.                                                                    *)

\* The stores of Qkv: an element of the query, of the key or of the value.
LEMMA QkvStores ==
  ASSUME g \in Geometries, NEW x \in Nat, NEW t \in Nat, NEW s \in Qkv(x, t)
  PROVE  /\ t \in Tokens /\ s.loads = TempRow(t, 0, g.dim)
         /\ \/ /\ x \in 0 .. DimQ - 1
               /\ s = Store(Temp(t, QueryOffset + x), Val("q", t, x), TempRow(t, 0, g.dim))
            \/ \E c \in 0 .. DimKv - 1 :
                 /\ x = DimQ + c
                 /\ s = Store(Cache("K", g.start + t, c), Val("k", g.start + t, c),
                              TempRow(t, 0, g.dim))
            \/ \E c \in 0 .. DimKv - 1 :
                 /\ x = DimQ + DimKv + c
                 /\ s = Store(Cache("V", g.start + t, c), Val("v", g.start + t, c),
                              TempRow(t, 0, g.dim))
<1>0. DimQ \in Nat /\ DimKv \in Nat /\ g.batch \in Nat
  BY Widths
<1>1. x < DimQ + 2 * DimKv /\ t < g.batch
  BY <1>0 DEF Qkv
<1>2. t \in Tokens
  BY <1>0, <1>1 DEF Tokens
<1>3. CASE x < DimQ
  <2>1. s = Store(Temp(t, QueryOffset + x), Val("q", t, x), TempRow(t, 0, g.dim))
    BY <1>0, <1>1, <1>3 DEF Qkv
  <2>2. QED
    BY <1>0, <1>2, <1>3, <2>1, StoreFields
<1>4. CASE x >= DimQ /\ x < DimQ + DimKv
  <2> DEFINE c == x - DimQ
  <2>1. c \in 0 .. DimKv - 1 /\ x = DimQ + c
    BY <1>0, <1>4
  <2>2. s = Store(Cache("K", g.start + t, c), Val("k", g.start + t, c), TempRow(t, 0, g.dim))
    BY <1>0, <1>1, <1>4 DEF Qkv
  <2> HIDE DEF c
  <2>3. QED
    BY <1>2, <2>1, <2>2, StoreFields
<1>5. CASE x >= DimQ + DimKv
  <2> DEFINE c == x - DimQ - DimKv
  <2>1. c \in 0 .. DimKv - 1 /\ x = DimQ + DimKv + c
    BY <1>0, <1>1, <1>5
  <2>2. s = Store(Cache("V", g.start + t, c), Val("v", g.start + t, c), TempRow(t, 0, g.dim))
    BY <1>0, <1>1, <1>5 DEF Qkv
  <2> HIDE DEF c
  <2>3. QED
    BY <1>2, <2>1, <2>2, StoreFields
<1>6. QED
  BY <1>0, <1>3, <1>4, <1>5

\* The invocations of Qkv are apart: the query is behind the norm, whatever the
\* widths.
LEMMA QkvApart ==
  ASSUME g \in Geometries
  PROVE  /\ Apart("Qkv") /\ LeavesAct("Qkv") /\ LeavesPast("Qkv")
         /\ LeavesTemp("Qkv", QueryOffset + DimQ, Stride)
<1> DEFINE IsQuery(s, t, i) ==
             /\ i \in 0 .. DimQ - 1
             /\ s = Store(Temp(t, QueryOffset + i), Val("q", t, i), TempRow(t, 0, g.dim))
           IsKey(s, t, c) ==
             /\ c \in 0 .. DimKv - 1
             /\ s = Store(Cache("K", g.start + t, c), Val("k", g.start + t, c),
                          TempRow(t, 0, g.dim))
           IsValue(s, t, c) ==
             /\ c \in 0 .. DimKv - 1
             /\ s = Store(Cache("V", g.start + t, c), Val("v", g.start + t, c),
                          TempRow(t, 0, g.dim))
<1>0. /\ DimQ \in Nat /\ DimKv \in Nat /\ g.batch \in Nat /\ g.start \in Nat
      /\ g.dim \in Nat /\ QueryOffset \in Nat /\ g.dim <= QueryOffset
      /\ Stride \in Nat /\ QueryOffset + DimQ <= Stride
  BY Widths
<1>1. ASSUME NEW x \in Nat, NEW t \in Nat, NEW s \in Qkv(x, t)
      PROVE  \E i : IsQuery(s, t, i) \/ IsKey(s, t, i) \/ IsValue(s, t, i)
  BY QkvStores
<1>2. \A s, t, i : IsQuery(s, t, i) => s.cell = Temp(t, QueryOffset + i) /\ i \in 0 .. DimQ - 1
  BY StoreFields
<1>3. \A s, t, i : IsKey(s, t, i) => s.cell = Cache("K", g.start + t, i) /\ i \in 0 .. DimKv - 1
  BY StoreFields
<1>4. \A s, t, i : IsValue(s, t, i) => s.cell = Cache("V", g.start + t, i) /\ i \in 0 .. DimKv - 1
  BY StoreFields
<1>5. \A a, b, t, i : /\ IsQuery(a, t, i) /\ IsQuery(b, t, i) => a = b
                      /\ IsKey(a, t, i) /\ IsKey(b, t, i) => a = b
                      /\ IsValue(a, t, i) /\ IsValue(b, t, i) => a = b
  OBVIOUS
<1> HIDE DEF IsQuery, IsKey, IsValue
<1>6. \A i \in 0 .. DimQ - 1 : QueryOffset + i \in 0 .. Stride - 1
  BY <1>0
<1>7. \A t \in Nat : g.start + t \in Nat
  BY <1>0
<1>8. ASSUME NEW x \in Nat, NEW y \in Nat, NEW t \in Nat, NEW u \in Nat,
             NEW a \in Qkv(x, t), NEW b \in Qkv(y, u), a.cell = b.cell
      PROVE  a = b
  <2>1. PICK i, j : (IsQuery(a, t, i) \/ IsKey(a, t, i) \/ IsValue(a, t, i))
                    /\ (IsQuery(b, u, j) \/ IsKey(b, u, j) \/ IsValue(b, u, j))
    BY <1>1
  <2>2. \/ IsQuery(a, t, i) /\ IsQuery(b, u, j)
        \/ IsKey(a, t, i) /\ IsKey(b, u, j)
        \/ IsValue(a, t, i) /\ IsValue(b, u, j)
    <3>1. ~(IsQuery(a, t, i) /\ IsKey(b, u, j)) /\ ~(IsQuery(a, t, i) /\ IsValue(b, u, j))
      BY <1>2, <1>3, <1>4, <1>8, BuffersAreApart
    <3>2. ~(IsKey(a, t, i) /\ IsQuery(b, u, j)) /\ ~(IsValue(a, t, i) /\ IsQuery(b, u, j))
      BY <1>2, <1>3, <1>4, <1>8, BuffersAreApart
    <3>3. ~(IsKey(a, t, i) /\ IsValue(b, u, j)) /\ ~(IsValue(a, t, i) /\ IsKey(b, u, j))
      BY <1>3, <1>4, <1>8, BuffersAreApart
    <3>4. CASE IsQuery(a, t, i)
      BY <2>1, <3>1, <3>4
    <3>5. CASE IsKey(a, t, i)
      BY <2>1, <3>2, <3>3, <3>5
    <3>6. CASE IsValue(a, t, i)
      BY <2>1, <3>2, <3>3, <3>6
    <3>7. QED
      BY <2>1, <3>4, <3>5, <3>6
  <2>3. CASE IsQuery(a, t, i) /\ IsQuery(b, u, j)
    <3>1. t = u /\ QueryOffset + i = QueryOffset + j
      BY <1>2, <1>6, <1>8, <2>3, TempIsUnique
    <3>2. i = j
      BY <1>0, <1>2, <2>3, <3>1
    <3>3. IsQuery(a, t, i) /\ IsQuery(b, t, i)
      BY <2>3, <3>1, <3>2
    <3>4. QED
      BY <1>5, <3>3
  <2>4. CASE IsKey(a, t, i) /\ IsKey(b, u, j)
    <3>1. g.start + t = g.start + u /\ i = j
      BY <1>3, <1>7, <1>8, <2>4, CacheIsUnique
    <3>2. t = u
      BY <1>0, <3>1
    <3>3. QED
      BY <1>5, <2>4, <3>1, <3>2
  <2>5. CASE IsValue(a, t, i) /\ IsValue(b, u, j)
    <3>1. g.start + t = g.start + u /\ i = j
      BY <1>4, <1>7, <1>8, <2>5, CacheIsUnique
    <3>2. t = u
      BY <1>0, <3>1
    <3>3. QED
      BY <1>5, <2>5, <3>1, <3>2
  <2>6. QED
    BY <2>2, <2>3, <2>4, <2>5
<1>9. ASSUME NEW x \in Nat, NEW t \in Nat, NEW s \in Qkv(x, t),
             NEW u \in Nat, NEW i \in 0 .. Stride - 1,
             i < QueryOffset \/ i >= QueryOffset + DimQ
      PROVE  s.cell # Temp(u, i)
  <2>1. \A j \in 0 .. DimQ - 1 : QueryOffset + j # i
    BY <1>0, <1>9
  <2>2. \A j \in 0 .. DimQ - 1 : Temp(t, QueryOffset + j) # Temp(u, i)
    BY <1>6, <2>1, TempIsUnique
  <2>3. QED
    BY <1>1, <1>2, <1>3, <1>4, <2>2, BuffersAreApart
<1>10. ASSUME NEW x \in Nat, NEW y \in Nat, NEW t \in Nat, NEW u \in Nat,
              NEW a \in Qkv(x, t), NEW b \in Qkv(y, u)
       PROVE  a.cell \notin b.loads
  <2>1. b.loads = {Temp(u, 0 + i) : i \in 0 .. g.dim - 1}
    BY QkvStores DEF TempRow
  <2>2. ASSUME NEW i \in 0 .. g.dim - 1 PROVE a.cell # Temp(u, 0 + i)
    <3>1. 0 + i \in 0 .. Stride - 1 /\ 0 + i < QueryOffset
      BY <1>0
    <3>2. QED
      BY <1>9, <3>1
  <2>3. QED
    BY <2>1, <2>2
<1>11. Apart("Qkv")
  BY <1>8, <1>10, KernelsAre DEF Apart
<1>12. LeavesAct("Qkv")
  <2>1. ASSUME NEW u \in Nat, NEW i \in Rows, NEW x \in Nat, NEW t \in Nat, NEW s \in Qkv(x, t)
        PROVE  s.cell # Act(u, i)
    BY <1>1, <1>2, <1>3, <1>4, BuffersAreApart
  <2>2. QED
    BY <2>1, KernelsAre DEF LeavesAct, Untouched
<1>13. LeavesPast("Qkv")
  <2>1. ASSUME NEW b \in {"K", "V"}, NEW p \in 0 .. g.start - 1, NEW c \in 0 .. DimKv - 1,
               NEW x \in Nat, NEW t \in Nat, NEW s \in Qkv(x, t)
        PROVE  s.cell # Cache(b, p, c)
    <3>1. p \in Nat /\ g.start + t # p /\ g.start + t \in Nat
      BY <1>0
    <3>2. \A i \in 0 .. DimKv - 1 : /\ Cache("K", g.start + t, i) # Cache(b, p, c)
                                    /\ Cache("V", g.start + t, i) # Cache(b, p, c)
      BY <3>1, CacheIsUnique
    <3>3. \A v, i : Temp(v, i) # Cache(b, p, c)
      <4>1. b = "K" \/ b = "V"
        OBVIOUS
      <4>2. QED
        BY <4>1, BuffersAreApart
    <3>4. QED
      BY <1>1, <1>2, <1>3, <1>4, <3>2, <3>3
  <2>2. QED
    BY <2>1, KernelsAre DEF LeavesPast, Untouched
<1>14. LeavesTemp("Qkv", QueryOffset + DimQ, Stride)
  <2>1. ASSUME NEW u \in Nat, NEW i \in QueryOffset + DimQ .. Stride - 1,
               NEW x \in Nat, NEW t \in Nat, NEW s \in Qkv(x, t)
        PROVE  s.cell # Temp(u, i)
    <3>1. i \in 0 .. Stride - 1 /\ i >= QueryOffset + DimQ
      BY <1>0
    <3>2. QED
      BY <1>9, <3>1
  <2>2. QED
    BY <2>1, KernelsAre DEF LeavesTemp, Untouched
<1>15. QED
  BY <1>11, <1>12, <1>13, <1>14

\* Qkv leaves the queries of the call in the scratch and its keys and values in
\* the caches.
LEMMA QkvRuns ==
  ASSUME LayerMemory, ActIs(memory, "x"), PastIs(memory), TempIs(memory, 0, g.dim, "norm"),
         ~g.gated => TempIs(memory, FfnOffset, g.dim, "norm"),
         Effect("Qkv", DimQ + 2 * DimKv)
  PROVE  /\ DOMAIN memory' = DOMAIN memory /\ PastIs(memory') /\ ActIs(memory', "x")
         /\ TempIs(memory', QueryOffset, DimQ, "q")
         /\ CacheIs(memory', "K", "k") /\ CacheIs(memory', "V", "v")
         /\ ~g.gated => TempIs(memory', FfnOffset, g.dim, "norm")
<1>0. /\ g \in Geometries /\ g.dim \in Nat /\ Stride \in Nat /\ DimQ \in Nat /\ DimKv \in Nat
      /\ QueryOffset \in Nat /\ QueryOffset + DimQ <= Stride /\ FfnOffset \in Nat
      /\ FfnOffset + g.dim <= Stride /\ g.batch \in Nat /\ g.start \in Nat
      /\ g.start + g.batch <= MaxSeq /\ MaxSeq \in Nat /\ g.dim <= Stride
  BY Widths DEF LayerMemory
<1>1. Effect("Qkv", DimQ + 2 * DimKv)
  OBVIOUS
<1>2. ASSUME NEW t \in Tokens
      PROVE  /\ t \in Nat /\ t < g.batch /\ g.start + t \in Positions
             /\ TempRow(t, 0, g.dim) \subseteq DOMAIN memory
             /\ Image(memory, TempRow(t, 0, g.dim)) = OfRow("norm", t)
  <2>1. t \in Nat /\ t < g.batch /\ g.start + t \in Positions
    BY <1>0 DEF Tokens, Positions
  <2>2. Image(memory, TempRow(t, 0, g.dim)) = OfRow("norm", t)
    BY AreaLoads DEF OfRow, Rows
  <2>3. TempRow(t, 0, g.dim) \subseteq DOMAIN memory
    BY <1>0, LoadsExist
  <2>4. QED
    BY <2>1, <2>2, <2>3
<1>3. TempIs(memory', QueryOffset, DimQ, "q")
  <2>1. ASSUME NEW t \in Tokens, NEW i \in 0 .. DimQ - 1
        PROVE  memory'[Temp(t, QueryOffset + i)] = Val("q", t, i)
    <3>1. /\ i < DimQ /\ i \in 0 .. (DimQ + 2 * DimKv) - 1 /\ ~(i >= DimQ + 2 * DimKv)
          /\ QueryOffset + i \in 0 .. Stride - 1 /\ ~(t >= g.batch)
      BY <1>0, <1>2
    <3>2. Store(Temp(t, QueryOffset + i), Val("q", t, i), TempRow(t, 0, g.dim))
            \in Kernel("Qkv", i, t)
      BY <3>1, KernelsAre DEF Qkv
    <3>3. Temp(t, QueryOffset + i) \in DOMAIN memory
      BY <3>1, CellsExist DEF LayerMemory
    <3>4. Image(memory, TempRow(t, 0, g.dim)) = Needs(Val("q", t, i))
      BY <1>2, NeedsOf
    <3>5. QED
      BY <1>1, <1>2, <3>1, <3>2, <3>3, <3>4, ValueLands
  <2>2. QED
    BY <2>1 DEF TempIs
<1>4. CacheIs(memory', "K", "k")
  <2>1. ASSUME NEW t \in Tokens, NEW c \in 0 .. DimKv - 1
        PROVE  memory'[Cache("K", g.start + t, c)] = Val("k", g.start + t, c)
    <3> DEFINE x == DimQ + c
               p == g.start + t
    <3>1. /\ x \in 0 .. (DimQ + 2 * DimKv) - 1 /\ ~(x >= DimQ + 2 * DimKv) /\ ~(x < DimQ)
          /\ x < DimQ + DimKv /\ ~(t >= g.batch) /\ x - DimQ = c
      BY <1>0, <1>2
    <3>2. Store(Cache("K", p, c), Val("k", p, c), TempRow(t, 0, g.dim)) \in Kernel("Qkv", x, t)
      <4> HIDE DEF x
      <4>1. QED
        BY <3>1, KernelsAre DEF Qkv
    <3>3. Cache("K", p, c) \in DOMAIN memory
      BY <1>2, CellsExist DEF LayerMemory
    <3>4. Image(memory, TempRow(t, 0, g.dim)) = Needs(Val("k", p, c))
      <4>1. p - g.start = t
        BY <1>0, <1>2
      <4> HIDE DEF p
      <4>2. QED
        BY <1>2, <4>1, NeedsOf
    <3> HIDE DEF x, p
    <3>5. memory'[Cache("K", p, c)] = Val("k", p, c)
      BY <1>1, <1>2, <3>1, <3>2, <3>3, <3>4, ValueLands
    <3>6. QED
      BY <3>5 DEF p
  <2>2. QED
    BY <2>1 DEF CacheIs
<1>5. CacheIs(memory', "V", "v")
  <2>1. ASSUME NEW t \in Tokens, NEW c \in 0 .. DimKv - 1
        PROVE  memory'[Cache("V", g.start + t, c)] = Val("v", g.start + t, c)
    <3> DEFINE x == DimQ + DimKv + c
               p == g.start + t
    <3>1. /\ x \in 0 .. (DimQ + 2 * DimKv) - 1 /\ ~(x >= DimQ + 2 * DimKv) /\ ~(x < DimQ)
          /\ ~(x < DimQ + DimKv) /\ ~(t >= g.batch) /\ x - DimQ - DimKv = c
      BY <1>0, <1>2
    <3>2. Store(Cache("V", p, c), Val("v", p, c), TempRow(t, 0, g.dim)) \in Kernel("Qkv", x, t)
      <4> HIDE DEF x
      <4>1. QED
        BY <3>1, KernelsAre DEF Qkv
    <3>3. Cache("V", p, c) \in DOMAIN memory
      BY <1>2, CellsExist DEF LayerMemory
    <3>4. Image(memory, TempRow(t, 0, g.dim)) = Needs(Val("v", p, c))
      <4>1. p - g.start = t
        BY <1>0, <1>2
      <4> HIDE DEF p
      <4>2. QED
        BY <1>2, <4>1, NeedsOf
    <3> HIDE DEF x, p
    <3>5. memory'[Cache("V", p, c)] = Val("v", p, c)
      BY <1>1, <1>2, <3>1, <3>2, <3>3, <3>4, ValueLands
    <3>6. QED
      BY <3>5 DEF p
  <2>2. QED
    BY <2>1 DEF CacheIs
<1>6. ActIs(memory', "x") /\ PastIs(memory')
  BY <1>0, <1>1, QkvApart, ActKept, PastKept
<1>7. ~g.gated => TempIs(memory', FfnOffset, g.dim, "norm")
  <2>1. HAVE ~g.gated
  <2>2. QueryOffset + DimQ <= FfnOffset /\ QueryOffset + DimQ \in Nat
    BY <1>0, <2>1, Widths
  <2>3. QED
    BY <1>0, <1>1, <2>1, <2>2, QkvApart, TempKept
<1>8. QED
  BY <1>1, <1>3, <1>4, <1>5, <1>6, <1>7 DEF Effect

-----------------------------------------------------------------------------
(* QkNorm.                                                                 *)

\* A head of the queries is a part of the query's area.
LEMMA QueryColumns ==
  ASSUME g \in Geometries
  PROVE  /\ \A h \in 0 .. g.heads - 1, d \in 0 .. g.headDim - 1 :
              /\ QueryOffset + h * g.headDim + d = QueryOffset + (h * g.headDim + d)
              /\ QueryOffset + h * g.headDim + d \in QueryOffset .. QueryOffset + DimQ - 1
              /\ QueryOffset + h * g.headDim + d \in 0 .. Stride - 1
         /\ \A h, k \in 0 .. g.heads - 1, d, e \in 0 .. g.headDim - 1 :
              QueryOffset + h * g.headDim + d = QueryOffset + k * g.headDim + e
                <=> h = k /\ d = e
<1>1. /\ g.heads \in Nat /\ g.headDim \in Nat /\ QueryOffset \in Nat /\ DimQ \in Nat
      /\ Stride \in Nat /\ QueryOffset + DimQ <= Stride
  BY Widths
<1>2. ASSUME NEW h \in 0 .. g.heads - 1, NEW d \in 0 .. g.headDim - 1
      PROVE  /\ QueryOffset + h * g.headDim + d = QueryOffset + (h * g.headDim + d)
             /\ QueryOffset + h * g.headDim + d \in QueryOffset .. QueryOffset + DimQ - 1
             /\ QueryOffset + h * g.headDim + d \in 0 .. Stride - 1
             /\ h * g.headDim \in Nat
  <2>1. h \in Nat /\ d \in Nat
    BY <1>1
  <2>2. h * g.headDim \in Nat
    BY <1>1, <2>1, Products
  <2>3. h * g.headDim + d \in 0 .. DimQ - 1
    BY HeadColumns
  <2>4. QED
    BY <1>1, <2>1, <2>2, <2>3
<1>3. ASSUME NEW h \in 0 .. g.heads - 1, NEW d \in 0 .. g.headDim - 1,
             NEW k \in 0 .. g.heads - 1, NEW e \in 0 .. g.headDim - 1
      PROVE  QueryOffset + h * g.headDim + d = QueryOffset + k * g.headDim + e
               <=> h = k /\ d = e
  <2>1. h * g.headDim \in Nat /\ k * g.headDim \in Nat /\ d \in Nat /\ e \in Nat
    BY <1>1, <1>2
  <2>2. QueryOffset + h * g.headDim + d = QueryOffset + k * g.headDim + e
          <=> h * g.headDim + d = k * g.headDim + e
    <3>1. \A a, b \in Nat : QueryOffset + a + d = QueryOffset + b + e <=> a + d = b + e
      BY <1>1, <2>1
    <3>2. QED
      BY <2>1, <3>1
  <2>3. h \in Nat /\ k \in Nat
    BY <1>1
  <2>4. h * g.headDim + d = k * g.headDim + e <=> h = k /\ d = e
    BY <2>3, HeadColumns
  <2>5. QED
    BY <2>2, <2>4
<1>4. QED
  BY <1>2, <1>3

\* The stores of QkNorm: an element of a head of the query or of the key.
LEMMA QkNormStores ==
  ASSUME g \in Geometries, NEW x \in Nat, NEW t \in Nat, NEW s \in QkNorm(x, t)
  PROVE  /\ t \in Tokens /\ g.qkNorm
         /\ \/ /\ x \in 0 .. g.heads - 1
               /\ \E d \in 0 .. g.headDim - 1 :
                    s = Store(Temp(t, QueryOffset + x * g.headDim + d),
                              Val("qn", t, x * g.headDim + d), QHead(t, x))
            \/ \E h \in 0 .. g.kvHeads - 1, d \in 0 .. g.headDim - 1 :
                 /\ x = g.heads + h
                 /\ s = Store(Cache("K", g.start + t, h * g.headDim + d),
                              Val("kn", g.start + t, h * g.headDim + d),
                              CacheHead("K", g.start + t, h))
<1>0. g.heads \in Nat /\ g.kvHeads \in Nat /\ g.batch \in Nat
  BY Widths
<1>1. t < g.batch /\ g.qkNorm /\ x < g.heads + g.kvHeads
  BY <1>0 DEF QkNorm
<1>2. t \in Tokens
  BY <1>0, <1>1 DEF Tokens
<1>3. CASE x < g.heads
  <2>1. \E d \in 0 .. g.headDim - 1 :
          s = Store(Temp(t, QueryOffset + x * g.headDim + d),
                    Val("qn", t, x * g.headDim + d), QHead(t, x))
    BY <1>0, <1>1, <1>3 DEF QkNorm
  <2>2. QED
    BY <1>0, <1>1, <1>2, <1>3, <2>1
<1>4. CASE x >= g.heads
  <2> DEFINE h == x - g.heads
  <2>1. h \in 0 .. g.kvHeads - 1 /\ x = g.heads + h
    BY <1>0, <1>1, <1>4
  <2>2. \E d \in 0 .. g.headDim - 1 :
          s = Store(Cache("K", g.start + t, h * g.headDim + d),
                    Val("kn", g.start + t, h * g.headDim + d),
                    CacheHead("K", g.start + t, h))
    BY <1>0, <1>1, <1>4 DEF QkNorm
  <2> HIDE DEF h
  <2>3. QED
    BY <1>1, <1>2, <2>1, <2>2
<1>5. QED
  BY <1>0, <1>3, <1>4

\* The invocations of QkNorm are apart: each has a head of its own.
LEMMA QkNormApart ==
  ASSUME g \in Geometries
  PROVE  /\ Apart("QkNorm") /\ LeavesAct("QkNorm") /\ LeavesPast("QkNorm")
         /\ LeavesTemp("QkNorm", QueryOffset + DimQ, Stride)
         /\ \A p \in Nat, c \in 0 .. DimKv - 1 : Untouched("QkNorm", Cache("V", p, c))
<1> DEFINE IsQuery(s, t, h, d) ==
             /\ h \in 0 .. g.heads - 1 /\ d \in 0 .. g.headDim - 1
             /\ s = Store(Temp(t, QueryOffset + h * g.headDim + d),
                          Val("qn", t, h * g.headDim + d), QHead(t, h))
           IsKey(s, t, h, d) ==
             /\ h \in 0 .. g.kvHeads - 1 /\ d \in 0 .. g.headDim - 1
             /\ s = Store(Cache("K", g.start + t, h * g.headDim + d),
                          Val("kn", g.start + t, h * g.headDim + d),
                          CacheHead("K", g.start + t, h))
<1>0. /\ DimQ \in Nat /\ DimKv \in Nat /\ g.batch \in Nat /\ g.start \in Nat
      /\ g.dim \in Nat /\ QueryOffset \in Nat /\ g.heads \in Nat /\ g.kvHeads \in Nat
      /\ Stride \in Nat /\ QueryOffset + DimQ <= Stride /\ g.headDim \in Nat
  BY Widths
<1>1. ASSUME NEW x \in Nat, NEW t \in Nat, NEW s \in QkNorm(x, t)
      PROVE  \E h, d : \/ x = h /\ IsQuery(s, t, h, d)
                       \/ x = g.heads + h /\ IsKey(s, t, h, d)
  BY QkNormStores
<1>2. \A s, t, h, d : IsQuery(s, t, h, d) =>
        /\ s.cell = Temp(t, QueryOffset + h * g.headDim + d) /\ s.loads = QHead(t, h)
        /\ h \in 0 .. g.heads - 1 /\ d \in 0 .. g.headDim - 1
  BY StoreFields
<1>3. \A s, t, h, d : IsKey(s, t, h, d) =>
        /\ s.cell = Cache("K", g.start + t, h * g.headDim + d)
        /\ s.loads = CacheHead("K", g.start + t, h)
        /\ h \in 0 .. g.kvHeads - 1 /\ d \in 0 .. g.headDim - 1
  BY StoreFields
<1>4. \A a, b, t, h, d : /\ IsQuery(a, t, h, d) /\ IsQuery(b, t, h, d) => a = b
                         /\ IsKey(a, t, h, d) /\ IsKey(b, t, h, d) => a = b
  OBVIOUS
<1> HIDE DEF IsQuery, IsKey
<1>5. \A t \in Nat : g.start + t \in Nat
  BY <1>0
<1>6. ASSUME NEW t \in Nat, NEW u \in Nat,
             NEW h \in 0 .. g.heads - 1, NEW d \in 0 .. g.headDim - 1,
             NEW k \in 0 .. g.heads - 1, NEW e \in 0 .. g.headDim - 1,
             Temp(t, QueryOffset + h * g.headDim + d) = Temp(u, QueryOffset + k * g.headDim + e)
      PROVE  t = u /\ h = k /\ d = e
  <2>1. /\ QueryOffset + h * g.headDim + d \in 0 .. Stride - 1
        /\ QueryOffset + k * g.headDim + e \in 0 .. Stride - 1
    BY QueryColumns
  <2>2. t = u /\ QueryOffset + h * g.headDim + d = QueryOffset + k * g.headDim + e
    BY <1>6, <2>1, TempIsUnique
  <2>3. QED
    BY <2>2, QueryColumns
<1>7. ASSUME NEW t \in Nat, NEW u \in Nat,
             NEW h \in 0 .. g.kvHeads - 1, NEW d \in 0 .. g.headDim - 1,
             NEW k \in 0 .. g.kvHeads - 1, NEW e \in 0 .. g.headDim - 1,
             Cache("K", g.start + t, h * g.headDim + d) = Cache("K", g.start + u, k * g.headDim + e)
      PROVE  t = u /\ h = k /\ d = e
  <2>1. /\ h * g.headDim + d \in 0 .. DimKv - 1 /\ k * g.headDim + e \in 0 .. DimKv - 1
        /\ h \in Nat /\ k \in Nat
    <3>1. h \in Nat /\ k \in Nat
      BY <1>0
    <3>2. QED
      BY <3>1, HeadColumns
  <2>2. g.start + t = g.start + u /\ h * g.headDim + d = k * g.headDim + e
    BY <1>5, <1>7, <2>1, CacheIsUnique
  <2>3. t = u
    BY <1>0, <2>2
  <2>4. h = k /\ d = e
    BY <2>1, <2>2, HeadColumns
  <2>5. QED
    BY <2>3, <2>4
<1>8. ASSUME NEW x \in Nat, NEW y \in Nat, NEW t \in Nat, NEW u \in Nat,
             NEW a \in QkNorm(x, t), NEW b \in QkNorm(y, u)
      PROVE  (a.cell = b.cell => a = b) /\ (x # y \/ t # u => a.cell \notin b.loads)
  <2>1. PICK h, d : \/ x = h /\ IsQuery(a, t, h, d)
                    \/ x = g.heads + h /\ IsKey(a, t, h, d)
    BY <1>1
  <2>2. PICK k, e : \/ y = k /\ IsQuery(b, u, k, e)
                    \/ y = g.heads + k /\ IsKey(b, u, k, e)
    BY <1>1
  <2>3. CASE x = h /\ IsQuery(a, t, h, d) /\ y = k /\ IsQuery(b, u, k, e)
    <3>1. a.cell = b.cell => IsQuery(b, t, h, d)
      BY <1>2, <1>6, <2>3
    <3>2. ASSUME a.cell \in b.loads PROVE t = u /\ h = k
      <4>1. PICK f \in 0 .. g.headDim - 1 : a.cell = Temp(u, QueryOffset + k * g.headDim + f)
        BY <1>2, <2>3, <3>2 DEF QHead, TempRow
      <4>2. QED
        BY <1>2, <1>6, <2>3, <4>1
    <3>3. QED
      BY <1>4, <2>3, <3>1, <3>2
  <2>4. CASE x = g.heads + h /\ IsKey(a, t, h, d) /\ y = g.heads + k /\ IsKey(b, u, k, e)
    <3>1. a.cell = b.cell => IsKey(b, t, h, d)
      BY <1>3, <1>7, <2>4
    <3>2. ASSUME a.cell \in b.loads PROVE t = u /\ h = k
      <4>1. PICK f \in 0 .. g.headDim - 1 :
               a.cell = Cache("K", g.start + u, k * g.headDim + f)
        BY <1>3, <2>4, <3>2 DEF CacheHead
      <4>2. QED
        BY <1>3, <1>7, <2>4, <4>1
    <3>3. QED
      BY <1>4, <2>4, <3>1, <3>2
  <2>5. CASE IsQuery(a, t, h, d) /\ IsKey(b, u, k, e)
    <3>1. a.cell # b.cell
      BY <1>2, <1>3, <2>5, BuffersAreApart
    <3>2. a.cell \notin b.loads
      BY <1>2, <1>3, <2>5, BuffersAreApart DEF CacheHead
    <3>3. QED
      BY <3>1, <3>2
  <2>6. CASE IsKey(a, t, h, d) /\ IsQuery(b, u, k, e)
    <3>1. a.cell # b.cell
      BY <1>2, <1>3, <2>6, BuffersAreApart
    <3>2. a.cell \notin b.loads
      BY <1>2, <1>3, <2>6, BuffersAreApart DEF QHead, TempRow
    <3>3. QED
      BY <3>1, <3>2
  <2>7. QED
    BY <2>1, <2>2, <2>3, <2>4, <2>5, <2>6
<1>9. Apart("QkNorm")
  BY <1>8, KernelsAre DEF Apart
<1>10. LeavesAct("QkNorm")
  <2>1. ASSUME NEW u \in Nat, NEW i \in Rows, NEW x \in Nat, NEW t \in Nat, NEW s \in QkNorm(x, t)
        PROVE  s.cell # Act(u, i)
    BY <1>1, <1>2, <1>3, BuffersAreApart
  <2>2. QED
    BY <2>1, KernelsAre DEF LeavesAct, Untouched
<1>11. ASSUME NEW x \in Nat, NEW t \in Nat, NEW s \in QkNorm(x, t),
              NEW p \in Nat, NEW c \in 0 .. DimKv - 1
       PROVE  s.cell # Cache("V", p, c) /\ (p < g.start => s.cell # Cache("K", p, c))
  <2>1. PICK h, d : IsQuery(s, t, h, d) \/ IsKey(s, t, h, d)
    BY <1>1
  <2>2. CASE IsQuery(s, t, h, d)
    BY <1>2, <2>2, BuffersAreApart
  <2>3. CASE IsKey(s, t, h, d)
    <3>1. s.cell = Cache("K", g.start + t, h * g.headDim + d)
      BY <1>3, <2>3
    <3>2. h * g.headDim + d \in 0 .. DimKv - 1
      BY <1>3, <2>3, HeadColumns
    <3>3. p < g.start => g.start + t # p
      BY <1>0
    <3>4. QED
      BY <1>5, <3>1, <3>2, <3>3, CacheIsUnique, BuffersAreApart
  <2>4. QED
    BY <2>1, <2>2, <2>3
<1>12. LeavesPast("QkNorm")
  <2>1. ASSUME NEW b \in {"K", "V"}, NEW p \in 0 .. g.start - 1, NEW c \in 0 .. DimKv - 1,
               NEW x \in Nat, NEW t \in Nat, NEW s \in QkNorm(x, t)
        PROVE  s.cell # Cache(b, p, c)
    <3>1. p \in Nat /\ p < g.start
      BY <1>0
    <3>2. QED
      BY <1>11, <3>1
  <2>2. QED
    BY <2>1, KernelsAre DEF LeavesPast, Untouched
<1>13. ASSUME NEW p \in Nat, NEW c \in 0 .. DimKv - 1 PROVE Untouched("QkNorm", Cache("V", p, c))
  BY <1>11, KernelsAre DEF Untouched
<1>14. LeavesTemp("QkNorm", QueryOffset + DimQ, Stride)
  <2>1. ASSUME NEW u \in Nat, NEW i \in QueryOffset + DimQ .. Stride - 1,
               NEW x \in Nat, NEW t \in Nat, NEW s \in QkNorm(x, t)
        PROVE  s.cell # Temp(u, i)
    <3>1. PICK h, d : IsQuery(s, t, h, d) \/ IsKey(s, t, h, d)
      BY <1>1
    <3>2. CASE IsQuery(s, t, h, d)
      <4>1. s.cell = Temp(t, QueryOffset + h * g.headDim + d)
        BY <1>2, <3>2
      <4>2. /\ QueryOffset + h * g.headDim + d \in QueryOffset .. QueryOffset + DimQ - 1
            /\ QueryOffset + h * g.headDim + d \in 0 .. Stride - 1
        BY <1>2, <3>2, QueryColumns
      <4>3. i \in 0 .. Stride - 1 /\ \A j \in QueryOffset .. QueryOffset + DimQ - 1 : j # i
        BY <1>0
      <4>4. QED
        BY <4>1, <4>2, <4>3, TempIsUnique
    <3>3. CASE IsKey(s, t, h, d)
      BY <1>3, <3>3, BuffersAreApart
    <3>4. QED
      BY <3>1, <3>2, <3>3
  <2>2. QED
    BY <2>1, KernelsAre DEF LeavesTemp, Untouched
<1>15. QED
  BY <1>9, <1>10, <1>12, <1>13, <1>14

\* QkNorm leaves the queries and keys the attention reads.
LEMMA QkNormRuns ==
  ASSUME LayerMemory, ActIs(memory, "x"), PastIs(memory),
         TempIs(memory, QueryOffset, DimQ, "q"), CacheIs(memory, "K", "k"), CacheIs(memory, "V", "v"),
         ~g.gated => TempIs(memory, FfnOffset, g.dim, "norm"),
         NEW o, Runs(o, "QkNorm", g.heads + g.kvHeads)
  PROVE  /\ DOMAIN memory' = DOMAIN memory /\ PastIs(memory') /\ ActIs(memory', "x")
         /\ TempIs(memory', QueryOffset, DimQ, QName)
         /\ CacheIs(memory', "K", KName) /\ CacheIs(memory', "V", "v")
         /\ ~g.gated => TempIs(memory', FfnOffset, g.dim, "norm")
<1>0. /\ g \in Geometries /\ g.dim \in Nat /\ Stride \in Nat /\ DimQ \in Nat /\ DimKv \in Nat
      /\ QueryOffset \in Nat /\ QueryOffset + DimQ <= Stride /\ FfnOffset \in Nat
      /\ FfnOffset + g.dim <= Stride /\ g.batch \in Nat /\ g.start \in Nat
      /\ g.start + g.batch <= MaxSeq /\ MaxSeq \in Nat /\ g.heads \in Nat /\ g.kvHeads \in Nat
      /\ g.headDim \in Nat
  BY Widths DEF LayerMemory
<1>1. Effect("QkNorm", g.heads + g.kvHeads)
  BY <1>0, QkNormApart, RunsLeave
<1>2. ASSUME NEW t \in Tokens
      PROVE  t \in Nat /\ ~(t >= g.batch) /\ g.start + t \in Positions /\ g.start + t \in Nat
  BY <1>0 DEF Tokens, Positions
<1>3. ASSUME g.qkNorm
      PROVE  TempIs(memory', QueryOffset, DimQ, QName) /\ CacheIs(memory', "K", KName)
  <2>1. QName = "qn" /\ KName = "kn"
    BY <1>3 DEF QName, KName
  <2>2. ASSUME NEW t \in Tokens, NEW h \in 0 .. g.heads - 1, NEW d \in 0 .. g.headDim - 1
        PROVE  memory'[Temp(t, QueryOffset + (h * g.headDim + d))]
                 = Val("qn", t, h * g.headDim + d)
    <3> DEFINE c == h * g.headDim + d
    <3>1. /\ h \in 0 .. (g.heads + g.kvHeads) - 1 /\ ~(h >= g.heads + g.kvHeads) /\ h < g.heads
          /\ h \in Nat
      BY <1>0
    <3>2. /\ QueryOffset + h * g.headDim + d = QueryOffset + c
          /\ QueryOffset + h * g.headDim + d \in 0 .. Stride - 1
      BY <1>0, QueryColumns
    <3>3. Store(Temp(t, QueryOffset + h * g.headDim + d), Val("qn", t, h * g.headDim + d),
                QHead(t, h)) \in Kernel("QkNorm", h, t)
      BY <1>2, <1>3, <3>1, KernelsAre DEF QkNorm
    <3>4. c \div g.headDim = h
      BY <1>0, <3>1, HeadColumns
    <3> HIDE DEF c
    <3>5. Temp(t, QueryOffset + c) \in DOMAIN memory
      BY <3>2, CellsExist DEF LayerMemory
    <3>6. Store(Temp(t, QueryOffset + c), Val("qn", t, c), QHead(t, h)) \in Kernel("QkNorm", h, t)
      BY <3>2, <3>3 DEF c
    <3>7. QHead(t, h) \subseteq DOMAIN memory
      <4>1. ASSUME NEW e \in 0 .. g.headDim - 1
            PROVE  Temp(t, QueryOffset + h * g.headDim + e) \in DOMAIN memory
        BY <1>0, QueryColumns, CellsExist DEF LayerMemory
      <4>2. QED
        BY <4>1 DEF QHead, TempRow
    <3>8. Image(memory, QHead(t, h)) = Needs(Val("qn", t, c))
      BY <1>0, <3>4, QueryLoads, NeedsOf
    <3>9. memory'[Temp(t, QueryOffset + c)] = Val("qn", t, c)
      BY <1>1, <3>1, <3>5, <3>6, <3>7, <3>8, ValueLands
    <3>10. QED
      BY <3>9 DEF c
  <2>3. ASSUME NEW t \in Tokens, NEW h \in 0 .. g.kvHeads - 1, NEW d \in 0 .. g.headDim - 1
        PROVE  memory'[Cache("K", g.start + t, h * g.headDim + d)]
                 = Val("kn", g.start + t, h * g.headDim + d)
    <3> DEFINE x == g.heads + h
               c == h * g.headDim + d
               p == g.start + t
    <3>1. /\ x \in 0 .. (g.heads + g.kvHeads) - 1 /\ ~(x >= g.heads + g.kvHeads)
          /\ ~(x < g.heads) /\ x - g.heads = h /\ h \in Nat
      BY <1>0
    <3>2. c \in 0 .. DimKv - 1 /\ c \div g.headDim = h
      BY <1>0, <3>1, HeadColumns
    <3>3. Store(Cache("K", p, c), Val("kn", p, c), CacheHead("K", p, h)) \in Kernel("QkNorm", x, t)
      <4> HIDE DEF x
      <4>1. QED
        BY <1>2, <1>3, <3>1, KernelsAre DEF QkNorm
    <3>4. p \in Positions /\ \A e \in 0 .. DimKv - 1 : memory[Cache("K", p, e)] = Val("k", p, e)
      BY <1>2 DEF CacheIs
    <3> HIDE DEF x, c, p
    <3>5. Cache("K", p, c) \in DOMAIN memory
      BY <3>2, <3>4, CellsExist DEF LayerMemory
    <3>6. CacheHead("K", p, h) \subseteq DOMAIN memory
      <4>1. ASSUME NEW e \in 0 .. g.headDim - 1
            PROVE  Cache("K", p, h * g.headDim + e) \in DOMAIN memory
        <5>1. h * g.headDim + e \in 0 .. DimKv - 1
          BY <1>0, HeadColumns
        <5>2. QED
          BY <3>4, <5>1, CellsExist DEF LayerMemory
      <4>2. QED
        BY <4>1 DEF CacheHead
    <3>7. Image(memory, CacheHead("K", p, h)) = Needs(Val("kn", p, c))
      <4>1. Image(memory, CacheHead("K", p, h)) = OfHead("k", p, h)
        BY <1>0, <3>4, CacheHeadLoads
      <4>2. Needs(Val("kn", p, c)) = OfHead("k", p, h)
        BY <3>2, NeedsOf
      <4>3. QED
        BY <4>1, <4>2
    <3>8. memory'[Cache("K", p, c)] = Val("kn", p, c)
      BY <1>1, <3>1, <3>3, <3>5, <3>6, <3>7, ValueLands
    <3>9. QED
      BY <3>8 DEF c, p
  <2>4. TempIs(memory', QueryOffset, DimQ, "qn")
    <3>1. ASSUME NEW t \in Tokens, NEW i \in 0 .. DimQ - 1
          PROVE  memory'[Temp(t, QueryOffset + i)] = Val("qn", t, i)
      <4>1. PICK h \in 0 .. g.heads - 1, d \in 0 .. g.headDim - 1 : i = h * g.headDim + d
        BY <1>0, HeadsCover
      <4>2. QED
        BY <2>2, <4>1
    <3>2. QED
      BY <3>1 DEF TempIs
  <2>5. CacheIs(memory', "K", "kn")
    <3>1. ASSUME NEW t \in Tokens, NEW i \in 0 .. DimKv - 1
          PROVE  memory'[Cache("K", g.start + t, i)] = Val("kn", g.start + t, i)
      <4>1. PICK h \in 0 .. g.kvHeads - 1, d \in 0 .. g.headDim - 1 : i = h * g.headDim + d
        BY <1>0, HeadsCover
      <4>2. QED
        BY <2>3, <4>1
    <3>2. QED
      BY <3>1 DEF CacheIs
  <2>6. QED
    BY <2>1, <2>4, <2>5
<1>4. ASSUME ~g.qkNorm
      PROVE  TempIs(memory', QueryOffset, DimQ, QName) /\ CacheIs(memory', "K", KName)
  <2>1. QName = "q" /\ KName = "k"
    BY <1>4 DEF QName, KName
  <2>2. \A x, t : Kernel("QkNorm", x, t) = {}
    BY <1>4, KernelsAre DEF QkNorm
  <2>3. \A c : Untouched("QkNorm", c)
    BY <2>2 DEF Untouched
  <2>4. LeavesCaches("QkNorm") /\ LeavesTemp("QkNorm", 0, Stride)
    BY <2>3 DEF LeavesCaches, LeavesTemp
  <2>5. TempIs(memory', QueryOffset, DimQ, "q")
    BY <1>0, <1>1, <2>4, TempKept
  <2>6. CacheIs(memory', "K", "k")
    BY <1>1, <2>4, CacheKept
  <2>7. QED
    BY <2>1, <2>5, <2>6
<1>5. CacheIs(memory', "V", "v")
  <2>1. ASSUME NEW t \in Tokens, NEW c \in 0 .. DimKv - 1
        PROVE  memory'[Cache("V", g.start + t, c)] = Val("v", g.start + t, c)
    <3>1. Cache("V", g.start + t, c) \in DOMAIN memory
      BY <1>2, CellsExist DEF LayerMemory
    <3>2. Untouched("QkNorm", Cache("V", g.start + t, c))
      BY <1>0, <1>2, QkNormApart
    <3>3. memory[Cache("V", g.start + t, c)] = Val("v", g.start + t, c)
      BY DEF CacheIs
    <3>4. QED
      BY <1>1, <3>1, <3>2, <3>3 DEF Effect
  <2>2. QED
    BY <2>1 DEF CacheIs
<1>6. ActIs(memory', "x") /\ PastIs(memory')
  BY <1>0, <1>1, QkNormApart, ActKept, PastKept
<1>7. ~g.gated => TempIs(memory', FfnOffset, g.dim, "norm")
  <2>1. HAVE ~g.gated
  <2>2. QueryOffset + DimQ <= FfnOffset /\ QueryOffset + DimQ \in Nat
    BY <1>0, <2>1, Widths
  <2>3. QED
    BY <1>0, <1>1, <2>1, <2>2, QkNormApart, TempKept
<1>8. QED
  BY <1>0, <1>1, <1>3, <1>4, <1>5, <1>6, <1>7, Widths DEF Effect

-----------------------------------------------------------------------------
(* AttnOut.                                                                *)

\* The caches have the keys and values of the earlier calls and of this one.
CachesAre(m) == PastIs(m) /\ CacheIs(m, "K", KName) /\ CacheIs(m, "V", "v")

\* Then they have them at every position up to the call's last.
LEMMA CachesCover ==
  ASSUME g \in Geometries, NEW m, CachesAre(m),
         NEW p \in 0 .. g.start + g.batch - 1, NEW c \in 0 .. DimKv - 1
  PROVE  m[Cache("K", p, c)] = Val(KName, p, c) /\ m[Cache("V", p, c)] = Val("v", p, c)
<1>1. g.start \in Nat /\ g.batch \in Nat
  BY Widths
<1>2. CASE p < g.start
  BY <1>1, <1>2 DEF CachesAre, PastIs
<1>3. CASE p >= g.start
  <2>1. PICK t \in Tokens : p = g.start + t
    <3>1. p - g.start \in Tokens /\ p = g.start + (p - g.start)
      BY <1>1, <1>3 DEF Tokens
    <3>2. QED
      BY <3>1
  <2>2. QED
    BY <2>1 DEF CachesAre, CacheIs
<1>4. QED
  BY <1>1, <1>2, <1>3

\* What an invocation of AttnOut loads, and what a context needs.
LoadsOver(t, h, kv, c, seen) == QHead(t, h) \cup KeyCells(kv, seen) \cup ValueCells(c, seen)
NeedsOver(t, h, kv, c, past) == OfHead(QName, t, h) \cup KeysOf(kv, past) \cup ValuesOf(c, past)

\* The store of AttnOut.
LEMMA AttnStores ==
  ASSUME g \in Geometries, NEW x \in Nat, NEW t \in Nat
  PROVE  /\ x \in 0 .. DimQ - 1 /\ t \in Tokens =>
              AttnOut(x, t) = {Store(Temp(t, x), Val("context", t, x), AttnLoads(x, t))}
         /\ ~(x \in 0 .. DimQ - 1 /\ t \in Tokens) => AttnOut(x, t) = {}
<1>1. DimQ \in Nat /\ g.batch \in Nat
  BY Widths
<1>2. x \in 0 .. DimQ - 1 <=> ~(x >= DimQ)
  BY <1>1
<1>3. t \in Tokens <=> ~(t >= g.batch)
  BY <1>1 DEF Tokens
<1>4. QED
  BY <1>2, <1>3 DEF AttnOut

\* The invocations of AttnOut are apart: the contexts end before the queries.
LEMMA AttnApart ==
  ASSUME g \in Geometries
  PROVE  Apart("AttnOut") /\ InScratch("AttnOut", 0, DimQ)
<1>0. /\ DimQ \in Nat /\ QueryOffset \in Nat /\ DimQ <= QueryOffset /\ Stride \in Nat
      /\ QueryOffset + DimQ <= Stride
  BY Widths
<1>1. \A i \in 0 .. DimQ - 1 : i \in 0 .. Stride - 1
  BY <1>0
<1>2. ASSUME NEW x \in Nat, NEW t \in Nat, NEW s \in AttnOut(x, t)
      PROVE  /\ x \in 0 .. DimQ - 1 /\ s.cell = Temp(t, x) /\ s.loads = AttnLoads(x, t)
             /\ s = Store(Temp(t, x), Val("context", t, x), AttnLoads(x, t))
  BY AttnStores, StoreFields
<1>3. ASSUME NEW x \in Nat, NEW y \in Nat, NEW t \in Nat, NEW u \in Nat,
             NEW a \in AttnOut(x, t), NEW b \in AttnOut(y, u), a.cell = b.cell
      PROVE  a = b
  <2>1. t = u /\ x = y
    <3>1. x \in 0 .. Stride - 1 /\ y \in 0 .. Stride - 1
      BY <1>1, <1>2
    <3>2. Temp(t, x) = Temp(u, y)
      BY <1>2, <1>3
    <3>3. QED
      BY <3>1, <3>2, TempIsUnique
  <2>2. QED
    BY <1>2, <2>1
<1>4. ASSUME NEW x \in Nat, NEW y \in Nat, NEW t \in Nat, NEW u \in Nat,
             NEW a \in AttnOut(x, t), NEW b \in AttnOut(y, u)
      PROVE  a.cell \notin b.loads
  <2> DEFINE h == y \div g.headDim
  <2>1. h \in 0 .. g.heads - 1
    BY <1>2, HeadColumns
  <2>2. a.cell = Temp(t, x) /\ x \in 0 .. DimQ - 1 /\ x \in 0 .. Stride - 1
    BY <1>1, <1>2
  <2>3. a.cell \notin QHead(u, h)
    <3> HIDE DEF h
    <3>1. ASSUME NEW d \in 0 .. g.headDim - 1
          PROVE  Temp(t, x) # Temp(u, QueryOffset + h * g.headDim + d)
      <4>1. /\ QueryOffset + h * g.headDim + d \in QueryOffset .. QueryOffset + DimQ - 1
            /\ QueryOffset + h * g.headDim + d \in 0 .. Stride - 1
        BY <2>1, QueryColumns
      <4>2. \A j \in QueryOffset .. QueryOffset + DimQ - 1 : j # x
        BY <1>0, <2>2
      <4>3. QED
        BY <2>2, <4>1, <4>2, TempIsUnique
    <3>2. QED
      BY <2>2, <3>1 DEF QHead, TempRow
  <2>4. \A p, k, d : a.cell # Cache("K", p, d) /\ a.cell # Cache("V", p, d)
                     /\ a.cell \notin CacheHead("K", p, k)
    BY <2>2, BuffersAreApart DEF CacheHead
  <2> DEFINE kv == h \div (g.heads \div g.kvHeads)
             seen == {p \in Positions : Attends(p, u)}
             c == kv * g.headDim + (y % g.headDim)
             keys == KeyCells(kv, seen)
             values == ValueCells(c, seen)
  <2>5. b.loads = QHead(u, h) \cup keys \cup values
    <3>1. b.loads = AttnLoads(y, u)
      BY <1>2
    <3>2. AttnLoads(y, u) = LoadsOver(u, h, kv, c, seen)
      BY DEF AttnLoads, LoadsOver
    <3> HIDE DEF h, kv, c, seen
    <3>3. LoadsOver(u, h, kv, c, seen) = QHead(u, h) \cup keys \cup values
      BY DEF LoadsOver
    <3>4. QED
      BY <3>1, <3>2, <3>3
  <2> HIDE DEF h, kv, c, seen
  <2>6. a.cell \notin keys /\ a.cell \notin values
    BY <2>4 DEF KeyCells, ValueCells
  <2> HIDE DEF keys, values
  <2>7. QED
    BY <2>3, <2>5, <2>6
<1>5. Apart("AttnOut")
  BY <1>3, <1>4, KernelsAre DEF Apart
<1>6. InScratch("AttnOut", 0, DimQ)
  BY <1>2, KernelsAre DEF InScratch
<1>7. QED
  BY <1>5, <1>6

\* What AttnOut loads is what a context needs.
LEMMA AttnLoadsAreNeeded ==
  ASSUME LayerMemory, CachesAre(memory), TempIs(memory, QueryOffset, DimQ, QName),
         NEW t \in Tokens, NEW x \in 0 .. DimQ - 1
  PROVE  /\ AttnLoads(x, t) \subseteq DOMAIN memory
         /\ Image(memory, AttnLoads(x, t)) = Needs(Val("context", t, x))
<1> DEFINE h  == x \div g.headDim
           kv == h \div (g.heads \div g.kvHeads)
           seen == {p \in Positions : Attends(p, t)}
           past == 0 .. g.start + t
           c == kv * g.headDim + (x % g.headDim)
<1>0. /\ g \in Geometries /\ g.start \in Nat /\ g.batch \in Nat /\ MaxSeq \in Nat
      /\ g.start + g.batch <= MaxSeq /\ t \in Nat /\ t < g.batch
  BY Widths DEF LayerMemory, Tokens
<1>1. h \in 0 .. g.heads - 1 /\ x % g.headDim \in 0 .. g.headDim - 1
  BY <1>0, HeadColumns
<1>2. kv \in 0 .. g.kvHeads - 1
  <2> HIDE DEF h
  <2>1. QED
    BY <1>0, <1>1, KvHeadExists
<1>3. c \in 0 .. DimKv - 1
  <2> HIDE DEF kv
  <2>1. QED
    BY <1>0, <1>1, <1>2, HeadColumns
<1>4. seen = past
  BY <1>0 DEF Attends, Positions
<1>5. \A p \in past : p \in Positions /\ p \in 0 .. g.start + g.batch - 1
  BY <1>0 DEF Positions
<1>6. /\ AttnLoads(x, t) = LoadsOver(t, h, kv, c, seen)
      /\ Needs(Val("context", t, x)) = NeedsOver(t, h, kv, c, past)
  BY NeedsOfContext DEF AttnLoads, LoadsOver, NeedsOver
<1> DEFINE keys == KeyCells(kv, past)
           values == ValueCells(c, past)
           oldKeys == KeysOf(kv, past)
           oldValues == ValuesOf(c, past)
<1> HIDE DEF h, kv, c, seen, past
<1>6a. /\ AttnLoads(x, t) = QHead(t, h) \cup keys \cup values
       /\ Needs(Val("context", t, x)) = OfHead(QName, t, h) \cup oldKeys \cup oldValues
  <2>1. LoadsOver(t, h, kv, c, seen) = LoadsOver(t, h, kv, c, past)
    BY <1>4
  <2>2. /\ LoadsOver(t, h, kv, c, past) = QHead(t, h) \cup keys \cup values
        /\ NeedsOver(t, h, kv, c, past) = OfHead(QName, t, h) \cup oldKeys \cup oldValues
    BY DEF LoadsOver, NeedsOver
  <2>3. QED
    BY <1>6, <2>1, <2>2
<1>7. QHead(t, h) \subseteq DOMAIN memory /\ Image(memory, QHead(t, h)) = OfHead(QName, t, h)
  <2>1. ASSUME NEW e \in 0 .. g.headDim - 1
        PROVE  Temp(t, QueryOffset + h * g.headDim + e) \in DOMAIN memory
    BY <1>0, <1>1, QueryColumns, CellsExist DEF LayerMemory
  <2>2. QHead(t, h) \subseteq DOMAIN memory
    BY <2>1 DEF QHead, TempRow
  <2>3. QED
    BY <1>0, <1>1, <2>2, QueryLoads
<1>8. ASSUME NEW p \in past
      PROVE  /\ CacheHead("K", p, kv) \subseteq DOMAIN memory
             /\ Image(memory, CacheHead("K", p, kv)) = OfHead(KName, p, kv)
             /\ Cache("V", p, c) \in DOMAIN memory /\ memory[Cache("V", p, c)] = Val("v", p, c)
  <2>1. \A e \in 0 .. DimKv - 1 : memory[Cache("K", p, e)] = Val(KName, p, e)
    BY <1>0, <1>5, CachesCover
  <2>2. Image(memory, CacheHead("K", p, kv)) = OfHead(KName, p, kv)
    BY <1>0, <1>2, <2>1, CacheHeadLoads
  <2>3. ASSUME NEW e \in 0 .. g.headDim - 1
        PROVE  Cache("K", p, kv * g.headDim + e) \in DOMAIN memory
    <3>1. kv * g.headDim + e \in 0 .. DimKv - 1
      BY <1>0, <1>2, HeadColumns
    <3>2. QED
      BY <1>5, <3>1, CellsExist DEF LayerMemory
  <2>4. CacheHead("K", p, kv) \subseteq DOMAIN memory
    BY <2>3 DEF CacheHead
  <2>5. Cache("V", p, c) \in DOMAIN memory
    BY <1>3, <1>5, CellsExist DEF LayerMemory
  <2>6. memory[Cache("V", p, c)] = Val("v", p, c)
    BY <1>0, <1>3, <1>5, CachesCover
  <2>7. QED
    BY <2>2, <2>4, <2>5, <2>6
<1>9. Image(memory, KeyCells(kv, past))
        = KeysOf(kv, past)
  <2>1. \A p \in past : {memory[z] : z \in CacheHead("K", p, kv)} = OfHead(KName, p, kv)
    BY <1>8 DEF Image
  <2>2. ASSUME NEW z \in KeyCells(kv, past)
        PROVE  memory[z] \in KeysOf(kv, past)
    <3>1. PICK p \in past : z \in CacheHead("K", p, kv)
      BY DEF KeyCells
    <3>2. memory[z] \in OfHead(KName, p, kv)
      BY <2>1, <3>1
    <3>3. QED
      BY <3>2 DEF KeysOf
  <2>3. ASSUME NEW v \in KeysOf(kv, past)
        PROVE  \E z \in KeyCells(kv, past) : v = memory[z]
    <3>1. PICK p \in past : v \in OfHead(KName, p, kv)
      BY DEF KeysOf
    <3>2. PICK z \in CacheHead("K", p, kv) : v = memory[z]
      BY <2>1, <3>1
    <3>3. QED
      BY <3>2 DEF KeyCells
  <2>4. QED
    BY <2>2, <2>3 DEF Image
<1>10. Image(memory, ValueCells(c, past)) = ValuesOf(c, past)
  BY <1>8 DEF Image, ValueCells, ValuesOf
<1>11. QED
  <2>0. keys \subseteq DOMAIN memory /\ values \subseteq DOMAIN memory
    BY <1>8 DEF KeyCells, ValueCells
  <2> HIDE DEF keys, values, oldKeys, oldValues
  <2>1. AttnLoads(x, t) \subseteq DOMAIN memory
    BY <1>6a, <1>7, <2>0
  <2>2. Image(memory, AttnLoads(x, t)) = Needs(Val("context", t, x))
    <3>1. Image(memory, keys) = oldKeys /\ Image(memory, values) = oldValues
      BY <1>9, <1>10 DEF keys, values, oldKeys, oldValues
    <3>2. Image(memory, QHead(t, h) \cup keys) = OfHead(QName, t, h) \cup oldKeys
      BY <1>7, <3>1, ImageOfUnion
    <3>3. Image(memory, QHead(t, h) \cup keys \cup values)
            = OfHead(QName, t, h) \cup oldKeys \cup oldValues
      BY <3>1, <3>2, ImageOfUnion
    <3>4. QED
      BY <1>6a, <3>3
  <2>3. QED
    BY <2>1, <2>2

\* AttnOut leaves the contexts at the start of each token's scratch.
LEMMA AttnRuns ==
  ASSUME LayerMemory, ActIs(memory, "x"), CachesAre(memory),
         TempIs(memory, QueryOffset, DimQ, QName),
         ~g.gated => TempIs(memory, FfnOffset, g.dim, "norm"),
         NEW o, Runs(o, "AttnOut", DimQ)
  PROVE  /\ DOMAIN memory' = DOMAIN memory /\ CachesAre(memory') /\ ActIs(memory', "x")
         /\ TempIs(memory', 0, DimQ, "context")
         /\ ~g.gated => TempIs(memory', FfnOffset, g.dim, "norm")
<1>0. /\ g \in Geometries /\ g.dim \in Nat /\ Stride \in Nat /\ DimQ \in Nat
      /\ QueryOffset \in Nat /\ QueryOffset + DimQ <= Stride /\ FfnOffset \in Nat
      /\ FfnOffset + g.dim <= Stride
  BY Widths DEF LayerMemory
<1>1. Effect("AttnOut", DimQ)
  BY <1>0, AttnApart, RunsLeave
<1>2. /\ LeavesAct("AttnOut") /\ LeavesCaches("AttnOut") /\ LeavesTemp("AttnOut", DimQ, Stride)
  <2>1. DimQ <= Stride
    BY <1>0
  <2>2. QED
    BY <1>0, <2>1, AttnApart, ScratchFrame
<1>3. TempIs(memory', 0, DimQ, "context")
  <2>1. ASSUME NEW t \in Tokens, NEW i \in 0 .. DimQ - 1
        PROVE  memory'[Temp(t, i)] = Val("context", t, i)
    <3>1. t \in Nat /\ i \in Nat /\ i \in 0 .. Stride - 1
      BY <1>0 DEF Tokens
    <3>2. Store(Temp(t, i), Val("context", t, i), AttnLoads(i, t)) \in Kernel("AttnOut", i, t)
      BY <1>0, <3>1, AttnStores, KernelsAre
    <3>3. Temp(t, i) \in DOMAIN memory
      BY <3>1, CellsExist DEF LayerMemory
    <3>4. QED
      BY <1>1, <3>2, <3>3, AttnLoadsAreNeeded, ValueLands
  <2>2. \A i \in 0 .. DimQ - 1 : 0 + i = i
    BY <1>0
  <2>3. QED
    BY <2>1, <2>2 DEF TempIs
<1>4. ActIs(memory', "x") /\ CachesAre(memory')
  BY <1>1, <1>2, ActKept, CacheKept DEF CachesAre
<1>5. ~g.gated => TempIs(memory', FfnOffset, g.dim, "norm")
  <2>1. HAVE ~g.gated
  <2>2. DimQ <= FfnOffset
    BY <1>0, <2>1, Widths
  <2>3. QED
    BY <1>0, <1>1, <1>2, <2>1, <2>2, TempKept
<1>6. QED
  BY <1>1, <1>3, <1>4, <1>5 DEF Effect

-----------------------------------------------------------------------------
(* AttnProj and FfnDown: products that are kept and added to the residual   *)
(* stream.                                                                 *)

\* The kernel adds the product of the first n columns to the residual stream
\* and keeps it from off on.
Adds(k, off, n, kept, sum) ==
  \A x, t : Kernel(k, x, t) =
    IF ~Row(x, t) THEN {}
    ELSE {Store(Temp(t, off + x), Val(kept, t, x), TempRow(t, 0, n)),
          Store(Act(t, x), Val(sum, t, x), {Act(t, x)} \cup TempRow(t, 0, n))}

\* These do.
LEMMA TheProducts ==
  /\ Adds("AttnProj", StashOffset, DimQ, "proj", "act_proj")
  /\ Adds("AttnProjCoop", StashOffset, DimQ, "proj", "act_proj")
  /\ Adds("FfnDown", FfnOffset, 2 * g.ffn, "down", "act_down")
  /\ Adds("FfnDownCoop", FfnOffset, 2 * g.ffn, "down", "act_down")
<1>1. \A x, t : AttnProj(x, t) =
        IF ~Row(x, t) THEN {}
        ELSE {Store(Temp(t, StashOffset + x), Val("proj", t, x), TempRow(t, 0, DimQ)),
              Store(Act(t, x), Val("act_proj", t, x), {Act(t, x)} \cup TempRow(t, 0, DimQ))}
  BY DEF AttnProj
<1>2. \A x, t : FfnDown(x, t) =
        IF ~Row(x, t) THEN {}
        ELSE {Store(Temp(t, FfnOffset + x), Val("down", t, x), TempRow(t, 0, 2 * g.ffn)),
              Store(Act(t, x), Val("act_down", t, x), {Act(t, x)} \cup TempRow(t, 0, 2 * g.ffn))}
  BY DEF FfnDown
<1>3. QED
  BY <1>1, <1>2, KernelsAre DEF Adds

\* Its invocations are apart: what it keeps is behind what it loads.
LEMMA ProductApart ==
  ASSUME g \in Geometries, NEW k, NEW off \in Nat, NEW n \in Nat, NEW kept, NEW sum,
         Adds(k, off, n, kept, sum), n <= off, off + g.dim <= Stride
  PROVE  /\ Apart(k) /\ LeavesCaches(k) /\ LeavesTemp(k, off + g.dim, Stride)
<1>0. /\ n \in Nat /\ off \in Nat /\ n <= off /\ Stride \in Nat
      /\ off + g.dim <= Stride /\ g.dim \in Nat /\ g.batch \in Nat
  BY Widths
<1> DEFINE IsStash(s, t, x) ==
             s = Store(Temp(t, off + x), Val(kept, t, x), TempRow(t, 0, n))
           IsAct(s, t, x) ==
             s = Store(Act(t, x), Val(sum, t, x), {Act(t, x)} \cup TempRow(t, 0, n))
<1>1. ASSUME NEW x \in Nat, NEW t \in Nat, NEW s \in Kernel(k, x, t)
      PROVE  x \in Rows /\ (IsStash(s, t, x) \/ IsAct(s, t, x))
  <2>1. x < g.dim
    BY DEF Adds, Row
  <2>2. x \in Rows
    BY <1>0, <2>1 DEF Rows
  <2>3. IsStash(s, t, x) \/ IsAct(s, t, x)
    BY DEF Adds
  <2>4. QED
    BY <2>2, <2>3
<1>2. \A s, t, x : IsStash(s, t, x) =>
        s.cell = Temp(t, off + x) /\ s.loads = TempRow(t, 0, n)
  BY StoreFields
<1>3. \A s, t, x : IsAct(s, t, x) =>
        s.cell = Act(t, x) /\ s.loads = {Act(t, x)} \cup TempRow(t, 0, n)
  BY StoreFields
<1>4. \A a, b, t, x : /\ IsStash(a, t, x) /\ IsStash(b, t, x) => a = b
                      /\ IsAct(a, t, x) /\ IsAct(b, t, x) => a = b
  OBVIOUS
<1> HIDE DEF IsStash, IsAct
<1>5. ASSUME NEW x \in Rows
      PROVE  off + x \in 0 .. Stride - 1 /\ off + x >= n
             /\ off + x < off + g.dim
  BY <1>0 DEF Rows
<1>6. ASSUME NEW t \in Nat, NEW x \in Rows, NEW u \in Nat, NEW i \in 0 .. Stride - 1,
             i < n \/ i >= off + g.dim
      PROVE  Temp(t, off + x) # Temp(u, i)
  <2>1. off + x # i
    BY <1>0, <1>5, <1>6
  <2>2. QED
    BY <1>5, <2>1, TempIsUnique
<1>7. ASSUME NEW t \in Nat, NEW x \in Rows, NEW u \in Nat
      PROVE  Temp(t, off + x) \notin TempRow(u, 0, n)
  <2>1. ASSUME NEW i \in 0 .. n - 1 PROVE Temp(t, off + x) # Temp(u, 0 + i)
    <3>1. 0 + i \in 0 .. Stride - 1 /\ 0 + i < n
      BY <1>0
    <3>2. QED
      BY <1>6, <3>1
  <2>2. QED
    BY <2>1 DEF TempRow
<1>8. ASSUME NEW x \in Nat, NEW y \in Nat, NEW t \in Nat, NEW u \in Nat,
             NEW a \in Kernel(k, x, t), NEW b \in Kernel(k, y, u)
      PROVE  (a.cell = b.cell => a = b) /\ (x # y \/ t # u => a.cell \notin b.loads)
  <2>1. /\ x \in Rows /\ (IsStash(a, t, x) \/ IsAct(a, t, x))
        /\ y \in Rows /\ (IsStash(b, u, y) \/ IsAct(b, u, y))
    BY <1>1
  <2>2. CASE IsStash(a, t, x)
    <3>1. a.cell \notin b.loads
      BY <1>2, <1>3, <1>7, <2>1, <2>2, BuffersAreApart
    <3>2. ASSUME a.cell = b.cell PROVE a = b
      <4>1. IsStash(b, u, y)
        BY <1>2, <1>3, <2>1, <2>2, <3>2, BuffersAreApart
      <4>2. t = u /\ off + x = off + y
        BY <1>2, <1>5, <2>1, <2>2, <3>2, <4>1, TempIsUnique
      <4>3. x = y
        BY <1>0, <2>1, <4>2 DEF Rows
      <4>4. QED
        BY <1>4, <2>2, <4>1, <4>2, <4>3
    <3>3. QED
      BY <3>1, <3>2
  <2>3. CASE IsAct(a, t, x)
    <3>1. a.cell \notin TempRow(u, 0, n)
      BY <1>3, <2>3, BuffersAreApart DEF TempRow
    <3>2. a.cell = Act(u, y) => t = u /\ x = y
      BY <1>3, <2>1, <2>3, ActIsUnique
    <3>3. x # y \/ t # u => a.cell \notin b.loads
      BY <1>2, <1>3, <2>1, <3>1, <3>2
    <3>4. ASSUME a.cell = b.cell PROVE a = b
      <4>1. IsAct(b, u, y)
        BY <1>2, <1>3, <2>1, <2>3, <3>4, BuffersAreApart
      <4>2. t = u /\ x = y
        BY <1>3, <3>2, <3>4, <4>1
      <4>3. QED
        BY <1>4, <2>3, <4>1, <4>2
    <3>5. QED
      BY <3>3, <3>4
  <2>4. QED
    BY <2>1, <2>2, <2>3
<1>9. Apart(k)
  BY <1>8 DEF Apart
<1>10. LeavesCaches(k)
  <2>1. ASSUME NEW b \in {"K", "V"}, NEW p \in Nat, NEW c \in 0 .. DimKv - 1,
               NEW x \in Nat, NEW t \in Nat, NEW s \in Kernel(k, x, t)
        PROVE  s.cell # Cache(b, p, c)
    <3>1. s.cell = Temp(t, off + x) \/ s.cell = Act(t, x)
      BY <1>1, <1>2, <1>3
    <3>2. s.cell # Cache("K", p, c) /\ s.cell # Cache("V", p, c)
      BY <3>1, BuffersAreApart
    <3>3. QED
      BY <3>2
  <2>2. QED
    BY <2>1 DEF LeavesCaches, Untouched
<1>11. LeavesTemp(k, off + g.dim, Stride)
  <2>1. ASSUME NEW u \in Nat, NEW i \in off + g.dim .. Stride - 1,
               NEW x \in Nat, NEW t \in Nat, NEW s \in Kernel(k, x, t)
        PROVE  s.cell # Temp(u, i)
    <3>1. i \in 0 .. Stride - 1 /\ i >= off + g.dim
      BY <1>0
    <3>2. QED
      BY <1>1, <1>2, <1>3, <1>6, <3>1, BuffersAreApart
  <2>2. QED
    BY <2>1 DEF LeavesTemp, Untouched
<1>12. QED
  BY <1>9, <1>10, <1>11

\* The kernel leaves the sum in the residual stream and the product behind.
LEMMA ProductRuns ==
  ASSUME LayerMemory, NEW k, NEW off \in Nat, NEW n \in Nat, NEW kept, NEW sum,
         Adds(k, off, n, kept, sum), n <= off, off + g.dim <= Stride,
         NEW before, ActIs(memory, before), CachesAre(memory),
         \A t \in Tokens, x \in Rows :
           /\ Needs(Val(kept, t, x)) = Image(memory, TempRow(t, 0, n))
           /\ Needs(Val(sum, t, x)) = {Val(before, t, x)} \cup Image(memory, TempRow(t, 0, n)),
         NEW o, Runs(o, k, g.dim)
  PROVE  /\ DOMAIN memory' = DOMAIN memory /\ CachesAre(memory')
         /\ ActIs(memory', sum) /\ TempIs(memory', off, g.dim, kept)
         /\ \A lo, w \in Nat : \A what :
              off + g.dim <= lo /\ lo + w <= Stride /\ TempIs(memory, lo, w, what)
                => TempIs(memory', lo, w, what)
<1>0. /\ g \in Geometries /\ g.dim \in Nat /\ Stride \in Nat /\ n <= Stride
      /\ off + g.dim \in Nat
  BY Widths DEF LayerMemory
<1>1. Effect(k, g.dim)
  BY <1>0, ProductApart, RunsLeave
<1>2. ASSUME NEW t \in Tokens, NEW x \in Rows
      PROVE  /\ t \in Nat /\ x \in 0 .. g.dim - 1 /\ Row(x, t)
             /\ TempRow(t, 0, n) \subseteq DOMAIN memory
             /\ Act(t, x) \in DOMAIN memory /\ memory[Act(t, x)] = Val(before, t, x)
             /\ Temp(t, off + x) \in DOMAIN memory
  <2>1. t \in Nat /\ x \in 0 .. g.dim - 1 /\ Row(x, t) /\ off + x \in 0 .. Stride - 1
    BY <1>0, Widths DEF Tokens, Rows, Row
  <2>3. TempRow(t, 0, n) \subseteq DOMAIN memory
    BY <1>0, LoadsExist
  <2>4. Act(t, x) \in DOMAIN memory /\ memory[Act(t, x)] = Val(before, t, x)
    BY CellsExist DEF LayerMemory, ActIs
  <2>5. Temp(t, off + x) \in DOMAIN memory
    BY <2>1, CellsExist DEF LayerMemory
  <2>6. QED
    BY <2>1, <2>3, <2>4, <2>5
<1>3. TempIs(memory', off, g.dim, kept)
  <2>1. ASSUME NEW t \in Tokens, NEW x \in Rows
        PROVE  memory'[Temp(t, off + x)] = Val(kept, t, x)
    <3>1. Store(Temp(t, off + x), Val(kept, t, x), TempRow(t, 0, n)) \in Kernel(k, x, t)
      BY <1>2 DEF Adds
    <3>2. QED
      BY <1>1, <1>2, <3>1, ValueLands
  <2>2. QED
    BY <2>1 DEF TempIs, Rows
<1>4. ActIs(memory', sum)
  <2>1. ASSUME NEW t \in Tokens, NEW x \in Rows
        PROVE  memory'[Act(t, x)] = Val(sum, t, x)
    <3> DEFINE loads == {Act(t, x)} \cup TempRow(t, 0, n)
    <3>1. Store(Act(t, x), Val(sum, t, x), loads) \in Kernel(k, x, t)
      BY <1>2 DEF Adds
    <3>2. Image(memory, loads) = Needs(Val(sum, t, x))
      <4>1. Image(memory, {Act(t, x)}) = {Val(before, t, x)}
        BY <1>2, ImageOfCell
      <4>2. Image(memory, loads) = {Val(before, t, x)} \cup Image(memory, TempRow(t, 0, n))
        BY <4>1, ImageOfUnion
      <4>3. QED
        BY <4>2
    <3>3. loads \subseteq DOMAIN memory
      BY <1>2
    <3> HIDE DEF loads
    <3>4. QED
      BY <1>1, <1>2, <3>1, <3>2, <3>3, ValueLands
  <2>2. QED
    BY <2>1 DEF ActIs
<1>5. CachesAre(memory')
  BY <1>0, <1>1, ProductApart, CacheKept DEF CachesAre
<1>6. ASSUME NEW lo \in Nat, NEW w \in Nat, NEW what, off + g.dim <= lo, lo + w <= Stride,
             TempIs(memory, lo, w, what)
      PROVE  TempIs(memory', lo, w, what)
  <2>1. LeavesTemp(k, off + g.dim, Stride)
    BY <1>0, ProductApart
  <2>2. QED
    BY <1>0, <1>1, <1>6, <2>1, TempKept
<1>7. QED
  BY <1>1, <1>3, <1>4, <1>5, <1>6 DEF Effect

-----------------------------------------------------------------------------
(* PostAttnNorm and PostFfwNorm: the norm of a product that was kept.      *)

\* The kernel replaces the residual stream by what, from the columns at off.
Renorms(k, off, what) ==
  \A x, t : Kernel(k, x, t) =
    IF ~Row(x, t) \/ ~g.postNorm THEN {}
    ELSE {Store(Act(t, x), Val(what, t, x), {Act(t, x)} \cup TempRow(t, off, g.dim))}

\* These do.
LEMMA TheRenorms ==
  /\ Renorms("PostAttnNorm", StashOffset, "act_attn")
  /\ Renorms("PostFfwNorm", FfnOffset, "act_out")
<1>1. \A x, t : PostAttnNorm(x, t) =
        IF ~Row(x, t) \/ ~g.postNorm THEN {}
        ELSE {Store(Act(t, x), Val("act_attn", t, x), {Act(t, x)} \cup TempRow(t, StashOffset, g.dim))}
  BY DEF PostAttnNorm
<1>2. \A x, t : PostFfwNorm(x, t) =
        IF ~Row(x, t) \/ ~g.postNorm THEN {}
        ELSE {Store(Act(t, x), Val("act_out", t, x), {Act(t, x)} \cup TempRow(t, FfnOffset, g.dim))}
  BY DEF PostFfwNorm
<1>3. QED
  BY <1>1, <1>2, KernelsAre DEF Renorms

\* Its invocations are apart and store nowhere else.
LEMMA RenormApart ==
  ASSUME g \in Geometries, NEW k, NEW off, NEW what, Renorms(k, off, what)
  PROVE  Apart(k) /\ LeavesCaches(k) /\ LeavesTemp(k, 0, Stride)
<1>0. g.dim \in Nat
  BY Widths
<1>1. ASSUME NEW x \in Nat, NEW t \in Nat, NEW s \in Kernel(k, x, t)
      PROVE  /\ x \in Rows
             /\ s = Store(Act(t, x), Val(what, t, x), {Act(t, x)} \cup TempRow(t, off, g.dim))
  <2>1. Row(x, t) /\ g.postNorm
    BY DEF Renorms
  <2>2. s = Store(Act(t, x), Val(what, t, x), {Act(t, x)} \cup TempRow(t, off, g.dim))
    BY <2>1 DEF Renorms
  <2>3. x \in Rows
    BY <1>0, <2>1 DEF Row, Rows
  <2>4. QED
    BY <2>2, <2>3
<1>2. ASSUME NEW x \in Nat, NEW t \in Nat, NEW s \in Kernel(k, x, t)
      PROVE  /\ x \in Rows /\ s.cell = Act(t, x)
             /\ s.loads = {Act(t, x)} \cup TempRow(t, off, g.dim)
  <2> DEFINE loads == {Act(t, x)} \cup TempRow(t, off, g.dim)
  <2>1. x \in Rows /\ s = Store(Act(t, x), Val(what, t, x), loads)
    BY <1>1
  <2> HIDE DEF loads
  <2>2. s.cell = Act(t, x) /\ s.loads = loads
    BY <2>1, StoreIs
  <2>3. QED
    BY <2>1, <2>2 DEF loads
<1>3. ASSUME NEW x \in Nat, NEW y \in Nat, NEW t \in Nat, NEW u \in Nat,
             NEW a \in Kernel(k, x, t), NEW b \in Kernel(k, y, u)
      PROVE  (a.cell = b.cell => a = b) /\ (x # y \/ t # u => a.cell \notin b.loads)
  <2>1. /\ a.cell = Act(t, x) /\ b.cell = Act(u, y) /\ x \in Rows /\ y \in Rows
        /\ b.loads = {Act(u, y)} \cup TempRow(u, off, g.dim)
    BY <1>2
  <2>2. Act(t, x) = Act(u, y) <=> t = u /\ x = y
    BY <2>1, ActIsUnique
  <2>3. Act(t, x) \notin TempRow(u, off, g.dim)
    BY BuffersAreApart DEF TempRow
  <2>4. a.cell = b.cell => a = b
    BY <1>1, <2>1, <2>2
  <2>5. QED
    BY <2>1, <2>2, <2>3, <2>4
<1>4. Apart(k)
  BY <1>3 DEF Apart
<1>5. ASSUME NEW x \in Nat, NEW t \in Nat, NEW s \in Kernel(k, x, t)
      PROVE  /\ \A p, c : s.cell # Cache("K", p, c) /\ s.cell # Cache("V", p, c)
             /\ \A u, i : s.cell # Temp(u, i)
  BY <1>2, BuffersAreApart
<1>6. QED
  BY <1>4, <1>5 DEF LeavesCaches, LeavesTemp, Untouched

\* With post norms it leaves the norm in the residual stream, and else nothing.
LEMMA RenormRuns ==
  ASSUME LayerMemory, NEW k, NEW off \in Nat, NEW what, Renorms(k, off, what),
         off + g.dim <= Stride, NEW before, ActIs(memory, before), CachesAre(memory),
         g.postNorm => \A t \in Tokens, x \in Rows :
           Needs(Val(what, t, x)) = {Val(before, t, x)} \cup Image(memory, TempRow(t, off, g.dim)),
         NEW o, Runs(o, k, g.dim)
  PROVE  /\ DOMAIN memory' = DOMAIN memory /\ CachesAre(memory')
         /\ g.postNorm => ActIs(memory', what)
         /\ ~g.postNorm => ActIs(memory', before)
         /\ \A lo, w \in Nat : \A that :
              lo + w <= Stride /\ TempIs(memory, lo, w, that) => TempIs(memory', lo, w, that)
<1>0. /\ g \in Geometries /\ g.dim \in Nat /\ Stride \in Nat
  BY Widths DEF LayerMemory
<1>1. Effect(k, g.dim) /\ LeavesCaches(k) /\ LeavesTemp(k, 0, Stride)
  BY <1>0, RenormApart, RunsLeave
<1>2. ASSUME g.postNorm, NEW t \in Tokens, NEW x \in Rows
      PROVE  memory'[Act(t, x)] = Val(what, t, x)
  <2> DEFINE loads == {Act(t, x)} \cup TempRow(t, off, g.dim)
  <2>1. t \in Nat /\ x \in 0 .. g.dim - 1 /\ Row(x, t)
    BY <1>0, Widths DEF Tokens, Rows, Row
  <2>2. TempRow(t, off, g.dim) \subseteq DOMAIN memory
    BY <1>0, LoadsExist
  <2>3. Act(t, x) \in DOMAIN memory /\ memory[Act(t, x)] = Val(before, t, x)
    BY CellsExist DEF LayerMemory, ActIs
  <2>4. Store(Act(t, x), Val(what, t, x), loads) \in Kernel(k, x, t)
    BY <1>2, <2>1 DEF Renorms
  <2>5. Image(memory, loads) = Needs(Val(what, t, x))
    <3>1. Image(memory, {Act(t, x)}) = {Val(before, t, x)}
      BY <2>3, ImageOfCell
    <3>2. Image(memory, loads) = {Val(before, t, x)} \cup Image(memory, TempRow(t, off, g.dim))
      BY <3>1, ImageOfUnion
    <3>3. QED
      BY <1>2, <3>2
  <2>6. loads \subseteq DOMAIN memory
    BY <2>2, <2>3
  <2> HIDE DEF loads
  <2>7. QED
    BY <1>1, <2>1, <2>3, <2>4, <2>5, <2>6, ValueLands
<1>3. ASSUME ~g.postNorm PROVE ActIs(memory', before)
  <2>1. \A x, t : Kernel(k, x, t) = {}
    BY <1>3 DEF Renorms
  <2>2. LeavesAct(k)
    BY <2>1 DEF LeavesAct, Untouched
  <2>3. QED
    BY <1>1, <2>2, ActKept
<1>4. CachesAre(memory')
  BY <1>1, CacheKept DEF CachesAre
<1>5. ASSUME NEW lo \in Nat, NEW w \in Nat, NEW that, lo + w <= Stride, TempIs(memory, lo, w, that)
      PROVE  TempIs(memory', lo, w, that)
  BY <1>0, <1>1, <1>5, TempKept
<1>6. QED
  BY <1>1, <1>2, <1>3, <1>4, <1>5 DEF Effect, ActIs

-----------------------------------------------------------------------------
(* FfnNorm.                                                                *)

\* The invocations of FfnNorm are apart and store behind the FFN's rows.
LEMMA FfnNormApart ==
  ASSUME g \in Geometries
  PROVE  Apart("FfnNorm") /\ InScratch("FfnNorm", FfnOffset, FfnOffset + g.dim)
<1>0. /\ g.dim \in Nat /\ FfnOffset \in Nat /\ Stride \in Nat /\ FfnOffset + g.dim <= Stride
      /\ Lanes \in Nat \ {0}
  BY Widths
<1>1. ASSUME NEW x \in Nat, NEW t \in Nat, NEW s \in FfnNorm(x, t)
      PROVE  \E j \in Rows :
               s = Store(Temp(t, FfnOffset + j), Val("ffn_norm", t, j), ActRow(t))
  BY DEF FfnNorm
<1>2. ASSUME NEW x \in Nat, NEW y \in Nat, NEW t \in Nat, NEW u \in Nat,
             NEW a \in FfnNorm(x, t), NEW b \in FfnNorm(y, u)
      PROVE  (a.cell = b.cell => a = b) /\ a.cell \notin b.loads
  <2>1. PICK i \in Rows : a = Store(Temp(t, FfnOffset + i), Val("ffn_norm", t, i), ActRow(t))
    BY <1>1
  <2>2. PICK j \in Rows : b = Store(Temp(u, FfnOffset + j), Val("ffn_norm", u, j), ActRow(u))
    BY <1>1
  <2>3. a.cell = Temp(t, FfnOffset + i) /\ b.cell = Temp(u, FfnOffset + j) /\ b.loads = ActRow(u)
    BY <2>1, <2>2, StoreFields
  <2>4. /\ i \in Nat /\ j \in Nat /\ FfnOffset + i \in 0 .. Stride - 1
        /\ FfnOffset + j \in 0 .. Stride - 1
    BY <1>0 DEF Rows
  <2>5. ASSUME a.cell = b.cell PROVE a = b
    <3>1. t = u /\ FfnOffset + i = FfnOffset + j
      BY <2>3, <2>4, <2>5, TempIsUnique
    <3>2. i = j
      BY <1>0, <2>4, <3>1
    <3>3. QED
      BY <2>1, <2>2, <3>1, <3>2
  <2>6. a.cell \notin b.loads
    BY <2>3, BuffersAreApart DEF ActRow
  <2>7. QED
    BY <2>5, <2>6
<1>3. ASSUME NEW x \in Nat, NEW t \in Nat, NEW s \in FfnNorm(x, t)
      PROVE  \E u \in Nat, i \in FfnOffset .. (FfnOffset + g.dim) - 1 : s.cell = Temp(u, i)
  <2>1. PICK j \in Rows : s = Store(Temp(t, FfnOffset + j), Val("ffn_norm", t, j), ActRow(t))
    BY <1>1
  <2>2. s.cell = Temp(t, FfnOffset + j) /\ FfnOffset + j \in FfnOffset .. (FfnOffset + g.dim) - 1
    BY <1>0, <2>1, StoreFields DEF Rows
  <2>3. QED
    BY <2>2
<1>4. Apart("FfnNorm")
  BY <1>2, KernelsAre DEF Apart
<1>5. InScratch("FfnNorm", FfnOffset, FfnOffset + g.dim)
  BY <1>3, KernelsAre DEF InScratch
<1>6. QED
  BY <1>4, <1>5

\* FfnNorm leaves its rows behind the FFN's; without a gate it does nothing.
LEMMA FfnNormLeaves ==
  ASSUME LayerMemory, ActIs(memory, AttnOutput), CachesAre(memory),
         NEW o, Runs(o, "FfnNorm", Lanes)
  PROVE  /\ DOMAIN memory' = DOMAIN memory /\ CachesAre(memory') /\ ActIs(memory', AttnOutput)
         /\ g.gated => TempIs(memory', FfnOffset, g.dim, "ffn_norm")
         /\ ~g.gated =>
              (TempIs(memory, FfnOffset, g.dim, "norm")
                 => TempIs(memory', FfnOffset, g.dim, "norm"))
<1>0. /\ g \in Geometries /\ g.dim \in Nat /\ FfnOffset \in Nat /\ Stride \in Nat
      /\ FfnOffset + g.dim <= Stride /\ FfnOffset + g.dim \in Nat /\ Lanes \in Nat \ {0}
  BY Widths DEF LayerMemory
<1>1. Effect("FfnNorm", Lanes)
  BY <1>0, FfnNormApart, RunsLeave
<1>2. LeavesAct("FfnNorm") /\ LeavesCaches("FfnNorm")
  BY <1>0, FfnNormApart, ScratchFrame
<1>3. ASSUME g.gated, NEW t \in Tokens, NEW i \in Rows
      PROVE  memory'[Temp(t, FfnOffset + i)] = Val("ffn_norm", t, i)
  <2>1. /\ t \in Nat /\ ~(t >= g.batch) /\ FfnOffset + i \in 0 .. Stride - 1
        /\ i % Lanes \in 0 .. Lanes - 1
    BY <1>0, Widths DEF Tokens, Rows
  <2>2. Store(Temp(t, FfnOffset + i), Val("ffn_norm", t, i), ActRow(t))
          \in Kernel("FfnNorm", i % Lanes, t)
    <3>1. Store(Temp(t, FfnOffset + i), Val("ffn_norm", t, i), ActRow(t))
            \in FfnNorm(i % Lanes, t)
      BY <1>3, <2>1 DEF FfnNorm
    <3>2. QED
      BY <3>1, KernelsAre
  <2>3. Temp(t, FfnOffset + i) \in DOMAIN memory
    BY <2>1, CellsExist DEF LayerMemory
  <2>4. ActRow(t) \subseteq DOMAIN memory
    BY LoadsExist
  <2>5. Image(memory, ActRow(t)) = Needs(Val("ffn_norm", t, i))
    BY RowLoads, NeedsOf
  <2>6. QED
    BY <1>1, <2>1, <2>2, <2>3, <2>4, <2>5, ValueLands
<1>4. ASSUME ~g.gated, TempIs(memory, FfnOffset, g.dim, "norm")
      PROVE  TempIs(memory', FfnOffset, g.dim, "norm")
  <2>1. \A x, t : Kernel("FfnNorm", x, t) = {}
    BY <1>4, KernelsAre DEF FfnNorm
  <2>2. LeavesTemp("FfnNorm", 0, Stride)
    BY <2>1 DEF LeavesTemp, Untouched
  <2>3. QED
    BY <1>0, <1>1, <1>4, <2>2, TempKept
<1>5. ActIs(memory', AttnOutput) /\ CachesAre(memory')
  BY <1>1, <1>2, ActKept, CacheKept DEF CachesAre
<1>6. g.gated => TempIs(memory', FfnOffset, g.dim, "ffn_norm")
  BY <1>3 DEF TempIs, Rows
<1>7. DOMAIN memory' = DOMAIN memory
  BY <1>1 DEF Effect
<1>8. QED
  BY <1>4, <1>5, <1>6, <1>7

-----------------------------------------------------------------------------
(* FfnProj and FfnStaged: the rows of the FFN.                             *)

\* What a column of the FFN's rows is.
GateUpName(i) == IF i >= g.ffn /\ ~g.gated THEN "one" ELSE "gate_up"
GateUpIs(m) ==
  \A t \in Tokens, i \in 0 .. 2 * g.ffn - 1 : m[Temp(t, i)] = Val(GateUpName(i), t, i)

\* What an invocation loads.
FfnLoads(k, x, t) ==
  IF k = "FfnStaged" THEN TempRow(t, FfnOffset, g.dim)
  ELSE IF ~g.gated /\ x >= g.ffn THEN {}
  ELSE IF g.gated THEN ActRow(t) ELSE TempRow(t, FfnOffset, g.dim)

\* The store of an invocation.
LEMMA FfnStores ==
  ASSUME g \in Geometries, NEW k \in {"FfnProj", "FfnStaged"}, k = "FfnStaged" => g.gated
  PROVE  \A x, t : Kernel(k, x, t) =
           IF ~FfnRow(x, t) THEN {}
           ELSE {Store(Temp(t, x), Val(GateUpName(x), t, x), FfnLoads(k, x, t))}
<1>1. CASE k = "FfnProj"
  <2>1. \A x, t : FfnProj(x, t) =
           IF ~FfnRow(x, t) THEN {}
           ELSE {Store(Temp(t, x), Val(GateUpName(x), t, x), FfnLoads(k, x, t))}
    <3>1. ASSUME NEW x, NEW t, FfnRow(x, t)
          PROVE  FfnProj(x, t) = {Store(Temp(t, x), Val(GateUpName(x), t, x), FfnLoads(k, x, t))}
      <4>1. CASE ~g.gated /\ x >= g.ffn
        <5>1. GateUpName(x) = "one" /\ FfnLoads(k, x, t) = {}
          BY <1>1, <4>1 DEF GateUpName, FfnLoads
        <5>2. FfnProj(x, t) = {Store(Temp(t, x), Val("one", t, x), {})}
          BY <3>1, <4>1 DEF FfnProj
        <5>3. QED
          BY <5>1, <5>2
      <4>2. CASE ~(~g.gated /\ x >= g.ffn)
        <5>1. /\ GateUpName(x) = "gate_up"
              /\ FfnLoads(k, x, t) = IF g.gated THEN ActRow(t) ELSE TempRow(t, FfnOffset, g.dim)
          BY <1>1, <4>2 DEF GateUpName, FfnLoads
        <5>2. FfnProj(x, t) =
                {Store(Temp(t, x), Val("gate_up", t, x),
                       IF g.gated THEN ActRow(t) ELSE TempRow(t, FfnOffset, g.dim))}
          BY <3>1, <4>2 DEF FfnProj
        <5>3. QED
          BY <5>1, <5>2
      <4>3. QED
        BY <4>1, <4>2
    <3>2. ASSUME NEW x, NEW t, ~FfnRow(x, t) PROVE FfnProj(x, t) = {}
      BY <3>2 DEF FfnProj
    <3>3. QED
      BY <3>1, <3>2
  <2>2. QED
    BY <1>1, <2>1, KernelsAre
<1>2. CASE k = "FfnStaged"
  <2>1. \A x, t : GateUpName(x) = "gate_up" /\ FfnLoads(k, x, t) = TempRow(t, FfnOffset, g.dim)
    BY <1>2 DEF GateUpName, FfnLoads
  <2>2. \A x, t : FfnStaged(x, t) =
           IF ~FfnRow(x, t) THEN {}
           ELSE {Store(Temp(t, x), Val("gate_up", t, x), TempRow(t, FfnOffset, g.dim))}
    BY DEF FfnStaged
  <2>3. QED
    BY <1>2, <2>1, <2>2, KernelsAre
<1>3. QED
  BY <1>1, <1>2

\* The invocations are apart: the rows they take are behind the ones they fill.
LEMMA FfnApart ==
  ASSUME g \in Geometries, NEW k \in {"FfnProj", "FfnStaged"}, k = "FfnStaged" => g.gated
  PROVE  Apart(k) /\ InScratch(k, 0, FfnOffset)
<1>0. /\ g.dim \in Nat /\ FfnOffset \in Nat /\ Stride \in Nat /\ FfnOffset + g.dim <= Stride
      /\ FfnOffset = 2 * g.ffn
  BY Widths
<1>1. ASSUME NEW x \in Nat, NEW t \in Nat, NEW s \in Kernel(k, x, t)
      PROVE  /\ x \in 0 .. FfnOffset - 1 /\ x \in 0 .. Stride - 1
             /\ s = Store(Temp(t, x), Val(GateUpName(x), t, x), FfnLoads(k, x, t))
  <2>1. FfnRow(x, t) /\ s = Store(Temp(t, x), Val(GateUpName(x), t, x), FfnLoads(k, x, t))
    BY FfnStores
  <2>2. x < 2 * g.ffn
    BY <2>1 DEF FfnRow
  <2>3. QED
    BY <1>0, <2>1, <2>2
<1>2. ASSUME NEW x \in Nat, NEW t \in Nat, NEW s \in Kernel(k, x, t)
      PROVE  s.cell = Temp(t, x) /\ s.loads = FfnLoads(k, x, t)
  BY <1>1, StoreFields
<1>3. ASSUME NEW t \in Nat, NEW x \in 0 .. FfnOffset - 1, NEW u \in Nat, NEW y
      PROVE  Temp(t, x) \notin FfnLoads(k, y, u)
  <2>1. Temp(t, x) \notin ActRow(u)
    BY BuffersAreApart DEF ActRow
  <2>2. Temp(t, x) \notin TempRow(u, FfnOffset, g.dim)
    <3>1. ASSUME NEW j \in 0 .. g.dim - 1 PROVE Temp(t, x) # Temp(u, FfnOffset + j)
      <4>1. x \in 0 .. Stride - 1 /\ FfnOffset + j \in 0 .. Stride - 1 /\ x # FfnOffset + j
        BY <1>0
      <4>2. QED
        BY <4>1, TempIsUnique
    <3>2. QED
      BY <3>1 DEF TempRow
  <2>3. QED
    BY <2>1, <2>2 DEF FfnLoads
<1>4. ASSUME NEW x \in Nat, NEW y \in Nat, NEW t \in Nat, NEW u \in Nat,
             NEW a \in Kernel(k, x, t), NEW b \in Kernel(k, y, u)
      PROVE  (a.cell = b.cell => a = b) /\ a.cell \notin b.loads
  <2>1. /\ a.cell = Temp(t, x) /\ b.cell = Temp(u, y) /\ b.loads = FfnLoads(k, y, u)
        /\ x \in 0 .. FfnOffset - 1 /\ x \in 0 .. Stride - 1 /\ y \in 0 .. Stride - 1
    BY <1>1, <1>2
  <2>2. a.cell \notin b.loads
    BY <1>3, <2>1
  <2>3. ASSUME a.cell = b.cell PROVE a = b
    <3>1. Temp(t, x) = Temp(u, y)
      BY <2>1, <2>3
    <3>2. t = u /\ x = y
      BY <2>1, <3>1, TempIsUnique
    <3>3. QED
      BY <1>1, <3>2
  <2>4. QED
    BY <2>2, <2>3
<1>5. Apart(k)
  BY <1>4 DEF Apart
<1>6. InScratch(k, 0, FfnOffset)
  BY <1>1, <1>2 DEF InScratch
<1>7. QED
  BY <1>5, <1>6

\* What a column of the FFN's rows needs.
LEMMA NeedsOfGateUp ==
  \A t, i : Needs(Val(GateUpName(i), t, i)) =
              IF i >= g.ffn /\ ~g.gated THEN {} ELSE OfRow(FfnInput, t)
BY NeedsOf DEF GateUpName

\* The invocations load what their values need: the residual stream, the rows
\* of FfnNorm, or the norm that a model without a gate has kept.
LEMMA FfnLoadsAreNeeded ==
  ASSUME LayerMemory, ActIs(memory, AttnOutput), NEW k \in {"FfnProj", "FfnStaged"},
         k = "FfnStaged" => /\ g.gated /\ FfnInput = "ffn_norm"
                            /\ TempIs(memory, FfnOffset, g.dim, "ffn_norm"),
         k = "FfnProj" /\ g.gated => FfnInput = AttnOutput,
         ~g.gated => TempIs(memory, FfnOffset, g.dim, "norm"),
         NEW t \in Tokens, NEW x
  PROVE  /\ FfnLoads(k, x, t) \subseteq DOMAIN memory
         /\ Image(memory, FfnLoads(k, x, t)) = Needs(Val(GateUpName(x), t, x))
<1>0. /\ g \in Geometries /\ g.dim \in Nat /\ FfnOffset \in Nat /\ Stride \in Nat
      /\ FfnOffset + g.dim <= Stride
  BY Widths DEF LayerMemory
<1>1. /\ TempRow(t, FfnOffset, g.dim) \subseteq DOMAIN memory /\ ActRow(t) \subseteq DOMAIN memory
  BY <1>0, LoadsExist
<1>2. FfnLoads(k, x, t) \subseteq DOMAIN memory
  BY <1>1 DEF FfnLoads
<1>3. \A what : TempIs(memory, FfnOffset, g.dim, what)
                  => Image(memory, TempRow(t, FfnOffset, g.dim)) = OfRow(what, t)
  BY AreaLoads DEF OfRow, Rows
<1>4. Image(memory, ActRow(t)) = OfRow(AttnOutput, t)
  BY RowLoads
<1>5. Image(memory, {}) = {}
  BY DEF Image
<1>6. ~g.gated => FfnInput = "norm"
  BY DEF FfnInput
<1>7. CASE k = "FfnStaged"
  <2>1. /\ FfnLoads(k, x, t) = TempRow(t, FfnOffset, g.dim)
        /\ Needs(Val(GateUpName(x), t, x)) = OfRow("ffn_norm", t)
    BY <1>7, NeedsOfGateUp DEF FfnLoads
  <2>2. QED
    BY <1>2, <1>3, <1>7, <2>1
<1>8. CASE k = "FfnProj" /\ g.gated
  <2>1. /\ FfnLoads(k, x, t) = ActRow(t)
        /\ Needs(Val(GateUpName(x), t, x)) = OfRow(AttnOutput, t)
    BY <1>8, NeedsOfGateUp DEF FfnLoads
  <2>2. QED
    BY <1>2, <1>4, <2>1
<1>9. CASE k = "FfnProj" /\ ~g.gated
  <2>1. CASE x >= g.ffn
    <3>1. FfnLoads(k, x, t) = {} /\ Needs(Val(GateUpName(x), t, x)) = {}
      BY <1>9, <2>1, NeedsOfGateUp DEF FfnLoads
    <3>2. QED
      BY <1>2, <1>5, <3>1
  <2>2. CASE ~(x >= g.ffn)
    <3>1. /\ FfnLoads(k, x, t) = TempRow(t, FfnOffset, g.dim)
          /\ Needs(Val(GateUpName(x), t, x)) = OfRow("norm", t)
      BY <1>6, <1>9, <2>2, NeedsOfGateUp DEF FfnLoads
    <3>2. QED
      BY <1>2, <1>3, <1>9, <3>1
  <2>3. QED
    BY <2>1, <2>2
<1>10. QED
  BY <1>7, <1>8, <1>9

\* They leave the FFN's rows at the start of each token's scratch.
LEMMA FfnRuns ==
  ASSUME LayerMemory, ActIs(memory, AttnOutput), CachesAre(memory),
         NEW k \in {"FfnProj", "FfnStaged"},
         k = "FfnStaged" => /\ g.gated /\ FfnInput = "ffn_norm"
                            /\ TempIs(memory, FfnOffset, g.dim, "ffn_norm"),
         k = "FfnProj" /\ g.gated => FfnInput = AttnOutput,
         ~g.gated => TempIs(memory, FfnOffset, g.dim, "norm"),
         NEW o, Runs(o, k, 2 * g.ffn)
  PROVE  /\ DOMAIN memory' = DOMAIN memory /\ CachesAre(memory')
         /\ ActIs(memory', AttnOutput) /\ GateUpIs(memory')
<1>0. /\ g \in Geometries /\ g.dim \in Nat /\ FfnOffset \in Nat /\ Stride \in Nat
      /\ FfnOffset + g.dim <= Stride /\ FfnOffset <= Stride /\ 2 * g.ffn = FfnOffset
  BY Widths DEF LayerMemory
<1>1. Apart(k) /\ InScratch(k, 0, FfnOffset)
  BY <1>0, FfnApart
<1>2. Effect(k, 2 * g.ffn)
  BY <1>0, <1>1, RunsLeave
<1>3. LeavesAct(k) /\ LeavesCaches(k)
  BY <1>0, <1>1, ScratchFrame
<1>4. ASSUME NEW t \in Tokens, NEW i \in 0 .. 2 * g.ffn - 1
      PROVE  memory'[Temp(t, i)] = Val(GateUpName(i), t, i)
  <2>1. i \in 0 .. Stride - 1 /\ FfnRow(i, t)
    BY <1>0, Widths DEF FfnRow, Tokens
  <2>2. Store(Temp(t, i), Val(GateUpName(i), t, i), FfnLoads(k, i, t)) \in Kernel(k, i, t)
    BY <1>0, <2>1, FfnStores
  <2>3. Temp(t, i) \in DOMAIN memory
    BY <2>1, CellsExist DEF LayerMemory
  <2>4. /\ FfnLoads(k, i, t) \subseteq DOMAIN memory
        /\ Image(memory, FfnLoads(k, i, t)) = Needs(Val(GateUpName(i), t, i))
    BY FfnLoadsAreNeeded
  <2>5. QED
    BY <1>2, <2>2, <2>3, <2>4, ValueLands
<1>5. ActIs(memory', AttnOutput) /\ CachesAre(memory')
  BY <1>2, <1>3, ActKept, CacheKept DEF CachesAre
<1>6. QED
  BY <1>2, <1>4, <1>5 DEF Effect, GateUpIs

\* Either pipeline of the projections has the effect of the first.
LEMMA QkvEffect ==
  ASSUME g \in Geometries, NEW k \in {"Qkv", "QkvCoop"}, NEW n \in Nat, NEW o, Runs(o, k, n)
  PROVE  Effect("Qkv", n)
<1>1. \A x, t : Kernel(k, x, t) = Kernel("Qkv", x, t)
  BY KernelsAre
<1>2. Apart(k)
  BY <1>1, QkvApart DEF Apart
<1>3. Effect(k, n)
  BY <1>2, RunsLeave
<1>4. \A c : Untouched(k, c) <=> Untouched("Qkv", c)
  BY <1>1 DEF Untouched
<1>5. QED
  BY <1>1, <1>3, <1>4 DEF Effect

-----------------------------------------------------------------------------
(* The stages of a layer.                                                  *)

\* The entry points that run a layer.
LayerPaths == CallPaths \cup {LoopPath}

\* Without a gate, the norm is kept until the FFN takes it.
NormIsThere(m) == ~g.gated => TempIs(m, FfnOffset, g.dim, "norm")

\* What memory has before the n-th of the ten kernels of a layer; after the
\* last one for n = 11.
Stage(n, m) ==
  CASE n = 1  -> ActIs(m, "x") /\ PastIs(m)
    [] n = 2  -> /\ ActIs(m, "x") /\ PastIs(m) /\ NormIsThere(m)
                 /\ TempIs(m, 0, g.dim, "norm")
    [] n = 3  -> /\ ActIs(m, "x") /\ PastIs(m) /\ NormIsThere(m)
                 /\ TempIs(m, QueryOffset, DimQ, "q")
                 /\ CacheIs(m, "K", "k") /\ CacheIs(m, "V", "v")
    [] n = 4  -> /\ ActIs(m, "x") /\ CachesAre(m) /\ NormIsThere(m)
                 /\ TempIs(m, QueryOffset, DimQ, QName)
    [] n = 5  -> /\ ActIs(m, "x") /\ CachesAre(m) /\ NormIsThere(m)
                 /\ TempIs(m, 0, DimQ, "context")
    [] n = 6  -> /\ ActIs(m, "act_proj") /\ CachesAre(m) /\ NormIsThere(m)
                 /\ TempIs(m, StashOffset, g.dim, "proj")
    [] n = 7  -> ActIs(m, AttnOutput) /\ CachesAre(m) /\ NormIsThere(m)
    [] n = 8  -> /\ ActIs(m, AttnOutput) /\ CachesAre(m) /\ NormIsThere(m)
                 /\ StagedFfn /\ path = LoopPath => TempIs(m, FfnOffset, g.dim, "ffn_norm")
    [] n = 9  -> ActIs(m, AttnOutput) /\ CachesAre(m) /\ GateUpIs(m)
    [] n = 10 -> /\ ActIs(m, "act_down") /\ CachesAre(m)
                 /\ TempIs(m, FfnOffset, g.dim, "down")
    [] n = 11 -> /\ ActIs(m, LayerOutput) /\ CachesAre(m)
                 /\ TempIs(m, FfnOffset, g.dim, "down")

\* A dispatch of the n-th kernel, over its columns and the rows of the call.
RunsOver(o, ks, n) ==
  /\ o.op = "run" /\ o.kernel \in ks /\ o.columns \in Nat /\ n <= o.columns
  /\ o.rows = g.batch

Dispatches(n, o) ==
  CASE n = 1  -> RunsOver(o, {"AttnNorm"}, g.dim)
    [] n = 2  -> RunsOver(o, {"Qkv", "QkvCoop"}, DimQ + 2 * DimKv)
    [] n = 3  -> RunsOver(o, {"QkNorm"}, g.heads + g.kvHeads)
    [] n = 4  -> RunsOver(o, {"AttnOut"}, DimQ)
    [] n = 5  -> RunsOver(o, {"AttnProj", "AttnProjCoop"}, g.dim)
    [] n = 6  -> RunsOver(o, {"PostAttnNorm"}, g.dim) /\ path # "stepwise"
    [] n = 7  -> RunsOver(o, {"FfnNorm"}, Lanes)
    [] n = 8  -> /\ RunsOver(o, {"FfnProj", "FfnStaged"}, 2 * g.ffn)
                 /\ o.kernel = "FfnStaged" <=> StagedFfn /\ path = LoopPath
    [] n = 9  -> RunsOver(o, {"FfnDown", "FfnDownCoop"}, g.dim)
    [] n = 10 -> RunsOver(o, {"PostFfwNorm"}, g.dim) /\ path # "stepwise"

\* The attention's half of the stages.
LEMMA AttentionStages ==
  ASSUME LayerMemory, NEW o, NEW n \in 1 .. 5, Stage(n, memory), Dispatches(n, o), Execute(o)
  PROVE  DOMAIN memory' = DOMAIN memory /\ Stage(n + 1, memory')
<1>0. /\ g \in Geometries /\ g.dim \in Nat /\ DimQ \in Nat /\ DimKv \in Nat
      /\ g.heads \in Nat /\ g.kvHeads \in Nat
      /\ StashOffset \in Nat /\ DimQ <= StashOffset /\ StashOffset + g.dim <= Stride
      /\ FfnOffset \in Nat /\ FfnOffset + g.dim <= Stride
      /\ ~g.gated => StashOffset + g.dim <= FfnOffset
  BY Widths DEF LayerMemory
<1>1. CASE n = 1
  <2>1. ActIs(memory, "x") /\ PastIs(memory)
    BY <1>1 DEF Stage
  <2>2. Runs(o, "AttnNorm", g.dim)
    BY <1>1 DEF Dispatches, RunsOver, Runs
  <2>3. /\ DOMAIN memory' = DOMAIN memory
        /\ ActIs(memory', "x") /\ PastIs(memory') /\ NormIsThere(memory')
        /\ TempIs(memory', 0, g.dim, "norm")
    BY <2>1, <2>2, NormRuns DEF NormIsThere
  <2>4. QED
    BY <1>1, <2>3 DEF Stage
<1>2. CASE n = 2
  <2>1. /\ ActIs(memory, "x") /\ PastIs(memory) /\ NormIsThere(memory)
        /\ TempIs(memory, 0, g.dim, "norm")
    BY <1>2 DEF Stage
  <2>2. /\ o.kernel \in {"Qkv", "QkvCoop"} /\ Runs(o, o.kernel, DimQ + 2 * DimKv)
        /\ DimQ + 2 * DimKv \in Nat
    BY <1>0, <1>2 DEF Dispatches, RunsOver, Runs
  <2>3. Effect("Qkv", DimQ + 2 * DimKv)
    BY <1>0, <2>2, QkvEffect
  <2>4. /\ DOMAIN memory' = DOMAIN memory
        /\ ActIs(memory', "x") /\ PastIs(memory') /\ NormIsThere(memory')
        /\ TempIs(memory', QueryOffset, DimQ, "q")
        /\ CacheIs(memory', "K", "k") /\ CacheIs(memory', "V", "v")
    BY <2>1, <2>3, QkvRuns DEF NormIsThere
  <2>5. QED
    BY <1>2, <2>4 DEF Stage
<1>3. CASE n = 3
  <2>1. /\ ActIs(memory, "x") /\ PastIs(memory) /\ NormIsThere(memory)
        /\ TempIs(memory, QueryOffset, DimQ, "q")
        /\ CacheIs(memory, "K", "k") /\ CacheIs(memory, "V", "v")
    BY <1>3 DEF Stage
  <2>2. Runs(o, "QkNorm", g.heads + g.kvHeads)
    BY <1>3 DEF Dispatches, RunsOver, Runs
  <2>3. /\ DOMAIN memory' = DOMAIN memory
        /\ ActIs(memory', "x") /\ CachesAre(memory') /\ NormIsThere(memory')
        /\ TempIs(memory', QueryOffset, DimQ, QName)
    BY <2>1, <2>2, QkNormRuns DEF NormIsThere, CachesAre
  <2>4. QED
    BY <1>3, <2>3 DEF Stage
<1>4. CASE n = 4
  <2>1. /\ ActIs(memory, "x") /\ CachesAre(memory) /\ NormIsThere(memory)
        /\ TempIs(memory, QueryOffset, DimQ, QName)
    BY <1>4 DEF Stage
  <2>2. Runs(o, "AttnOut", DimQ)
    BY <1>4 DEF Dispatches, RunsOver, Runs
  <2>3. /\ DOMAIN memory' = DOMAIN memory
        /\ ActIs(memory', "x") /\ CachesAre(memory') /\ NormIsThere(memory')
        /\ TempIs(memory', 0, DimQ, "context")
    BY <2>1, <2>2, AttnRuns DEF NormIsThere
  <2>4. QED
    BY <1>4, <2>3 DEF Stage
<1>5. CASE n = 5
  <2>1. /\ ActIs(memory, "x") /\ CachesAre(memory) /\ NormIsThere(memory)
        /\ TempIs(memory, 0, DimQ, "context")
    BY <1>5 DEF Stage
  <2>2. o.kernel \in {"AttnProj", "AttnProjCoop"} /\ Runs(o, o.kernel, g.dim)
    BY <1>5 DEF Dispatches, RunsOver, Runs
  <2>3. Adds(o.kernel, StashOffset, DimQ, "proj", "act_proj")
    BY <2>2, TheProducts
  <2>4. ASSUME NEW t \in Tokens, NEW x \in Rows
        PROVE  /\ Needs(Val("proj", t, x)) = Image(memory, TempRow(t, 0, DimQ))
               /\ Needs(Val("act_proj", t, x))
                    = {Val("x", t, x)} \cup Image(memory, TempRow(t, 0, DimQ))
    <3>1. Image(memory, TempRow(t, 0, DimQ)) = Contexts(t)
      BY <2>1, AreaLoads DEF Contexts
    <3>2. QED
      BY <3>1, NeedsOf
  <2>5. /\ DOMAIN memory' = DOMAIN memory /\ CachesAre(memory')
        /\ ActIs(memory', "act_proj") /\ TempIs(memory', StashOffset, g.dim, "proj")
        /\ \A lo, w \in Nat : \A what :
             StashOffset + g.dim <= lo /\ lo + w <= Stride /\ TempIs(memory, lo, w, what)
               => TempIs(memory', lo, w, what)
    BY <1>0, <2>1, <2>2, <2>3, <2>4, ProductRuns
  <2>6. NormIsThere(memory')
    BY <1>0, <2>1, <2>5 DEF NormIsThere
  <2>7. QED
    BY <1>5, <2>5, <2>6 DEF Stage
<1>6. QED
  BY <1>1, <1>2, <1>3, <1>4, <1>5

\* The FFN's half of the stages.
LEMMA FfnStages ==
  ASSUME LayerMemory, NEW o, NEW n \in 6 .. 10, Stage(n, memory), Dispatches(n, o), Execute(o)
  PROVE  DOMAIN memory' = DOMAIN memory /\ Stage(n + 1, memory')
<1>0. /\ g \in Geometries /\ g.dim \in Nat /\ Stride \in Nat /\ FfnOffset \in Nat
      /\ StashOffset \in Nat /\ StashOffset + g.dim <= Stride /\ FfnOffset + g.dim <= Stride
      /\ FfnOffset = 2 * g.ffn /\ Lanes \in Nat /\ g.gated \in BOOLEAN
  BY Widths DEF LayerMemory
<1>1. CASE n = 6
  <2>1. /\ ActIs(memory, "act_proj") /\ CachesAre(memory) /\ NormIsThere(memory)
        /\ TempIs(memory, StashOffset, g.dim, "proj")
    BY <1>1 DEF Stage
  <2>2. Runs(o, "PostAttnNorm", g.dim) /\ path # "stepwise"
    BY <1>1 DEF Dispatches, RunsOver, Runs
  <2>3. ASSUME NEW t \in Tokens, NEW x \in Rows
        PROVE  Needs(Val("act_attn", t, x))
                 = {Val("act_proj", t, x)} \cup Image(memory, TempRow(t, StashOffset, g.dim))
    <3>1. Image(memory, TempRow(t, StashOffset, g.dim)) = OfRow("proj", t)
      BY <2>1, AreaLoads DEF OfRow, Rows
    <3>2. QED
      BY <3>1, NeedsOf
  <2>4. /\ DOMAIN memory' = DOMAIN memory /\ CachesAre(memory')
        /\ g.postNorm => ActIs(memory', "act_attn")
        /\ ~g.postNorm => ActIs(memory', "act_proj")
        /\ \A lo, w \in Nat : \A that :
             lo + w <= Stride /\ TempIs(memory, lo, w, that) => TempIs(memory', lo, w, that)
    BY <1>0, <2>1, <2>2, <2>3, TheRenorms, RenormRuns
  <2>5. ActIs(memory', AttnOutput)
    BY <2>2, <2>4 DEF AttnOutput, PostNorm
  <2>6. NormIsThere(memory')
    BY <1>0, <2>1, <2>4 DEF NormIsThere
  <2>7. QED
    BY <1>1, <2>4, <2>5, <2>6 DEF Stage
<1>2. CASE n = 7
  <2>1. ActIs(memory, AttnOutput) /\ CachesAre(memory) /\ NormIsThere(memory)
    BY <1>2 DEF Stage
  <2>2. Runs(o, "FfnNorm", Lanes)
    BY <1>2 DEF Dispatches, RunsOver, Runs
  <2>3. /\ DOMAIN memory' = DOMAIN memory /\ CachesAre(memory') /\ ActIs(memory', AttnOutput)
        /\ g.gated => TempIs(memory', FfnOffset, g.dim, "ffn_norm")
        /\ NormIsThere(memory')
    BY <2>1, <2>2, FfnNormLeaves DEF NormIsThere
  <2>4. StagedFfn => g.gated
    BY DEF StagedFfn
  <2>5. QED
    BY <1>2, <2>3, <2>4 DEF Stage
<1>3. CASE n = 8
  <2>1. /\ ActIs(memory, AttnOutput) /\ CachesAre(memory) /\ NormIsThere(memory)
        /\ StagedFfn /\ path = LoopPath => TempIs(memory, FfnOffset, g.dim, "ffn_norm")
    BY <1>3 DEF Stage
  <2>2. /\ o.kernel \in {"FfnProj", "FfnStaged"} /\ Runs(o, o.kernel, 2 * g.ffn)
        /\ o.kernel = "FfnStaged" <=> StagedFfn /\ path = LoopPath
    BY <1>3 DEF Dispatches, RunsOver, Runs
  <2>3. o.kernel = "FfnStaged" => /\ g.gated /\ FfnInput = "ffn_norm"
                                  /\ TempIs(memory, FfnOffset, g.dim, "ffn_norm")
    BY <2>1, <2>2 DEF FfnInput, StagedFfn
  <2>4. o.kernel = "FfnProj" /\ g.gated => FfnInput = AttnOutput
    BY <2>2 DEF FfnInput
  <2>5. /\ DOMAIN memory' = DOMAIN memory /\ CachesAre(memory')
        /\ ActIs(memory', AttnOutput) /\ GateUpIs(memory')
    BY <2>1, <2>2, <2>3, <2>4, FfnRuns DEF NormIsThere
  <2>6. QED
    BY <1>3, <2>5 DEF Stage
<1>4. CASE n = 9
  <2>1. ActIs(memory, AttnOutput) /\ CachesAre(memory) /\ GateUpIs(memory)
    BY <1>4 DEF Stage
  <2>2. o.kernel \in {"FfnDown", "FfnDownCoop"} /\ Runs(o, o.kernel, g.dim)
    BY <1>4 DEF Dispatches, RunsOver, Runs
  <2>3. Adds(o.kernel, FfnOffset, 2 * g.ffn, "down", "act_down")
    BY <2>2, TheProducts
  <2>4. ASSUME NEW t \in Tokens, NEW x \in Rows
        PROVE  /\ Needs(Val("down", t, x)) = Image(memory, TempRow(t, 0, 2 * g.ffn))
               /\ Needs(Val("act_down", t, x))
                    = {Val(AttnOutput, t, x)} \cup Image(memory, TempRow(t, 0, 2 * g.ffn))
    <3>1. Image(memory, TempRow(t, 0, 2 * g.ffn)) = GateUps(t)
      <4>1. \A i \in 0 .. 2 * g.ffn - 1 : memory[Temp(t, 0 + i)] = Val(GateUpName(i), t, i)
        BY <1>0, <2>1 DEF GateUpIs
      <4>2. QED
        BY <4>1 DEF Image, TempRow, GateUps, GateUpName
    <3>2. QED
      BY <3>1, NeedsOf
  <2>5. /\ DOMAIN memory' = DOMAIN memory /\ CachesAre(memory')
        /\ ActIs(memory', "act_down") /\ TempIs(memory', FfnOffset, g.dim, "down")
    BY <1>0, <2>1, <2>2, <2>3, <2>4, ProductRuns
  <2>6. QED
    BY <1>4, <2>5 DEF Stage
<1>5. CASE n = 10
  <2>1. /\ ActIs(memory, "act_down") /\ CachesAre(memory)
        /\ TempIs(memory, FfnOffset, g.dim, "down")
    BY <1>5 DEF Stage
  <2>2. Runs(o, "PostFfwNorm", g.dim) /\ path # "stepwise"
    BY <1>5 DEF Dispatches, RunsOver, Runs
  <2>3. ASSUME NEW t \in Tokens, NEW x \in Rows
        PROVE  Needs(Val("act_out", t, x))
                 = {Val("act_down", t, x)} \cup Image(memory, TempRow(t, FfnOffset, g.dim))
    <3>1. Image(memory, TempRow(t, FfnOffset, g.dim)) = OfRow("down", t)
      BY <2>1, AreaLoads DEF OfRow, Rows
    <3>2. QED
      BY <3>1, NeedsOf
  <2>4. /\ DOMAIN memory' = DOMAIN memory /\ CachesAre(memory')
        /\ g.postNorm => ActIs(memory', "act_out")
        /\ ~g.postNorm => ActIs(memory', "act_down")
        /\ \A lo, w \in Nat : \A that :
             lo + w <= Stride /\ TempIs(memory, lo, w, that) => TempIs(memory', lo, w, that)
    <3>1. Renorms("PostFfwNorm", FfnOffset, "act_out")
      BY TheRenorms
    <3>2. FfnOffset \in Nat /\ FfnOffset + g.dim <= Stride
      BY <1>0
    <3>3. QED
      BY <2>1, <2>2, <2>3, <3>1, <3>2, RenormRuns
  <2>5. ActIs(memory', LayerOutput)
    BY <2>2, <2>4 DEF LayerOutput, PostNorm
  <2>6. TempIs(memory', FfnOffset, g.dim, "down")
    BY <1>0, <2>1, <2>4
  <2>7. QED
    BY <1>5, <2>4, <2>5, <2>6 DEF Stage
<1>6. QED
  BY <1>1, <1>2, <1>3, <1>4, <1>5

-----------------------------------------------------------------------------
(* The programs of the entry points that run a layer.                      *)

\* Whole workgroups are enough.
LEMMA LanewiseCovers ==
  ASSUME LayerAssumption, NEW n \in Nat
  PROVE  Lanewise(n) \in Nat /\ n <= Lanewise(n)
<1>0. Lanes \in Nat \ {0}
  BY DEF LayerAssumption
<1>1. ASSUME NEW a \in Nat, NEW d \in Nat \ {0}
      PROVE  ((a + d - 1) \div d) * d \in Nat /\ a <= ((a + d - 1) \div d) * d
  <2> DEFINE b == a + d - 1
             q == b \div d
  <2>1. b \in Nat
    OBVIOUS
  <2> HIDE DEF b
  <2>2. q \in Nat /\ b % d \in 0 .. d - 1 /\ b = d * q + (b % d)
    BY <2>1
  <2> HIDE DEF q
  <2>3. q * d \in Nat /\ q * d = d * q
    BY <2>2, Products
  <2>4. b < d * q + d
    BY <2>2, <2>3
  <2>5. a <= q * d
    BY <2>3, <2>4 DEF b
  <2>6. QED
    BY <2>3, <2>5 DEF q, b
<1>2. QED
  BY <1>0, <1>1 DEF Lanewise, CeilDiv

\* A dispatch of a layer's kernel with the layer's bind group.
Bound(o) ==
  o.op = "run" => o.kernel \in LayerPipelines /\ o.group = LayerGroup(g.chunks)

\* The columns of a dispatch.
LEMMA ColumnsCover ==
  ASSUME g \in Geometries
  PROVE  /\ \A n \in {g.dim, DimQ, 2 * g.ffn, DimQ + 2 * DimKv, DimQ + DimKv} :
              n \in Nat /\ Lanewise(n) \in Nat /\ n <= Lanewise(n)
         /\ Lanewise(DimQ + DimKv) >= g.heads + g.kvHeads
         /\ Lanes \in Nat /\ g.batch \in Nat
<1>1. /\ g.dim \in Nat /\ DimQ \in Nat /\ DimKv \in Nat /\ g.ffn \in Nat /\ Lanes \in Nat
      /\ g.batch \in Nat /\ g.heads \in Nat /\ g.kvHeads \in Nat /\ g.headDim \in Nat \ {0}
  BY Widths
<1>2. /\ 2 * g.ffn \in Nat /\ DimQ + 2 * DimKv \in Nat /\ DimQ + DimKv \in Nat
  BY <1>1
<1>3. \A n \in {g.dim, DimQ, 2 * g.ffn, DimQ + 2 * DimKv, DimQ + DimKv} :
        n \in Nat /\ Lanewise(n) \in Nat /\ n <= Lanewise(n)
  BY <1>1, <1>2, LanewiseCovers, LayerAssumption
<1>4. g.heads <= DimQ /\ g.kvHeads <= DimKv
  <2>1. ASSUME NEW a \in Nat, NEW d \in Nat \ {0} PROVE a <= a * d
    <3>1. 1 * a <= d * a /\ d * a = a * d /\ 1 * a = a
      BY Products
    <3>2. QED
      BY <3>1
  <2>2. QED
    BY <1>1, <2>1 DEF DimQ, DimKv
<1>5. Lanewise(DimQ + DimKv) >= g.heads + g.kvHeads
  BY <1>1, <1>2, <1>3, <1>4
<1>6. QED
  BY <1>1, <1>3, <1>5

\* The operations of the layer loop, in either order of its FFN.
LoopStage(i) == IF FfnNormRuns \/ i <= 6 THEN i ELSE i + 1

\* Its operations are those of the ten kernels, in order.
LEMMA LoopSteps ==
  ASSUME g \in Geometries, path = LoopPath
  PROVE  /\ Len(LoopProgram) = IF FfnNormRuns THEN 10 ELSE 9
         /\ DOMAIN LoopProgram = 1 .. Len(LoopProgram)
         /\ \A i \in 1 .. Len(LoopProgram) :
              Dispatches(LoopStage(i), LoopProgram[i]) /\ Bound(LoopProgram[i])
<1> DEFINE Op(k, n) == [op |-> "run", kernel |-> k, group |-> LayerGroup(g.chunks),
                        columns |-> n, rows |-> g.batch]
           total == DimQ + 2 * DimKv
           o1 == Op("AttnNorm", Lanewise(g.dim))
           o2 == IF CoopQkv THEN Op("QkvCoop", total) ELSE Op("Qkv", Lanewise(total))
           o3 == Op("QkNorm", Lanewise(DimQ + DimKv))
           o4 == Op("AttnOut", Lanewise(DimQ))
           o5 == IF CoopAttnProj THEN Op("AttnProjCoop", g.dim)
                                 ELSE Op("AttnProj", Lanewise(g.dim))
           o6 == Op("PostAttnNorm", Lanewise(g.dim))
           o7 == Op("FfnNorm", Lanes)
           o8 == IF StagedFfn THEN Op("FfnStaged", 2 * g.ffn)
                              ELSE Op("FfnProj", Lanewise(2 * g.ffn))
           o9 == IF CoopDown THEN Op("FfnDownCoop", g.dim) ELSE Op("FfnDown", Lanewise(g.dim))
           o10 == Op("PostFfwNorm", Lanewise(g.dim))
<1>1. \A k, n : Loop(k, n) = <<Op(k, n)>>
  BY DEF Loop, Run
<1> DEFINE attention == <<o1>> \o <<o2>> \o <<o3>> \o <<o4>> \o <<o5>> \o <<o6>>
           ffn == <<o8>> \o <<o9>> \o <<o10>>
           normed == <<o7>> \o <<o8>> \o <<o9>> \o <<o10>>
<1>2. LoopAttention = attention
  <2>1. /\ (IF CoopQkv THEN Loop("QkvCoop", total) ELSE Loop("Qkv", Lanewise(total))) = <<o2>>
        /\ (IF CoopAttnProj THEN Loop("AttnProjCoop", g.dim) ELSE Loop("AttnProj", Lanewise(g.dim)))
             = <<o5>>
    BY <1>1
  <2>2. /\ Loop("AttnNorm", Lanewise(g.dim)) = <<o1>>
        /\ Loop("QkNorm", Lanewise(DimQ + DimKv)) = <<o3>>
        /\ Loop("AttnOut", Lanewise(DimQ)) = <<o4>>
        /\ Loop("PostAttnNorm", Lanewise(g.dim)) = <<o6>>
    BY <1>1
  <2>3. QED
    BY <2>1, <2>2 DEF LoopAttention
<1>3. /\ FfnNormRuns => LoopFfn = normed
      /\ ~FfnNormRuns => LoopFfn = <<>> \o ffn
  <2>1. /\ (IF StagedFfn THEN Loop("FfnStaged", 2 * g.ffn) ELSE Loop("FfnProj", Lanewise(2 * g.ffn)))
             = <<o8>>
        /\ (IF CoopDown THEN Loop("FfnDownCoop", g.dim) ELSE Loop("FfnDown", Lanewise(g.dim)))
             = <<o9>>
    BY <1>1
  <2>2. /\ Loop("FfnNorm", Lanes) = <<o7>> /\ Loop("PostFfwNorm", Lanewise(g.dim)) = <<o10>>
    BY <1>1
  <2>3. LoopFfn = (IF FfnNormRuns THEN <<o7>> ELSE <<>>) \o <<o8>> \o <<o9>> \o <<o10>>
    BY <2>1, <2>2 DEF LoopFfn
  <2>4. QED
    BY <2>3
<1>4. /\ RunsOver(o1, {"AttnNorm"}, g.dim)
      /\ RunsOver(o2, {"Qkv", "QkvCoop"}, DimQ + 2 * DimKv)
      /\ RunsOver(o3, {"QkNorm"}, g.heads + g.kvHeads)
      /\ RunsOver(o4, {"AttnOut"}, DimQ)
      /\ RunsOver(o5, {"AttnProj", "AttnProjCoop"}, g.dim)
      /\ RunsOver(o6, {"PostAttnNorm"}, g.dim)
  BY ColumnsCover DEF RunsOver
<1>5. /\ RunsOver(o7, {"FfnNorm"}, Lanes)
      /\ RunsOver(o8, {"FfnProj", "FfnStaged"}, 2 * g.ffn)
      /\ o8.kernel = "FfnStaged" <=> StagedFfn
      /\ RunsOver(o9, {"FfnDown", "FfnDownCoop"}, g.dim)
      /\ RunsOver(o10, {"PostFfwNorm"}, g.dim)
  BY ColumnsCover DEF RunsOver
<1>6. /\ Bound(o1) /\ Bound(o2) /\ Bound(o3) /\ Bound(o4) /\ Bound(o5) /\ Bound(o6)
      /\ Bound(o7) /\ Bound(o8) /\ Bound(o9) /\ Bound(o10)
  BY DEF Bound, LayerPipelines
<1>7. path # "stepwise"
  BY DEF LoopPath
<1>8. /\ Dispatches(1, o1) /\ Dispatches(2, o2) /\ Dispatches(3, o3) /\ Dispatches(4, o4)
      /\ Dispatches(5, o5) /\ Dispatches(6, o6) /\ Dispatches(7, o7) /\ Dispatches(8, o8)
      /\ Dispatches(9, o9) /\ Dispatches(10, o10)
  <2> HIDE DEF o1, o2, o3, o4, o5, o6, o7, o8, o9, o10
  <2>1. QED
    BY <1>4, <1>5, <1>7 DEF Dispatches
<1> HIDE DEF o1, o2, o3, o4, o5, o6, o7, o8, o9, o10
<1>9. CASE FfnNormRuns
  <2> DEFINE s == attention \o normed
  <2>0. LoopProgram = s
    BY <1>2, <1>3, <1>9 DEF LoopProgram
  <2>1. /\ Len(s) = 10 /\ DOMAIN s = 1 .. 10 /\ s[1] = o1 /\ s[2] = o2 /\ s[3] = o3 /\ s[4] = o4 /\ s[5] = o5
        /\ s[6] = o6 /\ s[7] = o7 /\ s[8] = o8 /\ s[9] = o9 /\ s[10] = o10
    OBVIOUS
  <2> HIDE DEF s
  <2>2. Len(LoopProgram) = 10 /\ DOMAIN LoopProgram = 1 .. 10
    BY <2>0, <2>1
  <2>3. ASSUME NEW i \in 1 .. 10 PROVE Dispatches(i, LoopProgram[i]) /\ Bound(LoopProgram[i])
    <3>1. \/ i = 1
          \/ i = 2
          \/ i = 3
          \/ i = 4
          \/ i = 5
          \/ i = 6
          \/ i = 7
          \/ i = 8
          \/ i = 9
          \/ i = 10
      OBVIOUS
    <3>2. QED
      BY <1>6, <1>8, <2>0, <2>1, <3>1
  <2>4. QED
    BY <1>9, <2>2, <2>3 DEF LoopStage
<1>10. CASE ~FfnNormRuns
  <2> DEFINE s == attention \o (<<>> \o ffn)
  <2>0. LoopProgram = s
    BY <1>2, <1>3, <1>10 DEF LoopProgram
  <2>1. /\ Len(s) = 9 /\ DOMAIN s = 1 .. 9 /\ s[1] = o1 /\ s[2] = o2 /\ s[3] = o3 /\ s[4] = o4 /\ s[5] = o5
        /\ s[6] = o6 /\ s[7] = o8 /\ s[8] = o9 /\ s[9] = o10
    OBVIOUS
  <2> HIDE DEF s
  <2>2. Len(LoopProgram) = 9 /\ DOMAIN LoopProgram = 1 .. 9
    BY <2>0, <2>1
  <2>3. ASSUME NEW i \in 1 .. 9
        PROVE  Dispatches(LoopStage(i), LoopProgram[i]) /\ Bound(LoopProgram[i])
    <3>1. \/ i = 1 /\ LoopStage(i) = 1
          \/ i = 2 /\ LoopStage(i) = 2
          \/ i = 3 /\ LoopStage(i) = 3
          \/ i = 4 /\ LoopStage(i) = 4
          \/ i = 5 /\ LoopStage(i) = 5
          \/ i = 6 /\ LoopStage(i) = 6
          \/ i = 7 /\ LoopStage(i) = 8
          \/ i = 8 /\ LoopStage(i) = 9
          \/ i = 9 /\ LoopStage(i) = 10
      BY <1>10 DEF LoopStage
    <3>2. QED
      BY <1>6, <1>8, <2>0, <2>1, <3>1
  <2>4. QED
    BY <1>10, <2>2, <2>3
<1>11. QED
  BY <1>9, <1>10

\* A dispatch of an entry point that runs one row, and a copy to the host.
RowOp(k, n) == [op |-> "run", kernel |-> k, group |-> LayerGroup(g.chunks),
                columns |-> n, rows |-> 1]
CopyOp(name, cells) == [op |-> "copy", name |-> name, cells |-> cells]

QCells == [i \in 0 .. DimQ - 1 |-> Temp(0, g.dim + i)]
DownCells == [i \in Rows |-> Temp(0, FfnOffset + i)]

\* The copies of a stage.
Copies(n, o) ==
  \/ n = 3 /\ o \in {CopyOp("q", QCells), CopyOp("k", DebugCells("K")),
                      CopyOp("v", DebugCells("V"))}
  \/ n = 6 /\ o = CopyOp("mid", ActCells) /\ path = "stepwise"
  \/ n = 7 /\ o = CopyOp("post_attn", ActCells)
  \/ n = 10 /\ o = CopyOp("final", ActCells) /\ path = "stepwise"
  \/ n = 11 /\ o \in {CopyOp("ffn_down", DownCells), CopyOp("output", ActCells)}

\* What the dispatches of these entry points are.
LEMMA RowOps ==
  ASSUME g \in Geometries, g.batch = 1, path \in CallPaths
  PROVE  /\ Dispatches(1, RowOp("AttnNorm", Lanewise(g.dim)))
         /\ Dispatches(2, RowOp("Qkv", Lanewise(DimQ + 2 * DimKv)))
         /\ Dispatches(3, RowOp("QkNorm", Lanewise(DimQ + DimKv)))
         /\ Dispatches(4, RowOp("AttnOut", Lanewise(DimQ)))
         /\ Dispatches(5, RowOp("AttnProj", Lanewise(g.dim)))
         /\ path # "stepwise" => Dispatches(6, RowOp("PostAttnNorm", Lanewise(g.dim)))
         /\ Dispatches(7, RowOp("FfnNorm", Lanes))
         /\ Dispatches(8, RowOp("FfnProj", Lanewise(2 * g.ffn)))
         /\ Dispatches(9, RowOp("FfnDown", Lanewise(g.dim)))
         /\ path # "stepwise" => Dispatches(10, RowOp("PostFfwNorm", Lanewise(g.dim)))
<1>1. /\ RunsOver(RowOp("AttnNorm", Lanewise(g.dim)), {"AttnNorm"}, g.dim)
      /\ RunsOver(RowOp("Qkv", Lanewise(DimQ + 2 * DimKv)), {"Qkv", "QkvCoop"}, DimQ + 2 * DimKv)
      /\ RunsOver(RowOp("QkNorm", Lanewise(DimQ + DimKv)), {"QkNorm"}, g.heads + g.kvHeads)
      /\ RunsOver(RowOp("AttnOut", Lanewise(DimQ)), {"AttnOut"}, DimQ)
      /\ RunsOver(RowOp("AttnProj", Lanewise(g.dim)), {"AttnProj", "AttnProjCoop"}, g.dim)
      /\ RunsOver(RowOp("PostAttnNorm", Lanewise(g.dim)), {"PostAttnNorm"}, g.dim)
  BY ColumnsCover DEF RunsOver, RowOp
<1>2. /\ RunsOver(RowOp("FfnNorm", Lanes), {"FfnNorm"}, Lanes)
      /\ RunsOver(RowOp("FfnProj", Lanewise(2 * g.ffn)), {"FfnProj", "FfnStaged"}, 2 * g.ffn)
      /\ RunsOver(RowOp("FfnDown", Lanewise(g.dim)), {"FfnDown", "FfnDownCoop"}, g.dim)
      /\ RunsOver(RowOp("PostFfwNorm", Lanewise(g.dim)), {"PostFfwNorm"}, g.dim)
      /\ RowOp("FfnProj", Lanewise(2 * g.ffn)).kernel = "FfnProj"
  BY ColumnsCover DEF RunsOver, RowOp
<1>3. path # LoopPath
  BY DEF CallPaths, LoopPath
<1> HIDE DEF RowOp
<1>4. QED
  BY <1>1, <1>2, <1>3 DEF Dispatches

\* They are bound to the layer's group.
LEMMA RowOpsAreBound ==
  /\ \A k \in LayerPipelines : \A n : Bound(RowOp(k, n))
  /\ \A name, cells : Bound(CopyOp(name, cells))
BY DEF Bound, RowOp, CopyOp

\* The parts of their programs.
LEMMA Parts ==
  /\ QkvPart(LayerGroup(g.chunks)) =
       <<RowOp("AttnNorm", Lanewise(g.dim))>> \o <<RowOp("Qkv", Lanewise(DimQ + 2 * DimKv))>>
  /\ AttentionPart(LayerGroup(g.chunks)) =
       <<RowOp("QkNorm", Lanewise(DimQ + DimKv))>> \o <<RowOp("AttnOut", Lanewise(DimQ))>>
         \o <<RowOp("AttnProj", Lanewise(g.dim))>>
  /\ FfnPart(LayerGroup(g.chunks)) =
       <<RowOp("FfnNorm", Lanes)>> \o <<RowOp("FfnProj", Lanewise(2 * g.ffn))>>
         \o <<RowOp("FfnDown", Lanewise(g.dim))>>
  /\ \A k, n : Run(k, LayerGroup(g.chunks), n, 1) = <<RowOp(k, n)>>
  /\ \A name, cells : Copy(name, cells) = <<CopyOp(name, cells)>>
<1>1. /\ \A k, n : Run(k, LayerGroup(g.chunks), n, 1) = <<RowOp(k, n)>>
      /\ \A name, cells : Copy(name, cells) = <<CopyOp(name, cells)>>
  BY DEF Run, RowOp, Copy, CopyOp
<1>2. QED
  BY <1>1 DEF QkvPart, AttentionPart, FfnPart

\* The stepwise entry point: copies stand where the post norms are.
StepwiseStage(i) == i

\* Its operations are eight kernels and two copies.
LEMMA StepwiseSteps ==
  ASSUME g \in Geometries, g.batch = 1, path = "stepwise"
  PROVE  /\ Len(StepwiseProgram) = 10 /\ DOMAIN StepwiseProgram = 1 .. 10
         /\ \A i \in 1 .. 10 :
              /\ Bound(StepwiseProgram[i])
              /\ \/ i \in {1, 2, 3, 4, 5, 7, 8, 9} /\ Dispatches(StepwiseStage(i), StepwiseProgram[i])
                 \/ i \in {6, 10} /\ Copies(StepwiseStage(i), StepwiseProgram[i])
<1> DEFINE o1 == RowOp("AttnNorm", Lanewise(g.dim))
           o2 == RowOp("Qkv", Lanewise(DimQ + 2 * DimKv))
           o3 == RowOp("QkNorm", Lanewise(DimQ + DimKv))
           o4 == RowOp("AttnOut", Lanewise(DimQ))
           o5 == RowOp("AttnProj", Lanewise(g.dim))
           o6 == CopyOp("mid", ActCells)
           o7 == RowOp("FfnNorm", Lanes)
           o8 == RowOp("FfnProj", Lanewise(2 * g.ffn))
           o9 == RowOp("FfnDown", Lanewise(g.dim))
           o10 == CopyOp("final", ActCells)
           s == (<<o1>> \o <<o2>>) \o (<<o3>> \o <<o4>> \o <<o5>>) \o <<o6>>
                  \o (<<o7>> \o <<o8>> \o <<o9>>) \o <<o10>>
<1>1. StepwiseProgram = s
  BY Parts DEF StepwiseProgram, StepwiseGroup
<1>2. path \in CallPaths
  BY DEF CallPaths
<1>3. /\ Bound(o1) /\ Bound(o2) /\ Bound(o3) /\ Bound(o4) /\ Bound(o5)
      /\ Bound(o6) /\ Bound(o7) /\ Bound(o8) /\ Bound(o9) /\ Bound(o10)
  BY RowOpsAreBound DEF LayerPipelines
<1>4. /\ Dispatches(1, o1) /\ Dispatches(2, o2) /\ Dispatches(3, o3)
      /\ Dispatches(4, o4) /\ Dispatches(5, o5) /\ Dispatches(7, o7)
      /\ Dispatches(8, o8) /\ Dispatches(9, o9)
  BY <1>2, RowOps
<1>5. /\ Copies(6, o6) /\ Copies(10, o10)
  BY DEF Copies
<1> HIDE DEF o1, o2, o3, o4, o5, o6, o7, o8, o9, o10
<1>6. /\ Len(s) = 10 /\ DOMAIN s = 1 .. 10
      /\ s[1] = o1 /\ s[2] = o2 /\ s[3] = o3 /\ s[4] = o4
      /\ s[5] = o5 /\ s[6] = o6 /\ s[7] = o7 /\ s[8] = o8
      /\ s[9] = o9 /\ s[10] = o10
  OBVIOUS
<1> HIDE DEF s
<1>7. ASSUME NEW i \in 1 .. 10
      PROVE  /\ Bound(s[i])
             /\ \/ i \in {1, 2, 3, 4, 5, 7, 8, 9} /\ Dispatches(StepwiseStage(i), s[i])
                \/ i \in {6, 10} /\ Copies(StepwiseStage(i), s[i])
  <2>1. \/ i = 1 /\ StepwiseStage(i) = 1
        \/ i = 2 /\ StepwiseStage(i) = 2
        \/ i = 3 /\ StepwiseStage(i) = 3
        \/ i = 4 /\ StepwiseStage(i) = 4
        \/ i = 5 /\ StepwiseStage(i) = 5
        \/ i = 6 /\ StepwiseStage(i) = 6
        \/ i = 7 /\ StepwiseStage(i) = 7
        \/ i = 8 /\ StepwiseStage(i) = 8
        \/ i = 9 /\ StepwiseStage(i) = 9
        \/ i = 10 /\ StepwiseStage(i) = 10
    BY DEF StepwiseStage
  <2>2. QED
    BY <1>3, <1>4, <1>5, <1>6, <2>1
<1>8. QED
  BY <1>1, <1>6, <1>7

\* The entry point with a cache: the output is copied at the end.
WithCacheStage(i) == IF i >= 11 THEN 11 ELSE i

\* Its operations are the ten kernels and a copy.
LEMMA WithCacheSteps ==
  ASSUME g \in Geometries, g.batch = 1, path = "with_cache"
  PROVE  /\ Len(WithCacheProgram) = 11 /\ DOMAIN WithCacheProgram = 1 .. 11
         /\ \A i \in 1 .. 11 :
              /\ Bound(WithCacheProgram[i])
              /\ \/ i \in {1, 2, 3, 4, 5, 6, 7, 8, 9, 10} /\ Dispatches(WithCacheStage(i), WithCacheProgram[i])
                 \/ i \in {11} /\ Copies(WithCacheStage(i), WithCacheProgram[i])
<1> DEFINE o1 == RowOp("AttnNorm", Lanewise(g.dim))
           o2 == RowOp("Qkv", Lanewise(DimQ + 2 * DimKv))
           o3 == RowOp("QkNorm", Lanewise(DimQ + DimKv))
           o4 == RowOp("AttnOut", Lanewise(DimQ))
           o5 == RowOp("AttnProj", Lanewise(g.dim))
           o6 == RowOp("PostAttnNorm", Lanewise(g.dim))
           o7 == RowOp("FfnNorm", Lanes)
           o8 == RowOp("FfnProj", Lanewise(2 * g.ffn))
           o9 == RowOp("FfnDown", Lanewise(g.dim))
           o10 == RowOp("PostFfwNorm", Lanewise(g.dim))
           o11 == CopyOp("output", ActCells)
           s == (<<o1>> \o <<o2>>) \o (<<o3>> \o <<o4>> \o <<o5>>) \o <<o6>>
                  \o (<<o7>> \o <<o8>> \o <<o9>>) \o <<o10>> \o <<o11>>
<1>1. WithCacheProgram = s
  BY Parts DEF WithCacheProgram, WithCacheGroup
<1>2. path \in CallPaths
  BY DEF CallPaths
<1>3. /\ Bound(o1) /\ Bound(o2) /\ Bound(o3) /\ Bound(o4) /\ Bound(o5)
      /\ Bound(o6) /\ Bound(o7) /\ Bound(o8) /\ Bound(o9) /\ Bound(o10)
      /\ Bound(o11)
  BY RowOpsAreBound DEF LayerPipelines
<1>4. /\ Dispatches(1, o1) /\ Dispatches(2, o2) /\ Dispatches(3, o3)
      /\ Dispatches(4, o4) /\ Dispatches(5, o5) /\ Dispatches(6, o6)
      /\ Dispatches(7, o7) /\ Dispatches(8, o8) /\ Dispatches(9, o9)
      /\ Dispatches(10, o10)
  BY <1>2, RowOps
<1>5. /\ Copies(11, o11)
  BY DEF Copies
<1> HIDE DEF o1, o2, o3, o4, o5, o6, o7, o8, o9, o10, o11
<1>6. /\ Len(s) = 11 /\ DOMAIN s = 1 .. 11
      /\ s[1] = o1 /\ s[2] = o2 /\ s[3] = o3 /\ s[4] = o4
      /\ s[5] = o5 /\ s[6] = o6 /\ s[7] = o7 /\ s[8] = o8
      /\ s[9] = o9 /\ s[10] = o10 /\ s[11] = o11
  OBVIOUS
<1> HIDE DEF s
<1>7. ASSUME NEW i \in 1 .. 11
      PROVE  /\ Bound(s[i])
             /\ \/ i \in {1, 2, 3, 4, 5, 6, 7, 8, 9, 10} /\ Dispatches(WithCacheStage(i), s[i])
                \/ i \in {11} /\ Copies(WithCacheStage(i), s[i])
  <2>1. \/ i = 1 /\ WithCacheStage(i) = 1
        \/ i = 2 /\ WithCacheStage(i) = 2
        \/ i = 3 /\ WithCacheStage(i) = 3
        \/ i = 4 /\ WithCacheStage(i) = 4
        \/ i = 5 /\ WithCacheStage(i) = 5
        \/ i = 6 /\ WithCacheStage(i) = 6
        \/ i = 7 /\ WithCacheStage(i) = 7
        \/ i = 8 /\ WithCacheStage(i) = 8
        \/ i = 9 /\ WithCacheStage(i) = 9
        \/ i = 10 /\ WithCacheStage(i) = 10
        \/ i = 11 /\ WithCacheStage(i) = 11
    BY DEF WithCacheStage
  <2>2. QED
    BY <1>3, <1>4, <1>5, <1>6, <2>1
<1>8. QED
  BY <1>1, <1>6, <1>7

\* The debug entry point, which copies in between.
DebugStage(i) ==
  IF i <= 2 THEN i ELSE IF i <= 6 THEN 3 ELSE IF i <= 10 THEN i - 3
  ELSE IF i <= 15 THEN i - 4 ELSE 11

\* Its operations are the ten kernels and six copies.
LEMMA DebugSteps ==
  ASSUME g \in Geometries, g.batch = 1, path = "debug"
  PROVE  /\ Len(DebugProgram) = 16 /\ DOMAIN DebugProgram = 1 .. 16
         /\ \A i \in 1 .. 16 :
              /\ Bound(DebugProgram[i])
              /\ \/ i \in {1, 2, 6, 7, 8, 9, 11, 12, 13, 14} /\ Dispatches(DebugStage(i), DebugProgram[i])
                 \/ i \in {3, 4, 5, 10, 15, 16} /\ Copies(DebugStage(i), DebugProgram[i])
<1> DEFINE o1 == RowOp("AttnNorm", Lanewise(g.dim))
           o2 == RowOp("Qkv", Lanewise(DimQ + 2 * DimKv))
           o3 == CopyOp("q", QCells)
           o4 == CopyOp("k", DebugCells("K"))
           o5 == CopyOp("v", DebugCells("V"))
           o6 == RowOp("QkNorm", Lanewise(DimQ + DimKv))
           o7 == RowOp("AttnOut", Lanewise(DimQ))
           o8 == RowOp("AttnProj", Lanewise(g.dim))
           o9 == RowOp("PostAttnNorm", Lanewise(g.dim))
           o10 == CopyOp("post_attn", ActCells)
           o11 == RowOp("FfnNorm", Lanes)
           o12 == RowOp("FfnProj", Lanewise(2 * g.ffn))
           o13 == RowOp("FfnDown", Lanewise(g.dim))
           o14 == RowOp("PostFfwNorm", Lanewise(g.dim))
           o15 == CopyOp("ffn_down", DownCells)
           o16 == CopyOp("output", ActCells)
           s == (<<o1>> \o <<o2>>) \o <<o3>> \o <<o4>> \o <<o5>> \o (<<o6>> \o <<o7>> \o <<o8>>) \o <<o9>> \o <<o10>>
                  \o (<<o11>> \o <<o12>> \o <<o13>>) \o <<o14>> \o <<o15>> \o <<o16>>
<1>1. DebugProgram = s
  BY Parts DEF DebugProgram, DebugGroup, QCells, DownCells
<1>2. path \in CallPaths
  BY DEF CallPaths
<1>3. /\ Bound(o1) /\ Bound(o2) /\ Bound(o3) /\ Bound(o4) /\ Bound(o5)
      /\ Bound(o6) /\ Bound(o7) /\ Bound(o8) /\ Bound(o9) /\ Bound(o10)
      /\ Bound(o11) /\ Bound(o12) /\ Bound(o13) /\ Bound(o14) /\ Bound(o15)
      /\ Bound(o16)
  BY RowOpsAreBound DEF LayerPipelines
<1>4. /\ Dispatches(1, o1) /\ Dispatches(2, o2) /\ Dispatches(3, o6)
      /\ Dispatches(4, o7) /\ Dispatches(5, o8) /\ Dispatches(6, o9)
      /\ Dispatches(7, o11) /\ Dispatches(8, o12) /\ Dispatches(9, o13)
      /\ Dispatches(10, o14)
  BY <1>2, RowOps
<1>5. /\ Copies(3, o3) /\ Copies(3, o4) /\ Copies(3, o5)
      /\ Copies(7, o10) /\ Copies(11, o15) /\ Copies(11, o16)
  BY DEF Copies
<1> HIDE DEF o1, o2, o3, o4, o5, o6, o7, o8, o9, o10, o11, o12, o13, o14, o15, o16
<1>6. /\ Len(s) = 16 /\ DOMAIN s = 1 .. 16
      /\ s[1] = o1 /\ s[2] = o2 /\ s[3] = o3 /\ s[4] = o4
      /\ s[5] = o5 /\ s[6] = o6 /\ s[7] = o7 /\ s[8] = o8
      /\ s[9] = o9 /\ s[10] = o10 /\ s[11] = o11 /\ s[12] = o12
      /\ s[13] = o13 /\ s[14] = o14 /\ s[15] = o15 /\ s[16] = o16
  OBVIOUS
<1> HIDE DEF s
<1>7. ASSUME NEW i \in 1 .. 16
      PROVE  /\ Bound(s[i])
             /\ \/ i \in {1, 2, 6, 7, 8, 9, 11, 12, 13, 14} /\ Dispatches(DebugStage(i), s[i])
                \/ i \in {3, 4, 5, 10, 15, 16} /\ Copies(DebugStage(i), s[i])
  <2>1. \/ i = 1 /\ DebugStage(i) = 1
        \/ i = 2 /\ DebugStage(i) = 2
        \/ i = 3 /\ DebugStage(i) = 3
        \/ i = 4 /\ DebugStage(i) = 3
        \/ i = 5 /\ DebugStage(i) = 3
        \/ i = 6 /\ DebugStage(i) = 3
        \/ i = 7 /\ DebugStage(i) = 4
        \/ i = 8 /\ DebugStage(i) = 5
        \/ i = 9 /\ DebugStage(i) = 6
        \/ i = 10 /\ DebugStage(i) = 7
        \/ i = 11 /\ DebugStage(i) = 7
        \/ i = 12 /\ DebugStage(i) = 8
        \/ i = 13 /\ DebugStage(i) = 9
        \/ i = 14 /\ DebugStage(i) = 10
        \/ i = 15 /\ DebugStage(i) = 11
        \/ i = 16 /\ DebugStage(i) = 11
    BY DEF DebugStage
  <2>2. QED
    BY <1>3, <1>4, <1>5, <1>6, <2>1
<1>8. QED
  BY <1>1, <1>6, <1>7

-----------------------------------------------------------------------------
(* A step does not change the call.                                        *)

SameCall == g' = g /\ path' = path /\ shift' = shift

\* So it changes no width.
LEMMA SameWidths ==
  ASSUME SameCall
  PROVE  /\ DimQ' = DimQ /\ DimKv' = DimKv /\ Stride' = Stride /\ QueryOffset' = QueryOffset
         /\ StashOffset' = StashOffset /\ FfnOffset' = FfnOffset /\ HdPacked' = HdPacked
         /\ Tokens' = Tokens /\ Rows' = Rows
         /\ (CacheOnly' <=> CacheOnly)
         /\ (CoopQkv' <=> CoopQkv) /\ (CoopAttnProj' <=> CoopAttnProj) /\ (StagedFfn' <=> StagedFfn)
         /\ (CoopDown' <=> CoopDown) /\ (FfnNormRuns' <=> FfnNormRuns)
         /\ KName' = KName /\ QName' = QName /\ AttnOutput' = AttnOutput
         /\ LayerOutput' = LayerOutput
<1>1. DimQ' = DimQ /\ DimKv' = DimKv /\ HdPacked' = HdPacked /\ Tokens' = Tokens /\ Rows' = Rows
  BY DEF SameCall, DimQ, DimKv, HdPacked, Tokens, Rows
<1>2. Stride' = Stride
  BY DEF SameCall, Stride
<1>3. /\ QueryOffset' = QueryOffset /\ StashOffset' = StashOffset /\ FfnOffset' = FfnOffset
  BY <1>1 DEF SameCall, QueryOffset, StashOffset, FfnOffset
<1>4. (CacheOnly' <=> CacheOnly)
  BY DEF SameCall, CacheOnly
<1>5. /\ (CoopQkv' <=> CoopQkv) /\ (CoopAttnProj' <=> CoopAttnProj) /\ (StagedFfn' <=> StagedFfn)
      /\ (CoopDown' <=> CoopDown)
  BY <1>1, <1>2 DEF SameCall, CoopQkv, CoopAttnProj, StagedFfn, CoopDown, FormulaRows
<1>6. (FfnNormRuns' <=> FfnNormRuns)
  BY <1>5 DEF SameCall, FfnNormRuns
<1>7. /\ KName' = KName /\ QName' = QName
  BY DEF SameCall, KName, QName
<1>8. AttnOutput' = AttnOutput /\ LayerOutput' = LayerOutput
  BY DEF SameCall, AttnOutput, LayerOutput, PostNorm
<1>9. QED
  BY <1>1, <1>2, <1>3, <1>4, <1>5, <1>6, <1>7, <1>8

\* Nor an address.
LEMMA SameCells ==
  ASSUME SameCall
  PROVE  /\ \A t, i : Act(t, i)' = Act(t, i) /\ Temp(t, i)' = Temp(t, i)
         /\ \A b, p, c : Cache(b, p, c)' = Cache(b, p, c)
         /\ \A b, p, h, u : Packed(b, p, h, u)' = Packed(b, p, h, u)
         /\ \A b, p, h : Scale(b, p, h)' = Scale(b, p, h)
<1>1. \A t, i : Act(t, i)' = Act(t, i) /\ Temp(t, i)' = Temp(t, i)
  BY SameWidths DEF SameCall, Act, Temp
<1>2. \A b, p, c : Cache(b, p, c)' = Cache(b, p, c)
  BY SameWidths DEF Cache
<1>3. /\ \A b, p, h, u : Packed(b, p, h, u)' = Packed(b, p, h, u)
      /\ \A b, p, h : Scale(b, p, h)' = Scale(b, p, h)
  BY SameWidths DEF SameCall, Packed, Scale
<1>4. QED
  BY <1>1, <1>2, <1>3

\* Nor the program.
LEMMA SameProgram ==
  ASSUME SameCall
  PROVE  Program' = Program
<1>1. \A k, n : Loop(k, n)' = Loop(k, n)
  BY DEF SameCall, Loop, Run
<1>2. LoopProgram' = LoopProgram
  <2>1. LoopAttention' = LoopAttention
    BY <1>1, SameWidths DEF SameCall, LoopAttention
  <2>2. LoopFfn' = LoopFfn
    BY <1>1, SameWidths DEF SameCall, LoopFfn
  <2>3. QED
    BY <2>1, <2>2 DEF LoopProgram
<1>3. /\ \A group : QkvPart(group)' = QkvPart(group)
      /\ \A group : AttentionPart(group)' = AttentionPart(group)
      /\ \A group : FfnPart(group)' = FfnPart(group)
  BY SameWidths DEF SameCall, QkvPart, AttentionPart, FfnPart
<1>4. ActCells' = ActCells /\ \A b : DebugCells(b)' = DebugCells(b)
  BY SameWidths, SameCells DEF SameCall, ActCells, DebugCells
<1>5. /\ StepwiseProgram' = StepwiseProgram /\ WithCacheProgram' = WithCacheProgram
  BY <1>3, <1>4 DEF SameCall, StepwiseProgram, WithCacheProgram
<1>6. DebugProgram' = DebugProgram
  <2>1. /\ [i \in 0 .. DimQ - 1 |-> Temp(0, g.dim + i)]' = [i \in 0 .. DimQ - 1 |-> Temp(0, g.dim + i)]
        /\ [i \in Rows |-> Temp(0, FfnOffset + i)]' = [i \in Rows |-> Temp(0, FfnOffset + i)]
    BY SameWidths, SameCells DEF SameCall
  <2>2. QED
    BY <1>3, <1>4, <2>1 DEF SameCall, DebugProgram
<1>7. /\ RequantizeProgram' = RequantizeProgram /\ ShiftProgram' = ShiftProgram
      /\ ShiftInt4Program' = ShiftInt4Program
  <2>1. Moving' = Moving
    BY DEF SameCall, Moving
  <2>2. QED
    BY <2>1, SameWidths DEF SameCall, RequantizeProgram, ShiftProgram, ShiftInt4Program
<1>8. QED
  BY <1>2, <1>5, <1>6, <1>7 DEF SameCall, Program

\* A stage means the same before and after a step.
LEMMA SameAreas ==
  ASSUME SameCall
  PROVE  /\ \A w : ActIs(memory, w)' <=> ActIs(memory', w)
         /\ \A o, n, w : TempIs(memory, o, n, w)' <=> TempIs(memory', o, n, w)
         /\ \A b, w : CacheIs(memory, b, w)' <=> CacheIs(memory', b, w)
         /\ PastIs(memory)' <=> PastIs(memory')
         /\ GateUpIs(memory)' <=> GateUpIs(memory')
<1>1. \A w : ActIs(memory, w)' <=> ActIs(memory', w)
  BY SameWidths, SameCells DEF ActIs, Val
<1>2. \A o, n, w : TempIs(memory, o, n, w)' <=> TempIs(memory', o, n, w)
  BY SameWidths, SameCells DEF TempIs, Val
<1>3. \A b, w : CacheIs(memory, b, w)' <=> CacheIs(memory', b, w)
  BY SameWidths, SameCells DEF CacheIs, Val, SameCall
<1>4. PastIs(memory)' <=> PastIs(memory')
  BY SameWidths, SameCells DEF PastIs, Val, SameCall
<1>5. GateUpIs(memory)' <=> GateUpIs(memory')
  BY SameWidths, SameCells DEF GateUpIs, GateUpName, Val, SameCall
<1>6. QED
  BY <1>1, <1>2, <1>3, <1>4, <1>5

\* So does a whole stage.
LEMMA SameStage ==
  ASSUME SameCall, NEW n \in 1 .. 11
  PROVE  Stage(n, memory)' <=> Stage(n, memory')
<1>1. /\ CachesAre(memory)' <=> CachesAre(memory')
      /\ NormIsThere(memory)' <=> NormIsThere(memory')
  BY SameWidths, SameAreas DEF CachesAre, NormIsThere, SameCall
<1>2. CASE n = 1
  BY <1>1, <1>2, SameWidths, SameAreas DEF Stage, SameCall
<1>3. CASE n = 2
  BY <1>1, <1>3, SameWidths, SameAreas DEF Stage, SameCall
<1>4. CASE n = 3
  BY <1>1, <1>4, SameWidths, SameAreas DEF Stage, SameCall
<1>5. CASE n = 4
  BY <1>1, <1>5, SameWidths, SameAreas DEF Stage, SameCall
<1>6. CASE n = 5
  BY <1>1, <1>6, SameWidths, SameAreas DEF Stage, SameCall
<1>7. CASE n = 6
  BY <1>1, <1>7, SameWidths, SameAreas DEF Stage, SameCall
<1>8. CASE n = 7
  BY <1>1, <1>8, SameWidths, SameAreas DEF Stage, SameCall
<1>9. CASE n = 8
  BY <1>1, <1>9, SameWidths, SameAreas DEF Stage, SameCall
<1>10. CASE n = 9
  BY <1>1, <1>10, SameWidths, SameAreas DEF Stage, SameCall
<1>11. CASE n = 10
  BY <1>1, <1>11, SameWidths, SameAreas DEF Stage, SameCall
<1>12. CASE n = 11
  BY <1>1, <1>12, SameWidths, SameAreas DEF Stage, SameCall
<1>13. QED
  BY <1>2, <1>3, <1>4, <1>5, <1>6, <1>7, <1>8, <1>9, <1>10, <1>11, <1>12

-----------------------------------------------------------------------------
(* The steps of the entry points that run a layer.                         *)

\* The stage before the i-th operation.
OpStage(i) ==
  CASE path = LoopPath      -> LoopStage(i)
    [] path = "stepwise"    -> StepwiseStage(i)
    [] path = "with_cache"  -> WithCacheStage(i)
    [] path = "debug"       -> DebugStage(i)

\* What is there at one stage is enough for the other.
Reaches(a, b) == \A m : Stage(a, m) => Stage(b, m)

\* An operation of a layer's program leads from its stage to the next one.
StepsOn(i, o) ==
  /\ OpStage(i) \in 1 .. 11 /\ OpStage(i + 1) \in 1 .. 11
  /\ Bound(o)
  /\ \/ /\ OpStage(i) \in 1 .. 10 /\ Dispatches(OpStage(i), o)
        /\ Reaches(OpStage(i) + 1, OpStage(i + 1))
     \/ Copies(OpStage(i), o) /\ Reaches(OpStage(i), OpStage(i + 1))

\* Without post norms a stage of them has nothing to do; without a staged FFN
\* the norm of the FFN has nothing to do.
LEMMA StagesSkipped ==
  /\ path = "stepwise" => Reaches(6, 7) /\ Reaches(10, 11)
  /\ ~FfnNormRuns => Reaches(7, 8)
  /\ \A n : Reaches(n, n)
<1>1. ASSUME path = "stepwise", NEW m, Stage(6, m) PROVE Stage(7, m)
  <2>1. AttnOutput = "act_proj"
    BY <1>1 DEF AttnOutput, PostNorm
  <2>2. QED
    BY <1>1, <2>1 DEF Stage
<1>2. ASSUME path = "stepwise", NEW m, Stage(10, m) PROVE Stage(11, m)
  <2>1. LayerOutput = "act_down"
    BY <1>2 DEF LayerOutput, PostNorm
  <2>2. QED
    BY <1>2, <2>1 DEF Stage
<1>3. ASSUME ~FfnNormRuns, NEW m, Stage(7, m) PROVE Stage(8, m)
  <2>1. ~StagedFfn
    BY <1>3 DEF FfnNormRuns
  <2>2. QED
    BY <1>3, <2>1 DEF Stage
<1>4. QED
  BY <1>1, <1>2, <1>3 DEF Reaches

\* The layer loop.
LEMMA LoopOps ==
  ASSUME g \in Geometries, path = LoopPath
  PROVE  /\ Len(Program) \in Nat /\ DOMAIN Program = 1 .. Len(Program)
         /\ OpStage(1) = 1 /\ OpStage(Len(Program) + 1) = 11
         /\ \A i \in 1 .. Len(Program) : StepsOn(i, Program[i])
<1>1. Program = LoopProgram /\ \A i : OpStage(i) = LoopStage(i)
  BY DEF Program, LoopPath, OpStage
<1>2. /\ Len(LoopProgram) = IF FfnNormRuns THEN 10 ELSE 9
      /\ DOMAIN LoopProgram = 1 .. Len(LoopProgram)
      /\ \A i \in 1 .. Len(LoopProgram) :
           Dispatches(LoopStage(i), LoopProgram[i]) /\ Bound(LoopProgram[i])
  BY LoopSteps
<1>3. \A i \in 1 .. Len(LoopProgram) :
        /\ LoopStage(i) \in 1 .. 10 /\ LoopStage(i + 1) \in 1 .. 11
        /\ \/ LoopStage(i + 1) = LoopStage(i) + 1
           \/ ~FfnNormRuns /\ LoopStage(i) + 1 = 7 /\ LoopStage(i + 1) = 8
  BY <1>2 DEF LoopStage
<1>4. ASSUME NEW i \in 1 .. Len(LoopProgram)
      PROVE  Reaches(LoopStage(i) + 1, LoopStage(i + 1))
  BY <1>3, StagesSkipped
<1>5. Len(LoopProgram) \in Nat /\ LoopStage(1) = 1 /\ LoopStage(Len(LoopProgram) + 1) = 11
  BY <1>2 DEF LoopStage
<1>6. QED
  BY <1>1, <1>2, <1>3, <1>4, <1>5 DEF StepsOn

\* The stepwise entry point.
LEMMA StepwiseOps ==
  ASSUME g \in Geometries, g.batch = 1, path = "stepwise"
  PROVE  /\ Len(Program) \in Nat /\ DOMAIN Program = 1 .. Len(Program)
         /\ OpStage(1) = 1 /\ OpStage(Len(Program) + 1) = 11
         /\ \A i \in 1 .. Len(Program) : StepsOn(i, Program[i])
<1>1. Program = StepwiseProgram /\ \A i : OpStage(i) = StepwiseStage(i)
  BY DEF Program, OpStage, LoopPath
<1>2. /\ Len(StepwiseProgram) = 10 /\ DOMAIN StepwiseProgram = 1 .. 10
      /\ \A i \in 1 .. 10 :
           /\ Bound(StepwiseProgram[i])
           /\ \/ i \in {1, 2, 3, 4, 5, 7, 8, 9} /\ Dispatches(StepwiseStage(i), StepwiseProgram[i])
              \/ i \in {6, 10} /\ Copies(StepwiseStage(i), StepwiseProgram[i])
  BY StepwiseSteps
<1>3. ASSUME NEW i \in 1 .. 10
      PROVE  /\ StepwiseStage(i) \in 1 .. 10 /\ StepwiseStage(i + 1) \in 1 .. 11
             /\ Reaches(StepwiseStage(i) + 1, StepwiseStage(i + 1))
  BY StagesSkipped DEF StepwiseStage
<1>4. ASSUME NEW i \in {6, 10} PROVE Reaches(StepwiseStage(i), StepwiseStage(i + 1))
  BY StagesSkipped DEF StepwiseStage
<1>5. StepwiseStage(1) = 1 /\ StepwiseStage(11) = 11
  BY DEF StepwiseStage
<1>6. QED
  BY <1>1, <1>2, <1>3, <1>4, <1>5 DEF StepsOn

\* The entry point with a cache.
LEMMA WithCacheOps ==
  ASSUME g \in Geometries, g.batch = 1, path = "with_cache"
  PROVE  /\ Len(Program) \in Nat /\ DOMAIN Program = 1 .. Len(Program)
         /\ OpStage(1) = 1 /\ OpStage(Len(Program) + 1) = 11
         /\ \A i \in 1 .. Len(Program) : StepsOn(i, Program[i])
<1>1. Program = WithCacheProgram /\ \A i : OpStage(i) = WithCacheStage(i)
  BY DEF Program, OpStage, LoopPath
<1>2. /\ Len(WithCacheProgram) = 11 /\ DOMAIN WithCacheProgram = 1 .. 11
      /\ \A i \in 1 .. 11 :
           /\ Bound(WithCacheProgram[i])
           /\ \/ /\ i \in {1, 2, 3, 4, 5, 6, 7, 8, 9, 10}
                 /\ Dispatches(WithCacheStage(i), WithCacheProgram[i])
              \/ i \in {11} /\ Copies(WithCacheStage(i), WithCacheProgram[i])
  BY WithCacheSteps
<1>3. ASSUME NEW i \in 1 .. 11
      PROVE  /\ WithCacheStage(i) \in 1 .. 11 /\ WithCacheStage(i + 1) \in 1 .. 11
             /\ i \in 1 .. 10 => /\ WithCacheStage(i) \in 1 .. 10
                                 /\ Reaches(WithCacheStage(i) + 1, WithCacheStage(i + 1))
             /\ i = 11 => Reaches(WithCacheStage(i), WithCacheStage(i + 1))
  BY StagesSkipped DEF WithCacheStage
<1>4. WithCacheStage(1) = 1 /\ WithCacheStage(12) = 11
  BY DEF WithCacheStage
<1>5. QED
  BY <1>1, <1>2, <1>3, <1>4 DEF StepsOn

\* The debug entry point.
LEMMA DebugOps ==
  ASSUME g \in Geometries, g.batch = 1, path = "debug"
  PROVE  /\ Len(Program) \in Nat /\ DOMAIN Program = 1 .. Len(Program)
         /\ OpStage(1) = 1 /\ OpStage(Len(Program) + 1) = 11
         /\ \A i \in 1 .. Len(Program) : StepsOn(i, Program[i])
<1>1. Program = DebugProgram /\ \A i : OpStage(i) = DebugStage(i)
  BY DEF Program, OpStage, LoopPath
<1>2. /\ Len(DebugProgram) = 16 /\ DOMAIN DebugProgram = 1 .. 16
      /\ \A i \in 1 .. 16 :
           /\ Bound(DebugProgram[i])
           /\ \/ /\ i \in {1, 2, 6, 7, 8, 9, 11, 12, 13, 14}
                 /\ Dispatches(DebugStage(i), DebugProgram[i])
              \/ i \in {3, 4, 5, 10, 15, 16} /\ Copies(DebugStage(i), DebugProgram[i])
  BY DebugSteps
<1>3. ASSUME NEW i \in 1 .. 16
      PROVE  /\ DebugStage(i) \in 1 .. 11 /\ DebugStage(i + 1) \in 1 .. 11
             /\ i \in {1, 2, 6, 7, 8, 9, 11, 12, 13, 14} =>
                  DebugStage(i) \in 1 .. 10 /\ DebugStage(i + 1) = DebugStage(i) + 1
             /\ i \in {3, 4, 5, 10, 15, 16} => DebugStage(i + 1) = DebugStage(i)
  BY DEF DebugStage
<1>4. ASSUME NEW i \in 1 .. 16
      PROVE  /\ i \in {1, 2, 6, 7, 8, 9, 11, 12, 13, 14} =>
                  Reaches(DebugStage(i) + 1, DebugStage(i + 1))
             /\ i \in {3, 4, 5, 10, 15, 16} => Reaches(DebugStage(i), DebugStage(i + 1))
  BY <1>3, StagesSkipped
<1>5. DebugStage(1) = 1 /\ DebugStage(17) = 11
  BY DEF DebugStage
<1>6. QED
  BY <1>1, <1>2, <1>3, <1>4, <1>5 DEF StepsOn

\* All of them.
LEMMA LayerOps ==
  ASSUME g \in Geometries, path \in LayerPaths, path \in CallPaths => g.batch = 1
  PROVE  /\ Len(Program) \in Nat /\ DOMAIN Program = 1 .. Len(Program)
         /\ OpStage(1) = 1 /\ OpStage(Len(Program) + 1) = 11
         /\ \A i \in 1 .. Len(Program) : StepsOn(i, Program[i])
<1>1. path = LoopPath \/ path = "stepwise" \/ path = "with_cache" \/ path = "debug"
  BY DEF LayerPaths, CallPaths
<1>2. path \in CallPaths \/ path = LoopPath
  BY DEF LayerPaths
<1>3. QED
  BY <1>1, <1>2, LoopOps, StepwiseOps, WithCacheOps, DebugOps DEF CallPaths

\* A dispatch of a layer's program takes its stage to the next.
LEMMA LayerStep ==
  ASSUME LayerMemory, NEW i, NEW o, StepsOn(i, o), Stage(OpStage(i), memory),
         o.op = "run", Execute(o)
  PROVE  DOMAIN memory' = DOMAIN memory /\ Stage(OpStage(i + 1), memory')
<1> DEFINE a == OpStage(i)
           b == OpStage(i + 1)
<1>1. ~Copies(a, o)
  BY DEF Copies, CopyOp
<1>2. a \in 1 .. 10 /\ Dispatches(a, o) /\ Reaches(a + 1, b)
  BY <1>1 DEF StepsOn
<1>3. Stage(a, memory)
  OBVIOUS
<1> HIDE DEF a, b
<1>4. a \in 1 .. 5 \/ a \in 6 .. 10
  BY <1>2
<1>5. DOMAIN memory' = DOMAIN memory /\ Stage(a + 1, memory')
  BY <1>2, <1>3, <1>4, AttentionStages, FfnStages
<1>6. Stage(b, memory')
  BY <1>2, <1>5 DEF Reaches
<1>7. QED
  BY <1>5, <1>6 DEF b

\* The kernels of a layer are dispatches.
LEMMA DispatchRuns ==
  ASSUME NEW n \in 1 .. 10, NEW o, Dispatches(n, o)
  PROVE  o.op = "run"
<1>1. \A ks, c : RunsOver(o, ks, c) => o.op = "run"
  BY DEF RunsOver
<1>2. \/ n = 1
      \/ n = 2
      \/ n = 3
      \/ n = 4
      \/ n = 5
      \/ n = 6
      \/ n = 7
      \/ n = 8
      \/ n = 9
      \/ n = 10
  OBVIOUS
<1>3. QED
  BY <1>1, <1>2 DEF Dispatches

\* A copy leaves memory as it is.
LEMMA LayerCopy ==
  ASSUME NEW i, NEW o, StepsOn(i, o), Stage(OpStage(i), memory), o.op = "copy"
  PROVE  Copies(OpStage(i), o) /\ Stage(OpStage(i + 1), memory)
<1>1. OpStage(i) \in 1 .. 10 => ~Dispatches(OpStage(i), o)
  BY DispatchRuns
<1>2. Copies(OpStage(i), o) /\ Reaches(OpStage(i), OpStage(i + 1))
  BY <1>1 DEF StepsOn
<1>3. QED
  BY <1>2 DEF Reaches

-----------------------------------------------------------------------------
(* What is copied to the host.                                             *)

\* A readback, if there is one of that name, shows the row.
IsRow(r, name, what, row) ==
  name \in DOMAIN r => \A i \in DOMAIN r[name] : r[name][i] = Val(what, row, i)

\* What a copy adds under its name.
Labelled(o, name, what, row) ==
  o.name = name => \A i \in DOMAIN o.cells : Load(memory, o.cells[i]) = Val(what, row, i)

Copied(o) ==
  Also(readbacks, [n \in {o.name} |-> [i \in DOMAIN o.cells |-> Load(memory, o.cells[i])]])

\* A copy of the right row keeps the readbacks right.
LEMMA CopiedRow ==
  ASSUME NEW o, NEW name, NEW what, NEW row,
         IsRow(readbacks, name, what, row), Labelled(o, name, what, row)
  PROVE  IsRow(Copied(o), name, what, row)
<1> DEFINE f == [i \in DOMAIN o.cells |-> Load(memory, o.cells[i])]
           h == [n \in {o.name} |-> f]
           all == Also(readbacks, h)
<1>1. o.name = name => \A i \in DOMAIN f : f[i] = Val(what, row, i)
  BY DEF Labelled
<1> HIDE DEF f
<1>2. /\ DOMAIN all = DOMAIN readbacks \cup {o.name}
      /\ \A n \in DOMAIN readbacks : all[n] = readbacks[n]
      /\ o.name \notin DOMAIN readbacks => all[o.name] = f
  BY DEF Also
<1> HIDE DEF all
<1>3. IsRow(all, name, what, row)
  <2>1. CASE name \in DOMAIN readbacks
    BY <1>2, <2>1 DEF IsRow
  <2>2. CASE name \notin DOMAIN readbacks /\ name = o.name
    BY <1>1, <1>2, <2>2 DEF IsRow
  <2>3. CASE name \notin DOMAIN readbacks /\ name # o.name
    BY <1>2, <2>3 DEF IsRow
  <2>4. QED
    BY <2>1, <2>2, <2>3
<1>4. QED
  BY <1>3 DEF Copied, all, f

\* A copy of the residual stream shows it.
LEMMA StreamCopied ==
  ASSUME LayerMemory, NEW what, ActIs(memory, what)
  PROVE  /\ DOMAIN ActCells = Rows
         /\ \A i \in Rows : Load(memory, ActCells[i]) = Val(what, 0, i)
<1>1. 0 \in Tokens
  BY Widths DEF LayerMemory, Tokens
<1>2. \A i \in Rows : Act(0, i) \in DOMAIN memory /\ memory[Act(0, i)] = Val(what, 0, i)
  BY <1>1, CellsExist DEF LayerMemory, ActIs
<1>3. QED
  BY <1>2 DEF ActCells, Load

\* So do those of the query, the position of the call and the FFN's product.
LEMMA ScratchCopied ==
  ASSUME LayerMemory, NEW o \in Nat, NEW n \in Nat, o + n <= Stride, NEW what,
         TempIs(memory, o, n, what), NEW i \in 0 .. n - 1
  PROVE  Load(memory, Temp(0, o + i)) = Val(what, 0, i)
<1>1. 0 \in Tokens /\ Stride \in Nat
  BY Widths DEF LayerMemory, Tokens
<1>2. o + i \in 0 .. Stride - 1
  BY <1>1
<1>3. Temp(0, o + i) \in DOMAIN memory /\ memory[Temp(0, o + i)] = Val(what, 0, i)
  BY <1>1, <1>2, CellsExist DEF LayerMemory, TempIs
<1>4. QED
  BY <1>3 DEF Load

\* A copy of the cached position of the call shows it.
LEMMA CacheCopied ==
  ASSUME LayerMemory, NEW b \in {"K", "V"}, NEW what, CacheIs(memory, b, what)
  PROVE  /\ DOMAIN DebugCells(b) = 0 .. DimKv - 1
         /\ \A c \in 0 .. DimKv - 1 : Load(memory, DebugCells(b)[c]) = Val(what, g.start, c)
<1>1. 0 \in Tokens /\ g.start \in Nat /\ g.start \in Positions /\ g.start + 0 = g.start
  BY Widths DEF LayerMemory, Tokens, Positions
<1>2. \A c \in 0 .. DimKv - 1 :
        /\ Cache(b, g.start, c) \in DOMAIN memory
        /\ memory[Cache(b, g.start, c)] = Val(what, g.start, c)
  BY <1>1, CellsExist DEF LayerMemory, CacheIs
<1>3. QED
  BY <1>2 DEF DebugCells, Load

\* The readbacks there are.
Labels(o) ==
  /\ Labelled(o, "mid", "act_proj", 0) /\ Labelled(o, "final", "act_down", 0)
  /\ Labelled(o, "output", LayerOutput, 0)
  /\ Labelled(o, "post_attn", AttnOutput, 0) /\ Labelled(o, "ffn_down", "down", 0)
  /\ Labelled(o, "k", "k", g.start) /\ Labelled(o, "v", "v", g.start)
  /\ DimQ <= g.dim => Labelled(o, "q", "q", 0)

\* Every copy of a layer's program has the row it is named after.
LEMMA CopiesAreLabelled ==
  ASSUME LayerMemory, NEW n, NEW o, Copies(n, o), Stage(n, memory)
  PROVE  Labels(o)
<1>0. \A name, cells : CopyOp(name, cells).name = name /\ CopyOp(name, cells).cells = cells
  BY DEF CopyOp
<1>1. CASE n = 3
  <2>1. /\ TempIs(memory, QueryOffset, DimQ, "q")
        /\ CacheIs(memory, "K", "k") /\ CacheIs(memory, "V", "v")
    BY <1>1 DEF Stage
  <2>2. CASE o.name = "q" /\ o.cells = QCells
    <3>1. ASSUME DimQ <= g.dim, NEW i \in 0 .. DimQ - 1
          PROVE  Load(memory, Temp(0, g.dim + i)) = Val("q", 0, i)
      <4>1. /\ QueryOffset = g.dim /\ QueryOffset \in Nat /\ DimQ \in Nat
            /\ QueryOffset + DimQ <= Stride
        BY <3>1, Widths DEF LayerMemory
      <4>2. Load(memory, Temp(0, QueryOffset + i)) = Val("q", 0, i)
        BY <2>1, <4>1, ScratchCopied
      <4>3. QED
        BY <4>1, <4>2
    <3>2. DimQ <= g.dim => Labelled(o, "q", "q", 0)
      BY <2>2, <3>1 DEF Labelled, QCells
    <3>3. QED
      BY <2>2, <3>2 DEF Labels, Labelled
  <2>3. CASE o.name = "k" /\ o.cells = DebugCells("K")
    <3>1. Labelled(o, "k", "k", g.start)
      BY <2>1, <2>3, CacheCopied DEF Labelled
    <3>2. QED
      BY <2>3, <3>1 DEF Labels, Labelled
  <2>4. CASE o.name = "v" /\ o.cells = DebugCells("V")
    <3>1. Labelled(o, "v", "v", g.start)
      BY <2>1, <2>4, CacheCopied DEF Labelled
    <3>2. QED
      BY <2>4, <3>1 DEF Labels, Labelled
  <2>5. QED
    BY <1>0, <1>1, <2>2, <2>3, <2>4 DEF Copies
<1>2. CASE n = 6 /\ o.name = "mid" /\ o.cells = ActCells
  <2>1. ActIs(memory, "act_proj")
    BY <1>2 DEF Stage
  <2>2. Labelled(o, "mid", "act_proj", 0)
    BY <1>2, <2>1, StreamCopied DEF Labelled
  <2>3. QED
    BY <1>2, <2>2 DEF Labels, Labelled
<1>3. CASE n = 7 /\ o.name = "post_attn" /\ o.cells = ActCells
  <2>1. ActIs(memory, AttnOutput)
    BY <1>3 DEF Stage
  <2>2. Labelled(o, "post_attn", AttnOutput, 0)
    BY <1>3, <2>1, StreamCopied DEF Labelled
  <2>3. QED
    BY <1>3, <2>2 DEF Labels, Labelled
<1>4. CASE n = 10 /\ o.name = "final" /\ o.cells = ActCells
  <2>1. ActIs(memory, "act_down")
    BY <1>4 DEF Stage
  <2>2. Labelled(o, "final", "act_down", 0)
    BY <1>4, <2>1, StreamCopied DEF Labelled
  <2>3. QED
    BY <1>4, <2>2 DEF Labels, Labelled
<1>5. CASE n = 11
  <2>1. ActIs(memory, LayerOutput) /\ TempIs(memory, FfnOffset, g.dim, "down")
    BY <1>5 DEF Stage
  <2>2. CASE o.name = "ffn_down" /\ o.cells = DownCells
    <3>1. FfnOffset \in Nat /\ g.dim \in Nat /\ FfnOffset + g.dim <= Stride
      BY Widths DEF LayerMemory
    <3>2. \A i \in Rows : Load(memory, Temp(0, FfnOffset + i)) = Val("down", 0, i)
      BY <2>1, <3>1, ScratchCopied DEF Rows
    <3>3. Labelled(o, "ffn_down", "down", 0)
      BY <2>2, <3>2 DEF Labelled, DownCells
    <3>4. QED
      BY <2>2, <3>3 DEF Labels, Labelled
  <2>3. CASE o.name = "output" /\ o.cells = ActCells
    <3>1. Labelled(o, "output", LayerOutput, 0)
      BY <2>1, <2>3, StreamCopied DEF Labelled
    <3>2. QED
      BY <2>3, <3>1 DEF Labels, Labelled
  <2>4. QED
    BY <1>0, <1>5, <2>2, <2>3 DEF Copies
<1>6. QED
  BY <1>0, <1>1, <1>2, <1>3, <1>4, <1>5 DEF Copies

\* A copy of a layer's program keeps the readbacks right.
LEMMA ReadbacksStayRight ==
  ASSUME LayerMemory, SameCall, ReadbacksAreRight,
         NEW n, NEW o, Copies(n, o), Stage(n, memory), readbacks' = Copied(o)
  PROVE  ReadbacksAreRight'
<1>1. \A name, what, row : Shows(name, what, row) <=> IsRow(readbacks, name, what, row)
  BY DEF Shows, IsRow
<1>2. \A name, what, row : Shows(name, what, row)' <=> IsRow(Copied(o), name, what, row)
  BY DEF Shows, IsRow, Val
<1>3. Labels(o)
  BY CopiesAreLabelled
<1>4. \A name, what, row :
        Shows(name, what, row) /\ Labelled(o, name, what, row) => Shows(name, what, row)'
  BY <1>1, <1>2, CopiedRow
<1>5. /\ LayerOutput' = LayerOutput /\ AttnOutput' = AttnOutput /\ g' = g /\ DimQ' = DimQ
  BY SameWidths DEF SameCall
<1>6. QED
  BY <1>3, <1>4, <1>5 DEF ReadbacksAreRight, Labels

-----------------------------------------------------------------------------
(* The entry points of the caches.                                         *)

CacheMemory == g \in Geometries /\ InMemory(memory) /\ CacheOnly

LiveBuffers == {"K", "V", "PK", "PV", "SK", "SV"}

\* Elements of a position.
Width(b) ==
  CASE b \in {"K", "V"}   -> DimKv
    [] b \in {"PK", "PV"} -> g.kvHeads * HdPacked
    [] b \in {"SK", "SV"} -> g.kvHeads

\* The names of the scratch buffers.
LEMMA ScratchIsApart ==
  /\ \A b \in LiveBuffers : Src(b) \notin LiveBuffers
  /\ \A b, d \in LiveBuffers : Src(b) = Src(d) => b = d
  /\ Src("K") = "scratch_K" /\ Src("V") = "scratch_V" /\ Src("PK") = "scratch_PK"
  /\ Src("PV") = "scratch_PV" /\ Src("SK") = "scratch_SK" /\ Src("SV") = "scratch_SV"
<1>1. /\ Src("K") = "scratch_K" /\ Src("V") = "scratch_V" /\ Src("PK") = "scratch_PK"
      /\ Src("PV") = "scratch_PV" /\ Src("SK") = "scratch_SK" /\ Src("SV") = "scratch_SV"
  BY DEF Src, ScratchNames
<1>2. QED
  BY <1>1 DEF LiveBuffers

\* Products of three.
LEMMA ThreeProducts ==
  ASSUME NEW a \in Nat, NEW b \in Nat, NEW c \in Nat
  PROVE  a * (b * c) = a * b * c /\ (a + b) * c = a * c + b * c
OBVIOUS

\* The widths of the caches.
LEMMA CacheWidths ==
  ASSUME g \in Geometries
  PROVE  /\ g.kvHeads \in Nat \ {0} /\ HdPacked \in Nat /\ DimKv \in Nat \ {0}
         /\ MaxSeq \in Nat
         /\ \A b \in LiveBuffers : Width(b) \in Nat /\ MaxSeq * Width(b) \in Nat
         /\ MaxSeq * g.kvHeads * HdPacked = MaxSeq * (g.kvHeads * HdPacked)
<1>1. /\ g.kvHeads \in Nat \ {0} /\ g.headDim \in Nat /\ PackWidth \in Nat \ {0}
      /\ DimKv \in Nat \ {0} /\ MaxSeq \in Nat
  BY Widths
<1>2. HdPacked \in Nat
  BY <1>1 DEF HdPacked
<1>3. g.kvHeads * HdPacked \in Nat
  BY <1>1, <1>2, Products
<1>4. ASSUME NEW b \in LiveBuffers PROVE Width(b) \in Nat /\ MaxSeq * Width(b) \in Nat
  <2>1. Width(b) \in Nat
    BY <1>1, <1>3 DEF Width, LiveBuffers
  <2>2. QED
    BY <1>1, <2>1, Products
<1>5. QED
  BY <1>1, <1>2, <1>4, ThreeProducts

\* Every element of a live buffer and of its snapshot is allocated.
LEMMA CacheCellsExist ==
  ASSUME CacheMemory, NEW b \in LiveBuffers, NEW i \in 0 .. MaxSeq * Width(b) - 1
  PROVE  <<b, i>> \in DOMAIN memory /\ <<Src(b), i>> \in DOMAIN memory
<1>1. BufferCells(b) \subseteq DOMAIN memory /\ BufferCells(Src(b)) \subseteq DOMAIN memory
  BY DEF CacheMemory, InMemory, Buffers, LiveBuffers
<1>2. MaxSeq * g.kvHeads * HdPacked = MaxSeq * (g.kvHeads * HdPacked)
  BY CacheWidths DEF CacheMemory
<1>3. CASE b \in {"K", "V"}
  <2>1. BufferCells(b) = KvCells(b) /\ BufferCells(Src(b)) = KvCells(Src(b))
    BY <1>3, ScratchIsApart DEF BufferCells
  <2>2. Width(b) = DimKv
    BY <1>3 DEF Width
  <2>3. QED
    BY <1>1, <2>1, <2>2 DEF KvCells
<1>4. CASE b \in {"PK", "PV"}
  <2>1. BufferCells(b) = PackedCells(b) /\ BufferCells(Src(b)) = PackedCells(Src(b))
    BY <1>4, ScratchIsApart DEF BufferCells
  <2>2. Width(b) = g.kvHeads * HdPacked
    BY <1>4 DEF Width
  <2>3. QED
    BY <1>1, <1>2, <2>1, <2>2 DEF PackedCells
<1>5. CASE b \in {"SK", "SV"}
  <2>1. BufferCells(b) = ScaleCells(b) /\ BufferCells(Src(b)) = ScaleCells(Src(b))
    BY <1>5, ScratchIsApart DEF BufferCells
  <2>2. Width(b) = g.kvHeads
    BY <1>5 DEF Width
  <2>3. QED
    BY <1>1, <2>1, <2>2 DEF ScaleCells
<1>6. QED
  BY <1>3, <1>4, <1>5 DEF LiveBuffers

\* So every place of a position is.
LEMMA PlaceExistsInCache ==
  ASSUME CacheMemory, NEW b \in LiveBuffers, NEW p \in Positions, NEW i \in 0 .. Width(b) - 1
  PROVE  /\ p * Width(b) + i \in 0 .. MaxSeq * Width(b) - 1
         /\ <<b, p * Width(b) + i>> \in DOMAIN memory
         /\ <<Src(b), p * Width(b) + i>> \in DOMAIN memory
<1>1. Width(b) \in Nat \ {0} /\ MaxSeq \in Nat
  BY CacheWidths DEF CacheMemory
<1>2. p * Width(b) + i \in 0 .. MaxSeq * Width(b) - 1
  BY <1>1, PlaceIsBelow DEF Positions
<1>3. QED
  BY <1>2, CacheCellsExist

\* Scales and packed words are places of their positions.
LEMMA PackedPlaces ==
  ASSUME g \in Geometries, NEW b, NEW p \in Nat, NEW h \in 0 .. g.kvHeads - 1,
         NEW u \in 0 .. HdPacked - 1
  PROVE  /\ Packed(b, p, h, u) = <<b, p * (g.kvHeads * HdPacked) + (h * HdPacked + u)>>
         /\ h * HdPacked + u \in 0 .. g.kvHeads * HdPacked - 1
<1>1. g.kvHeads \in Nat \ {0} /\ HdPacked \in Nat \ {0}
  BY CacheWidths
<1>2. h * HdPacked + u \in 0 .. g.kvHeads * HdPacked - 1
  BY <1>1, PlaceIsBelow
<1>3. p * g.kvHeads \in Nat /\ h \in Nat /\ h * HdPacked \in Nat
  BY <1>1, Products
<1>4. (p * g.kvHeads + h) * HdPacked = p * g.kvHeads * HdPacked + h * HdPacked
  BY <1>1, <1>3, ThreeProducts
<1>5. p * g.kvHeads * HdPacked = p * (g.kvHeads * HdPacked)
  BY <1>1, ThreeProducts
<1>6. p * (g.kvHeads * HdPacked) \in Nat /\ u \in Nat
  BY <1>1, Products
<1>7. (p * g.kvHeads + h) * HdPacked + u = p * (g.kvHeads * HdPacked) + (h * HdPacked + u)
  BY <1>3, <1>4, <1>5, <1>6
<1>8. QED
  BY <1>2, <1>7 DEF Packed

\* Two scales are the same only at the same place.
LEMMA ScaleIsUnique ==
  ASSUME g \in Geometries, NEW b, NEW d, NEW p \in Nat, NEW q \in Nat,
         NEW h \in 0 .. g.kvHeads - 1, NEW k \in 0 .. g.kvHeads - 1,
         Scale(b, p, h) = Scale(d, q, k)
  PROVE  b = d /\ p = q /\ h = k
<1>1. g.kvHeads \in Nat \ {0}
  BY CacheWidths
<1>2. p * g.kvHeads + h = q * g.kvHeads + k <=> p = q /\ h = k
  BY <1>1, PlaceIsUnique
<1>3. QED
  BY <1>2 DEF Scale

\* So are two packed words.
LEMMA PackedIsUnique ==
  ASSUME g \in Geometries, NEW b, NEW d, NEW p \in Nat, NEW q \in Nat,
         NEW h \in 0 .. g.kvHeads - 1, NEW k \in 0 .. g.kvHeads - 1,
         NEW u \in 0 .. HdPacked - 1, NEW w \in 0 .. HdPacked - 1,
         Packed(b, p, h, u) = Packed(d, q, k, w)
  PROVE  b = d /\ p = q /\ h = k /\ u = w
<1> DEFINE a == p * g.kvHeads + h
           c == q * g.kvHeads + k
<1>1. g.kvHeads \in Nat \ {0} /\ HdPacked \in Nat \ {0}
  BY CacheWidths
<1>2. (a = c <=> p = q /\ h = k) /\ a \in Nat /\ c \in Nat
  <2>1. a = c <=> p = q /\ h = k
    BY <1>1, PlaceIsUnique
  <2>2. a \in Nat
    BY <1>1, PlaceIsUnique
  <2>3. c \in Nat
    BY <1>1, PlaceIsUnique
  <2>4. QED
    BY <2>1, <2>2, <2>3
<1>3. b = d /\ a * HdPacked + u = c * HdPacked + w
  BY DEF Packed
<1> HIDE DEF a, c
<1>4. a = c /\ u = w
  BY <1>1, <1>2, <1>3, PlaceIsUnique
<1>5. QED
  BY <1>2, <1>3, <1>4

-----------------------------------------------------------------------------
(* Quantizing the caches.                                                  *)

\* Every element is that of an earlier call.
KvIsOld ==
  \A p \in Positions, c \in 0 .. DimKv - 1 :
    memory[Cache("K", p, c)] = Val("old_k", p, c) /\ memory[Cache("V", p, c)] = Val("old_v", p, c)

\* Every position below old_seq_len is quantized.
Quantized ==
  \A p \in 0 .. shift.oldLen - 1, h \in 0 .. g.kvHeads - 1 :
    /\ memory[Scale("SK", p, h)] = Val("scale_k", p, h)
    /\ memory[Scale("SV", p, h)] = Val("scale_v", p, h)
    /\ \A u \in 0 .. HdPacked - 1 :
         /\ memory[Packed("PK", p, h, u)] = Val("packed_k", p, h)
         /\ memory[Packed("PV", p, h, u)] = Val("packed_v", p, h)

\* What an invocation stores.
LEMMA QuantizeStores ==
  ASSUME g \in Geometries, NEW x \in Nat, NEW p \in Nat, NEW s \in QuantizeKv(x, p)
  PROVE  /\ x < g.kvHeads
         /\ \/ s = Store(Scale("SK", p, x), Val("scale_k", p, x), CacheHead("K", p, x))
            \/ s = Store(Scale("SV", p, x), Val("scale_v", p, x), CacheHead("V", p, x))
            \/ \E u \in 0 .. HdPacked - 1 :
                 s = Store(Packed("PK", p, x, u), Val("packed_k", p, x), CacheHead("K", p, x))
            \/ \E u \in 0 .. HdPacked - 1 :
                 s = Store(Packed("PV", p, x, u), Val("packed_v", p, x), CacheHead("V", p, x))
<1>1. g.kvHeads \in Nat
  BY CacheWidths
<1>2. x < g.kvHeads
  BY <1>1 DEF QuantizeKv
<1>3. QED
  BY <1>1, <1>2 DEF QuantizeKv

\* The buffer a store goes to says what it is.
QuantizedStore(s, x, p) ==
  /\ s.loads = CacheHead("K", p, x) \/ s.loads = CacheHead("V", p, x)
  /\ s.cell[1] \in {"SK", "SV", "PK", "PV"}
  /\ s.cell[1] = "SK" =>
       s = Store(Scale("SK", p, x), Val("scale_k", p, x), CacheHead("K", p, x))
  /\ s.cell[1] = "SV" =>
       s = Store(Scale("SV", p, x), Val("scale_v", p, x), CacheHead("V", p, x))
  /\ s.cell[1] = "PK" => \E u \in 0 .. HdPacked - 1 :
       s = Store(Packed("PK", p, x, u), Val("packed_k", p, x), CacheHead("K", p, x))
  /\ s.cell[1] = "PV" => \E u \in 0 .. HdPacked - 1 :
       s = Store(Packed("PV", p, x, u), Val("packed_v", p, x), CacheHead("V", p, x))

\* Every store of an invocation is one of them.
LEMMA QuantizedCells ==
  ASSUME g \in Geometries, NEW x \in Nat, NEW p \in Nat, NEW s \in QuantizeKv(x, p)
  PROVE  QuantizedStore(s, x, p)
<1>0. /\ \A b : Scale(b, p, x)[1] = b
      /\ \A b, u : Packed(b, p, x, u)[1] = b
  BY DEF Scale, Packed
<1>1. CASE s = Store(Scale("SK", p, x), Val("scale_k", p, x), CacheHead("K", p, x))
  <2>1. s.cell[1] = "SK" /\ s.loads = CacheHead("K", p, x)
    BY <1>0, <1>1, StoreIs
  <2>2. QED
    BY <1>1, <2>1 DEF QuantizedStore
<1>2. CASE s = Store(Scale("SV", p, x), Val("scale_v", p, x), CacheHead("V", p, x))
  <2>1. s.cell[1] = "SV" /\ s.loads = CacheHead("V", p, x)
    BY <1>0, <1>2, StoreIs
  <2>2. QED
    BY <1>2, <2>1 DEF QuantizedStore
<1>3. ASSUME NEW u \in 0 .. HdPacked - 1,
             s = Store(Packed("PK", p, x, u), Val("packed_k", p, x), CacheHead("K", p, x))
      PROVE  s.cell[1] = "PK" /\ s.loads = CacheHead("K", p, x)
  <2>1. s.cell = Packed("PK", p, x, u) /\ s.loads = CacheHead("K", p, x)
    BY <1>3, StoreIs
  <2>2. QED
    BY <1>0, <2>1
<1>4. ASSUME NEW u \in 0 .. HdPacked - 1,
             s = Store(Packed("PV", p, x, u), Val("packed_v", p, x), CacheHead("V", p, x))
      PROVE  s.cell[1] = "PV" /\ s.loads = CacheHead("V", p, x)
  <2>1. s.cell = Packed("PV", p, x, u) /\ s.loads = CacheHead("V", p, x)
    BY <1>4, StoreIs
  <2>2. QED
    BY <1>0, <2>1
<1>5. QED
  BY <1>1, <1>2, <1>3, <1>4, QuantizeStores DEF QuantizedStore

\* The invocations of the kernel are apart.
LEMMA QuantizeApart ==
  ASSUME g \in Geometries
  PROVE  Apart("QuantizeKv")
<1> SUFFICES ASSUME NEW x \in Nat, NEW y \in Nat, NEW t \in Nat, NEW u \in Nat,
                    NEW a \in QuantizeKv(x, t), NEW b \in QuantizeKv(y, u)
             PROVE  (a.cell = b.cell => a = b) /\ a.cell \notin b.loads
  BY KernelsAre DEF Apart
<1>0. x \in 0 .. g.kvHeads - 1 /\ y \in 0 .. g.kvHeads - 1
  BY CacheWidths, QuantizeStores
<1>9. QuantizedStore(a, x, t) /\ QuantizedStore(b, y, u)
  BY QuantizedCells
<1>1. a.cell \notin b.loads
  <2>1. \A c \in b.loads : c[1] \in {"K", "V"}
    BY <1>9 DEF QuantizedStore, CacheHead, Cache
  <2>2. QED
    BY <1>9, <2>1 DEF QuantizedStore
<1>2. ASSUME a.cell = b.cell PROVE a = b
  <2>0. a.cell[1] = b.cell[1]
    BY <1>2
  <2>1. CASE a.cell[1] = "SK"
    <3>1. /\ a = Store(Scale("SK", t, x), Val("scale_k", t, x), CacheHead("K", t, x))
          /\ b = Store(Scale("SK", u, y), Val("scale_k", u, y), CacheHead("K", u, y))
      BY <1>9, <2>0, <2>1 DEF QuantizedStore
    <3>2. Scale("SK", t, x) = Scale("SK", u, y)
      BY <1>2, <3>1, StoreIs
    <3>3. t = u /\ x = y
      BY <1>0, <3>2, ScaleIsUnique
    <3>4. QED
      BY <3>1, <3>3
  <2>2. CASE a.cell[1] = "SV"
    <3>1. /\ a = Store(Scale("SV", t, x), Val("scale_v", t, x), CacheHead("V", t, x))
          /\ b = Store(Scale("SV", u, y), Val("scale_v", u, y), CacheHead("V", u, y))
      BY <1>9, <2>0, <2>2 DEF QuantizedStore
    <3>2. Scale("SV", t, x) = Scale("SV", u, y)
      BY <1>2, <3>1, StoreIs
    <3>3. t = u /\ x = y
      BY <1>0, <3>2, ScaleIsUnique
    <3>4. QED
      BY <3>1, <3>3
  <2>3. CASE a.cell[1] = "PK"
    <3>1. PICK i \in 0 .. HdPacked - 1 :
            a = Store(Packed("PK", t, x, i), Val("packed_k", t, x), CacheHead("K", t, x))
      BY <1>9, <2>3 DEF QuantizedStore
    <3>2. PICK j \in 0 .. HdPacked - 1 :
            b = Store(Packed("PK", u, y, j), Val("packed_k", u, y), CacheHead("K", u, y))
      BY <1>9, <2>0, <2>3 DEF QuantizedStore
    <3>3. Packed("PK", t, x, i) = Packed("PK", u, y, j)
      BY <1>2, <3>1, <3>2, StoreIs
    <3>4. t = u /\ x = y /\ i = j
      BY <1>0, <3>3, PackedIsUnique
    <3>5. QED
      BY <3>1, <3>2, <3>4
  <2>4. CASE a.cell[1] = "PV"
    <3>1. PICK i \in 0 .. HdPacked - 1 :
            a = Store(Packed("PV", t, x, i), Val("packed_v", t, x), CacheHead("V", t, x))
      BY <1>9, <2>4 DEF QuantizedStore
    <3>2. PICK j \in 0 .. HdPacked - 1 :
            b = Store(Packed("PV", u, y, j), Val("packed_v", u, y), CacheHead("V", u, y))
      BY <1>9, <2>0, <2>4 DEF QuantizedStore
    <3>3. Packed("PV", t, x, i) = Packed("PV", u, y, j)
      BY <1>2, <3>1, <3>2, StoreIs
    <3>4. t = u /\ x = y /\ i = j
      BY <1>0, <3>3, PackedIsUnique
    <3>5. QED
      BY <3>1, <3>2, <3>4
  <2>5. QED
    BY <1>9, <2>1, <2>2, <2>3, <2>4 DEF QuantizedStore
<1>3. QED
  BY <1>1, <1>2

\* A head of the old cache is what its scale and its packed words need.
LEMMA OldHeads ==
  ASSUME CacheMemory, KvIsOld, NEW p \in Positions, NEW h \in 0 .. g.kvHeads - 1
  PROVE  /\ CacheHead("K", p, h) \subseteq DOMAIN memory
         /\ CacheHead("V", p, h) \subseteq DOMAIN memory
         /\ Image(memory, CacheHead("K", p, h)) = OfHead("old_k", p, h)
         /\ Image(memory, CacheHead("V", p, h)) = OfHead("old_v", p, h)
<1>1. ASSUME NEW b \in {"K", "V"}, NEW c \in 0 .. DimKv - 1 PROVE Cache(b, p, c) \in DOMAIN memory
  <2>1. b \in LiveBuffers /\ Width(b) = DimKv
    BY DEF LiveBuffers, Width
  <2>2. QED
    BY <2>1, PlaceExistsInCache DEF Cache
<1>2. \A d \in 0 .. g.headDim - 1 : h * g.headDim + d \in 0 .. DimKv - 1
  BY HeadColumns DEF CacheMemory
<1>3. /\ CacheHead("K", p, h) \subseteq DOMAIN memory
      /\ CacheHead("V", p, h) \subseteq DOMAIN memory
  BY <1>1, <1>2 DEF CacheHead
<1>4. /\ Image(memory, CacheHead("K", p, h)) = OfHead("old_k", p, h)
      /\ Image(memory, CacheHead("V", p, h)) = OfHead("old_v", p, h)
  BY CacheHeadLoads DEF KvIsOld, CacheMemory
<1>5. QED
  BY <1>3, <1>4

\* So a dispatch over all heads and positions quantizes the cache.
LEMMA QuantizeRuns ==
  ASSUME CacheMemory, KvIsOld, NEW o, o.kernel = "QuantizeKv", o.columns = g.kvHeads,
         o.rows = shift.oldLen, shift.oldLen \in 0 .. MaxSeq, SameCall, Execute(o)
  PROVE  DOMAIN memory' = DOMAIN memory /\ Quantized'
<1>0. /\ g.kvHeads \in Nat /\ MaxSeq \in Nat /\ shift.oldLen \in Nat /\ HdPacked \in Nat
      /\ g \in Geometries
  BY CacheWidths DEF CacheMemory
<1>1. /\ DOMAIN memory' = DOMAIN memory
      /\ \A x \in 0 .. g.kvHeads - 1, p \in 0 .. shift.oldLen - 1 : \A s \in QuantizeKv(x, p) :
           s.cell \in DOMAIN memory => memory'[s.cell] = Result(memory, s)
  <2>1. Apart("QuantizeKv")
    BY <1>0, QuantizeApart
  <2>2. o.columns \in Nat /\ o.rows \in Nat
    BY <1>0
  <2>3. /\ DOMAIN memory' = DOMAIN memory
        /\ \A x \in 0 .. o.columns - 1, p \in 0 .. o.rows - 1 : \A s \in Kernel(o.kernel, x, p) :
             s.cell \in DOMAIN memory => memory'[s.cell] = Result(memory, s)
    BY <2>1, <2>2, Executed
  <2>4. QED
    BY <2>3, KernelsAre
<1>2. ASSUME NEW p \in 0 .. shift.oldLen - 1, NEW h \in 0 .. g.kvHeads - 1
      PROVE  /\ memory'[Scale("SK", p, h)] = Val("scale_k", p, h)
             /\ memory'[Scale("SV", p, h)] = Val("scale_v", p, h)
             /\ \A u \in 0 .. HdPacked - 1 :
                  /\ memory'[Packed("PK", p, h, u)] = Val("packed_k", p, h)
                  /\ memory'[Packed("PV", p, h, u)] = Val("packed_v", p, h)
  <2>1. p \in Positions /\ p \in Nat
    BY <1>0 DEF Positions
  <2>2. ASSUME NEW cell \in DOMAIN memory, NEW v, NEW b \in {"K", "V"},
               Store(cell, v, CacheHead(b, p, h)) \in QuantizeKv(h, p),
               Needs(v) = Image(memory, CacheHead(b, p, h))
        PROVE  memory'[cell] = v
    <3>1. memory'[cell] = Result(memory, Store(cell, v, CacheHead(b, p, h)))
      BY <1>1, <2>2, StoreFields
    <3>2. CacheHead(b, p, h) \subseteq DOMAIN memory
      BY <2>1, OldHeads
    <3>3. QED
      BY <2>2, <3>1, <3>2, Computed
  <2>3. /\ Scale("SK", p, h) \in DOMAIN memory /\ Scale("SV", p, h) \in DOMAIN memory
        /\ \A u \in 0 .. HdPacked - 1 :
             Packed("PK", p, h, u) \in DOMAIN memory /\ Packed("PV", p, h, u) \in DOMAIN memory
    <3>1. /\ Width("SK") = g.kvHeads /\ Width("SV") = g.kvHeads
          /\ Width("PK") = g.kvHeads * HdPacked /\ Width("PV") = g.kvHeads * HdPacked
          /\ {"SK", "SV", "PK", "PV"} \subseteq LiveBuffers
      BY DEF Width, LiveBuffers
    <3>2. ASSUME NEW b \in {"SK", "SV"} PROVE Scale(b, p, h) \in DOMAIN memory
      <4>1. b \in LiveBuffers /\ h \in 0 .. Width(b) - 1
        BY <3>1
      <4>2. <<b, p * Width(b) + h>> \in DOMAIN memory
        BY <2>1, <4>1, PlaceExistsInCache
      <4>3. Width(b) = g.kvHeads
        BY <3>1
      <4>4. QED
        BY <4>2, <4>3 DEF Scale
    <3>3. ASSUME NEW b \in {"PK", "PV"}, NEW u \in 0 .. HdPacked - 1
          PROVE  Packed(b, p, h, u) \in DOMAIN memory
      <4>1. b \in LiveBuffers /\ Width(b) = g.kvHeads * HdPacked
        BY <3>1
      <4> DEFINE i == h * HdPacked + u
      <4>5. /\ Packed(b, p, h, u) = <<b, p * (g.kvHeads * HdPacked) + i>>
            /\ i \in 0 .. g.kvHeads * HdPacked - 1
        BY <1>0, <2>1, PackedPlaces
      <4>2. Packed(b, p, h, u) = <<b, p * Width(b) + i>> /\ i \in 0 .. Width(b) - 1
        BY <4>1, <4>5
      <4> HIDE DEF i
      <4>3. QED
        BY <2>1, <4>1, <4>2, PlaceExistsInCache
    <3>4. QED
      BY <3>2, <3>3
  <2>4. /\ Needs(Val("scale_k", p, h)) = Image(memory, CacheHead("K", p, h))
        /\ Needs(Val("packed_k", p, h)) = Image(memory, CacheHead("K", p, h))
        /\ Needs(Val("scale_v", p, h)) = Image(memory, CacheHead("V", p, h))
        /\ Needs(Val("packed_v", p, h)) = Image(memory, CacheHead("V", p, h))
    BY <2>1, OldHeads, NeedsOf
  <2>5. h < g.kvHeads
    BY <1>0
  <2>6. /\ Store(Scale("SK", p, h), Val("scale_k", p, h), CacheHead("K", p, h)) \in QuantizeKv(h, p)
        /\ Store(Scale("SV", p, h), Val("scale_v", p, h), CacheHead("V", p, h)) \in QuantizeKv(h, p)
        /\ \A u \in 0 .. HdPacked - 1 :
             /\ Store(Packed("PK", p, h, u), Val("packed_k", p, h), CacheHead("K", p, h))
                  \in QuantizeKv(h, p)
             /\ Store(Packed("PV", p, h, u), Val("packed_v", p, h), CacheHead("V", p, h))
                  \in QuantizeKv(h, p)
    BY <1>0, <2>5 DEF QuantizeKv
  <2>7. QED
    BY <2>2, <2>3, <2>4, <2>6
<1>3. Quantized'
  <2>1. /\ \A b, p, h, u : Packed(b, p, h, u)' = Packed(b, p, h, u)
        /\ \A b, p, h : Scale(b, p, h)' = Scale(b, p, h)
        /\ g' = g /\ shift' = shift /\ HdPacked' = HdPacked
    BY SameCells, SameWidths DEF SameCall
  <2>2. QED
    BY <1>2, <2>1 DEF Quantized, Val
<1>4. QED
  BY <1>1, <1>3

-----------------------------------------------------------------------------
(* Shifting the caches.                                                    *)

\* Nothing has moved; the snapshot is taken; what is kept has moved.
Unmoved(b) == \A i \in 0 .. MaxSeq * Width(b) - 1 : memory[<<b, i>>] = Before(<<b, i>>)
Snapped(b) == \A i \in 0 .. MaxSeq * Width(b) - 1 : memory[<<Src(b), i>>] = Before(<<b, i>>)
Origin(p) == IF p < shift.keep THEN p ELSE p + shift.amount
Shifted(b) ==
  \A p \in 0 .. shift.oldLen - 1, i \in 0 .. Width(b) - 1 :
    Origin(p) < shift.oldLen =>
      memory[<<b, p * Width(b) + i>>] = Before(<<b, Origin(p) * Width(b) + i>>)

\* The values of a shift.
ShiftOk ==
  /\ shift.keep \in Nat /\ shift.amount \in Nat /\ shift.oldLen \in 0 .. MaxSeq
  /\ g.headDim % PackWidth = 0 \/ path # "shift_int4"

\* A position behind the gap, and the copy of its element i.
Moves(p) == p \in Nat /\ shift.keep <= p /\ p + shift.amount < shift.oldLen
MoveOf(b, p, i) ==
  Move(<<b, p * Width(b) + i>>, <<Src(b), (p + shift.amount) * Width(b) + i>>)

\* The kernel copies the elements of these buffers behind the gap, and
\* nothing else.
MovesOnly(k, B) ==
  \A x, t \in Nat : \A s \in Kernel(k, x, t) :
    \E b \in B, p \in Nat : \E i \in 0 .. Width(b) - 1 : Moves(p) /\ s = MoveOf(b, p, i)
MovesAll(k, B, n) ==
  \A b \in B, p \in Nat : \A i \in 0 .. Width(b) - 1 :
    Moves(p) =>
      \E x \in 0 .. n - 1, t \in 0 .. Moving - 1 : MoveOf(b, p, i) \in Kernel(k, x, t)

\* What is a copy has these.
LEMMA MoveIs ==
  \A cell, from, s : s = Move(cell, from) => s.cell = cell /\ s.loads = {from} /\ s.op = "copy"
BY DEF Move

\* A copy has the value of what it loads.
LEMMA MoveResult ==
  ASSUME NEW m, NEW cell, NEW from, from \in DOMAIN m
  PROVE  Result(m, Move(cell, from)) = m[from]
<1> DEFINE s == Move(cell, from)
           loaded == {Load(m, c) : c \in s.loads}
<1>1. s.op = "copy" /\ s.loads = {from}
  BY MoveIs
<1>2. loaded = {m[from]}
  BY <1>1 DEF Load
<1> HIDE DEF s
<1>3. Result(m, s) = CHOOSE v \in loaded : TRUE
  BY <1>1 DEF Result
<1> HIDE DEF loaded
<1>4. Result(m, s) = m[from]
  BY <1>2, <1>3
<1>5. QED
  BY <1>4 DEF s

\* An element of a buffer is at one place.
LEMMA ElementIsUnique ==
  ASSUME g \in Geometries, NEW b \in LiveBuffers, NEW p \in Nat, NEW q \in Nat,
         NEW i \in 0 .. Width(b) - 1, NEW j \in 0 .. Width(b) - 1,
         p * Width(b) + i = q * Width(b) + j
  PROVE  p = q /\ i = j
<1>1. Width(b) \in Nat \ {0}
  BY CacheWidths
<1> DEFINE w == Width(b)
<1>2. w \in Nat \ {0} /\ i \in 0 .. w - 1 /\ j \in 0 .. w - 1 /\ p * w + i = q * w + j
  BY <1>1
<1> HIDE DEF w
<1>3. QED
  BY <1>2, PlaceIsUnique

\* Invocations that only copy from the snapshots are apart.
LEMMA MovesApart ==
  ASSUME g \in Geometries, NEW k, NEW B \in SUBSET LiveBuffers, MovesOnly(k, B)
  PROVE  Apart(k)
<1> SUFFICES ASSUME NEW x \in Nat, NEW y \in Nat, NEW t \in Nat, NEW u \in Nat,
                    NEW a \in Kernel(k, x, t), NEW d \in Kernel(k, y, u)
             PROVE  (a.cell = d.cell => a = d) /\ a.cell \notin d.loads
  BY DEF Apart
<1>1. PICK b \in B, p \in Nat : \E i \in 0 .. Width(b) - 1 : a = MoveOf(b, p, i)
  BY DEF MovesOnly
<1>2. PICK i \in 0 .. Width(b) - 1 : a = MoveOf(b, p, i)
  BY <1>1
<1>3. PICK c \in B, q \in Nat : \E j \in 0 .. Width(c) - 1 : d = MoveOf(c, q, j)
  BY DEF MovesOnly
<1>4. PICK j \in 0 .. Width(c) - 1 : d = MoveOf(c, q, j)
  BY <1>3
<1>5. /\ a.cell = <<b, p * Width(b) + i>>
      /\ d.cell = <<c, q * Width(c) + j>>
      /\ d.loads = {<<Src(c), (q + shift.amount) * Width(c) + j>>}
  BY <1>2, <1>4, MoveIs DEF MoveOf
<1>6. a.cell \notin d.loads
  BY <1>5, ScratchIsApart
<1>7. ASSUME a.cell = d.cell PROVE a = d
  <2>1. b = c /\ p * Width(b) + i = q * Width(b) + j /\ j \in 0 .. Width(b) - 1
    BY <1>5, <1>7
  <2>2. p = q /\ i = j
    BY <2>1, ElementIsUnique
  <2>3. QED
    BY <1>2, <1>4, <2>1, <2>2
<1>8. QED
  BY <1>6, <1>7

\* They leave the snapshots, the other buffers and what is kept alone.
LEMMA MovesLeave ==
  ASSUME g \in Geometries, NEW k, NEW B \in SUBSET LiveBuffers, MovesOnly(k, B)
  PROVE  /\ \A b \in LiveBuffers : \A i : Untouched(k, <<Src(b), i>>)
         /\ \A b \in LiveBuffers \ B : \A i : Untouched(k, <<b, i>>)
         /\ \A b \in B, p \in Nat : \A i \in 0 .. Width(b) - 1 :
              p < shift.keep /\ shift.keep \in Nat => Untouched(k, <<b, p * Width(b) + i>>)
<1>1. ASSUME NEW x \in Nat, NEW t \in Nat, NEW s \in Kernel(k, x, t)
      PROVE  \E c \in B, q \in Nat : \E j \in 0 .. Width(c) - 1 :
               Moves(q) /\ s.cell = <<c, q * Width(c) + j>>
  <2>1. PICK c \in B, q \in Nat : \E j \in 0 .. Width(c) - 1 : Moves(q) /\ s = MoveOf(c, q, j)
    BY DEF MovesOnly
  <2>2. PICK j \in 0 .. Width(c) - 1 : Moves(q) /\ s = MoveOf(c, q, j)
    BY <2>1
  <2>3. s.cell = <<c, q * Width(c) + j>>
    BY <2>2, MoveIs DEF MoveOf
  <2>4. QED
    BY <2>2, <2>3
<1>2. ASSUME NEW b \in LiveBuffers, NEW i PROVE Untouched(k, <<Src(b), i>>)
  BY <1>1, ScratchIsApart DEF Untouched
<1>3. ASSUME NEW b \in LiveBuffers \ B, NEW i PROVE Untouched(k, <<b, i>>)
  BY <1>1 DEF Untouched
<1>4. ASSUME NEW b \in B, NEW p \in Nat, NEW i \in 0 .. Width(b) - 1,
             p < shift.keep, shift.keep \in Nat
      PROVE  Untouched(k, <<b, p * Width(b) + i>>)
  <2>1. ASSUME NEW x \in Nat, NEW t \in Nat, NEW s \in Kernel(k, x, t),
               s.cell = <<b, p * Width(b) + i>>
        PROVE  FALSE
    <3>1. PICK c \in B, q \in Nat : \E j \in 0 .. Width(c) - 1 :
               Moves(q) /\ s.cell = <<c, q * Width(c) + j>>
      BY <1>1
    <3>2. PICK j \in 0 .. Width(c) - 1 : Moves(q) /\ s.cell = <<c, q * Width(c) + j>>
      BY <3>1
    <3>3. b = c /\ p * Width(b) + i = q * Width(b) + j /\ j \in 0 .. Width(b) - 1
      BY <2>1, <3>2
    <3>4. p = q
      BY <3>3, ElementIsUnique
    <3>5. QED
      BY <1>4, <3>2, <3>4 DEF Moves
  <2>2. QED
    BY <2>1 DEF Untouched
<1>5. QED
  BY <1>2, <1>3, <1>4

\* So a dispatch over every element shifts these buffers.
LEMMA ShiftRuns ==
  ASSUME CacheMemory, ShiftOk, NEW k, NEW B \in SUBSET LiveBuffers, NEW n \in Nat,
         MovesOnly(k, B), MovesAll(k, B, n),
         \A b \in B : Unmoved(b) /\ Snapped(b),
         NEW o, o.kernel = k, o.columns = n, o.rows = Moving, Execute(o)
  PROVE  /\ DOMAIN memory' = DOMAIN memory
         /\ \A b \in LiveBuffers : \A i \in 0 .. MaxSeq * Width(b) - 1 :
              /\ memory'[<<Src(b), i>>] = memory[<<Src(b), i>>]
              /\ b \notin B => memory'[<<b, i>>] = memory[<<b, i>>]
         /\ \A b \in B : \A p \in 0 .. shift.oldLen - 1, i \in 0 .. Width(b) - 1 :
              Origin(p) < shift.oldLen =>
                memory'[<<b, p * Width(b) + i>>] = Before(<<b, Origin(p) * Width(b) + i>>)
<1>0. /\ g \in Geometries /\ shift.keep \in Nat /\ shift.amount \in Nat
      /\ shift.oldLen \in Nat /\ shift.oldLen <= MaxSeq /\ MaxSeq \in Nat
  BY CacheWidths DEF CacheMemory, ShiftOk
<1>1. Moving \in Nat
  BY <1>0 DEF Moving
<1>2. /\ DOMAIN memory' = DOMAIN memory
      /\ \A x \in 0 .. n - 1, t \in 0 .. Moving - 1 : \A s \in Kernel(k, x, t) :
           s.cell \in DOMAIN memory => memory'[s.cell] = Result(memory, s)
      /\ \A c \in DOMAIN memory : Untouched(k, c) => memory'[c] = memory[c]
  <2>1. Apart(o.kernel) /\ o.columns \in Nat /\ o.rows \in Nat
    BY <1>0, <1>1, MovesApart
  <2>2. /\ DOMAIN memory' = DOMAIN memory
        /\ \A x \in 0 .. o.columns - 1, t \in 0 .. o.rows - 1 : \A s \in Kernel(o.kernel, x, t) :
             s.cell \in DOMAIN memory => memory'[s.cell] = Result(memory, s)
        /\ \A c \in DOMAIN memory : Untouched(o.kernel, c) => memory'[c] = memory[c]
    BY <2>1, Executed
  <2>3. QED
    BY <2>2
<1>3. /\ \A b \in LiveBuffers : \A i : Untouched(k, <<Src(b), i>>)
      /\ \A b \in LiveBuffers \ B : \A i : Untouched(k, <<b, i>>)
      /\ \A b \in B, p \in Nat : \A i \in 0 .. Width(b) - 1 :
           p < shift.keep => Untouched(k, <<b, p * Width(b) + i>>)
  BY <1>0, MovesLeave
<1>4. ASSUME NEW b \in LiveBuffers, NEW i \in 0 .. MaxSeq * Width(b) - 1
      PROVE  /\ memory'[<<Src(b), i>>] = memory[<<Src(b), i>>]
             /\ b \notin B => memory'[<<b, i>>] = memory[<<b, i>>]
  BY <1>2, <1>3, CacheCellsExist
<1>5. ASSUME NEW b \in B, NEW p \in 0 .. shift.oldLen - 1, NEW i \in 0 .. Width(b) - 1,
             Origin(p) < shift.oldLen
      PROVE  memory'[<<b, p * Width(b) + i>>] = Before(<<b, Origin(p) * Width(b) + i>>)
  <2>0. b \in LiveBuffers /\ p \in Positions /\ p \in Nat
    BY <1>0 DEF Positions
  <2>1. /\ p * Width(b) + i \in 0 .. MaxSeq * Width(b) - 1
        /\ <<b, p * Width(b) + i>> \in DOMAIN memory
    BY <2>0, PlaceExistsInCache
  <2>2. CASE p < shift.keep
    <3>1. Origin(p) = p
      BY <2>2 DEF Origin
    <3>2. memory'[<<b, p * Width(b) + i>>] = memory[<<b, p * Width(b) + i>>]
      BY <1>2, <1>3, <2>0, <2>1, <2>2
    <3>3. memory[<<b, p * Width(b) + i>>] = Before(<<b, p * Width(b) + i>>)
      BY <2>1 DEF Unmoved
    <3>4. QED
      BY <3>1, <3>2, <3>3
  <2>3. CASE ~(p < shift.keep)
    <3> DEFINE old == p + shift.amount
    <3>1. Origin(p) = old /\ Moves(p) /\ old \in Positions
      BY <1>0, <1>5, <2>0, <2>3 DEF Origin, Moves, Positions
    <3>2. PICK x \in 0 .. n - 1, t \in 0 .. Moving - 1 : MoveOf(b, p, i) \in Kernel(k, x, t)
      BY <2>0, <3>1 DEF MovesAll
    <3> HIDE DEF old
    <3>3. MoveOf(b, p, i) = Move(<<b, p * Width(b) + i>>, <<Src(b), old * Width(b) + i>>)
      BY DEF MoveOf, old
    <3>4. /\ old * Width(b) + i \in 0 .. MaxSeq * Width(b) - 1
          /\ <<Src(b), old * Width(b) + i>> \in DOMAIN memory
      BY <2>0, <3>1, PlaceExistsInCache
    <3>5. memory'[<<b, p * Width(b) + i>>] = Result(memory, MoveOf(b, p, i))
      BY <1>2, <2>1, <3>2, <3>3, MoveIs
    <3>6. Result(memory, MoveOf(b, p, i)) = memory[<<Src(b), old * Width(b) + i>>]
      BY <3>3, <3>4, MoveResult
    <3>7. memory[<<Src(b), old * Width(b) + i>>] = Before(<<b, old * Width(b) + i>>)
      BY <3>4 DEF Snapped
    <3>8. QED
      BY <3>1, <3>5, <3>6, <3>7
  <2>4. QED
    BY <2>2, <2>3
<1>6. QED
  BY <1>2, <1>4, <1>5

\* Nothing a shift looks at changes but memory.
LEMMA SameShift ==
  ASSUME SameCall
  PROVE  /\ \A c : Before(c)' = Before(c)
         /\ \A b : Width(b)' = Width(b) /\ Src(b)' = Src(b)
         /\ \A p : Origin(p)' = Origin(p)
         /\ Moving' = Moving
<1>1. \A c : Before(c)' = Before(c)
  BY SameWidths DEF SameCall, Before, Val
<1>2. \A b : Width(b)' = Width(b) /\ Src(b)' = Src(b)
  BY SameWidths DEF SameCall, Width, Src, ScratchNames
<1>3. (\A p : Origin(p)' = Origin(p)) /\ Moving' = Moving
  BY DEF SameCall, Origin, Moving
<1>4. QED
  BY <1>1, <1>2, <1>3

\* A snapshot holds what was in its buffer, and changes nothing else.
LEMMA SnapshotTaken ==
  ASSUME CacheMemory, SameCall, NEW b \in LiveBuffers, Unmoved(b), TakeSnapshot(b)
  PROVE  /\ DOMAIN memory' = DOMAIN memory
         /\ Snapped(b)'
         /\ \A d \in LiveBuffers : Unmoved(d) => Unmoved(d)'
         /\ \A d \in LiveBuffers : Snapped(d) => Snapped(d)'
<1>1. /\ DOMAIN memory' = DOMAIN memory
      /\ \A c \in DOMAIN memory :
           memory'[c] = IF c[1] = Src(b) THEN memory[<<b, c[2]>>] ELSE memory[c]
  BY DEF TakeSnapshot
<1>2. ASSUME NEW d \in LiveBuffers, NEW i \in 0 .. MaxSeq * Width(d) - 1
      PROVE  /\ memory'[<<d, i>>] = memory[<<d, i>>]
             /\ d = b => memory'[<<Src(d), i>>] = memory[<<d, i>>]
             /\ d # b => memory'[<<Src(d), i>>] = memory[<<Src(d), i>>]
  <2>1. <<d, i>> \in DOMAIN memory /\ <<Src(d), i>> \in DOMAIN memory
    BY CacheCellsExist
  <2>2. d # Src(b) /\ (d # b => Src(d) # Src(b))
    BY ScratchIsApart
  <2>3. QED
    BY <1>1, <2>1, <2>2
<1>3. Snapped(b)'
  BY <1>2, SameShift DEF Snapped, Unmoved
<1>4. \A d \in LiveBuffers : Unmoved(d) => Unmoved(d)'
  BY <1>2, SameShift DEF Unmoved
<1>5. ASSUME NEW d \in LiveBuffers, d # b, Snapped(d) PROVE Snapped(d)'
  BY <1>2, <1>5, SameShift DEF Snapped
<1>6. QED
  BY <1>1, <1>3, <1>4, <1>5

\* Without positions behind the gap a shift has nothing to do.
LEMMA NothingMoves ==
  ASSUME CacheMemory, ShiftOk, Moving = 0, NEW b \in LiveBuffers, Unmoved(b)
  PROVE  Shifted(b)
<1>0. /\ shift.keep \in Nat /\ shift.amount \in Nat /\ shift.oldLen \in Nat
      /\ shift.oldLen <= MaxSeq /\ MaxSeq \in Nat
  BY CacheWidths DEF CacheMemory, ShiftOk
<1>1. shift.oldLen <= shift.keep + shift.amount
  BY <1>0 DEF Moving
<1>2. ASSUME NEW p \in 0 .. shift.oldLen - 1, NEW i \in 0 .. Width(b) - 1,
             Origin(p) < shift.oldLen
      PROVE  memory[<<b, p * Width(b) + i>>] = Before(<<b, Origin(p) * Width(b) + i>>)
  <2>1. Origin(p) = p /\ p \in Positions
    BY <1>0, <1>1, <1>2 DEF Origin, Positions
  <2>2. p * Width(b) + i \in 0 .. MaxSeq * Width(b) - 1
    BY <2>1, PlaceExistsInCache
  <2>3. QED
    BY <2>1, <2>2 DEF Unmoved
<1>3. QED
  BY <1>2 DEF Shifted

\* The positions behind the gap are those the dispatch runs over.
LEMMA MovingRows ==
  ASSUME CacheMemory, ShiftOk
  PROVE  /\ \A t \in Nat : shift.keep + shift.amount + t < shift.oldLen =>
              /\ Moves(shift.keep + t) /\ shift.keep + t \in Nat
              /\ (shift.keep + shift.amount + t) - shift.amount = shift.keep + t
              /\ shift.keep + t + shift.amount = shift.keep + shift.amount + t
         /\ \A p \in Nat : Moves(p) =>
              /\ p - shift.keep \in 0 .. Moving - 1
              /\ shift.keep + shift.amount + (p - shift.keep) = p + shift.amount
              /\ (p + shift.amount) - shift.amount = p
              /\ p + shift.amount < shift.oldLen
<1>0. /\ shift.keep \in Nat /\ shift.amount \in Nat /\ shift.oldLen \in Nat
  BY CacheWidths DEF CacheMemory, ShiftOk
<1>1. QED
  BY <1>0 DEF Moves, Moving

\* The kernel of the f32 caches.
LEMMA RopeShiftMoves ==
  ASSUME CacheMemory, ShiftOk
  PROVE  MovesOnly("RopeShift", {"K", "V"}) /\ MovesAll("RopeShift", {"K", "V"}, DimKv)
<1>0. /\ shift.keep \in Nat /\ shift.amount \in Nat /\ shift.oldLen \in Nat
      /\ DimKv \in Nat /\ Width("K") = DimKv /\ Width("V") = DimKv
  BY CacheWidths DEF CacheMemory, ShiftOk, Width
<1>1. ASSUME NEW x \in Nat, NEW t \in Nat, NEW s \in RopeShift(x, t)
      PROVE  \E b \in {"K", "V"}, p \in Nat :
               \E i \in 0 .. Width(b) - 1 : Moves(p) /\ s = MoveOf(b, p, i)
  <2> DEFINE old == shift.keep + shift.amount + t
             p == shift.keep + t
  <2>1. old \in Nat
    BY <1>0
  <2>2. x < DimKv /\ old < shift.oldLen
    BY <1>0, <2>1 DEF RopeShift
  <2>3. \E b \in {"K", "V"} : s = Move(Cache(b, old - shift.amount, x), Cache(Src(b), old, x))
    BY <1>0, <2>1, <2>2 DEF RopeShift
  <2>4. PICK b \in {"K", "V"} : s = Move(Cache(b, old - shift.amount, x), Cache(Src(b), old, x))
    BY <2>3
  <2>5. Moves(p) /\ p \in Nat /\ old - shift.amount = p /\ p + shift.amount = old
    BY <2>2, MovingRows
  <2> HIDE DEF old, p
  <2>6. s = MoveOf(b, p, x)
    BY <1>0, <2>4, <2>5 DEF MoveOf, Cache
  <2>7. x \in 0 .. Width(b) - 1
    BY <1>0, <2>2
  <2>8. QED
    BY <2>5, <2>6, <2>7
<1>2. ASSUME NEW b \in {"K", "V"}, NEW p \in Nat, NEW i \in 0 .. Width(b) - 1, Moves(p)
      PROVE  \E x \in 0 .. DimKv - 1, t \in 0 .. Moving - 1 : MoveOf(b, p, i) \in RopeShift(x, t)
  <2> DEFINE t == p - shift.keep
             old == shift.keep + shift.amount + t
  <2>1. /\ t \in 0 .. Moving - 1 /\ old = p + shift.amount /\ old - shift.amount = p
        /\ old < shift.oldLen
    BY <1>2, MovingRows
  <2>2. i \in 0 .. DimKv - 1 /\ i < DimKv /\ Width(b) = DimKv
    BY <1>0
  <2>3. MoveOf(b, p, i) = Move(Cache(b, old - shift.amount, i), Cache(Src(b), old, i))
    BY <2>1, <2>2 DEF MoveOf, Cache
  <2>4. old \in Nat
    BY <1>0, <2>1
  <2>5. ~(i >= DimKv \/ old >= shift.oldLen)
    BY <1>0, <2>1, <2>2, <2>4
  <2>6. RopeShift(i, t) =
          {Move(Cache(d, old - shift.amount, i), Cache(Src(d), old, i)) : d \in {"K", "V"}}
    BY <2>5 DEF RopeShift
  <2> HIDE DEF t, old
  <2>7. MoveOf(b, p, i) \in RopeShift(i, t)
    BY <2>3, <2>6
  <2>8. QED
    BY <2>1, <2>2, <2>7
<1>3. QED
  BY <1>1, <1>2, KernelsAre DEF MovesOnly, MovesAll

\* A column of the packed caches is a word of a head.
LEMMA PackedColumns ==
  ASSUME g \in Geometries, HdPacked # 0, NEW x \in Nat, NEW b, NEW p \in Nat
  PROVE  /\ x \div HdPacked < g.kvHeads => x \in 0 .. g.kvHeads * HdPacked - 1
         /\ x \div HdPacked \in Nat /\ x % HdPacked \in 0 .. HdPacked - 1
         /\ Packed(b, p, x \div HdPacked, x % HdPacked) = <<b, p * (g.kvHeads * HdPacked) + x>>
<1> DEFINE n == HdPacked
           q == x \div n
           r == x % n
<1>1. n \in Nat \ {0} /\ g.kvHeads \in Nat
  BY CacheWidths
<1>2. q \in Nat /\ r \in 0 .. n - 1 /\ x = n * q + r
  BY <1>1
<1> HIDE DEF n, q, r
<1>3. n * q = q * n /\ q * n \in Nat /\ x = q * n + r
  BY <1>1, <1>2, Products
<1>4. q < g.kvHeads => q * n + r \in 0 .. g.kvHeads * n - 1
  BY <1>1, <1>2, PlaceIsBelow
<1>5. (p * g.kvHeads + q) * n + r = p * (g.kvHeads * n) + x
  <2>1. p * g.kvHeads \in Nat /\ p * (g.kvHeads * n) \in Nat
    BY <1>1, Products
  <2>2. (p * g.kvHeads + q) * n = p * g.kvHeads * n + q * n
    BY <1>1, <1>2, <2>1, ThreeProducts
  <2>3. p * g.kvHeads * n = p * (g.kvHeads * n)
    BY <1>1, ThreeProducts
  <2>4. QED
    BY <1>2, <1>3, <2>1, <2>2, <2>3
<1>6. /\ q < g.kvHeads => x \in 0 .. g.kvHeads * n - 1
      /\ q \in Nat /\ r \in 0 .. n - 1
  BY <1>2, <1>3, <1>4
<1>7. Packed(b, p, q, r) = <<b, p * (g.kvHeads * n) + x>>
  BY <1>5 DEF Packed, n
<1>8. QED
  BY <1>6, <1>7 DEF q, r, n

\* The kernel of the packed caches.
LEMMA RopeShiftInt4Moves ==
  ASSUME CacheMemory, ShiftOk, path = "shift_int4"
  PROVE  /\ MovesOnly("RopeShiftInt4", {"PK", "PV", "SK", "SV"})
         /\ MovesAll("RopeShiftInt4", {"PK", "PV", "SK", "SV"}, g.kvHeads * HdPacked)
<1>0. /\ shift.keep \in Nat /\ shift.amount \in Nat /\ shift.oldLen \in Nat
      /\ g \in Geometries /\ g.kvHeads \in Nat \ {0}
      /\ Width("PK") = g.kvHeads * HdPacked /\ Width("PV") = g.kvHeads * HdPacked
      /\ Width("SK") = g.kvHeads /\ Width("SV") = g.kvHeads
  BY CacheWidths DEF CacheMemory, ShiftOk, Width
<1>1. HdPacked \in Nat \ {0}
  <2>1. g.headDim \in Nat \ {0} /\ PackWidth \in Nat \ {0} /\ g.headDim % PackWidth = 0
    BY <1>0, Widths DEF ShiftOk
  <2> DEFINE a == g.headDim
             n == PackWidth
             d == a \div n
  <2>2. a \in Nat \ {0} /\ n \in Nat \ {0} /\ a % n = 0
    BY <2>1
  <2> HIDE DEF a
  <2>3. d \in Nat /\ a = n * d
    BY <2>2
  <2> HIDE DEF d, n
  <2>4. d # 0
    BY <2>2, <2>3
  <2>5. QED
    BY <2>3, <2>4 DEF d, a, n, HdPacked
<1>2. ASSUME NEW x \in Nat, NEW t \in Nat, NEW s \in RopeShiftInt4(x, t)
      PROVE  \E b \in {"PK", "PV", "SK", "SV"}, p \in Nat :
               \E i \in 0 .. Width(b) - 1 : Moves(p) /\ s = MoveOf(b, p, i)
  <2> DEFINE old == shift.keep + shift.amount + t
             new == old - shift.amount
             p == shift.keep + t
             h == x \div HdPacked
             u == x % HdPacked
  <2>1. old \in Nat /\ h \in Nat
    BY <1>0, <1>1, PackedColumns
  <2>2. h < g.kvHeads /\ old < shift.oldLen
    BY <1>0, <2>1 DEF RopeShiftInt4
  <2>3. \/ \E b \in {"PK", "PV"} : s = Move(Packed(b, new, h, u), Packed(Src(b), old, h, u))
        \/ u = 0 /\ \E b \in {"SK", "SV"} : s = Move(Scale(b, new, h), Scale(Src(b), old, h))
    BY <1>0, <2>1, <2>2 DEF RopeShiftInt4
  <2>4. Moves(p) /\ p \in Nat /\ new = p /\ p + shift.amount = old
    BY <2>2, MovingRows
  <2>5. /\ x \in 0 .. g.kvHeads * HdPacked - 1
        /\ \A b : \A q \in Nat : Packed(b, q, h, u) = <<b, q * (g.kvHeads * HdPacked) + x>>
    BY <1>0, <1>1, <2>2, PackedColumns
  <2> HIDE DEF old, new, p, h, u
  <2>6. ASSUME NEW b \in {"PK", "PV"},
               s = Move(Packed(b, new, h, u), Packed(Src(b), old, h, u))
        PROVE  x \in 0 .. Width(b) - 1 /\ s = MoveOf(b, p, x)
    <3>1. Width(b) = g.kvHeads * HdPacked
      BY <1>0
    <3>2. /\ Packed(b, new, h, u) = <<b, p * Width(b) + x>>
          /\ Packed(Src(b), old, h, u) = <<Src(b), (p + shift.amount) * Width(b) + x>>
      BY <2>1, <2>4, <2>5, <3>1
    <3>3. QED
      BY <2>5, <2>6, <3>1, <3>2 DEF MoveOf
  <2>7. ASSUME NEW b \in {"SK", "SV"}, s = Move(Scale(b, new, h), Scale(Src(b), old, h))
        PROVE  h \in 0 .. Width(b) - 1 /\ s = MoveOf(b, p, h)
    <3>1. Width(b) = g.kvHeads
      BY <1>0
    <3>2. /\ Scale(b, new, h) = <<b, p * Width(b) + h>>
          /\ Scale(Src(b), old, h) = <<Src(b), (p + shift.amount) * Width(b) + h>>
      BY <2>4, <3>1 DEF Scale
    <3>3. h \in 0 .. Width(b) - 1
      BY <1>0, <2>1, <2>2, <3>1
    <3>4. QED
      BY <2>7, <3>2, <3>3 DEF MoveOf
  <2>8. QED
    BY <2>3, <2>4, <2>6, <2>7
<1>3. ASSUME NEW p \in Nat, Moves(p), NEW x \in Nat, x \div HdPacked < g.kvHeads
      PROVE  LET t == p - shift.keep
                 h == x \div HdPacked
                 u == x % HdPacked
             IN /\ t \in 0 .. Moving - 1
                /\ \A b \in {"PK", "PV"} :
                     Move(Packed(b, p, h, u), Packed(Src(b), p + shift.amount, h, u))
                       \in RopeShiftInt4(x, t)
                /\ u = 0 => \A b \in {"SK", "SV"} :
                     Move(Scale(b, p, h), Scale(Src(b), p + shift.amount, h))
                       \in RopeShiftInt4(x, t)
  <2> DEFINE t == p - shift.keep
             old == shift.keep + shift.amount + t
             h == x \div HdPacked
             u == x % HdPacked
  <2>1. /\ t \in 0 .. Moving - 1 /\ old = p + shift.amount /\ old - shift.amount = p
        /\ old < shift.oldLen
    BY <1>3, MovingRows
  <2>2. ~(h >= g.kvHeads \/ old >= shift.oldLen)
    <3>1. old \in Nat /\ h \in Nat
      BY <1>0, <1>1, <2>1, PackedColumns
    <3>2. QED
      BY <1>0, <1>3, <2>1, <3>1
  <2>3. RopeShiftInt4(x, t) =
          {Move(Packed(b, old - shift.amount, h, u), Packed(Src(b), old, h, u)) :
             b \in {"PK", "PV"}}
          \cup {Move(Scale(b, old - shift.amount, h), Scale(Src(b), old, h)) :
                  b \in {s \in {"SK", "SV"} : u = 0}}
    BY <2>2 DEF RopeShiftInt4
  <2> HIDE DEF old
  <2>4. QED
    BY <2>1, <2>3
<1>4. ASSUME NEW b \in {"PK", "PV", "SK", "SV"}, NEW p \in Nat, NEW i \in 0 .. Width(b) - 1,
             Moves(p)
      PROVE  \E x \in 0 .. g.kvHeads * HdPacked - 1, t \in 0 .. Moving - 1 :
               MoveOf(b, p, i) \in RopeShiftInt4(x, t)
  <2>1. CASE b \in {"PK", "PV"}
    <3>1. Width(b) = g.kvHeads * HdPacked /\ i \in 0 .. g.kvHeads * HdPacked - 1
      BY <1>0, <2>1
    <3>2. i \in Nat /\ i \div HdPacked < g.kvHeads
      <4>1. i \div HdPacked \in 0 .. g.kvHeads - 1
        BY <1>0, <1>1, <3>1, PlaceExists
      <4>2. QED
        BY <1>0, <3>1, <4>1
    <3>3. p + shift.amount \in Nat
      BY <1>0
    <3>4. /\ Packed(b, p, i \div HdPacked, i % HdPacked) = <<b, p * Width(b) + i>>
          /\ Packed(Src(b), p + shift.amount, i \div HdPacked, i % HdPacked)
               = <<Src(b), (p + shift.amount) * Width(b) + i>>
      BY <1>0, <1>1, <3>1, <3>2, <3>3, PackedColumns
    <3>5. /\ p - shift.keep \in 0 .. Moving - 1
          /\ Move(Packed(b, p, i \div HdPacked, i % HdPacked),
                  Packed(Src(b), p + shift.amount, i \div HdPacked, i % HdPacked))
               \in RopeShiftInt4(i, p - shift.keep)
      BY <1>3, <1>4, <2>1, <3>2
    <3>6. MoveOf(b, p, i) \in RopeShiftInt4(i, p - shift.keep)
      BY <3>4, <3>5 DEF MoveOf
    <3>7. QED
      BY <3>1, <3>5, <3>6
  <2>2. CASE b \in {"SK", "SV"}
    <3> DEFINE x == i * HdPacked + 0
    <3>1. Width(b) = g.kvHeads /\ i \in 0 .. g.kvHeads - 1 /\ 0 \in 0 .. HdPacked - 1
      BY <1>0, <1>1, <2>2
    <3>2. x \in 0 .. g.kvHeads * HdPacked - 1
      BY <1>0, <1>1, <3>1, PlaceIsBelow
    <3>3. x \div HdPacked = i /\ x % HdPacked = 0 /\ x \in Nat
      BY <1>0, <1>1, <3>1, PlaceIsUnique
    <3> HIDE DEF x
    <3>4. /\ p - shift.keep \in 0 .. Moving - 1
          /\ Move(Scale(b, p, i), Scale(Src(b), p + shift.amount, i))
               \in RopeShiftInt4(x, p - shift.keep)
      <4>1. i < g.kvHeads
        BY <1>0, <3>1
      <4>2. QED
        BY <1>3, <1>4, <2>2, <3>3, <4>1
    <3>5. MoveOf(b, p, i) \in RopeShiftInt4(x, p - shift.keep)
      BY <3>1, <3>4 DEF MoveOf, Scale
    <3>6. QED
      BY <3>2, <3>4, <3>5
  <2>3. QED
    BY <2>1, <2>2
<1>5. QED
  BY <1>2, <1>4, KernelsAre DEF MovesOnly, MovesAll

-----------------------------------------------------------------------------
(* The steps of the entry points of the caches.                            *)

SnapshotOrder == <<"K", "V", "PK", "PV", "SK", "SV">>
Snapshots == IF path = "shift" THEN 2 ELSE 6
PackedBuffers == {"PK", "PV", "SK", "SV"}

\* What memory has before the n-th operation.
CacheStage(n) ==
  /\ path = "requantize" => (n = 1 => KvIsOld) /\ (n = 2 => Quantized)
  /\ path # "requantize" =>
       /\ \A b \in {"K", "V"} : IF n <= Snapshots + 1 THEN Unmoved(b) ELSE Shifted(b)
       /\ \A i \in 1 .. Snapshots : n > i => Snapped(SnapshotOrder[i])
  /\ path = "shift_int4" =>
       \A b \in PackedBuffers : IF n <= Snapshots + 2 THEN Unmoved(b) ELSE Shifted(b)

\* The operations of a cache entry point.
CacheOp(n, o) ==
  \/ /\ path = "requantize" /\ n = 1
     /\ o.op = "run" /\ o.kernel = "QuantizeKv" /\ o.group = RequantizeGroup
     /\ o.columns = g.kvHeads /\ o.rows = shift.oldLen
  \/ /\ path # "requantize" /\ n \in 1 .. Snapshots
     /\ o.op = "snapshot" /\ o.buffer = SnapshotOrder[n]
  \/ /\ path # "requantize" /\ n = Snapshots + 1 /\ Moving # 0
     /\ o.op = "run" /\ o.kernel = "RopeShift" /\ o.group \in {ShiftGroup, ShiftF32Group}
     /\ o.columns = DimKv /\ o.rows = Moving
  \/ /\ path = "shift_int4" /\ n = Snapshots + 2 /\ Moving # 0
     /\ o.op = "run" /\ o.kernel = "RopeShiftInt4" /\ o.group = ShiftInt4Group
     /\ o.columns = g.kvHeads * HdPacked /\ o.rows = Moving

\* Where its program ends.
CacheLength ==
  CASE path = "requantize" -> IF shift.oldLen = 0 THEN 0 ELSE 1
    [] path = "shift"      -> IF Moving = 0 THEN 2 ELSE 3
    [] path = "shift_int4" -> IF Moving = 0 THEN 0 ELSE 8

\* A dispatch, and a snapshot.
RunOp(k, group, n, m) ==
  [op |-> "run", kernel |-> k, group |-> group, columns |-> n, rows |-> m]
SnapshotOp(b) == [op |-> "snapshot", buffer |-> b]

\* The program of a cache entry point is made of its operations.
LEMMA CacheOps ==
  ASSUME path \in CachePaths
  PROVE  /\ CacheLength \in Nat
         /\ Len(Program) = CacheLength /\ DOMAIN Program = 1 .. CacheLength
         /\ \A n \in 1 .. CacheLength : CacheOp(n, Program[n])
<1>0. /\ \A k, group, n, m : Run(k, group, n, m) = <<RunOp(k, group, n, m)>>
      /\ \A b : Snapshot(b) = <<SnapshotOp(b)>>
  BY DEF Run, RunOp, Snapshot, SnapshotOp
<1>1. CASE path = "requantize"
  <2>1. Program = RequantizeProgram /\ CacheLength = IF shift.oldLen = 0 THEN 0 ELSE 1
    BY <1>1 DEF Program, CacheLength
  <2> DEFINE o == RunOp("QuantizeKv", RequantizeGroup, g.kvHeads, shift.oldLen)
  <2>2. CacheOp(1, o)
    BY <1>1 DEF CacheOp, RunOp
  <2> HIDE DEF o
  <2>3. RequantizeProgram = IF shift.oldLen = 0 THEN <<>> ELSE <<o>>
    BY <1>0 DEF RequantizeProgram, o
  <2>4. CASE shift.oldLen = 0
    BY <2>1, <2>3, <2>4
  <2>5. CASE shift.oldLen # 0
    <3>1. Program = <<o>> /\ CacheLength = 1
      BY <2>1, <2>3, <2>5
    <3>2. Len(<<o>>) = 1 /\ DOMAIN <<o>> = 1 .. 1 /\ <<o>>[1] = o
      OBVIOUS
    <3>3. \A n \in 1 .. 1 : n = 1
      OBVIOUS
    <3>4. QED
      BY <2>2, <3>1, <3>2, <3>3
  <2>6. QED
    BY <2>4, <2>5
<1>2. CASE path = "shift"
  <2>1. Program = ShiftProgram /\ CacheLength = IF Moving = 0 THEN 2 ELSE 3
    BY <1>2 DEF Program, CacheLength
  <2> DEFINE o1 == SnapshotOp("K")
             o2 == SnapshotOp("V")
             o3 == RunOp("RopeShift", ShiftGroup, DimKv, Moving)
             s == <<o1>> \o <<o2>> \o <<>>
             m == <<o1>> \o <<o2>> \o <<o3>>
  <2>2. CacheOp(1, o1) /\ CacheOp(2, o2) /\ (Moving # 0 => CacheOp(3, o3))
    BY <1>2 DEF CacheOp, RunOp, SnapshotOp, Snapshots, SnapshotOrder
  <2>3. ShiftProgram = IF Moving = 0 THEN s ELSE m
    BY <1>0 DEF ShiftProgram
  <2> HIDE DEF o1, o2, o3
  <2>4. /\ Len(s) = 2 /\ DOMAIN s = 1 .. 2 /\ s[1] = o1 /\ s[2] = o2
        /\ Len(m) = 3 /\ DOMAIN m = 1 .. 3 /\ m[1] = o1 /\ m[2] = o2 /\ m[3] = o3
    OBVIOUS
  <2> HIDE DEF s, m
  <2>5. CASE Moving = 0
    <3>1. Program = s /\ CacheLength = 2
      BY <2>1, <2>3, <2>5
    <3>2. ASSUME NEW n \in 1 .. 2 PROVE CacheOp(n, s[n])
      <4>1. n = 1 \/ n = 2
        OBVIOUS
      <4>2. QED
        BY <2>2, <2>4, <4>1
    <3>3. QED
      BY <2>4, <3>1, <3>2
  <2>6. CASE Moving # 0
    <3>1. Program = m /\ CacheLength = 3
      BY <2>1, <2>3, <2>6
    <3>2. ASSUME NEW n \in 1 .. 3 PROVE CacheOp(n, m[n])
      <4>1. \/ n = 1
            \/ n = 2
            \/ n = 3
        OBVIOUS
      <4>2. QED
        BY <2>2, <2>4, <2>6, <4>1
    <3>3. QED
      BY <2>4, <3>1, <3>2
  <2>7. QED
    BY <2>5, <2>6
<1>3. CASE path = "shift_int4"
  <2>1. Program = ShiftInt4Program /\ CacheLength = IF Moving = 0 THEN 0 ELSE 8
    BY <1>3 DEF Program, CacheLength
  <2> DEFINE o1 == SnapshotOp("K")
             o2 == SnapshotOp("V")
             o3 == SnapshotOp("PK")
             o4 == SnapshotOp("PV")
             o5 == SnapshotOp("SK")
             o6 == SnapshotOp("SV")
             o7 == RunOp("RopeShift", ShiftF32Group, DimKv, Moving)
             o8 == RunOp("RopeShiftInt4", ShiftInt4Group, g.kvHeads * HdPacked, Moving)
             s == <<o1>> \o <<o2>> \o <<o3>> \o <<o4>> \o <<o5>> \o <<o6>> \o <<o7>> \o <<o8>>
  <2>2. /\ CacheOp(1, o1) /\ CacheOp(2, o2) /\ CacheOp(3, o3) /\ CacheOp(4, o4)
        /\ CacheOp(5, o5) /\ CacheOp(6, o6)
    BY <1>3 DEF CacheOp, SnapshotOp, Snapshots, SnapshotOrder
  <2>3. Moving # 0 => CacheOp(7, o7) /\ CacheOp(8, o8)
    BY <1>3 DEF CacheOp, RunOp, Snapshots
  <2>4. ShiftInt4Program = IF Moving = 0 THEN <<>> ELSE s
    BY <1>0 DEF ShiftInt4Program
  <2> HIDE DEF o1, o2, o3, o4, o5, o6, o7, o8
  <2>5. /\ Len(s) = 8 /\ DOMAIN s = 1 .. 8
        /\ s[1] = o1 /\ s[2] = o2 /\ s[3] = o3 /\ s[4] = o4
        /\ s[5] = o5 /\ s[6] = o6 /\ s[7] = o7 /\ s[8] = o8
    OBVIOUS
  <2> HIDE DEF s
  <2>6. CASE Moving = 0
    BY <2>1, <2>4, <2>6
  <2>7. CASE Moving # 0
    <3>1. Program = s /\ CacheLength = 8
      BY <2>1, <2>4, <2>7
    <3>2. ASSUME NEW n \in 1 .. 8 PROVE CacheOp(n, s[n])
      <4>1. \/ n = 1
            \/ n = 2
            \/ n = 3
            \/ n = 4
            \/ n = 5
            \/ n = 6
            \/ n = 7
            \/ n = 8
        OBVIOUS
      <4>2. QED
        BY <2>2, <2>3, <2>5, <2>7, <4>1
    <3>3. QED
      BY <2>5, <3>1, <3>2
  <2>8. QED
    BY <2>6, <2>7
<1>4. QED
  BY <1>1, <1>2, <1>3 DEF CachePaths

\* A dispatch that shifts some buffers, in the next state's terms.
LEMMA ShiftStep ==
  ASSUME CacheMemory, ShiftOk, SameCall, NEW k, NEW B \in SUBSET LiveBuffers, NEW n \in Nat,
         MovesOnly(k, B), MovesAll(k, B, n), \A b \in B : Unmoved(b) /\ Snapped(b),
         NEW o, o.kernel = k, o.columns = n, o.rows = Moving, Execute(o)
  PROVE  /\ DOMAIN memory' = DOMAIN memory
         /\ \A b \in B : Shifted(b)'
         /\ \A b \in LiveBuffers : Snapped(b) => Snapped(b)'
         /\ \A b \in LiveBuffers \ B : (Unmoved(b) => Unmoved(b)') /\ (Shifted(b) => Shifted(b)')
<1>1. /\ DOMAIN memory' = DOMAIN memory
      /\ \A b \in LiveBuffers : \A i \in 0 .. MaxSeq * Width(b) - 1 :
           /\ memory'[<<Src(b), i>>] = memory[<<Src(b), i>>]
           /\ b \notin B => memory'[<<b, i>>] = memory[<<b, i>>]
      /\ \A b \in B : \A p \in 0 .. shift.oldLen - 1, i \in 0 .. Width(b) - 1 :
           Origin(p) < shift.oldLen =>
             memory'[<<b, p * Width(b) + i>>] = Before(<<b, Origin(p) * Width(b) + i>>)
  BY ShiftRuns
<1>2. shift' = shift
  BY DEF SameCall
<1>3. \A b \in B : Shifted(b)'
  BY <1>1, <1>2, SameShift DEF Shifted
<1>4. \A b \in LiveBuffers : Snapped(b) => Snapped(b)'
  BY <1>1, SameShift DEF Snapped
<1>5. \A b \in LiveBuffers \ B : Unmoved(b) => Unmoved(b)'
  BY <1>1, SameShift DEF Unmoved
<1>6. ASSUME NEW b \in LiveBuffers \ B, Shifted(b) PROVE Shifted(b)'
  <2>1. \A p \in 0 .. shift.oldLen - 1 : p \in Positions
    BY CacheWidths DEF ShiftOk, Positions, CacheMemory
  <2>2. \A p \in 0 .. shift.oldLen - 1, i \in 0 .. Width(b) - 1 :
          memory'[<<b, p * Width(b) + i>>] = memory[<<b, p * Width(b) + i>>]
    BY <1>1, <2>1, PlaceExistsInCache
  <2>3. QED
    BY <1>2, <1>6, <2>2, SameShift DEF Shifted
<1>7. QED
  BY <1>1, <1>3, <1>4, <1>5, <1>6

\* The order of the snapshots.
LEMMA SnapshotsAre ==
  /\ \A i \in 1 .. 6 : SnapshotOrder[i] \in LiveBuffers
  /\ SnapshotOrder[1] = "K" /\ SnapshotOrder[2] = "V" /\ SnapshotOrder[3] = "PK"
  /\ SnapshotOrder[4] = "PV" /\ SnapshotOrder[5] = "SK" /\ SnapshotOrder[6] = "SV"
  /\ Snapshots \in {2, 6} /\ (path = "shift" => Snapshots = 2) /\ (path # "shift" => Snapshots = 6)
  /\ PackedBuffers \subseteq LiveBuffers /\ {"K", "V"} \subseteq LiveBuffers
<1>1. /\ SnapshotOrder[1] = "K" /\ SnapshotOrder[2] = "V" /\ SnapshotOrder[3] = "PK"
      /\ SnapshotOrder[4] = "PV" /\ SnapshotOrder[5] = "SK" /\ SnapshotOrder[6] = "SV"
  BY DEF SnapshotOrder
<1>2. ASSUME NEW i \in 1 .. 6 PROVE SnapshotOrder[i] \in LiveBuffers
  <2>1. \/ i = 1
        \/ i = 2
        \/ i = 3
        \/ i = 4
        \/ i = 5
        \/ i = 6
    OBVIOUS
  <2>2. QED
    BY <1>1, <2>1 DEF LiveBuffers
<1>3. QED
  BY <1>1, <1>2 DEF Snapshots, PackedBuffers, LiveBuffers

\* A stage of the next state.
LEMMA SameCacheStage ==
  ASSUME SameCall, NEW n
  PROVE  CacheStage(n)' <=>
           /\ path = "requantize" => (n = 1 => KvIsOld') /\ (n = 2 => Quantized')
           /\ path # "requantize" =>
                /\ \A b \in {"K", "V"} : IF n <= Snapshots + 1 THEN Unmoved(b)' ELSE Shifted(b)'
                /\ \A i \in 1 .. Snapshots : n > i => Snapped(SnapshotOrder[i])'
           /\ path = "shift_int4" =>
                \A b \in PackedBuffers : IF n <= Snapshots + 2 THEN Unmoved(b)' ELSE Shifted(b)'
<1>1. path' = path /\ Snapshots' = Snapshots
  BY DEF SameCall, Snapshots
<1>2. QED
  BY <1>1 DEF CacheStage, PackedBuffers, SnapshotOrder

\* A snapshot of a cache's program takes its stage to the next.
LEMMA CacheSnapshot ==
  ASSUME CacheMemory, ShiftOk, SameCall, path \in CachePaths, NEW n, NEW o, CacheOp(n, o),
         CacheStage(n), o.op = "snapshot", TakeSnapshot(o.buffer)
  PROVE  DOMAIN memory' = DOMAIN memory /\ CacheStage(n + 1)'
<1>1. /\ path # "requantize" /\ n \in 1 .. Snapshots /\ o.buffer = SnapshotOrder[n]
  BY DEF CacheOp
<1>2. /\ n \in Nat /\ n <= Snapshots /\ Snapshots \in Nat /\ SnapshotOrder[n] \in LiveBuffers
      /\ n \in 1 .. 6 /\ Snapshots <= 6
  BY <1>1, SnapshotsAre
<1>3. /\ \A b \in {"K", "V"} : Unmoved(b)
      /\ \A i \in 1 .. Snapshots : n > i => Snapped(SnapshotOrder[i])
      /\ path = "shift_int4" => \A b \in PackedBuffers : Unmoved(b)
  BY <1>1, <1>2 DEF CacheStage
<1>4. Unmoved(SnapshotOrder[n])
  <2>1. CASE path = "shift"
    <3>1. n = 1 \/ n = 2
      BY <1>1, <2>1, SnapshotsAre
    <3>2. QED
      BY <1>3, <3>1, SnapshotsAre
  <2>2. CASE path = "shift_int4"
    <3>1. LiveBuffers = {"K", "V"} \cup PackedBuffers
      BY DEF LiveBuffers, PackedBuffers
    <3>2. QED
      BY <1>2, <1>3, <2>2, <3>1
  <2>3. QED
    BY <1>1, <2>1, <2>2 DEF CachePaths
<1>5. /\ DOMAIN memory' = DOMAIN memory
      /\ Snapped(SnapshotOrder[n])'
      /\ \A d \in LiveBuffers : Unmoved(d) => Unmoved(d)'
      /\ \A d \in LiveBuffers : Snapped(d) => Snapped(d)'
  <2> DEFINE b == SnapshotOrder[n]
  <2>1. b \in LiveBuffers /\ Unmoved(b) /\ TakeSnapshot(b)
    BY <1>1, <1>2, <1>4
  <2> HIDE DEF b
  <2>2. /\ DOMAIN memory' = DOMAIN memory /\ Snapped(b)'
        /\ \A d \in LiveBuffers : Unmoved(d) => Unmoved(d)'
        /\ \A d \in LiveBuffers : Snapped(d) => Snapped(d)'
    BY <2>1, SnapshotTaken
  <2>3. QED
    BY <2>2 DEF b
<1>6. /\ \A b \in {"K", "V"} : Unmoved(b)'
      /\ path = "shift_int4" => \A b \in PackedBuffers : Unmoved(b)'
  BY <1>3, <1>5, SnapshotsAre
<1>7. ASSUME NEW i \in 1 .. Snapshots, n + 1 > i PROVE Snapped(SnapshotOrder[i])'
  <2>1. i = n \/ n > i
    BY <1>2, <1>7
  <2>2. SnapshotOrder[i] \in LiveBuffers
    BY <1>2, SnapshotsAre
  <2>3. QED
    BY <1>3, <1>5, <2>1, <2>2
<1>8. n + 1 <= Snapshots + 1 /\ n + 1 <= Snapshots + 2
  BY <1>2
<1>9. QED
  BY <1>1, <1>5, <1>6, <1>7, <1>8, SameCacheStage

\* So does a dispatch.
LEMMA CacheRun ==
  ASSUME CacheMemory, ShiftOk, SameCall, path \in CachePaths, NEW n, NEW o, CacheOp(n, o),
         CacheStage(n), o.op = "run", Execute(o)
  PROVE  DOMAIN memory' = DOMAIN memory /\ CacheStage(n + 1)'
<1>0. /\ DimKv \in Nat /\ g.kvHeads * HdPacked \in Nat
  <2>1. DimKv \in Nat /\ g.kvHeads \in Nat /\ HdPacked \in Nat
    BY CacheWidths DEF CacheMemory
  <2>2. QED
    BY <2>1, Products
<1>1. CASE path = "requantize"
  <2>1. /\ n = 1 /\ o.kernel = "QuantizeKv" /\ o.columns = g.kvHeads /\ o.rows = shift.oldLen
    BY <1>1 DEF CacheOp
  <2>2. KvIsOld
    BY <1>1, <2>1 DEF CacheStage
  <2>3. DOMAIN memory' = DOMAIN memory /\ Quantized'
    BY <2>1, <2>2, QuantizeRuns DEF ShiftOk
  <2>4. QED
    BY <1>1, <2>1, <2>3, SameCacheStage
<1>2. CASE path # "requantize" /\ n = Snapshots + 1
  <2>1. /\ o.kernel = "RopeShift" /\ o.columns = DimKv /\ o.rows = Moving
    BY <1>2, SnapshotsAre DEF CacheOp
  <2>2. /\ \A b \in {"K", "V"} : Unmoved(b)
        /\ \A i \in 1 .. Snapshots : Snapped(SnapshotOrder[i])
        /\ path = "shift_int4" => \A b \in PackedBuffers : Unmoved(b)
    BY <1>2, SnapshotsAre DEF CacheStage
  <2>3. Snapped("K") /\ Snapped("V")
    BY <2>2, SnapshotsAre
  <2>4. {"K", "V"} \in SUBSET LiveBuffers
    BY SnapshotsAre
  <2>5. /\ DOMAIN memory' = DOMAIN memory
        /\ \A b \in {"K", "V"} : Shifted(b)'
        /\ \A b \in LiveBuffers : Snapped(b) => Snapped(b)'
        /\ \A b \in LiveBuffers \ {"K", "V"} : Unmoved(b) => Unmoved(b)'
    BY <1>0, <2>1, <2>2, <2>3, <2>4, RopeShiftMoves, ShiftStep
  <2>6. \A i \in 1 .. Snapshots : Snapped(SnapshotOrder[i])'
    BY <2>2, <2>5, SnapshotsAre
  <2>7. path = "shift_int4" => \A b \in PackedBuffers : Unmoved(b)'
    BY <2>2, <2>5 DEF PackedBuffers, LiveBuffers
  <2>8. ~(n + 1 <= Snapshots + 1) /\ n + 1 <= Snapshots + 2
    BY <1>2, SnapshotsAre
  <2>9. QED
    BY <1>2, <2>5, <2>6, <2>7, <2>8, SameCacheStage
<1>3. CASE path = "shift_int4" /\ n = Snapshots + 2
  <2>1. /\ o.kernel = "RopeShiftInt4" /\ o.columns = g.kvHeads * HdPacked /\ o.rows = Moving
    BY <1>3, SnapshotsAre DEF CacheOp
  <2>2. /\ \A b \in {"K", "V"} : Shifted(b)
        /\ \A i \in 1 .. Snapshots : Snapped(SnapshotOrder[i])
        /\ \A b \in PackedBuffers : Unmoved(b)
    BY <1>3, SnapshotsAre DEF CacheStage
  <2>3. \A b \in PackedBuffers : Snapped(b)
    <3>1. Snapshots = 6
      BY <1>3, SnapshotsAre
    <3>2. Snapped("PK") /\ Snapped("PV") /\ Snapped("SK") /\ Snapped("SV")
      BY <2>2, <3>1, SnapshotsAre
    <3>3. QED
      BY <3>2 DEF PackedBuffers
  <2>4. /\ MovesOnly("RopeShiftInt4", PackedBuffers)
        /\ MovesAll("RopeShiftInt4", PackedBuffers, g.kvHeads * HdPacked)
        /\ PackedBuffers \in SUBSET LiveBuffers
    BY <1>3, RopeShiftInt4Moves, SnapshotsAre DEF PackedBuffers
  <2>5. /\ DOMAIN memory' = DOMAIN memory
        /\ \A b \in PackedBuffers : Shifted(b)'
        /\ \A b \in LiveBuffers : Snapped(b) => Snapped(b)'
        /\ \A b \in LiveBuffers \ PackedBuffers : Shifted(b) => Shifted(b)'
    BY <1>0, <2>1, <2>2, <2>3, <2>4, ShiftStep
  <2>6. \A i \in 1 .. Snapshots : Snapped(SnapshotOrder[i])'
    BY <2>2, <2>5, SnapshotsAre
  <2>7. \A b \in {"K", "V"} : Shifted(b)'
    BY <2>2, <2>5 DEF PackedBuffers, LiveBuffers
  <2>8. ~(n + 1 <= Snapshots + 1) /\ ~(n + 1 <= Snapshots + 2)
    BY <1>3, SnapshotsAre
  <2>9. QED
    BY <1>3, <2>5, <2>6, <2>7, <2>8, SameCacheStage
<1>4. QED
  BY <1>1, <1>2, <1>3 DEF CacheOp

-----------------------------------------------------------------------------
(* The invariant.                                                          *)

\* What holds of a call in every state: its memory is at the stage of the
\* operation that is next.
LayerIInv ==
  /\ g \in Geometries /\ path \in Paths
  /\ path \in CallPaths => g.batch = 1
  /\ path \in CachePaths => ShiftOk
  /\ InMemory(memory)
  /\ pc \in 1 .. Len(Program) + 1
  /\ phase = "Done" /\ path # "single" => pc = Len(Program) + 1
  /\ NothingIsRefused
  /\ path \in LayerPaths => Stage(OpStage(pc), memory)
  /\ path \in CachePaths => CacheStage(pc)
  /\ ReadbacksAreRight

\* The kinds of entry points.
LEMMA PathsAre ==
  /\ path \in Paths =>
       path \in LayerPaths \/ path \in CachePaths \/ path \in RefusedPaths \/ path = "single"
  /\ path \in LayerPaths => ~CacheOnly /\ path \notin CachePaths
  /\ path \in CachePaths => CacheOnly /\ path \notin LayerPaths
  /\ path \notin LayerPaths \cup CachePaths =>
       Program = <<>> /\ Len(Program) = 0 /\ DOMAIN Program = {}
<1>1. path \in Paths =>
        path \in LayerPaths \/ path \in CachePaths \/ path \in RefusedPaths \/ path = "single"
  BY LayerAssumption DEF LayerPaths
<1>2. /\ path \in LayerPaths => ~CacheOnly /\ path \notin CachePaths
      /\ path \in CachePaths => CacheOnly /\ path \notin LayerPaths
  BY DEF LayerPaths, CallPaths, LoopPath, CachePaths, CacheOnly
<1>3. path \notin LayerPaths \cup CachePaths => Program = <<>>
  BY DEF LayerPaths, CallPaths, LoopPath, CachePaths, Program
<1>4. QED
  BY <1>1, <1>2, <1>3

\* Where the residual stream and the caches are at the start.
LEMMA BeforeIs ==
  ASSUME g \in Geometries
  PROVE  /\ \A t \in Nat, i \in Rows : Before(Act(t, i)) = Val("x", t, i)
         /\ \A p \in Nat, c \in 0 .. DimKv - 1 :
              /\ CacheOnly => /\ Before(Cache("K", p, c)) = Val("old_k", p, c)
                              /\ Before(Cache("V", p, c)) = Val("old_v", p, c)
              /\ ~CacheOnly /\ p < g.start =>
                   /\ Before(Cache("K", p, c)) = Val(KName, p, c)
                   /\ Before(Cache("V", p, c)) = Val("v", p, c)
<1>0. g.dim \in Nat \ {0} /\ DimKv \in Nat \ {0}
  BY Widths
<1>1. ASSUME NEW t \in Nat, NEW i \in Rows PROVE Before(Act(t, i)) = Val("x", t, i)
  <2>1. (t * g.dim + i) \div g.dim = t /\ (t * g.dim + i) % g.dim = i
    <3> DEFINE n == g.dim
    <3>1. n \in Nat \ {0} /\ i \in 0 .. n - 1
      BY <1>0 DEF Rows
    <3> HIDE DEF n
    <3>2. (t * n + i) \div n = t /\ (t * n + i) % n = i
      BY <3>1, PlaceIsUnique
    <3>3. QED
      BY <3>2 DEF n
  <2>2. Act(t, i)[1] = "act" /\ Act(t, i)[2] = t * g.dim + i
    BY DEF Act
  <2>3. \A c : c[1] = "act" => Before(c) = Val("x", c[2] \div g.dim, c[2] % g.dim)
    BY DEF Before
  <2>4. QED
    BY <2>1, <2>2, <2>3
<1>2. ASSUME NEW p \in Nat, NEW c \in 0 .. DimKv - 1, NEW b \in {"K", "V"}
      PROVE  /\ Cache(b, p, c)[1] = b /\ Cache(b, p, c)[2] \div DimKv = p
             /\ Cache(b, p, c)[2] % DimKv = c
  <2>1. (p * DimKv + c) \div DimKv = p /\ (p * DimKv + c) % DimKv = c
    BY <1>0, PlaceIsUnique
  <2>2. QED
    BY <2>1 DEF Cache
<1>3. ASSUME NEW p \in Nat, NEW c \in 0 .. DimKv - 1, CacheOnly
      PROVE  /\ Before(Cache("K", p, c)) = Val("old_k", p, c)
             /\ Before(Cache("V", p, c)) = Val("old_v", p, c)
  BY <1>2, <1>3 DEF Before
<1>4. ASSUME NEW p \in Nat, NEW c \in 0 .. DimKv - 1, ~CacheOnly, p < g.start
      PROVE  /\ Before(Cache("K", p, c)) = Val(KName, p, c)
             /\ Before(Cache("V", p, c)) = Val("v", p, c)
  BY <1>2, <1>4 DEF Before
<1>5. QED
  BY <1>1, <1>3, <1>4

\* The invariant holds at the start.
LEMMA LayerInit == Init => LayerIInv
<1> SUFFICES ASSUME Init PROVE LayerIInv
  OBVIOUS
<1>1. /\ g \in Geometries /\ path \in Paths /\ phase = "Bind" /\ pc = 1 /\ readbacks = <<>>
      /\ path \in CallPaths => g.batch = 1
  BY DEF Init
<1>2. /\ InMemory(memory)
      /\ \A c \in DOMAIN memory : memory[c] = Before(c)
  BY DEF Init, InMemory
<1>3. path \in CachePaths => ShiftOk
  <2> SUFFICES ASSUME path \in CachePaths PROVE ShiftOk
    OBVIOUS
  <2>1. shift \in [keep : KeepSinks, amount : 1 .. MaxSeq, oldLen : 0 .. MaxSeq]
    BY DEF Init
  <2>2. path = "shift_int4" => g.headDim % PackWidth = 0
    BY DEF Init
  <2>3. KeepSinks \subseteq Nat /\ MaxSeq \in Nat
    BY LayerAssumption
  <2>4. shift.keep \in KeepSinks /\ shift.amount \in 1 .. MaxSeq /\ shift.oldLen \in 0 .. MaxSeq
    BY <2>1
  <2>5. shift.keep \in Nat /\ shift.amount \in Nat
    <3>1. shift.keep \in Nat
      BY <2>3, <2>4
    <3>2. \A a \in 1 .. MaxSeq : a \in Nat
      BY <2>3
    <3>3. QED
      BY <2>4, <3>1, <3>2
  <2>6. g.headDim % PackWidth = 0 \/ path # "shift_int4"
    BY <2>2
  <2>7. QED
    BY ONLY <2>4, <2>5, <2>6 DEF ShiftOk
<1>4. path \in LayerPaths => Stage(1, memory)
  <2> SUFFICES ASSUME path \in LayerPaths PROVE Stage(1, memory)
    OBVIOUS
  <2>1. ~CacheOnly
    BY PathsAre
  <2>2. ActIs(memory, "x")
    <3>1. \A t \in Tokens : t \in Nat
      BY Widths DEF Tokens
    <3>2. \A t \in Tokens, i \in Rows : Act(t, i) \in DOMAIN memory
      BY <1>1, <1>2, <2>1, CellsExist
    <3>3. QED
      BY <1>1, <1>2, <3>1, <3>2, BeforeIs DEF ActIs
  <2>3. PastIs(memory)
    <3>1. ASSUME NEW p \in 0 .. g.start - 1 PROVE p \in Nat /\ p < g.start /\ p \in Positions
      <4>1. /\ g.start \in Nat /\ g.batch \in Nat \ {0} /\ MaxSeq \in Nat
            /\ g.start + g.batch <= MaxSeq
        BY <1>1, Widths
      <4>2. QED
        BY <4>1 DEF Positions
    <3>2. \A b \in {"K", "V"}, p \in Positions, c \in 0 .. DimKv - 1 : Cache(b, p, c) \in DOMAIN memory
      BY <1>1, <1>2, <2>1, CellsExist
    <3>3. QED
      BY <1>1, <1>2, <2>1, <3>1, <3>2, BeforeIs DEF PastIs
  <2>4. QED
    BY <2>2, <2>3 DEF Stage
<1>5. path \in LayerPaths => OpStage(1) = 1
  BY <1>1, LayerOps
<1>6. path \in CachePaths => CacheStage(1)
  <2> SUFFICES ASSUME path \in CachePaths PROVE CacheStage(1)
    OBVIOUS
  <2>1. CacheMemory
    BY <1>1, <1>2, PathsAre DEF CacheMemory
  <2>2. \A b \in LiveBuffers : Unmoved(b)
    BY <1>2, <2>1, CacheCellsExist DEF Unmoved
  <2>3. KvIsOld
    <3>1. \A p \in Positions : p \in Nat
      BY Widths DEF Positions
    <3>2. ASSUME NEW b \in {"K", "V"}, NEW p \in Positions, NEW c \in 0 .. DimKv - 1
          PROVE  Cache(b, p, c) \in DOMAIN memory
      <4>1. b \in LiveBuffers /\ Width(b) = DimKv
        BY DEF LiveBuffers, Width
      <4>2. QED
        BY <2>1, <4>1, PlaceExistsInCache DEF Cache
    <3>3. QED
      BY <1>1, <1>2, <2>1, <3>1, <3>2, BeforeIs DEF KvIsOld, CacheMemory
  <2>4. /\ Snapshots \in Nat /\ 1 <= Snapshots + 1 /\ 1 <= Snapshots + 2
        /\ \A i \in 1 .. Snapshots : ~(1 > i)
        /\ {"K", "V"} \subseteq LiveBuffers /\ PackedBuffers \subseteq LiveBuffers
    BY SnapshotsAre
  <2>5. QED
    BY <2>2, <2>3, <2>4 DEF CacheStage
<1>7. pc \in 1 .. Len(Program) + 1
  <2>1. Len(Program) \in Nat
    BY <1>1, PathsAre, LayerOps, CacheOps
  <2>2. QED
    BY <1>1, <2>1
<1>8. NothingIsRefused /\ ReadbacksAreRight
  BY <1>1 DEF NothingIsRefused, ReadbacksAreRight, Shows
<1>9. QED
  BY <1>1, <1>2, <1>3, <1>4, <1>5, <1>6, <1>7, <1>8 DEF LayerIInv

\* The buffers and the stages do not change with a step.
LEMMA SameLayout ==
  ASSUME SameCall
  PROVE  /\ InMemory(memory)' <=> DOMAIN memory' = UNION {BufferCells(b) : b \in Buffers}
         /\ \A i : OpStage(i)' = OpStage(i)
         /\ (path' \in LayerPaths <=> path \in LayerPaths)
         /\ (path' \in CachePaths <=> path \in CachePaths)
         /\ (ShiftOk' <=> ShiftOk)
<1>1. \A b : /\ KvCells(b)' = KvCells(b) /\ PackedCells(b)' = PackedCells(b)
             /\ ScaleCells(b)' = ScaleCells(b)
  BY SameWidths DEF SameCall, KvCells, PackedCells, ScaleCells
<1>2. \A b : Src(b)' = Src(b)
  BY DEF Src, ScratchNames
<1>3. \A b : BufferCells(b)' = BufferCells(b)
  BY <1>1, <1>2, SameWidths DEF SameCall, BufferCells
<1>4. Buffers' = Buffers
  BY <1>2, SameWidths DEF Buffers
<1>5. InMemory(memory)' <=> DOMAIN memory' = UNION {BufferCells(b) : b \in Buffers}
  BY <1>3, <1>4 DEF InMemory
<1>6. \A i : OpStage(i)' = OpStage(i)
  BY SameWidths DEF SameCall, OpStage, LoopStage, StepwiseStage, WithCacheStage, DebugStage
<1>7. (path' \in LayerPaths <=> path \in LayerPaths) /\ (path' \in CachePaths <=> path \in CachePaths)
      /\ (ShiftOk' <=> ShiftOk)
  BY DEF SameCall, ShiftOk
<1>8. QED
  BY <1>5, <1>6, <1>7

\* A step that leaves memory alone leaves the stages alone.
LEMMA SameMemory ==
  ASSUME SameCall, memory' = memory, pc' = pc
  PROVE  /\ InMemory(memory) => InMemory(memory)'
         /\ OpStage(pc) \in 1 .. 11 /\ Stage(OpStage(pc), memory) => Stage(OpStage(pc), memory)'
         /\ CacheStage(pc) => CacheStage(pc)'
<1>1. InMemory(memory) => InMemory(memory)'
  BY SameLayout DEF InMemory
<1>2. ASSUME OpStage(pc) \in 1 .. 11, Stage(OpStage(pc), memory) PROVE Stage(OpStage(pc), memory)'
  <2>1. OpStage(pc)' = OpStage(pc)
    BY SameLayout
  <2>2. \A n \in 1 .. 11 : Stage(n, memory)' <=> Stage(n, memory')
    BY SameStage
  <2>3. QED
    BY <1>2, <2>1, <2>2
<1>3. ASSUME CacheStage(pc) PROVE CacheStage(pc)'
  <2>1. /\ g' = g /\ path' = path /\ shift' = shift
    BY DEF SameCall
  <2>2. /\ \A b : Unmoved(b)' <=> Unmoved(b)
        /\ \A b : Shifted(b)' <=> Shifted(b)
        /\ \A b : Snapped(b)' <=> Snapped(b)
    BY <2>1, SameShift DEF Unmoved, Shifted, Snapped
  <2>3. (KvIsOld' <=> KvIsOld) /\ (Quantized' <=> Quantized)
    BY <2>1, SameCells, SameWidths DEF KvIsOld, Quantized, Val
  <2>4. Snapshots' = Snapshots
    BY <2>1 DEF Snapshots
  <2>5. QED
    BY <1>3, <2>1, <2>2, <2>3, <2>4 DEF CacheStage, PackedBuffers, SnapshotOrder
<1>4. QED
  BY <1>1, <1>2, <1>3

\* The stage of every operation of a layer is one.
LEMMA StageExists ==
  ASSUME LayerIInv, path \in LayerPaths
  PROVE  OpStage(pc) \in 1 .. 11
<1>1. /\ g \in Geometries /\ (path \in CallPaths => g.batch = 1) /\ pc \in 1 .. Len(Program) + 1
  BY DEF LayerIInv
<1>2. /\ Len(Program) \in Nat /\ OpStage(Len(Program) + 1) = 11
      /\ \A i \in 1 .. Len(Program) : StepsOn(i, Program[i])
  BY <1>1, LayerOps
<1>3. pc \in 1 .. Len(Program) \/ pc = Len(Program) + 1
  BY <1>1, <1>2
<1>4. QED
  BY <1>2, <1>3 DEF StepsOn

\* A step that leaves the readbacks alone keeps them right.
LEMMA SameReadbacks ==
  ASSUME SameCall, readbacks' = readbacks, ReadbacksAreRight
  PROVE  ReadbacksAreRight'
<1>1. \A name, what, row : Shows(name, what, row)' <=> Shows(name, what, row)
  BY DEF Shows, Val
<1>2. /\ LayerOutput' = LayerOutput /\ AttnOutput' = AttnOutput /\ DimQ' = DimQ
      /\ g' = g
  BY SameWidths DEF SameCall
<1>3. QED
  BY <1>1, <1>2 DEF ReadbacksAreRight

\* A step that changes the phase only.
LEMMA PhaseSteps ==
  ASSUME LayerIInv, SameCall, memory' = memory, pc' = pc, readbacks' = readbacks,
         phase' = "Done" /\ path # "single" => pc = Len(Program) + 1, NothingIsRefused'
  PROVE  LayerIInv'
<1>1. g' = g /\ path' = path /\ Program' = Program
  BY SameProgram DEF SameCall
<1>2. /\ path' \in LayerPaths => Stage(OpStage(pc), memory)'
      /\ path' \in CachePaths => CacheStage(pc)'
      /\ InMemory(memory)'
      /\ path' \in CachePaths => ShiftOk'
  BY <1>1, StageExists, SameMemory, SameLayout DEF LayerIInv
<1>3. ReadbacksAreRight'
  BY SameReadbacks DEF LayerIInv
<1>4. QED
  BY <1>1, <1>2, <1>3 DEF LayerIInv

\* The bind groups of every entry point that is used are accepted.
LEMMA GroupsAreAccepted ==
  ASSUME LayerIInv, path \notin RefusedPaths
  PROVE  \A group \in Groups : AcceptsGroup(group)
<1>0. g \in Geometries /\ g.chunks \in Nat /\ (path \in CallPaths => g.batch = 1)
  BY Widths DEF LayerIInv
<1>1. CASE path = LoopPath
  <2>1. Groups = {LayerGroup(g.chunks), QkvChunkGroup(g.chunks)}
    BY <1>1 DEF Groups, LoopPath
  <2>2. QED
    BY <1>0, <2>1, LayerGroupIsAccepted DEF QkvChunkGroup
<1>2. CASE path = "single"
  <2>1. Groups = {s[2] : s \in SingleKernels(g.chunks)}
    BY <1>2 DEF Groups
  <2>2. QED
    BY <1>0, <2>1, SingleGroupsAreAccepted
<1>3. CASE path \in CallPaths \cup CachePaths
  <2>1. Groups = {o.group : o \in {q \in Range(Program) : q.op = "run"}}
    BY <1>3 DEF Groups, CallPaths, CachePaths
  <2>2. ASSUME NEW i \in DOMAIN Program, Program[i].op = "run" PROVE AcceptsGroup(Program[i].group)
    <3>1. CASE path \in CallPaths
      <4>1. StepsOn(i, Program[i])
        BY <1>0, <3>1, LayerOps DEF LayerPaths
      <4>2. Program[i].group = LayerGroup(g.chunks)
        BY <2>2, <4>1 DEF StepsOn, Bound
      <4>3. QED
        BY <1>0, <4>2, LayerGroupIsAccepted
    <3>2. CASE path \in CachePaths
      <4>1. CacheOp(i, Program[i])
        BY <3>2, CacheOps
      <4>2. Program[i].group \in {RequantizeGroup, ShiftGroup, ShiftF32Group, ShiftInt4Group}
        BY <2>2, <4>1 DEF CacheOp
      <4>3. QED
        BY <4>2, CacheGroupsAreAccepted
    <3>3. QED
      BY <1>3, <3>1, <3>2
  <2>3. QED
    BY <2>1, <2>2 DEF Range
<1>4. QED
  BY <1>1, <1>2, <1>3, PathsAre DEF LayerIInv, LayerPaths

-----------------------------------------------------------------------------
(* The steps of a call.                                                    *)

\* An operation of a layer's entry point.
LEMMA LayerOpSteps ==
  ASSUME LayerIInv, SameCall, path \in LayerPaths, phase = "Run", pc \in 1 .. Len(Program),
         NEW o, o = Program[pc], Dispatch(o) \/ CopyOut(o) \/ CopyBuffer(o)
  PROVE  /\ phase' = phase /\ pc' = pc + 1 /\ DOMAIN memory' = DOMAIN memory
         /\ Stage(OpStage(pc + 1), memory') /\ ReadbacksAreRight'
<1>1. /\ g \in Geometries /\ InMemory(memory) /\ (path \in CallPaths => g.batch = 1)
      /\ ReadbacksAreRight
  BY DEF LayerIInv
<1>2. LayerMemory
  BY <1>1, PathsAre DEF LayerMemory
<1>3. Stage(OpStage(pc), memory)
  BY DEF LayerIInv
<1>4. StepsOn(pc, o)
  BY <1>1, LayerOps
<1>5. o.op \in {"run", "copy"}
  <2>1. CASE Copies(OpStage(pc), o)
    BY <2>1 DEF Copies, CopyOp
  <2>2. CASE Dispatches(OpStage(pc), o) /\ OpStage(pc) \in 1 .. 10
    <3>1. o.op = "run"
      BY <2>2, DispatchRuns
    <3>2. QED
      BY <3>1
  <2>3. QED
    BY <1>4, <2>1, <2>2 DEF StepsOn
<1>6. CASE o.op = "run"
  <2>1. Dispatch(o)
    BY <1>6 DEF CopyOut, CopyBuffer
  <2>2. AcceptsDispatch(o.kernel, o.group)
    <3>1. o.kernel \in LayerPipelines /\ o.group = LayerGroup(g.chunks)
      BY <1>4, <1>6 DEF StepsOn, Bound
    <3>2. g.chunks \in Nat
      BY <1>1, Widths
    <3>3. QED
      BY <3>1, <3>2, LayerGroupIsAccepted
  <2>3. Execute(o) /\ pc' = pc + 1 /\ phase' = phase /\ readbacks' = readbacks
    BY <2>1, <2>2 DEF Dispatch
  <2>4. DOMAIN memory' = DOMAIN memory /\ Stage(OpStage(pc + 1), memory')
    BY <1>2, <1>3, <1>4, <1>6, <2>3, LayerStep
  <2>5. ReadbacksAreRight'
    BY <1>1, <2>3, SameReadbacks
  <2>6. QED
    BY <2>3, <2>4, <2>5
<1>7. CASE o.op = "copy"
  <2>1. CopyOut(o)
    BY <1>7 DEF Dispatch, CopyBuffer
  <2>2. memory' = memory /\ pc' = pc + 1 /\ phase' = phase /\ readbacks' = Copied(o)
    BY <2>1 DEF CopyOut, Copied
  <2>3. Copies(OpStage(pc), o) /\ Stage(OpStage(pc + 1), memory)
    BY <1>3, <1>4, <1>7, LayerCopy
  <2>4. ReadbacksAreRight'
    BY <1>1, <1>2, <1>3, <2>2, <2>3, ReadbacksStayRight
  <2>5. QED
    BY <2>2, <2>3, <2>4
<1>8. QED
  BY <1>5, <1>6, <1>7

\* An operation of a cache's entry point.
LEMMA CacheOpSteps ==
  ASSUME LayerIInv, SameCall, path \in CachePaths, phase = "Run", pc \in 1 .. Len(Program),
         NEW o, o = Program[pc], Dispatch(o) \/ CopyOut(o) \/ CopyBuffer(o)
  PROVE  /\ phase' = phase /\ pc' = pc + 1 /\ DOMAIN memory' = DOMAIN memory
         /\ CacheStage(pc)' /\ readbacks' = readbacks
<1>1. CacheMemory /\ ShiftOk /\ CacheStage(pc)
  BY PathsAre DEF LayerIInv, CacheMemory
<1>2. CacheOp(pc, o)
  <2>1. pc \in 1 .. CacheLength /\ (\A n \in 1 .. CacheLength : CacheOp(n, Program[n]))
    BY CacheOps
  <2>2. CacheOp(pc, Program[pc])
    BY <2>1
  <2>3. QED
    BY <2>2
<1> DEFINE n == pc
<1> HIDE DEF n
<1>3. pc' = pc + 1 /\ (\A m : m = n => CacheStage(m + 1)') => CacheStage(pc)'
  <2>1. \A m : m = pc' => (CacheStage(m)' <=> CacheStage(pc)')
    BY DEF CacheStage
  <2>2. QED
    BY <2>1 DEF n
<1>4. o.op \in {"run", "snapshot"}
  BY <1>2 DEF CacheOp
<1>5. CASE o.op = "run"
  <2>1. Dispatch(o)
    BY <1>5 DEF CopyOut, CopyBuffer
  <2>2. AcceptsDispatch(o.kernel, o.group)
    <3>1. \/ o.kernel = "QuantizeKv" /\ o.group = RequantizeGroup
          \/ o.kernel = "RopeShift" /\ o.group \in {ShiftGroup, ShiftF32Group}
          \/ o.kernel = "RopeShiftInt4" /\ o.group = ShiftInt4Group
      BY <1>2, <1>5 DEF CacheOp
    <3>2. QED
      BY <3>1, CacheGroupsAreAccepted
  <2>3. Execute(o) /\ pc' = pc + 1 /\ phase' = phase /\ readbacks' = readbacks
    BY <2>1, <2>2 DEF Dispatch
  <2>4. DOMAIN memory' = DOMAIN memory /\ CacheStage(pc)'
    <3>1. ASSUME NEW m, m = n PROVE DOMAIN memory' = DOMAIN memory /\ CacheStage(m + 1)'
      <4>1. CacheOp(m, o) /\ CacheStage(m)
        BY <1>1, <1>2, <3>1 DEF n
      <4>2. QED
        BY <1>1, <1>5, <2>3, <4>1, CacheRun
    <3>2. QED
      BY <1>3, <2>3, <3>1
  <2>5. QED
    BY <2>3, <2>4
<1>6. CASE o.op = "snapshot"
  <2>1. TakeSnapshot(o.buffer) /\ pc' = pc + 1 /\ phase' = phase /\ readbacks' = readbacks
    BY <1>6 DEF Dispatch, CopyOut, CopyBuffer
  <2>2. DOMAIN memory' = DOMAIN memory /\ CacheStage(pc)'
    <3>1. ASSUME NEW m, m = n PROVE DOMAIN memory' = DOMAIN memory /\ CacheStage(m + 1)'
      <4>1. CacheOp(m, o) /\ CacheStage(m)
        BY <1>1, <1>2, <3>1 DEF n
      <4>2. QED
        BY <1>1, <1>6, <2>1, <4>1, CacheSnapshot
    <3>2. QED
      BY <1>3, <2>1, <3>1
  <2>3. QED
    BY <2>1, <2>2
<1>7. QED
  BY <1>4, <1>5, <1>6

\* The next operation keeps the invariant.
LEMMA StepKeeps ==
  ASSUME LayerIInv, Step
  PROVE  LayerIInv'
<1> DEFINE o == Program[pc]
<1>1. /\ SameCall /\ phase = "Run" /\ pc <= Len(Program)
      /\ Dispatch(o) \/ CopyOut(o) \/ CopyBuffer(o)
  BY DEF Step, SameCall
<1>2. /\ g \in Geometries /\ path \in Paths /\ (path \in CallPaths => g.batch = 1)
      /\ pc \in 1 .. Len(Program) + 1 /\ InMemory(memory) /\ ReadbacksAreRight
      /\ path \in CachePaths => ShiftOk
  BY DEF LayerIInv
<1>3. Len(Program) \in Nat /\ (path \notin LayerPaths \cup CachePaths => Len(Program) = 0)
  BY <1>2, PathsAre, LayerOps, CacheOps
<1>4. pc \in 1 .. Len(Program) /\ pc + 1 \in 1 .. Len(Program) + 1
  BY <1>1, <1>2, <1>3
<1> HIDE DEF o
<1>5. o = Program[pc]
  BY DEF o
<1>6. path \in LayerPaths \/ path \in CachePaths
  BY <1>3, <1>4
<1>7. /\ phase' = phase /\ pc' = pc + 1 /\ DOMAIN memory' = DOMAIN memory
      /\ ReadbacksAreRight'
      /\ path \in LayerPaths => Stage(OpStage(pc + 1), memory')
      /\ path \in CachePaths => CacheStage(pc)'
  <2>1. CASE path \in LayerPaths
    BY <1>1, <1>4, <1>5, <2>1, LayerOpSteps, PathsAre
  <2>2. CASE path \in CachePaths
    BY <1>1, <1>2, <1>4, <1>5, <2>2, CacheOpSteps, SameReadbacks, PathsAre
  <2>3. QED
    BY <1>6, <2>1, <2>2
<1>8. g' = g /\ path' = path /\ Program' = Program
  BY <1>1, SameProgram DEF SameCall
<1>9. InMemory(memory)'
  <2>1. InMemory(memory)' <=> DOMAIN memory' = UNION {BufferCells(b) : b \in Buffers}
    BY <1>1, SameLayout
  <2>2. QED
    BY <1>2, <1>7, <2>1 DEF InMemory
<1>10. path' \in LayerPaths => Stage(OpStage(pc), memory)'
  <2>1. SUFFICES ASSUME path \in LayerPaths PROVE Stage(OpStage(pc), memory)'
    BY <1>8
  <2>2. OpStage(pc + 1) \in 1 .. 11
    BY <1>2, <1>4, <2>1, LayerOps DEF StepsOn
  <2>3. OpStage(pc)' = OpStage(pc + 1)
    <3>1. OpStage(pc)' = OpStage(pc')
      BY <1>1, SameWidths DEF SameCall, OpStage, LoopStage, StepwiseStage, WithCacheStage, DebugStage
    <3>2. QED
      BY <1>7, <3>1
  <2>4. \A n \in 1 .. 11 : Stage(n, memory)' <=> Stage(n, memory')
    BY <1>1, SameStage
  <2>5. QED
    BY <1>7, <2>1, <2>2, <2>3, <2>4
<1>11. path' \in CachePaths => ShiftOk' /\ CacheStage(pc)'
  <2>1. ShiftOk' <=> ShiftOk
    BY <1>1, SameLayout
  <2>2. QED
    BY <1>2, <1>7, <1>8, <2>1
<1>12. QED
  BY <1>1, <1>2, <1>4, <1>7, <1>8, <1>9, <1>10, <1>11 DEF LayerIInv, NothingIsRefused

\* Every step keeps the invariant.
LEMMA LayerNext == LayerIInv /\ [Next]_vars => LayerIInv'
<1> SUFFICES ASSUME LayerIInv, [Next]_vars PROVE LayerIInv'
  OBVIOUS
<1>1. CASE Bind
  <2>1. SameCall /\ memory' = memory /\ pc' = pc /\ readbacks' = readbacks /\ path' = path
    BY <1>1 DEF Bind, Refuse, SameCall
  <2>2. phase' \in {"Run", "Refused"} /\ (phase' = "Refused" => path \in RefusedPaths)
    BY <1>1, PipelinesExist, GroupsAreAccepted DEF Bind, Refuse
  <2>3. NothingIsRefused'
    BY <2>1, <2>2 DEF NothingIsRefused
  <2>4. QED
    BY <2>1, <2>2, <2>3, PhaseSteps
<1>2. CASE Step
  BY <1>2, StepKeeps
<1>3. CASE SingleKernel
  <2>1. /\ SameCall /\ memory' = memory /\ pc' = pc /\ readbacks' = readbacks
        /\ path = "single"
    BY <1>3 DEF SingleKernel, SameCall
  <2>2. g.chunks \in Nat
    BY Widths DEF LayerIInv
  <2>3. phase' = "Done"
    BY <1>3, <2>2, SingleGroupsAreAccepted DEF SingleKernel
  <2>4. NothingIsRefused'
    BY <2>3 DEF NothingIsRefused
  <2>5. QED
    BY <2>1, <2>3, <2>4, PhaseSteps
<1>4. CASE Finish
  <2>1. /\ SameCall /\ memory' = memory /\ pc' = pc /\ readbacks' = readbacks
        /\ path # "single" /\ pc > Len(Program) /\ phase' = "Done"
    BY <1>4 DEF Finish, SameCall
  <2>2. pc = Len(Program) + 1
    <3>1. Len(Program) \in Nat /\ pc \in 1 .. Len(Program) + 1
      BY PathsAre, LayerOps, CacheOps DEF LayerIInv
    <3>2. QED
      BY <2>1, <3>1
  <2>3. NothingIsRefused'
    BY <2>1 DEF NothingIsRefused
  <2>4. QED
    BY <2>1, <2>2, <2>3, PhaseSteps
<1>5. CASE UNCHANGED vars
  <2>1. /\ SameCall /\ memory' = memory /\ pc' = pc /\ readbacks' = readbacks /\ phase' = phase
        /\ path' = path
    BY <1>5 DEF vars, SameCall
  <2>2. NothingIsRefused' /\ (phase' = "Done" /\ path # "single" => pc = Len(Program) + 1)
    BY <2>1 DEF LayerIInv, NothingIsRefused
  <2>3. QED
    BY <2>1, <2>2, PhaseSteps
<1>6. QED
  BY <1>1, <1>2, <1>3, <1>4, <1>5 DEF Next

-----------------------------------------------------------------------------
(* What a finished call leaves.                                            *)

\* A layer is at its last stage.
LEMMA DoneIsLast ==
  ASSUME LayerIInv, LayerDone
  PROVE  ActIs(memory, LayerOutput) /\ CachesAre(memory)
<1>1. /\ g \in Geometries /\ path \in LayerPaths /\ (path \in CallPaths => g.batch = 1)
      /\ pc = Len(Program) + 1 /\ Stage(OpStage(pc), memory)
  BY DEF LayerIInv, LayerDone, LayerPaths, CallPaths, LoopPath
<1>2. OpStage(Len(Program) + 1) = 11
  BY <1>1, LayerOps
<1>3. Stage(11, memory)
  BY <1>1, <1>2
<1>4. QED
  BY <1>3 DEF Stage

\* So is the quantization of a cache.
LEMMA DoneIsQuantized ==
  ASSUME LayerIInv, phase = "Done", path = "requantize"
  PROVE  RequantizeIsComplete
<1>1. /\ path \in CachePaths /\ pc = Len(Program) + 1 /\ CacheStage(pc) /\ ShiftOk
  BY DEF LayerIInv, CachePaths
<1>2. /\ Len(Program) = CacheLength
      /\ CacheLength = IF shift.oldLen = 0 THEN 0 ELSE 1
  BY <1>1, CacheOps DEF CacheLength
<1>3. CASE shift.oldLen = 0
  BY <1>3 DEF RequantizeIsComplete
<1>4. CASE shift.oldLen # 0
  <2>1. pc = 2
    BY <1>1, <1>2, <1>4
  <2>2. Quantized
    BY <1>1, <2>1 DEF CacheStage
  <2>3. QED
    BY <2>2 DEF Quantized, RequantizeIsComplete
<1>5. QED
  BY <1>3, <1>4

\* Every buffer of a shift has moved.
LEMMA DoneIsShifted ==
  ASSUME LayerIInv, phase = "Done", path \in {"shift", "shift_int4"}
  PROVE  /\ Shifted("K") /\ Shifted("V")
         /\ path = "shift_int4" => \A b \in PackedBuffers : Shifted(b)
<1>1. /\ path \in CachePaths /\ path # "requantize" /\ path # "single"
      /\ pc = Len(Program) + 1 /\ CacheStage(pc) /\ ShiftOk
      /\ g \in Geometries /\ InMemory(memory)
  BY DEF LayerIInv, CachePaths
<1>2. CacheMemory
  BY <1>1, PathsAre DEF CacheMemory
<1>3. /\ Len(Program) = CacheLength
      /\ path = "shift" => CacheLength = IF Moving = 0 THEN 2 ELSE 3
      /\ path = "shift_int4" => CacheLength = IF Moving = 0 THEN 0 ELSE 8
      /\ path = "shift" => Snapshots = 2
      /\ path = "shift_int4" => Snapshots = 6
  BY <1>1, CacheOps DEF CacheLength, Snapshots
<1>4. CASE Moving = 0
  <2>1. pc <= Snapshots + 1
    BY <1>1, <1>3, <1>4
  <2>2. pc <= Snapshots + 2
    BY <1>1, <1>3, <1>4
  <2>3. /\ \A b \in {"K", "V"} : Unmoved(b)
        /\ path = "shift_int4" => \A b \in PackedBuffers : Unmoved(b)
    BY <1>1, <2>1, <2>2 DEF CacheStage
  <2>4. {"K", "V"} \subseteq LiveBuffers /\ PackedBuffers \subseteq LiveBuffers
    BY SnapshotsAre
  <2>5. \A b \in LiveBuffers : Unmoved(b) => Shifted(b)
    BY <1>1, <1>2, <1>4, NothingMoves
  <2>6. QED
    BY <2>3, <2>4, <2>5
<1>5. CASE Moving # 0
  <2>1. ~(pc <= Snapshots + 1) /\ (path = "shift_int4" => ~(pc <= Snapshots + 2))
    BY <1>1, <1>3, <1>5
  <2>2. QED
    BY <1>1, <2>1 DEF CacheStage
<1>6. QED
  BY <1>4, <1>5

\* Elsewhere the two have nothing to say.
LEMMA LayerProperties ==
  ASSUME LayerIInv
  PROVE  OutputIsRight /\ CacheIsRight /\ ReadbacksAreRight /\ ShiftIsRight
<1>1. OutputIsRight
  BY DoneIsLast DEF LayerIInv, OutputIsRight, ActIs
<1>2. CacheIsRight
  <2>1. RequantizeIsComplete
    <3>1. CASE phase = "Done" /\ path = "requantize"
      BY <3>1, DoneIsQuantized
    <3>2. CASE ~(phase = "Done" /\ path = "requantize")
      BY <3>2 DEF RequantizeIsComplete
    <3>3. QED
      BY <3>1, <3>2
  <2>2. ASSUME LayerDone, NEW p \in 0 .. g.start + g.batch - 1, NEW c \in 0 .. DimKv - 1
        PROVE  /\ memory[Cache("K", p, c)] = Val(KName, p, c)
               /\ memory[Cache("V", p, c)] = Val("v", p, c)
    <3>1. g \in Geometries /\ CachesAre(memory)
      BY <2>2, DoneIsLast DEF LayerIInv
    <3>2. QED
      BY <3>1, CachesCover
  <2>3. QED
    BY <2>1, <2>2 DEF CacheIsRight
<1>3. ReadbacksAreRight
  BY DEF LayerIInv
<1>4. ShiftIsRight
  <2> SUFFICES ASSUME phase = "Done", path \in {"shift", "shift_int4"},
                      NEW p \in 0 .. shift.oldLen - 1, Origin(p) < shift.oldLen
               PROVE  /\ \A b \in {"K", "V"} : Moved(b, p, Origin(p), DimKv)
                      /\ path = "shift_int4" =>
                           /\ \A b \in {"PK", "PV"} : Moved(b, p, Origin(p), g.kvHeads * HdPacked)
                           /\ \A b \in {"SK", "SV"} : Moved(b, p, Origin(p), g.kvHeads)
    BY DEF ShiftIsRight, Origin
  <2>1. \A b : Shifted(b) => Moved(b, p, Origin(p), Width(b))
    BY DEF Shifted, Moved
  <2>2. \A b \in {"K", "V"} : Moved(b, p, Origin(p), DimKv)
    BY <2>1, DoneIsShifted DEF Width
  <2>3. ASSUME path = "shift_int4"
        PROVE  /\ \A b \in {"PK", "PV"} : Moved(b, p, Origin(p), g.kvHeads * HdPacked)
               /\ \A b \in {"SK", "SV"} : Moved(b, p, Origin(p), g.kvHeads)
    BY <2>1, <2>3, DoneIsShifted DEF Width, PackedBuffers
  <2>4. QED
    BY <2>2, <2>3
<1>5. QED
  BY <1>1, <1>2, <1>3, <1>4

-----------------------------------------------------------------------------
(* Theorems.                                                               *)

\* Memory is at the stage of the operation that is next, in every state.
THEOREM LayerInvariant == Spec => []LayerIInv
<1>1. QED
  BY LayerInit, LayerNext, PTL DEF Spec

\* For every width of a model and every order of the invocations, a layer
\* leaves its output in the residual stream, and wgpu refuses nothing an entry
\* point in use asks of it.
THEOREM LayerComputes == Spec => []OutputIsRight
<1>1. LayerIInv => OutputIsRight
  BY LayerProperties
<1>2. QED
  BY <1>1, LayerInvariant, PTL

\* The keys and values of a call are in the cache, those of the earlier calls
\* still are, and the packed copy of the cache is complete.
THEOREM CacheIsKept == Spec => []CacheIsRight
<1>1. LayerIInv => CacheIsRight
  BY LayerProperties
<1>2. QED
  BY <1>1, LayerInvariant, PTL

\* What the debug and stepwise entry points copy to the host is what its name
\* says.
THEOREM ReadbacksShow == Spec => []ReadbacksAreRight
<1>1. LayerIInv => ReadbacksAreRight
  BY LayerProperties
<1>2. QED
  BY <1>1, LayerInvariant, PTL

\* A shift of the cache moves every position behind the gap, in every buffer,
\* in whatever order the invocations copy.
THEOREM ShiftMoves == Spec => []ShiftIsRight
<1>1. LayerIInv => ShiftIsRight
  BY LayerProperties
<1>2. QED
  BY <1>1, LayerInvariant, PTL
=============================================================================
