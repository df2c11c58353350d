---------------------------- MODULE LayerKernels ----------------------------
(***************************************************************************)
(* The compute kernels of one transformer layer (sh_layer_v1.wgsl and its  *)
(* cooperative variants), the KV cache kernels (sh_quantize_kv.wgsl,       *)
(* sh_rope_shift.wgsl, sh_rope_shift_int4.wgsl) and the entry points that  *)
(* string them together (pipeline/layer.rs, the layer loop of              *)
(* pipeline/inference.rs, pipeline_shift.rs), over memory with the         *)
(* addresses of the shaders.                                               *)
(*                                                                         *)
(* The invocations of a dispatch run in any order; dispatches do not       *)
(* overlap.  What is hard here is that kernels share one scratch area per  *)
(* token, at offsets each shader computes for itself.                      *)
(*                                                                         *)
(* Abstracted: a float is the name of what was computed, <<what, row,      *)
(* column>>, or "junk"; which elements a result depends on is Needs.       *)
(***************************************************************************)
EXTENDS Bindings, FiniteSetsExt, Functions

CONSTANTS
  Geometries,   \* see GeometryType
  Paths,        \* entry points that are called
  MaxSeq,       \* positions of the KV cache
  Lanes,        \* invocations of a workgroup in x, 256 in the code
  PackWidth,    \* elements of a packed word, 8 in the code
  KeepSinks     \* keep_sink values of a shift

\* The fields of LayerParams and CacheParams the kernels address memory
\* with.  batch, start: rows of the call and current_pos; gated, layerNorm,
\* postNorm, qkNorm: the model's (one without a gate has layer norm); q4kDown:
\* quant_ffn_down = 12; coop: the experimental pipelines that are switched on
\* and have rows of whole blocks; chunks: of the blob window.
GeometryType ==
  [dim : Nat \ {0}, heads : Nat \ {0}, kvHeads : Nat \ {0},
   headDim : Nat \ {0}, ffn : Nat \ {0},
   gated : BOOLEAN, postNorm : BOOLEAN, qkNorm : BOOLEAN,
   batch : Nat \ {0}, start : Nat, q4kDown : BOOLEAN,
   coop : SUBSET {"qkv", "attn_proj", "staged", "down"}, chunks : 1 .. 8]

LoopPath == "loop"
CallPaths == {"stepwise", "with_cache", "debug"}
RefusedPaths == {"qkv_test", "int4"}
CachePaths == {"requantize", "shift", "shift_int4"}

CeilDiv(a, b) == (a + b - 1) \div b
Larger(a, b) == IF a > b THEN a ELSE b

\* temp_buffer_size, without the rounding to 1024.
StrideOf(s) ==
  LET q  == s.heads * s.headDim
      kv == s.kvHeads * s.headDim
  IN Larger(s.dim + q + 2 * kv + 2 * s.ffn, Larger(s.dim, q) + q)

\* Nothing in the code relates ff_dim to the other widths.  The stash of the
\* attention's product ends in the token's own scratch, which only the
\* cooperative kernel asks for; and in a model without a gate the norm of the
\* attention is kept behind the FFN rows while the attention's own scratch is
\* in use.
StashFits(s) == 2 * s.dim + s.heads * s.headDim <= StrideOf(s)
NormIsKept(s) ==
  LET q == s.heads * s.headDim IN s.gated \/ 2 * s.ffn >= Larger(2 * s.dim, q) + q

ASSUME LayerAssumption ==
  /\ {MaxSeq, Lanes, PackWidth} \subseteq Nat \ {0}
  /\ KeepSinks \subseteq Nat
  /\ Paths \subseteq {LoopPath, "single"} \cup CallPaths \cup RefusedPaths
                 \cup CachePaths
  /\ Geometries \subseteq GeometryType
  /\ \A g \in Geometries :
       /\ g.heads % g.kvHeads = 0
       /\ g.start + g.batch <= MaxSeq
       /\ StashFits(g) /\ NormIsKept(g)

VARIABLES
  g,         \* the geometry of the call
  path,      \* the entry point
  shift,     \* keep_sink, shift_amt and old_seq_len of a shift
  phase,     \* Bind, Run, Done, Refused
  pc,        \* operation of the program that is next
  memory,    \* cell -> value
  readbacks  \* name -> what was copied

vars == <<g, path, shift, phase, pc, memory, readbacks>>

DimQ == g.heads * g.headDim
DimKv == g.kvHeads * g.headDim

Stride == StrideOf(g)

Tokens == 0 .. g.batch - 1
Rows == 0 .. g.dim - 1
Positions == 0 .. MaxSeq - 1
HdPacked == g.headDim \div PackWidth

\* Mutant: the query is put behind the normalized input, whatever its width.
BugQueryOffset == g.dim

\* query_offset of scratch_layout.rs; the shaders compute it themselves.
QueryOffset == Larger(g.dim, DimQ)

StashOffset == g.dim + DimQ   \* attn_stash_base
FfnOffset == 2 * g.ffn        \* ffn_dim * 2

Act(t, i)  == <<"act", t * g.dim + i>>
Temp(t, i) == <<"temp", t * Stride + i>>
Cache(b, p, c) == <<b, p * DimKv + c>>
Packed(b, p, h, u) == <<b, (p * g.kvHeads + h) * HdPacked + u>>
Scale(b, p, h) == <<b, p * g.kvHeads + h>>

Val(what, row, column) == <<what, row, column>>

\* Eligibility of the experimental pipelines.
FormulaRows(kind) == kind \in g.coop
CoopQkv == FormulaRows("qkv") /\ g.gated /\ ~g.postNorm
CoopAttnProj ==
  FormulaRows("attn_proj") /\ g.gated /\ ~g.postNorm /\ 2 * g.dim + DimQ <= Stride
StagedFfn == FormulaRows("staged") /\ g.gated /\ ~g.postNorm
CoopDown == FormulaRows("down") /\ g.gated /\ ~g.postNorm

-----------------------------------------------------------------------------
(* What a layer computes: the values a value depends on.                   *)

KName == IF g.qkNorm THEN "kn" ELSE "k"
QName == IF g.qkNorm THEN "qn" ELSE "q"
PostNorm == g.postNorm /\ path # "stepwise"
AttnOutput == IF PostNorm THEN "act_attn" ELSE "act_proj"
LayerOutput == IF PostNorm THEN "act_out" ELSE "act_down"

OfHead(what, row, head) ==
  {Val(what, row, head * g.headDim + d) : d \in 0 .. g.headDim - 1}
OfRow(what, row) == {Val(what, row, i) : i \in Rows}
KeysOf(kv, past) == UNION {OfHead(KName, p, kv) : p \in past}
ValuesOf(c, past) == {Val("v", p, c) : p \in past}

\* A model without a gate feeds its FFN with the attention's norm; the
\* reference kernel normalizes the residual itself, and the staged one, which
\* only the layer loop has, takes the rows of FfnNorm.
FfnInput ==
  IF ~g.gated THEN "norm"
  ELSE IF StagedFfn /\ path = LoopPath THEN "ffn_norm" ELSE AttnOutput

Contexts(row) == {Val("context", row, i) : i \in 0 .. DimQ - 1}
GateUps(row) ==
  {Val(IF i >= g.ffn /\ ~g.gated THEN "one" ELSE "gate_up", row, i) :
     i \in 0 .. 2 * g.ffn - 1}

Needs(v) ==
  LET row  == v[2]
      c    == v[3]
      head == c \div g.headDim
      kv   == head \div (g.heads \div g.kvHeads)
      past == 0 .. g.start + row
  IN CASE v[1] = "norm"     -> OfRow("x", row)
       [] v[1] = "q"        -> OfRow("norm", row)
       [] v[1] \in {"k", "v"} -> OfRow("norm", row - g.start)
       [] v[1] = "qn"       -> OfHead("q", row, head)
       [] v[1] = "kn"       -> OfHead("k", row, head)
       [] v[1] = "context"  ->
            OfHead(QName, row, head) \cup KeysOf(kv, past)
              \cup ValuesOf(kv * g.headDim + (c % g.headDim), past)
       [] v[1] = "proj"     -> Contexts(row)
       [] v[1] = "act_proj" -> {Val("x", row, c)} \cup Contexts(row)
       [] v[1] = "act_attn" -> {Val("act_proj", row, c)} \cup OfRow("proj", row)
       [] v[1] = "ffn_norm" -> OfRow(AttnOutput, row)
       [] v[1] = "gate_up"  -> OfRow(FfnInput, row)
       [] v[1] = "one"      -> {}
       [] v[1] = "down"     -> GateUps(row)
       [] v[1] = "act_down" -> {Val(AttnOutput, row, c)} \cup GateUps(row)
       [] v[1] = "act_out"  -> {Val("act_down", row, c)} \cup OfRow("down", row)
       [] v[1] \in {"scale_k", "packed_k"} -> OfHead("old_k", row, c)
       [] v[1] \in {"scale_v", "packed_v"} -> OfHead("old_v", row, c)
       [] OTHER             -> {v}

-----------------------------------------------------------------------------
(* The kernels: what an invocation loads and stores.                       *)

Store(cell, value, loads) ==
  [op |-> "compute", cell |-> cell, value |-> value, loads |-> loads]

\* A copy stores what it loads.
Move(cell, from) == [op |-> "copy", cell |-> cell, value |-> from, loads |-> {from}]

ActRow(t) == {Act(t, i) : i \in Rows}
TempRow(t, offset, n) == {Temp(t, offset + i) : i \in 0 .. n - 1}
QHead(t, h) == TempRow(t, QueryOffset + h * g.headDim, g.headDim)
CacheHead(b, p, h) == {Cache(b, p, h * g.headDim + d) : d \in 0 .. g.headDim - 1}

Row(x, t) == x < g.dim /\ t < g.batch

\* Without a gate, or with layer norm, the FFN reuses the norm: it is kept
\* behind the FFN's rows.
AttnNorm(x, t) ==
  IF ~Row(x, t) THEN {}
  ELSE {Store(Temp(t, o + x), Val("norm", t, x), ActRow(t)) :
          o \in {0} \cup (IF g.gated THEN {} ELSE {FfnOffset})}

Qkv(x, t) ==
  IF x >= DimQ + 2 * DimKv \/ t >= g.batch THEN {}
  ELSE LET norm == TempRow(t, 0, g.dim)
           p    == g.start + t
       IN IF x < DimQ
          THEN {Store(Temp(t, QueryOffset + x), Val("q", t, x), norm)}
          ELSE IF x < DimQ + DimKv
          THEN {Store(Cache("K", p, x - DimQ), Val("k", p, x - DimQ), norm)}
          ELSE {Store(Cache("V", p, x - DimQ - DimKv),
                      Val("v", p, x - DimQ - DimKv), norm)}

\* Mutant: an invocation for each element instead of each head.
BugQkNorm(x, t) ==
  IF t >= g.batch \/ ~g.qkNorm \/ x >= DimQ + DimKv THEN {}
  ELSE LET p == g.start + t
           c == x - DimQ
       IN IF x < DimQ
          THEN {Store(Temp(t, QueryOffset + x), Val("qn", t, x),
                      QHead(t, x \div g.headDim))}
          ELSE {Store(Cache("K", p, c), Val("kn", p, c),
                      CacheHead("K", p, c \div g.headDim))}

\* One invocation normalizes one head in place.
QkNorm(x, t) ==
  IF t >= g.batch \/ ~g.qkNorm \/ x >= g.heads + g.kvHeads THEN {}
  ELSE LET p == g.start + t
           h == x - g.heads
       IN IF x < g.heads
          THEN {Store(Temp(t, QueryOffset + x * g.headDim + d),
                      Val("qn", t, x * g.headDim + d), QHead(t, x)) :
                  d \in 0 .. g.headDim - 1}
          ELSE {Store(Cache("K", p, h * g.headDim + d),
                      Val("kn", p, h * g.headDim + d), CacheHead("K", p, h)) :
                  d \in 0 .. g.headDim - 1}

\* pos < seq_len, and not after the row's own position.
Attends(p, t) == p < g.start + g.batch /\ p <= g.start + t

KeyCells(kv, seen) == UNION {CacheHead("K", p, kv) : p \in seen}
ValueCells(c, seen) == {Cache("V", p, c) : p \in seen}

AttnLoads(x, t) ==
  LET h  == x \div g.headDim
      kv == h \div (g.heads \div g.kvHeads)
      seen == {p \in Positions : Attends(p, t)}
  IN QHead(t, h) \cup KeyCells(kv, seen)
       \cup ValueCells(kv * g.headDim + (x % g.headDim), seen)

AttnOut(x, t) ==
  IF t >= g.batch \/ x >= DimQ THEN {}
  ELSE {Store(Temp(t, x), Val("context", t, x), AttnLoads(x, t))}

\* The product is kept for the post norm and added to the residual.
AttnProj(x, t) ==
  IF ~Row(x, t) THEN {}
  ELSE LET context == TempRow(t, 0, DimQ)
       IN {Store(Temp(t, StashOffset + x), Val("proj", t, x), context),
           Store(Act(t, x), Val("act_proj", t, x), {Act(t, x)} \cup context)}

PostAttnNorm(x, t) ==
  IF ~Row(x, t) \/ ~g.postNorm THEN {}
  ELSE {Store(Act(t, x), Val("act_attn", t, x),
              {Act(t, x)} \cup TempRow(t, StashOffset, g.dim))}

\* One workgroup per row; its lanes share the sum and each stores its part.
FfnNorm(x, t) ==
  IF t >= g.batch \/ ~g.gated THEN {}
  ELSE {Store(Temp(t, FfnOffset + j), Val("ffn_norm", t, j), ActRow(t)) :
          j \in {i \in Rows : i % Lanes = x}}

FfnRow(x, t) == x < 2 * g.ffn /\ t < g.batch

\* With a gate every invocation normalizes the residual again.
FfnProj(x, t) ==
  IF ~FfnRow(x, t) THEN {}
  ELSE IF ~g.gated /\ x >= g.ffn THEN {Store(Temp(t, x), Val("one", t, x), {})}
  ELSE {Store(Temp(t, x), Val("gate_up", t, x),
              IF g.gated THEN ActRow(t) ELSE TempRow(t, FfnOffset, g.dim))}

\* The staged variants take the rows of FfnNorm.
FfnStaged(x, t) ==
  IF ~FfnRow(x, t) THEN {}
  ELSE {Store(Temp(t, x), Val("gate_up", t, x), TempRow(t, FfnOffset, g.dim))}

FfnDown(x, t) ==
  IF ~Row(x, t) THEN {}
  ELSE LET gateUp == TempRow(t, 0, 2 * g.ffn)
       IN {Store(Temp(t, FfnOffset + x), Val("down", t, x), gateUp),
           Store(Act(t, x), Val("act_down", t, x), {Act(t, x)} \cup gateUp)}

PostFfwNorm(x, t) ==
  IF ~Row(x, t) \/ ~g.postNorm THEN {}
  ELSE {Store(Act(t, x), Val("act_out", t, x),
              {Act(t, x)} \cup TempRow(t, FfnOffset, g.dim))}

\* One workgroup per row instead of one invocation: lane 0 stores.
QkvCoop(x, t)      == Qkv(x, t)
AttnProjCoop(x, t) == AttnProj(x, t)
FfnDownCoop(x, t)  == FfnDown(x, t)

\* One invocation packs one head of one position.
QuantizeKv(x, p) ==
  IF x >= g.kvHeads THEN {}
  ELSE {Store(Scale("SK", p, x), Val("scale_k", p, x), CacheHead("K", p, x)),
        Store(Scale("SV", p, x), Val("scale_v", p, x), CacheHead("V", p, x))}
       \cup {Store(Packed("PK", p, x, u), Val("packed_k", p, x), CacheHead("K", p, x)) :
                u \in 0 .. HdPacked - 1}
       \cup {Store(Packed("PV", p, x, u), Val("packed_v", p, x), CacheHead("V", p, x)) :
                u \in 0 .. HdPacked - 1}

\* Mutant: the kernel reads the live cache.
BugSrc(b) == b

ScratchNames ==
  [K |-> "scratch_K", V |-> "scratch_V", PK |-> "scratch_PK", PV |-> "scratch_PV",
   SK |-> "scratch_SK", SV |-> "scratch_SV"]

Src(b) == ScratchNames[b]

\* Invocation x copies column x of K and V, for position offset of the part
\* that moves.
RopeShift(x, offset) ==
  LET old == shift.keep + shift.amount + offset
  IN IF x >= DimKv \/ old >= shift.oldLen THEN {}
     ELSE {Move(Cache(b, old - shift.amount, x), Cache(Src(b), old, x)) :
             b \in {"K", "V"}}

RopeShiftInt4(x, offset) ==
  LET old == shift.keep + shift.amount + offset
      new == old - shift.amount
      h   == x \div HdPacked
      u   == x % HdPacked
  IN IF h >= g.kvHeads \/ old >= shift.oldLen THEN {}
     ELSE {Move(Packed(b, new, h, u), Packed(Src(b), old, h, u)) : b \in {"PK", "PV"}}
          \cup {Move(Scale(b, new, h), Scale(Src(b), old, h)) :
                   b \in {s \in {"SK", "SV"} : u = 0}}

Kernel(k, x, y) ==
  CASE k = "AttnNorm"     -> AttnNorm(x, y)
    [] k = "Qkv"          -> Qkv(x, y)
    [] k = "QkvCoop"      -> QkvCoop(x, y)
    [] k = "QkNorm"       -> QkNorm(x, y)
    [] k = "AttnOut"      -> AttnOut(x, y)
    [] k = "AttnProj"     -> AttnProj(x, y)
    [] k = "AttnProjCoop" -> AttnProjCoop(x, y)
    [] k = "PostAttnNorm" -> PostAttnNorm(x, y)
    [] k = "FfnNorm"      -> FfnNorm(x, y)
    [] k = "FfnProj"      -> FfnProj(x, y)
    [] k = "FfnStaged"    -> FfnStaged(x, y)
    [] k = "FfnDown"      -> FfnDown(x, y)
    [] k = "FfnDownCoop"  -> FfnDownCoop(x, y)
    [] k = "PostFfwNorm"  -> PostFfwNorm(x, y)
    [] k = "QuantizeKv"   -> QuantizeKv(x, y)
    [] k = "RopeShift"    -> RopeShift(x, y)
    [] k = "RopeShiftInt4" -> RopeShiftInt4(x, y)

-----------------------------------------------------------------------------
(* The entry points: programs of dispatches, copies to the host and         *)
(* snapshots of a buffer.                                                   *)

Run(kernel, group, columns, rows) ==
  <<[op |-> "run", kernel |-> kernel, group |-> group,
     columns |-> columns, rows |-> rows]>>
Copy(name, cells) == <<[op |-> "copy", name |-> name, cells |-> cells]>>
Snapshot(b) == <<[op |-> "snapshot", buffer |-> b]>>

\* Invocations of as many whole workgroups as n of them need.
Lanewise(n) == CeilDiv(n, Lanes) * Lanes

FfnNormRuns == StagedFfn \/ ~g.q4kDown

Loop(k, n) == Run(k, LayerGroup(g.chunks), n, g.batch)

LoopAttention ==
  LET total == DimQ + 2 * DimKv
  IN Loop("AttnNorm", Lanewise(g.dim))
     \o (IF CoopQkv THEN Loop("QkvCoop", total) ELSE Loop("Qkv", Lanewise(total)))
     \o Loop("QkNorm", Lanewise(DimQ + DimKv))
     \o Loop("AttnOut", Lanewise(DimQ))
     \o (IF CoopAttnProj THEN Loop("AttnProjCoop", g.dim)
                         ELSE Loop("AttnProj", Lanewise(g.dim)))
     \o Loop("PostAttnNorm", Lanewise(g.dim))

LoopFfn ==
  (IF FfnNormRuns THEN Loop("FfnNorm", Lanes) ELSE <<>>)
    \o (IF StagedFfn THEN Loop("FfnStaged", 2 * g.ffn)
                     ELSE Loop("FfnProj", Lanewise(2 * g.ffn)))
    \o (IF CoopDown THEN Loop("FfnDownCoop", g.dim)
                    ELSE Loop("FfnDown", Lanewise(g.dim)))
    \o Loop("PostFfwNorm", Lanewise(g.dim))

LoopProgram == LoopAttention \o LoopFfn

\* The single-layer entry points run one row.
AttentionPart(group) ==
  LET R(k, n) == Run(k, group, Lanewise(n), 1)
  IN R("QkNorm", DimQ + DimKv) \o R("AttnOut", DimQ) \o R("AttnProj", g.dim)

FfnPart(group) ==
  Run("FfnNorm", group, Lanes, 1) \o Run("FfnProj", group, Lanewise(2 * g.ffn), 1)
    \o Run("FfnDown", group, Lanewise(g.dim), 1)

QkvPart(group) ==
  Run("AttnNorm", group, Lanewise(g.dim), 1)
    \o Run("Qkv", group, Lanewise(DimQ + 2 * DimKv), 1)

ActCells == [i \in Rows |-> Act(0, i)]

StepwiseProgram ==
  LET group == StepwiseGroup(g.chunks)
  IN QkvPart(group) \o AttentionPart(group) \o Copy("mid", ActCells)
     \o FfnPart(group) \o Copy("final", ActCells)

WithCacheProgram ==
  LET group == WithCacheGroup(g.chunks)
      Post(k) == Run(k, group, Lanewise(g.dim), 1)
  IN QkvPart(group) \o AttentionPart(group) \o Post("PostAttnNorm")
     \o FfnPart(group) \o Post("PostFfwNorm") \o Copy("output", ActCells)

\* Mutant: the readbacks of K and V take the first position of the cache.
BugDebugCells(b) == [c \in 0 .. DimKv - 1 |-> Cache(b, 0, c)]

DebugCells(b) == [c \in 0 .. DimKv - 1 |-> Cache(b, g.start, c)]

\* As WithCacheProgram, with readbacks; that of Q starts at params.dim.
DebugProgram ==
  LET group == DebugGroup(g.chunks)
      Post(k) == Run(k, group, Lanewise(g.dim), 1)
  IN QkvPart(group)
     \o Copy("q", [i \in 0 .. DimQ - 1 |-> Temp(0, g.dim + i)])
     \o Copy("k", DebugCells("K")) \o Copy("v", DebugCells("V"))
     \o AttentionPart(group) \o Post("PostAttnNorm")
     \o Copy("post_attn", ActCells)
     \o FfnPart(group) \o Post("PostFfwNorm")
     \o Copy("ffn_down", [i \in Rows |-> Temp(0, FfnOffset + i)])
     \o Copy("output", ActCells)

RequantizeProgram ==
  IF shift.oldLen = 0 THEN <<>>
  ELSE Run("QuantizeKv", RequantizeGroup, g.kvHeads, shift.oldLen)

\* saturating_sub
Moving == LET end == shift.keep + shift.amount
          IN IF shift.oldLen > end THEN shift.oldLen - end ELSE 0

ShiftProgram ==
  Snapshot("K") \o Snapshot("V")
    \o (IF Moving = 0 THEN <<>> ELSE Run("RopeShift", ShiftGroup, DimKv, Moving))

ShiftInt4Program ==
  IF Moving = 0 THEN <<>>
  ELSE Snapshot("K") \o Snapshot("V") \o Snapshot("PK") \o Snapshot("PV")
       \o Snapshot("SK") \o Snapshot("SV")
       \o Run("RopeShift", ShiftF32Group, DimKv, Moving)
       \o Run("RopeShiftInt4", ShiftInt4Group, g.kvHeads * HdPacked, Moving)

\* The two entry points that never get beyond their bind groups have none.
Program ==
  CASE path = "loop"       -> LoopProgram
    [] path = "stepwise"   -> StepwiseProgram
    [] path = "with_cache" -> WithCacheProgram
    [] path = "debug"      -> DebugProgram
    [] path = "requantize" -> RequantizeProgram
    [] path = "shift"      -> ShiftProgram
    [] path = "shift_int4" -> ShiftInt4Program
    [] OTHER               -> <<>>

Groups ==
  CASE path = "qkv_test" -> {QkvTestGroup(g.chunks)}
    [] path = "int4"     -> {Int4Group, Int4F32Group, QuantizeGroup}
    [] path = "loop"     -> {LayerGroup(g.chunks), QkvChunkGroup(g.chunks)}
    [] path = "single"   -> {s[2] : s \in SingleKernels(g.chunks)}
    [] OTHER             -> {o.group : o \in {q \in Range(Program) : q.op = "run"}}

-----------------------------------------------------------------------------
CacheOnly == path \in CachePaths

\* What a cell holds before the call: past positions are those of earlier
\* calls; in the cache operations every position is an old one.
Before(c) ==
  LET b == c[1]
      p == c[2] \div DimKv
      i == c[2] % DimKv
      old == CacheOnly \/ p < g.start
  IN CASE b = "act" -> Val("x", c[2] \div g.dim, c[2] % g.dim)
       [] b = "K" /\ old -> Val(IF CacheOnly THEN "old_k" ELSE KName, p, i)
       [] b = "V" /\ old -> Val(IF CacheOnly THEN "old_v" ELSE "v", p, i)
       [] b \in {"PK", "PV", "SK", "SV"} -> Val("old", b, c[2])
       [] OTHER -> Val("junk", b, c[2])

KvCells(b) == {<<b, i>> : i \in 0 .. MaxSeq * DimKv - 1}
PackedCells(b) == {<<b, i>> : i \in 0 .. MaxSeq * g.kvHeads * HdPacked - 1}
ScaleCells(b) == {<<b, i>> : i \in 0 .. MaxSeq * g.kvHeads - 1}

BufferCells(b) ==
  CASE b \in {"K", "V", Src("K"), Src("V")} -> KvCells(b)
    [] b \in {"PK", "PV", Src("PK"), Src("PV")} -> PackedCells(b)
    [] b \in {"SK", "SV", Src("SK"), Src("SV")} -> ScaleCells(b)
    [] b = "act"  -> {<<b, i>> : i \in 0 .. g.batch * g.dim - 1}
    [] b = "temp" -> {<<b, i>> : i \in 0 .. g.batch * Stride - 1}

Buffers ==
  IF CacheOnly
  THEN LET live == {"K", "V", "PK", "PV", "SK", "SV"}
       IN live \cup {Src(b) : b \in live}
  ELSE {"act", "temp", "K", "V"}

NoShift == [keep |-> 0, amount |-> 0, oldLen |-> 0]

Init ==
  /\ g \in Geometries
  /\ path \in Paths
  /\ path \in CallPaths \cup RefusedPaths => g.batch = 1
  /\ path = "stepwise" => g.start = 0
  /\ path \in {"requantize", "shift_int4"} => g.headDim % PackWidth = 0
  /\ IF path \in CachePaths
     THEN shift \in [keep : KeepSinks, amount : 1 .. MaxSeq, oldLen : 0 .. MaxSeq]
     ELSE shift = NoShift
  /\ phase = "Bind" /\ pc = 1
  /\ memory = [c \in UNION {BufferCells(b) : b \in Buffers} |-> Before(c)]
  /\ readbacks = <<>>

Refuse == phase' = "Refused" /\ UNCHANGED pc

\* Pipelines exist since the start; then the call builds its bind groups.
Bind ==
  /\ phase = "Bind"
  /\ IF PipelinesAreCreated /\ \A group \in Groups : AcceptsGroup(group)
     THEN phase' = "Run" /\ UNCHANGED pc
     ELSE Refuse
  /\ UNCHANGED <<g, path, shift, memory, readbacks>>

Load(m, cell) == IF cell \in DOMAIN m THEN m[cell] ELSE Val("junk", cell[1], cell[2])

Result(m, s) ==
  LET loaded == {Load(m, c) : c \in s.loads}
  IN IF s.op = "copy" THEN CHOOSE v \in loaded : TRUE
     ELSE IF loaded = Needs(s.value) THEN s.value
     ELSE Val("junk", s.cell[1], s.cell[2])

\* A store outside the buffer is dropped.
After(m, stores) ==
  [c \in DOMAIN m |->
     IF \E s \in stores : s.cell = c
     THEN Result(m, CHOOSE s \in stores : s.cell = c) ELSE m[c]]

\* Some invocation finishes before the others start; they all load before
\* any of them stores.  That is enough to see one of them load or store what
\* another one stores.
Execute(o) ==
  LET all == {w \in (0 .. o.columns - 1) \X (0 .. o.rows - 1) :
                Kernel(o.kernel, w[1], w[2]) # {}}
      Of(w) == Kernel(o.kernel, w[1], w[2])
  IN IF all = {} THEN memory' = memory
     ELSE \E first \in all :
            memory' = After(After(memory, Of(first)),
                            UNION {Of(w) : w \in all \ {first}})

TakeSnapshot(b) ==
  memory' = [c \in DOMAIN memory |->
               IF c[1] = Src(b) THEN memory[<<b, c[2]>>] ELSE memory[c]]

Dispatch(o) ==
  /\ o.op = "run"
  /\ IF AcceptsDispatch(o.kernel, o.group)
     THEN Execute(o) /\ pc' = pc + 1 /\ UNCHANGED phase
     ELSE Refuse /\ UNCHANGED memory
  /\ UNCHANGED readbacks

CopyOut(o) ==
  /\ o.op = "copy"
  /\ readbacks' =
       Also(readbacks,
            [n \in {o.name} |-> [i \in DOMAIN o.cells |-> Load(memory, o.cells[i])]])
  /\ pc' = pc + 1
  /\ UNCHANGED <<phase, memory>>

CopyBuffer(o) ==
  /\ o.op = "snapshot"
  /\ TakeSnapshot(o.buffer)
  /\ pc' = pc + 1
  /\ UNCHANGED <<phase, readbacks>>

Step ==
  /\ phase = "Run" /\ pc <= Len(Program)
  /\ \/ Dispatch(Program[pc])
     \/ CopyOut(Program[pc])
     \/ CopyBuffer(Program[pc])
  /\ UNCHANGED <<g, path, shift>>

\* One of the entry points around a single kernel.
SingleKernel ==
  /\ phase = "Run" /\ path = "single"
  /\ \E s \in SingleKernels(g.chunks) :
       phase' = IF AcceptsDispatch(s[1], s[2]) THEN "Done" ELSE "Refused"
  /\ UNCHANGED <<g, path, shift, pc, memory, readbacks>>

Finish ==
  /\ phase = "Run" /\ path # "single" /\ pc > Len(Program)
  /\ phase' = "Done"
  /\ UNCHANGED <<g, path, shift, pc, memory, readbacks>>

Next == Bind \/ Step \/ SingleKernel \/ Finish

Spec == Init /\ [][Next]_vars

-----------------------------------------------------------------------------
(* Properties *)

LayerDone == phase = "Done" /\ path \in CallPaths \cup {LoopPath}

\* wgpu refuses no pipeline, bind group or dispatch of the entry points that
\* are used; the QKV test and the INT4 variant are refused (Int4LayerRuns).
NothingIsRefused == phase = "Refused" => path \in RefusedPaths

\* Whatever the widths of the model, the order of the invocations and the
\* pipelines that are switched on, the layer runs and the residual stream
\* that leaves it is the layer's output: no kernel reads scratch that another
\* one has overwritten, has not written yet or writes at the same time.
OutputIsRight ==
  /\ NothingIsRefused
  /\ LayerDone => \A t \in Tokens, i \in Rows : memory[Act(t, i)] = Val(LayerOutput, t, i)

\* After requantize_all_kv_int4 every position below seq_len has its packed
\* words and its scale, from its own keys and values.
RequantizeIsComplete ==
  phase = "Done" /\ path = "requantize" =>
    \A p \in 0 .. shift.oldLen - 1, h \in 0 .. g.kvHeads - 1 :
      /\ memory[Scale("SK", p, h)] = Val("scale_k", p, h)
      /\ memory[Scale("SV", p, h)] = Val("scale_v", p, h)
      /\ \A u \in 0 .. HdPacked - 1 :
           /\ memory[Packed("PK", p, h, u)] = Val("packed_k", p, h)
           /\ memory[Packed("PV", p, h, u)] = Val("packed_v", p, h)

\* The call leaves keys and values of its own positions, and those of the
\* earlier ones as they were; so does the packed copy of the cache.
CacheIsRight ==
  /\ RequantizeIsComplete
  /\ LayerDone =>
       \A p \in 0 .. g.start + g.batch - 1, c \in 0 .. DimKv - 1 :
         /\ memory[Cache("K", p, c)] = Val(KName, p, c)
         /\ memory[Cache("V", p, c)] = Val("v", p, c)

Shows(name, what, row) ==
  name \in DOMAIN readbacks =>
    \A i \in DOMAIN readbacks[name] : readbacks[name][i] = Val(what, row, i)

\* Every readback of the debug and stepwise entry points shows what it is
\* named after (Q where it is no wider than the residual stream: see
\* DebugProgram).
ReadbacksAreRight ==
  /\ Shows("mid", "act_proj", 0) /\ Shows("final", "act_down", 0)
  /\ Shows("output", LayerOutput, 0)
  /\ Shows("post_attn", AttnOutput, 0) /\ Shows("ffn_down", "down", 0)
  /\ Shows("k", "k", g.start) /\ Shows("v", "v", g.start)
  /\ DimQ <= g.dim => Shows("q", "q", 0)

Moved(b, new, old, n) ==
  \A i \in 0 .. n - 1 : memory[<<b, new * n + i>>] = Before(<<b, old * n + i>>)

\* A shift moves the positions behind the gap down by shift_amt, in order
\* and in every buffer alike, and keeps the sinks: source and destination
\* overlap, and the positions are copied in any order.
ShiftIsRight ==
  phase = "Done" /\ path \in {"shift", "shift_int4"} =>
    \A p \in 0 .. shift.oldLen - 1 :
      LET from == IF p < shift.keep THEN p ELSE p + shift.amount
          int4 == path = "shift_int4"
      IN from < shift.oldLen =>
           /\ \A b \in {"K", "V"} : Moved(b, p, from, DimKv)
           /\ int4 => \A b \in {"PK", "PV"} : Moved(b, p, from, g.kvHeads * HdPacked)
           /\ int4 => \A b \in {"SK", "SV"} : Moved(b, p, from, g.kvHeads)

\* "INT4 variant of run_layer_with_cache": it runs.
Int4LayerRuns == path = "int4" => phase # "Refused"
=============================================================================
