------------------------------ MODULE Bindings ------------------------------
(***************************************************************************)
(* The contract between the wgpu pipelines of pipeline/mod.rs, their WGSL  *)
(* entry points and the bind groups the callers build: a bind group        *)
(* layout, the variables a shader declares and a bind group are functions  *)
(* of the binding number.  wgpu itself is external: CompatibleWith,        *)
(* AcceptsGroup and AcceptsDispatch are the validation it documents.       *)
(*                                                                         *)
(* Abstracted: sizes and offsets of buffers, visibility, labels.           *)
(***************************************************************************)
EXTENDS Integers, FiniteSets, Sequences

\* A layout or a shader's declarations: the access of each binding.
Slots(read, write, uniform) ==
  [b \in read \cup write \cup uniform |->
     IF b \in read THEN "read" ELSE IF b \in write THEN "write" ELSE "uniform"]

ChunkSlots == {0} \cup 10 .. 16   \* blob_0 .. blob_7

\* The bindings of f, and those of h that f has not; a list of bindings from
\* a first number on.
Also(f, h) ==
  [b \in DOMAIN f \cup DOMAIN h |-> IF b \in DOMAIN f THEN f[b] ELSE h[b]]
From(first, list) == [b \in first .. first + Len(list) - 1 |-> list[b - first + 1]]

-----------------------------------------------------------------------------
(* Layouts *)

BindlessLayout   == Slots({0}, {1}, {})
DequantLayout    == Slots({0}, {1}, {2})
DequantAnyLayout == Slots(ChunkSlots, {1}, {2})
RequestLayout    == Slots(ChunkSlots, {1}, {2})
MatMulLayout     == Slots({0, 1}, {2}, {3})
MatMulF32Layout  == Slots({0, 1}, {2}, {3})
RmsNormLayout    == Slots(ChunkSlots \cup {1}, {2}, {3})
LmHeadLayout     == Slots(ChunkSlots \cup {1}, {2}, {3})

LayerLayout == Slots(ChunkSlots \cup {5, 6}, {1, 2, 7, 8}, {3, 4, 9})

\* Bindings 10 to 13 are the packed cache here, and chunks in LayerLayout.
Int4Extra      == 10 .. 13
Int4Layout     == Slots({0, 5, 6} \cup Int4Extra, {1, 2, 7, 8}, {3, 4, 9})
QuantizeLayout == Slots({0, 1}, 2 .. 5, {6})
ShiftLayout     == Slots({0, 1}, {2, 3}, {4})
ShiftInt4Layout == Slots(1 .. 4, 5 .. 8, {0})

-----------------------------------------------------------------------------
(* What the shaders declare *)

\* sh_layer_v1.wgsl, with the cooperative, staged and vectorized entry
\* points that are appended to it, and the rest one shader each.
LayerChunkDecls == Slots(ChunkSlots, {}, {})
LayerStateDecls == Slots({5, 6}, {1, 2, 7, 8}, {3, 4, 9})
LayerDecls      == Also(LayerStateDecls, LayerChunkDecls)
Int4Decls       == Slots({0, 5, 6} \cup 10 .. 13, {1, 2, 7, 8}, {3, 4, 9})
QuantizeDecls   == Slots({0, 1}, {2, 3, 4, 5}, {6})
ProbeDecls      == Slots({0}, {1}, {})
DequantDecls    == Slots({0}, {1}, {2})
DequantAnyDecls == Slots(ChunkSlots, {1}, {2})
MatMulDecls     == Slots({0, 1}, {2}, {3})
MatMulF32Decls  == Slots({0, 1}, {2}, {3})
RmsNormDecls    == Slots(ChunkSlots \cup {1}, {2}, {3})
HeadDecls       == Slots(ChunkSlots \cup {1}, {2}, {3})
ShiftDecls      == Slots({0, 1}, {2, 3}, {4})
ShiftInt4Decls  == Slots({1, 2, 3, 4}, {5, 6, 7, 8}, {0})

Pipe(layout, decls) == [layout |-> layout, decls |-> decls]

\* The pipelines by the name of the kernel; a pipeline is created against
\* one layout.
LayerPipelines ==
  {"AttnNorm", "Qkv", "QkvCoop", "QkNorm", "AttnOut", "AttnProj", "AttnProjCoop",
   "PostAttnNorm", "FfnNorm", "FfnProj", "FfnStaged", "FfnVectorized", "FfnDown",
   "FfnDownCoop", "PostFfwNorm"}

OtherPipelines ==
  {"AttnOutInt4", "QuantizeKv", "RopeShift", "RopeShiftInt4", "Probe", "Dequant",
   "DequantAny", "MatMul", "MatMulF32", "RmsNorm", "LmHead"}

Pipelines ==
  [k \in LayerPipelines \cup OtherPipelines |->
     CASE k \in LayerPipelines  -> Pipe(LayerLayout, LayerDecls)
       [] k = "AttnOutInt4"   -> Pipe(Int4Layout, Int4Decls)
       [] k = "QuantizeKv"    -> Pipe(QuantizeLayout, QuantizeDecls)
       [] k = "RopeShift"     -> Pipe(ShiftLayout, ShiftDecls)
       [] k = "RopeShiftInt4" -> Pipe(ShiftInt4Layout, ShiftInt4Decls)
       [] k = "Probe"         -> Pipe(BindlessLayout, ProbeDecls)
       [] k = "Dequant"       -> Pipe(DequantLayout, DequantDecls)
       [] k = "DequantAny"    -> Pipe(DequantAnyLayout, DequantAnyDecls)
       [] k = "MatMul"        -> Pipe(MatMulLayout, MatMulDecls)
       [] k = "MatMulF32"     -> Pipe(MatMulF32Layout, MatMulF32Decls)
       [] k = "RmsNorm"       -> Pipe(RmsNormLayout, RmsNormDecls)
       [] k = "LmHead"        -> Pipe(LmHeadLayout, HeadDecls)]

\* Creation of a pipeline: each declared binding is in the layout with the
\* same access.
CompatibleWith(layout, decls) ==
  \A b \in DOMAIN decls : b \in DOMAIN layout /\ layout[b] = decls[b]

PipelinesAreCreated ==
  \A k \in DOMAIN Pipelines :
    CompatibleWith(Pipelines[k].layout, Pipelines[k].decls)

-----------------------------------------------------------------------------
(* Bind groups *)

\* The chunk slots over a window of n resident chunks; the rest is the
\* dummy buffer.
ChunkBuffers(n) ==
  [b \in ChunkSlots |->
     LET i == IF b = 0 THEN 1 ELSE b - 8
     IN IF i <= n THEN <<"chunk", i>> ELSE <<"dummy">>]

Group(layout, buffers) == [layout |-> layout, buffers |-> buffers]

\* Bindings 1 to 9 of a layer's bind group.
LayerBuffers(k, v, cacheParams) ==
  << <<"act">>, <<"temp">>, <<"offsets">>, <<"params">>, <<"norm_bank">>, <<"rope">>,
     k, v, cacheParams >>

KCache == <<"K">>
VCache == <<"V">>
CacheParams == <<"cache_params">>

\* One per call site: the layer loop and its QKV chunks, the single-layer
\* entry points.
LayerGroup(n) ==
  Group(LayerLayout, Also(LayerBuffers(KCache, VCache, CacheParams), ChunkBuffers(n)))
QkvChunkGroup(n)  == LayerGroup(n)
StepwiseGroup(n)  == LayerGroup(n)
WithCacheGroup(n) == LayerGroup(n)
DebugGroup(n)     == LayerGroup(n)

\* The QKV test binds the dummy buffer as V cache and as cache_params.
QkvTestGroup(n) ==
  Group(LayerLayout,
        Also(LayerBuffers(<<"KV">>, <<"dummy">>, <<"dummy">>), ChunkBuffers(n)))

FirstChunk == From(0, << <<"chunk", 1>> >>)

\* The ten bindings of the state and the first chunk.
StateAndChunk == Also(LayerBuffers(KCache, VCache, CacheParams), FirstChunk)

\* The INT4 variant builds three groups; the second has ten bindings
\* under the layout of seventeen.
Int4Group ==
  Group(Int4Layout,
        Also(From(10, << <<"PK">>, <<"SK">>, <<"PV">>, <<"SV">> >>), StateAndChunk))

Int4F32Group == Group(LayerLayout, StateAndChunk)

CacheBuffers ==
  From(0, << KCache, VCache, <<"PK">>, <<"PV">>, <<"SK">>, <<"SV">>, <<"quant_params">> >>)

QuantizeGroup   == Group(QuantizeLayout, CacheBuffers)
RequantizeGroup == Group(QuantizeLayout, CacheBuffers)

Scratch(b) == <<"scratch", b>>

ShiftGroup ==
  Group(ShiftLayout,
        From(0, << Scratch("K"), Scratch("V"), KCache, VCache, <<"shift_params">> >>))

ShiftF32Group == ShiftGroup

ShiftInt4Group ==
  Group(ShiftInt4Layout,
        From(0, << <<"shift_params">>, Scratch("PK"), Scratch("SK"), Scratch("PV"),
                   Scratch("SV"), <<"PK">>, <<"SK">>, <<"PV">>, <<"SV">> >>))

\* The groups of the single-kernel entry points, which have no state of
\* their own: input, output and parameters around a window.
ProbeGroup == Group(BindlessLayout, From(0, << <<"chunk", 1>>, <<"output">> >>))

Unary == << <<"output">>, <<"small_params">> >>
DequantGroup           == Group(DequantLayout, Also(FirstChunk, Unary))
DequantRowsGroup       == DequantGroup
DequantAnyGroup(n)     == Group(DequantAnyLayout, Also(ChunkBuffers(n), Unary))
DequantBlobGroup       == DequantAnyGroup(1)
DequantRequestGroup(n) == Group(RequestLayout, Also(ChunkBuffers(n), Unary))

Binary == << <<"input">>, <<"output">>, <<"small_params">> >>
MatMulGroup       == Group(MatMulLayout, Also(FirstChunk, Binary))
MatMulF32Group    == Group(MatMulF32Layout, Also(From(0, << <<"weights">> >>), Binary))
HeadF32Group      == MatMulF32Group
RmsNormGroup(n)   == Group(RmsNormLayout, Also(ChunkBuffers(n), Binary))
FinalNormGroup(n) == RmsNormGroup(n)
HeadGroup(n)      == Group(LmHeadLayout, Also(ChunkBuffers(n), Binary))
HeadTileGroup(n)  == HeadGroup(n)
LoopHeadGroup(n)  == HeadGroup(n)
LoopTileGroup(n)  == HeadGroup(n)

SingleKernels(n) ==
  { <<"Dequant", DequantGroup>>,    <<"Dequant", DequantRowsGroup>>,
    <<"DequantAny", DequantAnyGroup(n)>>, <<"DequantAny", DequantBlobGroup>>,
    <<"DequantAny", DequantRequestGroup(n)>>,
    <<"MatMul", MatMulGroup>>,      <<"MatMulF32", MatMulF32Group>>,
    <<"MatMulF32", HeadF32Group>>,  <<"RmsNorm", RmsNormGroup(n)>>,
    <<"RmsNorm", FinalNormGroup(n)>>, <<"LmHead", HeadGroup(n)>>,
    <<"LmHead", HeadTileGroup(n)>>, <<"LmHead", LoopHeadGroup(n)>>,
    <<"LmHead", LoopTileGroup(n)>>, <<"Probe", ProbeGroup>> }

Uniforms == {<<"offsets">>, <<"params">>, <<"cache_params">>, <<"quant_params">>,
             <<"shift_params">>, <<"small_params">>}

\* What a buffer was created for.
AllowedAs(buffer) ==
  IF buffer \in Uniforms THEN {"uniform"} ELSE {"read", "write"}

\* create_bind_group: exactly the bindings of the layout, each with a
\* buffer that may be used that way.
AcceptsGroup(group) ==
  /\ DOMAIN group.buffers = DOMAIN group.layout
  /\ \A b \in DOMAIN group.layout :
       group.layout[b] \in AllowedAs(group.buffers[b])

\* dispatch_workgroups: the group has the pipeline's layout, and a buffer
\* that is written is bound once.
AcceptsDispatch(kernel, group) ==
  /\ group.layout = Pipelines[kernel].layout
  /\ \A b, c \in DOMAIN group.buffers :
       group.buffers[b] = group.buffers[c] /\ group.layout[b] = "write" => b = c
=============================================================================
