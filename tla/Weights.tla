------------------------------- MODULE Weights -------------------------------
(***************************************************************************)
(* A model from the file to the numbers the kernels multiply with:         *)
(* GpuRuntime::load_with_context admits the file, picks an adapter, checks *)
(* it, requests a device and uploads the file chunk by chunk; the head is  *)
(* expanded to F32 when it fits.  A ready model reads a row of any tensor  *)
(* through the window its dispatch plans and the decoder of its shader.    *)
(*                                                                         *)
(* Numbers are the bits they are made of (BlockFormats); sizes, limits and *)
(* the address space are scaled down by the constants.                     *)
(***************************************************************************)
EXTENDS Admission

CONSTANTS
  Files,        \* descriptions of GGUF files, see Admission
  Adapters,     \* sequences of adapters, in the order they are enumerated
  TileRows,     \* rows of the head a workgroup computes (64)
  TileGroups    \* workgroups the calibration allows a dispatch of the head

ASSUME WeightsAssumption == TileRows \in Nat \ {0} /\ TileGroups \subseteq Nat \ {0}

(* What the parser of the file vouches for: numbers, a vocabulary, and in  *)
(* a model of the graph's tensors rows of whole blocks of their format.    *)
ASSUME FilesOK ==
  \A f \in Files :
    /\ {f.hidden, f.heads, f.kvHeads, f.keyLength, f.ropeDim, f.ffn, f.layers, f.vocab,
        f.tokens, f.context, f.requested, f.padding, f.eps, f.ropeBase} \subseteq Nat
    /\ f.wide \subseteq Integers32
    /\ f.strays \subseteq (Integers32 \cup Epsilons \cup {"rope.freq_base"}) \X Nat
    /\ f.order \in {"layers", "classes", "embd_last"} /\ f.extra \in Seq(Range(f.extra))
    /\ f.vocab > 0
    /\ Descriptor(f) = OK =>
         \A t \in Tensors(f) : Shape(f, t[2])[1] % BlockElems(Format(f, t[2])) = 0

(* The guaranteed limits of an adapter are far above a granule.            *)
LimitSet == [binding : Nat, buffer : Nat, storage : Nat, invocations : Nat]
ASSUME AdaptersOK ==
  \A seq \in Adapters :
    /\ seq \in Seq(Range(seq))
    /\ \A i \in DOMAIN seq : seq[i].limits \in LimitSet /\ seq[i].limits.binding >= Granule

VARIABLES
  file,      \* the file that is loaded
  offsets,   \* where its tensors start (the manifest)
  layers,    \* BindlessMetadata::compiled_layers
  spec,      \* the specification the kernels run on
  phase,     \* where the loading is
  code,      \* what it was refused with
  limits,    \* of the adapter, then of the device
  plan,      \* the chunk plan of the loaded model
  chunks,    \* the resident ranges of the file
  scope,     \* the error scope of allocations: empty or out of memory
  head,      \* "none", "f32" or "blob"
  row        \* the row read last

vars == <<file, offsets, layers, spec, phase, code, limits, plan, chunks, scope, head, row>>

NoRow == [tensor |-> <<Global, "none">>, via |-> "none", index |-> 0, got |-> <<>>]
NoSpec == [temp |-> 0]
NoLimits == [binding |-> 0, buffer |-> 0, storage |-> 0, invocations |-> 0]

-----------------------------------------------------------------------------
(* The layer table of BindlessMetadata::from_manifest, for layers of       *)
(* separate tensors: the base is a word before the first of the layer, so  *)
(* that no tensor is packed to zero, the sign of a missing one.            *)

InLayer(f, l) == { <<l, LayerNames(f)[i]>> : i \in DOMAIN LayerNames(f) }

BaseByte(f, l, at) ==
  AtLeast(RoundDown(Least({ at[t] : t \in InLayer(f, l) }), 4) - 4, 0)

CompileLayer(f, l, at) ==
  LET base == BaseByte(f, l, at)
      Slot(name) == FormulaSlot(Format(f, name))
  IN [base |-> base \div 4,
      packed |-> [ t \in InLayer(f, l) |-> RelativePacked(at[t], base) ],
      slots |-> [qk |-> Slot("attn_q"), v |-> Slot("attn_v"), attn_out |-> Slot("attn_output"),
                 ffn_gate |-> Slot("ffn_gate"), ffn_up |-> Slot("ffn_up"),
                 ffn_down |-> Slot("ffn_down")]]

CompileLayers(f, at) == [ l \in 0 .. f.layers - 1 |-> CompileLayer(f, l, at) ]

-----------------------------------------------------------------------------
(* ValidatedDenseModel::check_device.                                      *)

SpanFits(first, end, size, split) ==
  first < end /\ end <= size /\ ForRange(first \div 4, (end - 1) \div 4, split) # NoWindow

\* Mutant: a layer is checked by where its tensors start.
BugLayerSpan(f, l, at) ==
  LET starts == { at[t] : t \in InLayer(f, l) }
  IN <<AtLeast(Least(starts) - 4, 0), Greatest(starts)>>

LayerSpan(f, l, at) ==
  <<AtLeast(Least({ at[t] : t \in InLayer(f, l) }) - 4, 0),
    Greatest({ at[t] + Bytes(f, t[2]) : t \in InLayer(f, l) })>>

CheckDevice(f, s, at, lim) ==
  LET size == FileSize(f, at)
      split == ChunkPlan(size, lim.binding)
      Fits(t) == SpanFits(at[t], at[t] + Bytes(f, t[2]), size, split)
  IN FirstFailure(
       << <<"device_limit", split.bytes <= lim.buffer>>,
          <<"device_binding_window",
            /\ \A l \in 0 .. f.layers - 1 :
                 SpanFits(LayerSpan(f, l, at)[1], LayerSpan(f, l, at)[2], size, split)
            /\ \A t \in {Embedding, Output} \cap DOMAIN at : Fits(t)>>,
          <<"state_budget", Budget(f, ContextLimit(f), lim.binding, TotalBudget)>>,
          <<"device_limit", s.temp * 4 <= lim.buffer>>,
          <<"device_limit", lim.storage >= 14 /\ lim.invocations >= 256>> >>)

-----------------------------------------------------------------------------
(* GpuRuntime::load_with_context.                                          *)

Init ==
  /\ file \in Files
  /\ offsets = <<>> /\ layers = <<>> /\ spec = NoSpec /\ plan = <<>> /\ chunks = <<>>
  /\ phase = "admission" /\ code = OK
  /\ limits = NoLimits /\ scope = "empty" /\ head = "none" /\ row = NoRow

(* PreparedDenseModel::load: nothing of a device yet.  The specification   *)
(* depends on the order in which the metadata is scanned.                  *)
Admit ==
  /\ phase = "admission"
  /\ offsets' = OffsetsOf(file)
  /\ \E m \in Scan(file) :
       /\ code' = LoadChecks(file, offsets', m)
       /\ IF code' = OK
          THEN /\ phase' = "adapter" /\ layers' = CompileLayers(file, offsets')
               /\ spec' = PreparedSpec(file, m)
          ELSE phase' = "refused" /\ UNCHANGED <<layers, spec>>
  /\ UNCHANGED <<file, limits, plan, chunks, scope, head, row>>

(* A discrete GPU before an integrated one before the first of any kind.   *)
SelectAdapter(seq) ==
  LET OfKind(k) == { i \in DOMAIN seq : seq[i].kind = k }
      best == IF OfKind("discrete") # {} THEN OfKind("discrete")
              ELSE IF OfKind("integrated") # {} THEN OfKind("integrated") ELSE DOMAIN seq
  IN seq[Least(best)]

Adapter(seq) ==
  /\ phase = "adapter"
  /\ IF seq = <<>>
     THEN /\ phase' = "refused" /\ code' = "gpu_unavailable" /\ UNCHANGED limits
     ELSE LET chosen == SelectAdapter(seq).limits IN
          /\ limits' = chosen
          /\ code' = CheckDevice(file, spec, offsets, chosen)
          /\ phase' = IF code' = OK THEN "device" ELSE "refused"
  /\ UNCHANGED <<file, offsets, layers, spec, plan, chunks, scope, head, row>>

(* The device is asked for with the limits of the adapter and the feature  *)
(* of the profiler, then without the feature; both may be denied.          *)
RequestDevice ==
  /\ phase = "device"
  /\ \/ /\ phase' = "check" /\ UNCHANGED code
        /\ limits' = [limits EXCEPT !.storage = AtLeast(@, 14), !.invocations = 256]
     \/ phase' = "refused" /\ code' = "gpu_device_unavailable" /\ UNCHANGED limits
  /\ UNCHANGED <<file, offsets, layers, spec, plan, chunks, scope, head, row>>

(* try_load_prepared: the limits once more, and the size of the file.      *)
CheckLoad ==
  /\ phase = "check"
  /\ code' = LET again == CheckDevice(file, spec, offsets, limits) IN
             IF again # OK THEN again
             ELSE IF FileSize(file, offsets) % 4 # 0 THEN "unsupported_file_alignment"
             ELSE OK
  /\ IF code' = OK
     THEN /\ phase' = "upload" /\ plan' = ChunkPlan(FileSize(file, offsets), limits.binding)
     ELSE phase' = "refused" /\ UNCHANGED plan
  /\ UNCHANGED <<file, offsets, layers, spec, limits, chunks, scope, head, row>>

(* An allocation never fails here: the scope remembers that it did.        *)
Allocate == scope' \in {scope, "out_of_memory"}

UploadChunk ==
  /\ phase = "upload" /\ Len(chunks) < plan.count
  /\ chunks' = Append(chunks, ChunkRange(plan, FileSize(file, offsets), Len(chunks)))
  /\ Allocate
  /\ UNCHANGED <<file, offsets, layers, spec, phase, code, limits, plan, head, row>>

(* load_output_head_f32, after the last chunk: five quantised formats and  *)
(* F32 can be expanded, the others end the load.                           *)
LoadHead ==
  /\ phase = "upload" /\ Len(chunks) = plan.count
  /\ LET bytes == file.vocab * file.hidden * 4 IN
     IF Format(file, HeadTensor(file)[2]) \notin CpuFormats
     THEN phase' = "refused" /\ code' = "unsupported_head" /\ UNCHANGED <<head, scope>>
     ELSE /\ phase' = "pop" /\ UNCHANGED code
          /\ IF bytes > limits.buffer \/ bytes > limits.binding
             THEN head' = "blob" /\ UNCHANGED scope
             ELSE head' = "f32" /\ Allocate
  /\ UNCHANGED <<file, offsets, layers, spec, limits, plan, chunks, row>>

\* Mutant: only the scope of validation errors is looked at.
BugPopScopes ==
  /\ phase = "pop" /\ phase' = "ready"
  /\ UNCHANGED <<file, offsets, layers, spec, code, limits, plan, chunks, scope, head, row>>

(* The KV cache is allocated, then both scopes are popped: an allocation   *)
(* that failed anywhere ends the load.                                     *)
PopScopes ==
  /\ phase = "pop"
  /\ Allocate
  /\ IF scope' = "out_of_memory"
     THEN phase' = "refused" /\ code' = "gpu_out_of_memory"
     ELSE phase' = "ready" /\ UNCHANGED code
  /\ UNCHANGED <<file, offsets, layers, spec, limits, plan, chunks, head, row>>

-----------------------------------------------------------------------------
(* Reading a ready model: each dispatch plans a window (none: the program  *)
(* stops), and its shader decodes the row.  Nothing a read depends on is   *)
(* changed by another, so a behaviour reads one row.                       *)

(* The rows and columns looked at: the first two and the last.             *)
Sample(n) == {0, 1, n - 1} \cap 0 .. n - 1
(* Of each group of 32 elements the ends of its halves.                    *)
Columns(n) == { c \in 0 .. n - 1 : c % 32 \in {0, 15, 16, 31} }

Got(t, via, index, win, value) ==
  IF win = NoWindow
  THEN /\ phase' = "stopped" /\ code' = "window"
       /\ row' = [tensor |-> t, via |-> via, index |-> index, got |-> <<>>]
  ELSE /\ row' = [tensor |-> t, via |-> via, index |-> index, got |-> value]
       /\ UNCHANGED <<phase, code>>

LayerWindow(l) ==
  PlanLayerTensorWindow(
    { layers[l].packed[t] : t \in DOMAIN layers[l].packed }, layers[l].base,
    { <<offsets[t], Bytes(file, t[2])>> : t \in InLayer(file, l) }, plan)

(* Row `index` of a matrix of a layer, decoded with the formula of a slot. *)
ReadMatrix(l, name, index, slot) ==
  LET planned == LayerWindow(l)
      cols == Shape(file, name)[1]
      blob == Binding(chunks, planned.win, plan)
  IN Got(<<l, name>>, "layer", index, planned.win,
         [ c \in Columns(cols) |->
             MatrixElement(blob, planned.base, slot, layers[l].packed[<<l, name>>],
                           cols, index, c) ])

(* main_qkv takes one formula for Q and K, another for V; main_ffn_proj    *)
(* one for the gate and one for the up projection.                         *)
ReadQkv(l, name, index) ==
  /\ name \in {"attn_q", "attn_k", "attn_v"}
  /\ ReadMatrix(l, name, index, IF name = "attn_v" THEN layers[l].slots.v ELSE layers[l].slots.qk)
ReadAttnProj(l, name, index) ==
  name = "attn_output" /\ ReadMatrix(l, name, index, layers[l].slots.attn_out)
ReadFfnProj(l, name, index) ==
  name \in {"ffn_gate", "ffn_up"} /\ ReadMatrix(l, name, index, layers[l].slots[name])
ReadFfnDown(l, name, index) ==
  name = "ffn_down" /\ ReadMatrix(l, name, index, layers[l].slots.ffn_down)

(* main_qk_norm reads the norms of the heads as words of the blob.         *)
ReadHeadNorm(l, name) ==
  LET planned == LayerWindow(l)
      blob == Binding(chunks, planned.win, plan)
  IN Got(<<l, name>>, "layer", 0, planned.win,
         [ c \in Columns(HeadDim(file)) |->
             Plain(ExtractBits(
               ReadBlob(blob, layers[l].packed[<<l, name>>] \div 2 + planned.base + c), 0, 32)) ])

(* The bank of norms is gathered from the file by build_norm_bank_from_ram *)
(* and addressed by the slots of sh_layer_v1: an entry of it is the place  *)
(* in the file it was copied from.                                         *)
NormSlots == IF file.arch = "qwen3" THEN 6 ELSE 4
FfnNormSlot == IF file.arch = "qwen3" THEN 3 ELSE 1
NormBank(position) ==
  LET l == position \div (NormSlots * file.hidden)
      slot == (position \div file.hidden) % NormSlots
      c == position % file.hidden
      qk == file.arch = "qwen3"
      name == CASE slot = 0 -> "attn_norm"
                [] qk /\ slot = 1 -> "attn_q_norm"
                [] qk /\ slot = 2 -> "attn_k_norm"
                [] slot = (IF qk THEN 3 ELSE 1) -> "ffn_norm"
                [] OTHER -> "none"
      t == IF l = file.layers THEN OutputNorm ELSE <<l, name>>
  IN IF t \in DOMAIN offsets THEN offsets[t] + 4 * c ELSE Lost

ReadNorm(l, name) ==
  LET slot == IF name = "attn_norm" THEN 0 ELSE FfnNormSlot
      base == (l * NormSlots + slot) * file.hidden
  IN /\ row' = [tensor |-> <<l, name>>, via |-> "bank", index |-> 0,
                got |-> [ c \in Columns(file.hidden) |->
                            Plain(ExtractBits(NormBank(base + c), 0, 32)) ]]
     /\ UNCHANGED <<phase, code>>

(* The final norm reads words of the blob through a window of its own.     *)
ReadFinalNorm ==
  LET weight == offsets[OutputNorm] \div 4
      win == RmsNormWindow(weight, 0, file.hidden, plan)
      local == weight - WindowBase(win, plan)
      blob == Binding(chunks, win, plan)
  IN Got(OutputNorm, "final_norm", 0, win,
         [ c \in Columns(file.hidden) |-> Plain(ExtractBits(ReadBlob(blob, local + c), 0, 32)) ])

(* The embedding of a token: its row starts at any byte, and the           *)
(* dispatch is told the word.                                              *)
EmbeddingWindow(byte) == DequantWindow(byte \div 4, file.hidden, Format(file, "token_embd"), plan)

ReadEmbedding(index) ==
  LET byte == offsets[Embedding] + index * RowBytes(file, "token_embd")
      win == EmbeddingWindow(byte)
      base == byte \div 4 - WindowBase(win, plan)
      blob == Binding(chunks, win, plan)
  IN Got(Embedding, "embedding", index, win,
         [ c \in Columns(file.hidden) |->
             DequantAnyElement(blob, base, FormulaSlot(Format(file, "token_embd")), 0, c) ])

(* The expanded head: block after block, each to its positions.            *)
ReadHeadF32(index) ==
  LET t == HeadTensor(file)
      fmt == Format(file, t[2])
      Element(n) ==
        LET start == offsets[t] + (n \div BlockElems(fmt)) * BlockBytes(fmt)
            block == [ i \in 0 .. BlockBytes(fmt) - 1 |->
                         ExtractBits(start + i - ((start + i) % 4), 8 * ((start + i) % 4), 8) ]
        IN { pair[2] : pair \in { p \in CpuBlock(fmt, block) : p[1] = n % BlockElems(fmt) } }
  IN /\ head = "f32"
     /\ row' = [tensor |-> t, via |-> "head_f32", index |-> index,
                got |-> [ c \in Columns(file.hidden) |->
                            LET S == Element(index * file.hidden + c)
                            IN IF Cardinality(S) = 1 THEN CHOOSE x \in S : TRUE
                               ELSE Plain(<<>>) ]]
     /\ UNCHANGED <<phase, code>>

(* The head in the blob.  One dispatch takes the window of all rows; tiles *)
(* take whole workgroups of rows, past the vocabulary too.                 *)
HeadWindow(baseRow, rows) ==
  LmHeadWindow(offsets[HeadTensor(file)], RowBytes(file, HeadTensor(file)[2]), baseRow, rows, plan)

HeadRows(index, win, via) ==
  LET t == HeadTensor(file)
      off == Rebase(offsets[t] \div 4, win, plan)
      blob == Binding(chunks, win, plan)
  IN Got(t, via, index, win,
         [ c \in Columns(file.hidden) |->
             HeadElement(blob, off, FormulaSlot(Format(file, t[2])), file.hidden, index, c) ])

ReadHeadBlob(index, groups) ==
  LET total == DivCeil(file.vocab, TileRows)
      first == (index \div (TileRows * groups)) * groups
      rows == AtMost(total - first, groups) * TileRows
  IN /\ head = "blob"
     /\ IF total <= groups \/ HeadWindow(0, file.vocab) = NoWindow
        THEN HeadRows(index, HeadWindow(0, file.vocab), "head")
        ELSE HeadRows(index, HeadWindow(first * TileRows, rows), "tile")

Read ==
  /\ phase = "ready" /\ row = NoRow
  /\ \/ \E l \in 0 .. file.layers - 1 : \E name \in Matrices :
          \E index \in Sample(Rows(file, name)) :
            \/ ReadQkv(l, name, index) \/ ReadAttnProj(l, name, index)
            \/ ReadFfnProj(l, name, index) \/ ReadFfnDown(l, name, index)
     \/ \E l \in 0 .. file.layers - 1 :
          \E name \in {"attn_q_norm", "attn_k_norm"} \cap Range(LayerNames(file)) :
            ReadHeadNorm(l, name)
     \/ \E l \in 0 .. file.layers - 1 : \E name \in {"attn_norm", "ffn_norm"} : ReadNorm(l, name)
     \/ ReadFinalNorm
     \/ \E index \in Sample(file.vocab) : ReadEmbedding(index)
     \/ \E index \in Sample(file.vocab) : ReadHeadF32(index)
     \/ \E index \in Sample(file.vocab) : \E groups \in TileGroups : ReadHeadBlob(index, groups)
  /\ UNCHANGED <<file, offsets, layers, spec, limits, plan, chunks, scope, head>>

Next ==
  \/ Admit \/ (\E seq \in Adapters : Adapter(seq)) \/ RequestDevice \/ CheckLoad
  \/ UploadChunk \/ LoadHead \/ PopScopes \/ Read

Spec == Init /\ [][Next]_vars

-----------------------------------------------------------------------------
(* Properties.                                                             *)

(* What the registry of formulas says an element of the file is.           *)
Wanted(t, index, c) ==
  LET fmt == Format(file, t[2])
      start == offsets[t] + index * RowBytes(file, t[2])
               + (c \div BlockElems(fmt)) * BlockBytes(fmt)
      block == [ i \in 0 .. BlockBytes(fmt) - 1 |-> [ k \in 1 .. 8 |-> 8 * (start + i) + k - 1 ] ]
  IN Dequant(fmt, c % BlockElems(fmt), block)

RowIsRight == \A c \in DOMAIN row.got : row.got[c] = Wanted(row.tensor, row.index, c)

IsKey == row.tensor[2] = "attn_k"
KeyLooksLikeQuery == Format(file, "attn_k") = Format(file, "attn_q")
WordAligned == (offsets[Embedding] + row.index * RowBytes(file, "token_embd")) % 4 = 0

(* Whatever the format, the chunks and the place of a tensor in them, each *)
(* dispatch computes with exactly the bits of the file that the registry   *)
(* of formulas names: projections, norms of heads, the bank of norms, the  *)
(* final norm, embeddings and the three forms of the head.  Two cases are  *)
(* stated apart: keys in another format than queries, and embedding rows   *)
(* off a word boundary.                                                    *)
WeightsAreRight ==
  (row.via # "none" /\ (IsKey => KeyLooksLikeQuery) /\ (row.via = "embedding" => WordAligned))
    => RowIsRight

(* run_dequant_any_hot gives the embedding of any token ("Safe to call in  *)
(* the embedding pre-batch loop").                                         *)
EmbeddingRowsAreRight == row.via = "embedding" => RowIsRight

(* K is decoded by its own selector ("use per-tensor selectors").          *)
KeyRowsAreRight == IsKey => RowIsRight

(* Each tensor of a layer has a packed offset other than zero, which the   *)
(* shaders take for a missing tensor (a bias, a gate, a norm of heads).    *)
NoTensorIsMissing ==
  \A l \in DOMAIN layers : \A t \in DOMAIN layers[l].packed : layers[l].packed[t] > 0

(* What check_device accepts, the forward pass can bind: no dispatch fails *)
(* to plan its window, but for the last tile of a head in the blob whose   *)
(* rows are rounded up past the vocabulary, and no tensor that is there    *)
(* looks missing to the shaders.                                           *)
AdmittedIsDispatchable ==
  /\ phase = "stopped" => row.via = "tile" /\ file.vocab % TileRows # 0
  /\ NoTensorIsMissing

(* No window of the head is pushed past the resident chunks.               *)
HeadTilesFit == phase # "stopped"

(* A model is ready only when its chunks are the whole file in order, each *)
(* within the limits of the device, and no allocation has failed, however  *)
(* late the failure is reported.                                           *)
ReadyMeansResident ==
  phase = "ready" =>
    /\ scope = "empty" /\ head # "none"
    /\ chunks[1][1] = 0 /\ chunks[Len(chunks)][2] = FileSize(file, offsets)
    /\ \A c \in 1 .. Len(chunks) - 1 : chunks[c][2] = chunks[c + 1][1]
    /\ \A c \in DOMAIN chunks :
         chunks[c][2] - chunks[c][1] <= AtMost(limits.binding, limits.buffer)

(* What the descriptor accepted, no operator of the plan refuses.  In a    *)
(* file whose keys end uniquely ("GGUF suffixes are globally unique within *)
(* a file") the specification differs from the descriptor only where a     *)
(* part of the head is rotated, or where a 64-bit number of KV heads was   *)
(* taken for that of the heads, and ends the program only for one of the   *)
(* four dimensions that must have 32 bits.                                 *)
DerivationsAgree ==
  /\ \A op \in DOMAIN OperatorCode : code # OperatorCode[op]
  /\ file.strays = {} =>
       /\ code # "unsupported_operator_semantics"
       /\ code = "model_plan_mismatch" =>
            \/ RopeDimensions(file) < HeadDim(file)
            \/ "attention.head_count_kv" \in file.wide /\ file.kvHeads # file.heads
       /\ code = "panic" => Required \cap file.wide # {}

(* However the metadata was scanned, the specification of a model that got *)
(* through admission is that of its plan: heads are normalised when the    *)
(* file has norms for them, the KV cache the kernels allocate is what was  *)
(* budgeted, and the scratch holds all that a layer computes.              *)
SpecFollowsPlan ==
  phase \notin {"admission", "refused"} =>
    /\ spec.qkNorm <=> file.arch = "qwen3"
    /\ spec.norm = "rms_epsilon" /\ spec.eps = file.eps /\ spec.rope = RopeDimensions(file)
    /\ spec.kvBytes = ContextLimit(file) * KvWidth(file) * 4
    /\ 2 * spec.kvBytes * file.layers <= TotalBudget
    /\ spec.temp >= file.hidden + QWidth(file) + 2 * KvWidth(file) + 2 * file.ffn

(* A check that is made twice is answered the same way twice: a model's    *)
(* shape by descriptor, plan and specification; the limits by the adapter  *)
(* and again by the device that was requested with them, after which only  *)
(* the length of the file can stop the upload.                             *)
ChecksAgree ==
  [][/\ DerivationsAgree'
     /\ phase = "check" => code' \in {OK, "unsupported_file_alignment"}]_vars

(* A format the descriptor admits can be loaded ("support all quant types  *)
(* used in output/embedding layers").                                      *)
AdmittedHeadLoads == code # "unsupported_head"
=============================================================================
