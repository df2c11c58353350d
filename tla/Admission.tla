----------------------------- MODULE Admission ------------------------------
(* From the manifest of a GGUF file to an admitted dense model: the checks *)
(* of the descriptor, the execution plan with its operator contracts, the  *)
(* specification the kernels use, derived a second time from the same      *)
(* metadata, and the comparison of the two.  Every check carries the code  *)
(* it is refused with; the first that fails decides.                       *)
EXTENDS BlobWindows, SequencesExt

CONSTANTS
  Alignment,     \* general.alignment: tensors start at its multiples
  Header,        \* bytes before the tensor data
  TotalBudget,   \* 4 GiB for the KV state (scaled)
  RopeBudget,    \* 256 MiB / 4: entries of a rope table (scaled)
  DefaultContext \* 8192

ASSUME AdmissionAssumption ==
  /\ {Alignment, Header, TotalBudget, RopeBudget, DefaultContext} \subseteq Nat \ {0}
  /\ Alignment % 4 = 0 /\ Header % Alignment = 0

Global == -1     \* the layer of the tensors that belong to none
Embedding  == <<Global, "token_embd">>
OutputNorm == <<Global, "output_norm">>
Output     == <<Global, "output">>
RopeFreqs  == <<Global, "rope_freqs">>

OK == "ok"
(* The code of the first failing check of a sequence of << code, passed >>. *)
FirstFailure(checks) ==
  LET failed == { i \in DOMAIN checks : ~checks[i][2] }
  IN IF failed = {} THEN OK
     ELSE checks[CHOOSE i \in failed : \A j \in failed : i <= j][1]

-----------------------------------------------------------------------------
(* The file.  A file is a record of metadata and of the formats and the    *)
(* order of its tensors; lengths and F32 values of zero are absent keys.   *)
(* `wide` are the integers the writer gave 64 bits, `strays` the values of *)
(* keys that end like one of the model's: under another prefix, or the     *)
(* epsilon of a LayerNorm beside that of the RMSNorm.                      *)

Matrices == {"attn_q", "attn_k", "attn_v", "attn_output", "ffn_gate", "ffn_up", "ffn_down"}
LayerNames(f) ==
  <<"attn_norm", "attn_q", "attn_k", "attn_v", "attn_output",
    "ffn_norm", "ffn_gate", "ffn_up", "ffn_down">>
  \o (IF f.arch = "qwen3" THEN <<"attn_q_norm", "attn_k_norm">> ELSE <<>>)

HeadDim(f) == IF f.keyLength > 0 THEN f.keyLength ELSE f.hidden \div f.heads
RopeDimensions(f) == IF f.ropeDim > 0 THEN f.ropeDim ELSE HeadDim(f)
QWidth(f) == f.heads * HeadDim(f)
KvWidth(f) == f.kvHeads * HeadDim(f)

(* [input, output] of a tensor, as the writer of the file lays it out.     *)
Shape(f, name) ==
  CASE name \in {"token_embd", "output"} -> <<f.hidden, f.vocab>>
    [] name = "rope_freqs" -> <<RopeDimensions(f) \div 2>>
    [] name \in {"output_norm", "attn_norm", "ffn_norm"} -> <<f.hidden>>
    [] name \in {"attn_q_norm", "attn_k_norm"} -> <<HeadDim(f)>>
    [] name = "attn_q" -> <<f.hidden, QWidth(f)>>
    [] name \in {"attn_k", "attn_v"} -> <<f.hidden, KvWidth(f)>>
    [] name = "attn_output" -> <<QWidth(f), f.hidden>>
    [] name \in {"ffn_gate", "ffn_up"} -> <<f.hidden, f.ffn>>
    [] name = "ffn_down" -> <<f.ffn, f.hidden>>
    [] OTHER -> <<f.hidden>>

Format(f, name) == IF name \in DOMAIN f.format THEN f.format[name] ELSE "F32"

RowBytes(f, name) ==
  LET fmt == Format(f, name) IN (Shape(f, name)[1] \div BlockElems(fmt)) * BlockBytes(fmt)
Rows(f, name) == IF Len(Shape(f, name)) = 2 THEN Shape(f, name)[2] ELSE 1
Bytes(f, name) == Rows(f, name) * RowBytes(f, name)

LayerTensors(f, l) == [ i \in DOMAIN LayerNames(f) |-> <<l, LayerNames(f)[i]>> ]
Layers(f) == [ l \in 1..f.layers |-> l - 1 ]
AllLayers(f) == FlattenSeq([ i \in DOMAIN Layers(f) |-> LayerTensors(f, Layers(f)[i]) ])
Tail_(f) == <<OutputNorm>> \o (IF f.tied THEN <<>> ELSE <<Output>>)
            \o (IF f.ropeFreqs THEN <<RopeFreqs>> ELSE <<>>) \o f.extra

(* Writers order the tensors layer by layer, by class across the layers or *)
(* with the embedding at the end.                                          *)
Order(f) ==
  CASE f.order = "layers" -> <<Embedding>> \o AllLayers(f) \o Tail_(f)
    [] f.order = "classes" ->
         <<Embedding>>
         \o FlattenSeq([ i \in DOMAIN LayerNames(f) |->
                           [ l \in 1..f.layers |-> <<l - 1, LayerNames(f)[i]>> ] ])
         \o Tail_(f)
    [] f.order = "embd_last" -> AllLayers(f) \o Tail_(f) \o <<Embedding>>

Tensors(f) == Range(Order(f)) \ f.missing

RoundUp(n, a) == ((n + a - 1) \div a) * a

(* Where every tensor starts: each after the one before, aligned.          *)
OffsetsOf(f) ==
  LET order == Order(f)
      Size(t) == IF t \in f.missing THEN 0 ELSE Bytes(f, t[2])
      place[i \in 1..Len(order)] ==
        IF i = 1 THEN Header ELSE RoundUp(place[i - 1] + Size(order[i - 1]), Alignment)
  IN [ t \in Tensors(f) |-> place[CHOOSE i \in DOMAIN order : order[i] = t] ]

FileSize(f, offsets) ==
  LET ends == { offsets[t] + Bytes(f, t[2]) : t \in DOMAIN offsets }
  IN (CHOOSE n \in ends : \A k \in ends : k <= n) + f.padding

-----------------------------------------------------------------------------
(* ValidatedModelDescriptor::from_manifest.                                *)

Supported == Formats

ValidateTensor(f, t, shape, norm) ==
  << <<"missing_tensor", t \in Tensors(f)>>,
     <<"invalid_tensor_shape", Shape(f, t[2]) = shape>>,
     <<"unsupported_norm_precision", norm => Format(f, t[2]) = "F32">>,
     <<"unsupported_operator_quantization", Format(f, t[2]) \in Supported>> >>

HeadTensor(f) == IF Output \in Tensors(f) THEN Output ELSE Embedding

(* The tensors of the graph, with the shape each must have.                *)
Bindings(f) ==
  << <<Embedding, <<f.hidden, f.vocab>>, FALSE>>, <<OutputNorm, <<f.hidden>>, TRUE>>,
     <<HeadTensor(f), <<f.hidden, f.vocab>>, FALSE>> >>
  \o (IF RopeFreqs \in Tensors(f)
      THEN << <<RopeFreqs, <<RopeDimensions(f) \div 2>>, TRUE>> >> ELSE <<>>)
  \o FlattenSeq([ i \in 1..f.layers |->
       LET l == i - 1 IN
       << <<<<l, "attn_norm">>, <<f.hidden>>, TRUE>>,
          <<<<l, "attn_q">>, <<f.hidden, QWidth(f)>>, FALSE>>,
          <<<<l, "attn_k">>, <<f.hidden, KvWidth(f)>>, FALSE>>,
          <<<<l, "attn_v">>, <<f.hidden, KvWidth(f)>>, FALSE>>,
          <<<<l, "attn_output">>, <<QWidth(f), f.hidden>>, FALSE>>,
          <<<<l, "ffn_norm">>, <<f.hidden>>, TRUE>>,
          <<<<l, "ffn_gate">>, <<f.hidden, f.ffn>>, FALSE>>,
          <<<<l, "ffn_up">>, <<f.hidden, f.ffn>>, FALSE>>,
          <<<<l, "ffn_down">>, <<f.ffn, f.hidden>>, FALSE>> >>
       \o (IF f.arch = "qwen3"
           THEN << <<<<l, "attn_q_norm">>, <<HeadDim(f)>>, TRUE>>,
                   <<<<l, "attn_k_norm">>, <<HeadDim(f)>>, TRUE>> >> ELSE <<>>) ])
Bound(f) == { Bindings(f)[i][1] : i \in DOMAIN Bindings(f) }

Descriptor(f) ==
  FirstFailure(
    << <<"unsupported_architecture", f.arch \in {"llama", "qwen3"}>>,
       <<"unsupported_execution_requirement", f.needs \cap {"expert", "ssm", "sliding"} = {}>>,
       <<"invalid_dimension", {f.hidden, f.heads, f.kvHeads} \subseteq Nat \ {0}>>,
       <<"invalid_gqa", f.heads % f.kvHeads = 0>>,
       <<"missing_metadata", f.arch = "qwen3" => f.keyLength > 0>>,
       <<"invalid_head_dimension", f.keyLength = 0 => f.hidden % f.heads = 0>>,
       <<"unsupported_value_dimension", f.valueLength \in {0, HeadDim(f)}>>,
       <<"invalid_rope", RopeDimensions(f) <= HeadDim(f) /\ RopeDimensions(f) % 2 = 0>>,
       <<"invalid_dimension", {f.layers, f.context, f.ffn} \subseteq Nat \ {0}>>,
       <<"missing_metadata", f.eps > 0 /\ f.ropeBase > 0>>,
       <<"missing_tensor", Embedding \in Tensors(f)>>,
       <<"vocabulary_mismatch", f.tokens = f.vocab>> >>
    \o FlattenSeq([ i \in DOMAIN Bindings(f) |->
         ValidateTensor(f, Bindings(f)[i][1], Bindings(f)[i][2], Bindings(f)[i][3]) ])
    \o << <<"unsupported_position_semantics", "scaling" \notin f.needs>>,
          <<"unsupported_attention_semantics", "softcap" \notin f.needs>>,
          <<"unplanned_tensor", Tensors(f) \subseteq Bound(f)>> >>)

-----------------------------------------------------------------------------
(* DenseExecutionPlan::compile and the contract of every operator.         *)

RmsNorm(t) == [op |-> "norm", weights |-> <<t>>, input |-> 0, output |-> 0]
Linear(t, input, output) == [op |-> "linear", weights |-> <<t>>, input |-> input, output |-> output]
Plain_(op) == [op |-> op, weights |-> <<>>, input |-> 0, output |-> 0]

LayerPlan(f, l) ==
  << RmsNorm(<<l, "attn_norm">>),
     Linear(<<l, "attn_q">>, f.hidden, QWidth(f)),
     Linear(<<l, "attn_k">>, f.hidden, KvWidth(f)),
     Linear(<<l, "attn_v">>, f.hidden, KvWidth(f)) >>
  \o (IF f.arch = "qwen3"
      THEN << [op |-> "head_norm", weights |-> <<<<l, "attn_q_norm">>, <<l, "attn_k_norm">>>>,
               input |-> HeadDim(f), output |-> HeadDim(f)] >> ELSE <<>>)
  \o << Plain_("cache_write"), Plain_("attention"),
        Linear(<<l, "attn_output">>, QWidth(f), f.hidden), Plain_("residual"),
        RmsNorm(<<l, "ffn_norm">>),
        Linear(<<l, "ffn_gate">>, f.hidden, f.ffn),
        Linear(<<l, "ffn_up">>, f.hidden, f.ffn),
        Plain_("gate"),
        Linear(<<l, "ffn_down">>, f.ffn, f.hidden), Plain_("residual") >>

Plan(f) ==
  FlattenSeq([ i \in 1..f.layers |-> LayerPlan(f, i - 1) ])
  \o << RmsNorm(OutputNorm), Linear(HeadTensor(f), f.hidden, f.vocab) >>

(* TensorView::weight and OperatorContract::infer_shapes: the weights lie  *)
(* inside the file, have the operator's shape and a format it takes, and   *)
(* the output is as wide as the next operator expects.                     *)
InFile(f, t, offsets) == offsets[t] + Bytes(f, t[2]) <= FileSize(f, offsets)

InferShapes(f, op) ==
  CASE op.op = "norm" ->
         /\ Format(f, op.weights[1][2]) = "F32"
         /\ Shape(f, op.weights[1][2]) = <<f.hidden>>
    [] op.op = "linear" ->
         LET shape == Shape(f, op.weights[1][2]) IN
         /\ Len(shape) = 2 /\ shape[1] = op.input /\ shape[2] = op.output
         /\ Format(f, op.weights[1][2]) \in Supported
    [] op.op = "head_norm" ->
         \A i \in 1..2 : /\ Format(f, op.weights[i][2]) = "F32"
                         /\ Shape(f, op.weights[i][2]) = <<op.input>>
    [] op.op = "attention" ->
         /\ f.heads % f.kvHeads = 0
         /\ RopeDimensions(f) \in 1..HeadDim(f) /\ RopeDimensions(f) % 2 = 0
    [] op.op = "cache_write" -> f.context >= 1
    [] op.op \in {"residual", "gate"} -> TRUE

OperatorCode ==
  [norm |-> "operator_norm", linear |-> "operator_linear", head_norm |-> "operator_head_norm",
   cache_write |-> "operator_cache_write", attention |-> "operator_attention",
   residual |-> "operator_residual", gate |-> "operator_gate"]

CheckedOperators(f, offsets) ==
  FirstFailure([ i \in DOMAIN Plan(f) |->
    LET op == Plan(f)[i] IN
    << OperatorCode[op.op],
       /\ \A k \in DOMAIN op.weights : InFile(f, op.weights[k], offsets)
       /\ InferShapes(f, op) >> ])

(* inspect_model: the descriptor and the operators, nothing of a device.   *)
Inspect(f, offsets) ==
  LET code == Descriptor(f) IN IF code = OK THEN CheckedOperators(f, offsets) ELSE code

-----------------------------------------------------------------------------
(* The specification the kernels run on, read from the metadata by another *)
(* route: one pass over all keys, whatever stands before their first dot,  *)
(* in the order of a HashMap, so that of several values any may be the     *)
(* last.  Only 32-bit integers are taken.                                  *)

Missing == -1    \* a dimension the pass did not find
Required == {"embedding_length", "block_count", "feed_forward_length", "attention.head_count"}
Integers32 ==
  Required \cup {"attention.head_count_kv", "attention.key_length", "rope.dimension_count",
                 "context_length"}
Epsilons == {"rms_epsilon", "layer_epsilon"}

Found(f, key, own) ==
  (IF own > 0 /\ key \notin f.wide THEN {own} ELSE {})
    \cup { s[2] : s \in { x \in f.strays : x[1] = key } }
OrElse(values, default) == IF values = {} THEN {default} ELSE values

(* What a pass may find.  The epsilon comes with the key it was found      *)
(* under; an RMSNorm of 1e-5 and a base of 10000 are the defaults.         *)
Scan(f) ==
  [ embd : OrElse(Found(f, "embedding_length", f.hidden), Missing),
    layers : OrElse(Found(f, "block_count", f.layers), Missing),
    ffn : OrElse(Found(f, "feed_forward_length", f.ffn), Missing),
    heads : OrElse(Found(f, "attention.head_count", f.heads), Missing),
    kvHeads : OrElse(Found(f, "attention.head_count_kv", f.kvHeads), Missing),
    headDim : OrElse(Found(f, "attention.key_length", f.keyLength), 0),
    rope : OrElse(Found(f, "rope.dimension_count", f.ropeDim), Missing),
    ctx : OrElse(Found(f, "context_length", f.context), 2048),
    epsilon : OrElse({ "rms_epsilon" } \X Found(f, "rms_epsilon", f.eps)
                     \cup { "layer_epsilon" } \X Found(f, "layer_epsilon", 0),
                     <<"rms_epsilon", 1>>),
    ropeBase : OrElse(Found(f, "rope.freq_base", f.ropeBase), 10000) ]

(* Four dimensions must have been found.  The KV heads default to the      *)
(* heads and divide them; the heads divide the width where the rotated     *)
(* part or the dimension of a head is not given.                           *)
FromGgufMetadata(f, m) ==
  LET kv == IF m.kvHeads = Missing THEN m.heads ELSE m.kvHeads IN
  [ panics |-> \/ Missing \in {m.embd, m.layers, m.ffn, m.heads} \/ kv = 0
               \/ m.heads = 0 /\ (m.rope = Missing \/ m.headDim = 0),
    embd |-> m.embd, heads |-> m.heads, kvHeads |-> kv, ffn |-> m.ffn,
    layers |-> m.layers, vocab |-> f.tokens, headDim |-> m.headDim,
    norm |-> m.epsilon[1], eps |-> m.epsilon[2], ropeBase |-> m.ropeBase,
    rope |-> 0, qkNorm |-> FALSE, ctx |-> m.ctx, temp |-> 0, kvBytes |-> 0 ]

(* The rotated part is always the whole head.                              *)
ComputeDerived(s, arch) ==
  LET d == IF s.headDim = 0 THEN s.embd \div s.heads ELSE s.headDim
      q == s.heads * d
      kv == s.kvHeads * d
      scratch == { s.embd + q + 2 * kv + 2 * s.ffn, 2 * s.ffn + s.embd,
                   (IF s.embd < q THEN q ELSE s.embd) + q }
  IN [s EXCEPT !.headDim = d, !.rope = d, !.qkNorm = @ \/ arch = "qwen3",
               !.temp = RoundUp(CHOOSE n \in scratch : \A k \in scratch : k <= n, 1024),
               !.kvBytes = s.ctx * kv * 4]

\* Mutant: the head dimension stays what the keys say.
BugToModelSpec(f, m) ==
  LET derived == ComputeDerived(FromGgufMetadata(f, m), f.arch)
  IN [derived EXCEPT !.qkNorm = {<<0, "attn_q_norm">>, <<0, "attn_k_norm">>} \subseteq Tensors(f)]

(* The head dimension is corrected from the shape of the query weights,    *)
(* where there are heads.                                                  *)
ToModelSpec(f, m) ==
  LET derived == ComputeDerived(FromGgufMetadata(f, m), f.arch)
      qk == {<<0, "attn_q_norm">>, <<0, "attn_k_norm">>} \subseteq Tensors(f)
      inferred == Shape(f, "attn_q")[2] \div derived.heads
      spec == [derived EXCEPT !.qkNorm = qk]
  IN IF derived.heads # 0 /\ inferred > 0 /\ inferred # spec.headDim
     THEN ComputeDerived([spec EXCEPT !.headDim = inferred], f.arch)
     ELSE spec

\* Mutant: the number of KV heads is not compared.
BugSpecMatches(f, s) ==
  /\ s.embd = f.hidden /\ s.heads = f.heads
  /\ s.layers = f.layers /\ s.ffn = f.ffn /\ s.headDim = HeadDim(f) /\ s.vocab = f.vocab
  /\ s.eps = f.eps /\ s.rope = RopeDimensions(f) /\ s.ropeBase = f.ropeBase

SpecMatches(f, s) ==
  /\ s.embd = f.hidden /\ s.heads = f.heads /\ s.kvHeads = f.kvHeads
  /\ s.layers = f.layers /\ s.ffn = f.ffn /\ s.headDim = HeadDim(f) /\ s.vocab = f.vocab
  /\ s.eps = f.eps /\ s.rope = RopeDimensions(f) /\ s.ropeBase = f.ropeBase

(* StateSpec::budget for an F32 state of `capacity` positions.             *)
Budget(f, capacity, maxBuffer, maxTotal) ==
  LET bytes == capacity * KvWidth(f) * 4
  IN bytes <= maxBuffer /\ 2 * bytes * f.layers <= maxTotal

ContextLimit(f) ==
  IF f.requested > 0 THEN f.requested
  ELSE IF f.context < DefaultContext THEN f.context ELSE DefaultContext

(* The factors of the frequencies must be positive, and the tables of      *)
(* cosines and sines must be small enough.                                 *)
PrepareRopeTables(f, capacity) ==
  /\ "bad_factor" \notin f.needs
  /\ capacity * HeadDim(f) <= RopeBudget

(* Every index of the kernels has the width of an address.                 *)
IndexesFit(f) ==
  { f.hidden, f.heads, f.kvHeads, HeadDim(f), f.ffn, f.layers, f.vocab, ContextLimit(f) }
    \subseteq 0 .. AddressSpan - 1
WidthsFit(f) == { QWidth(f), KvWidth(f), 2 * f.ffn + f.hidden } \subseteq 0 .. AddressSpan - 1

(* PreparedDenseModel::load, in its order, when its pass over the metadata *)
(* finds m.  "panic" ends the program.  Softcaps and norms after a block   *)
(* are off in every file the descriptor accepts.                           *)
LoadChecks(f, offsets, m) ==
  LET size == FileSize(f, offsets)
      capacity == ContextLimit(f)
      descriptor == Descriptor(f)
  IN IF "kernel_flag" \in f.needs THEN "unsupported_kernel_configuration"
     ELSE IF size >= AddressSpan THEN "unsupported_address_width"
     ELSE IF descriptor # OK THEN descriptor
     ELSE IF "bad_special_token" \in f.needs THEN "invalid_special_token_metadata"
     ELSE IF capacity > f.context THEN "unsupported_context"
     ELSE IF CheckedOperators(f, offsets) # OK THEN CheckedOperators(f, offsets)
     ELSE IF ~IndexesFit(f) THEN "unsupported_index_width"
     ELSE IF FromGgufMetadata(f, m).panics THEN "panic"
     ELSE IF ToModelSpec(f, m).norm # "rms_epsilon" THEN "unsupported_operator_semantics"
     ELSE IF ~SpecMatches(f, ToModelSpec(f, m)) THEN "model_plan_mismatch"
     ELSE IF ~WidthsFit(f) THEN "unsupported_index_width"
     ELSE IF ~Budget(f, capacity, AddressSpan, TotalBudget) THEN "state_budget"
     ELSE IF ~PrepareRopeTables(f, capacity) THEN "rope_tables"
     ELSE OK

(* The specification of a prepared model has the context it is loaded with.*)
PreparedSpec(f, m) == ComputeDerived([ToModelSpec(f, m) EXCEPT !.ctx = ContextLimit(f)], f.arch)
=============================================================================
