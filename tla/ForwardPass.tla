----------------------------- MODULE ForwardPass -----------------------------
(***************************************************************************)
(* One chunked forward of pipeline/inference.rs: every pass records the    *)
(* dispatches of its layers in the encoder of the TdrScheduler             *)
(* (backend/tdr.rs), which submits it and waits at checkpoints, and the    *)
(* diagnostic readbacks copy a buffer by an encoder of their own.          *)
(*                                                                         *)
(* What is hard here is the gap between a recorded dispatch and an         *)
(* executed one: a copy sees only what has been submitted before it.       *)
(*                                                                         *)
(* Abstracted: the contents of buffers (a readback shows the last executed *)
(* dispatch that wrote what it copies), several readbacks in a row with    *)
(* nothing recorded in between (one), the selection of a position, a layer *)
(* or a whole batch for capture (everything is selected), and the lease,   *)
(* which GpuRuntime models.                                                *)
(***************************************************************************)
EXTENDS Integers, FiniteSets, SequencesExt

CONSTANTS
  LayerCount,      \* layers of the model
  Prompts,         \* numbers of rows of a call
  ChunkTokens,     \* rows of one pass
  QkvChunk,        \* rows of one QKV dispatch, SHIMMY_PREFILL_CHUNK
  YieldInterval,   \* QKV_YIELD_INTERVAL, 16 in the code
  LargeBatch,      \* 8 in the code
  Budget,          \* budget_ms
  Micros,          \* microseconds the GPU needs for one row of a dispatch
  HeadWorkgroups,  \* workgroups of the LM head
  SafeWorkgroups,  \* what ensure_calibrated answers
  Options          \* see OptionType

Layers == 1 .. LayerCount

\* stages, trace, dump: environment variables; sink, inv: installed sinks;
\* qkNorm, postNorm: the model's; ffnNorm: the layers whose FFNNorm is
\* dispatched; head: where the head weights are; window: how many
\* workgroups of the head a blob window can reach.
OptionType == [stages : BOOLEAN, trace : BOOLEAN, dump : BOOLEAN,
               sink : BOOLEAN, inv : BOOLEAN, qkNorm : BOOLEAN,
               postNorm : BOOLEAN, ffnNorm : SUBSET Layers,
               head : {"blob", "f32"}, window : Nat]

ASSUME ForwardAssumption ==
  /\ LayerCount \in Nat \ {0} /\ Prompts \subseteq Nat \ {0}
  /\ {ChunkTokens, QkvChunk, YieldInterval, HeadWorkgroups, SafeWorkgroups}
       \subseteq Nat \ {0}
  /\ {LargeBatch, Budget, Micros} \subseteq Nat
  /\ Options \subseteq OptionType

VARIABLES
  options,      \* what the call was started with
  rows, from,   \* rows of the call; current_pos of the running pass
  phase,        \* Start, Layers, Head, Readback, Returned; the call
                \* ends in Ok, Failed or Panicked
  layer, at,    \* the layer and the point of its body that is next
  offset,       \* qkv_offset
  encoder,      \* dispatches recorded and not submitted
  gpu,          \* dispatches of this pass that were submitted, in order
  accumulated,  \* accumulated_ms
  samples,      \* what the readbacks showed
  maps          \* output buffers whose map callback has been received

vars == <<options, rows, from, phase, layer, at, offset, encoder, gpu,
          accumulated, samples, maps>>

Least(a, b) == IF a < b THEN a ELSE b

BatchSize == Least(ChunkTokens, rows - from)

\* A dispatch of a kernel for a layer, over the rows (or, for the LM head,
\* the workgroups) first .. first + count - 1.
Dispatch(k, l, first, count) ==
  [kernel |-> k, layer |-> l, first |-> first, count |-> count]

Kernels == {"AttnNorm", "Qkv", "QkNorm", "AttnOut", "AttnProj",
            "PostAttnNorm", "FfnNorm", "FfnProj", "FfnDown", "PostFfwNorm",
            "CopyPreNorm", "FinalNorm", "LmHead", "CopyOut"}

\* The body of the layer loop: dispatches, peel readbacks, checkpoints and
\* the readbacks after the boundary, in the order of the code.
Body == << <<"peel", "residual_in">>,   <<"kernel", "AttnNorm">>,
           <<"peel", "attn_norm">>,     <<"qkv", "Qkv">>,
           <<"peel", "qkv">>,           <<"kernel", "QkNorm">>,
           <<"peel", "qk_norm">>,       <<"kernel", "AttnOut">>,
           <<"peel", "attn_ctx">>,      <<"check", "attn_out">>,
           <<"kernel", "AttnProj">>,    <<"peel", "attn_residual">>,
           <<"kernel", "PostAttnNorm">>, <<"kernel", "FfnNorm">>,
           <<"peel", "ffn_norm">>,      <<"kernel", "FfnProj">>,
           <<"peel", "ffn_gate_up">>,   <<"kernel", "FfnDown">>,
           <<"peel", "ffn_residual">>,  <<"check", "ffn_down">>,
           <<"kernel", "PostFfwNorm">>, <<"check", "boundary">>,
           <<"capture", "capture">>,    <<"dump", "dump">>,
           <<"trace", "trace">> >>

Kind == Body[at][1]
Point == Body[at][2]

Init ==
  /\ options \in Options
  /\ rows \in Prompts /\ from = 0
  /\ phase = "Start"
  /\ layer = 1 /\ at = 1 /\ offset = 0
  /\ encoder = <<>> /\ gpu = <<>>
  /\ accumulated = 0
  /\ samples = {} /\ maps = {}

-----------------------------------------------------------------------------
(* TdrScheduler *)

RowsOf(cmds) == FoldLeft(LAMBDA sum, c : sum + c.count, 0, cmds)

\* Milliseconds of a round trip, truncated as by as_millis.
Elapsed(cmds) == (Micros * RowsOf(cmds)) \div 1000

\* Mutant: the encoder is replaced, the old one is never submitted.
BugSubmit(cmds) ==
  /\ gpu' = gpu
  /\ encoder' = <<>>

Submit(cmds) ==
  /\ gpu' = gpu \o cmds
  /\ encoder' = <<>>

\* force_yield: submit and wait; the round trip is added to accumulated_ms.
ForceYield(cmds) ==
  /\ Submit(cmds)
  /\ accumulated' = accumulated + Elapsed(cmds)

\* yield_if_needed
YieldIfNeeded(cmds) ==
  IF accumulated >= Budget
    THEN Submit(cmds) /\ accumulated' = 0
    ELSE encoder' = cmds /\ UNCHANGED <<gpu, accumulated>>

-----------------------------------------------------------------------------
(* Readbacks *)

NoDispatch == Dispatch("none", 0, 0, 0)

\* The last dispatch of cmds by one of the kernels ks.
LastOf(cmds, ks) ==
  LET of == {i \in DOMAIN cmds : cmds[i].kernel \in ks}
  IN IF of = {} THEN NoDispatch ELSE cmds[Max(of)]

\* main_post_attn_norm and main_post_ffw_norm return at once without post
\* norms.
ActivationWriters ==
  {"AttnProj", "FfnDown"} \cup
  (IF options.postNorm THEN {"PostAttnNorm", "PostFfwNorm"} ELSE {})

\* The stages that have a buffer, and the kernel that writes it.
StageKernel == [attn_norm |-> "AttnNorm", qkv |-> "Qkv", qk_norm |-> "QkNorm",
                attn_ctx |-> "AttnOut", ffn_norm |-> "FfnNorm",
                ffn_gate_up |-> "FfnProj"]

\* The kernels that write what a readback copies.
Writers(point) ==
  IF point \in DOMAIN StageKernel THEN {StageKernel[point]} ELSE ActivationWriters

Sample(point, executed) ==
  [from |-> from, batch |-> BatchSize, layer |-> layer, point |-> point,
   shows |-> LastOf(executed, Writers(point))]

\* stage_trace_enabled
DoStageTrace == options.stages \/ (options.trace /\ BatchSize > 1)
DoPeel == DoStageTrace \/ options.sink
PeelThisLayer == (DoStageTrace /\ layer = 1) \/ options.sink

-----------------------------------------------------------------------------
(* The layer loop *)

\* The next point of the body, of the next layer, or the head.
Advance ==
  IF at < Len(Body)
    THEN at' = at + 1 /\ UNCHANGED <<phase, layer>>
    ELSE /\ at' = 1
         /\ IF layer < LayerCount
              THEN layer' = layer + 1 /\ UNCHANGED phase
              ELSE phase' = "Head" /\ UNCHANGED layer

\* A pass begins with a new scheduler.  With peel on, its input is read
\* back; the value is only logged.
StartPass ==
  /\ phase = "Start"
  /\ phase' = "Layers" /\ layer' = 1 /\ at' = 1 /\ offset' = 0
  /\ UNCHANGED <<options, rows, from, encoder, gpu, accumulated, samples, maps>>

Kernel ==
  /\ phase = "Layers" /\ Kind = "kernel"
  /\ IF Point = "FfnNorm" /\ layer \notin options.ffnNorm
       THEN UNCHANGED encoder
       ELSE encoder' = Append(encoder, Dispatch(Point, layer, 0, BatchSize))
  /\ Advance
  /\ UNCHANGED <<options, rows, from, offset, gpu, accumulated, samples, maps>>

ThisChunk == Least(BatchSize - offset, QkvChunk)

IntervalYield ==
  LET i == offset \div QkvChunk
  IN BatchSize > 1 /\ i > 0 /\ i % YieldInterval = 0

\* One turn of the QKV loop.
QkvTurn ==
  LET cmds == Append(encoder, Dispatch("Qkv", layer, offset, ThisChunk)) IN
  /\ phase = "Layers" /\ Kind = "qkv"
  /\ IF IntervalYield
       THEN ForceYield(cmds)
       ELSE encoder' = cmds /\ UNCHANGED <<gpu, accumulated>>
  /\ IF offset + ThisChunk < BatchSize
       THEN offset' = offset + ThisChunk /\ UNCHANGED <<phase, layer, at>>
       ELSE offset' = 0 /\ Advance
  /\ UNCHANGED <<options, rows, from, samples, maps>>

Peels == PeelThisLayer /\ (Point = "qk_norm" => options.qkNorm)

\* Mutant: the copy is submitted before the recorded work.
BugPeel ==
  /\ phase = "Layers" /\ Kind = "peel"
  /\ IF Peels
       THEN /\ Submit(encoder)
            /\ accumulated' = 0
            /\ samples' = samples \cup {Sample(Point, gpu)}
       ELSE UNCHANGED <<gpu, encoder, accumulated, samples>>
  /\ Advance
  /\ UNCHANGED <<options, rows, from, offset, maps>>

\* peel_stage_readback: force_yield, copy, submit, wait, reset_accumulator.
Peel ==
  /\ phase = "Layers" /\ Kind = "peel"
  /\ IF Peels
       THEN /\ Submit(encoder)
            /\ accumulated' = 0
            /\ samples' = samples \cup {Sample(Point, gpu \o encoder)}
       ELSE UNCHANGED <<gpu, encoder, accumulated, samples>>
  /\ Advance
  /\ UNCHANGED <<options, rows, from, offset, maps>>

\* Mutant: the boundary of a layer yields only on budget, as in a decode.
BugForced == Point = "attn_out" /\ BatchSize > LargeBatch

\* Checkpoints that do not ask the budget.
Forced ==
  \/ Point = "attn_out" /\ BatchSize > LargeBatch
  \/ Point = "boundary" /\ BatchSize > 1

Checkpoint ==
  /\ phase = "Layers" /\ Kind = "check"
  /\ IF Forced THEN ForceYield(encoder) ELSE YieldIfNeeded(encoder)
  /\ Advance
  /\ UNCHANGED <<options, rows, from, offset, samples, maps>>

\* emit_layer_capture and emit_layer_dump_state copy without a yield: what
\* is still in the encoder is not in the copy.
Capture ==
  /\ phase = "Layers" /\ Kind \in {"capture", "dump"}
  /\ IF IF Kind = "dump" THEN options.dump ELSE options.inv \/ options.sink
       THEN samples' = samples \cup {Sample(Point, gpu)}
       ELSE UNCHANGED samples
  /\ Advance
  /\ UNCHANGED <<options, rows, from, offset, encoder, gpu, accumulated, maps>>

\* The layer trace yields first, then copies and resets the accumulator.
Trace ==
  /\ phase = "Layers" /\ Kind = "trace"
  /\ IF options.trace
       THEN /\ Submit(encoder)
            /\ accumulated' = 0
            /\ samples' = samples \cup {Sample(Point, gpu \o encoder)}
       ELSE UNCHANGED <<gpu, encoder, accumulated, samples>>
  /\ Advance
  /\ UNCHANGED <<options, rows, from, offset, maps>>

-----------------------------------------------------------------------------
(* Head and readback *)

\* The i-th tile of the tiled path, i from 0.
Tile(i) ==
  Dispatch("LmHead", 0, i * SafeWorkgroups,
           Least(HeadWorkgroups - i * SafeWorkgroups, SafeWorkgroups))

Tiles == (HeadWorkgroups + SafeWorkgroups - 1) \div SafeWorkgroups

\* Weights in their own buffer, or few workgroups: one dispatch.
LmHead ==
  IF options.head = "f32" \/ HeadWorkgroups <= SafeWorkgroups
    THEN <<Dispatch("LmHead", 0, 0, HeadWorkgroups)>>
    ELSE [i \in 1 .. Tiles |-> Tile(i - 1)]

\* lm_head_window fails for a tile that no window covers.
TileTooFar ==
  /\ options.head = "blob" /\ HeadWorkgroups > SafeWorkgroups
  /\ \E i \in 0 .. Tiles - 1 : Tile(i).first + Tile(i).count > options.window

\* The copies, the final norm and the LM head follow what is still in the
\* encoder; submit_final does not wait.
OutputHead ==
  /\ phase = "Head" /\ ~TileTooFar
  /\ Submit(encoder \o <<Dispatch("CopyPreNorm", 0, 0, 1),
                         Dispatch("FinalNorm", 0, 0, 1)>>
                    \o LmHead \o <<Dispatch("CopyOut", 0, 0, 1)>>)
  /\ phase' = "Readback"
  /\ UNCHANGED <<options, rows, from, layer, at, offset, accumulated, samples,
                 maps>>

\* expect: LM head tile tensor span exceeds window capacity.
HeadPanics ==
  /\ phase = "Head" /\ TileTooFar
  /\ phase' = "Panicked"
  /\ UNCHANGED <<options, rows, from, layer, at, offset, encoder, gpu,
                 accumulated, samples, maps>>

Outputs == {"pre_norm", "l21", "logits"}

Received(b) == maps \cup {b}

\* The three map callbacks arrive in any order.
Mapped ==
  /\ phase = "Readback"
  /\ \E b \in Outputs \ maps : maps' = Received(b)
  /\ phase' = IF maps' = Outputs THEN "Returned" ELSE phase
  /\ UNCHANGED <<options, rows, from, layer, at, offset, encoder, gpu,
                 accumulated, samples>>

MoreChunks == from + BatchSize < rows

\* The loop over the chunks of the call; the pass drops what it owns.
NextChunk ==
  /\ phase = "Returned"
  /\ IF MoreChunks
       THEN phase' = "Start" /\ from' = from + BatchSize
       ELSE phase' = "Ok" /\ UNCHANGED from
  /\ encoder' = <<>> /\ gpu' = <<>>
  /\ accumulated' = 0 /\ maps' = {}
  /\ UNCHANGED <<options, rows, layer, at, offset, samples>>

\* Does the next step wait for the GPU?
Polls ==
  \/ phase = "Start" /\ DoPeel
  \/ phase = "Readback"
  \/ /\ phase = "Layers"
     /\ \/ Kind = "qkv" /\ IntervalYield
        \/ Kind = "peel" /\ Peels
        \/ Kind = "check" /\ (Forced \/ accumulated >= Budget)
        \/ Kind = "trace" /\ options.trace

\* The device is lost: `?` ends the pass, and with it the call.
GpuLost ==
  /\ Polls
  /\ phase' = "Failed"
  /\ UNCHANGED <<options, rows, from, layer, at, offset, encoder, gpu,
                 accumulated, samples, maps>>

\* The two captures expect the device.
GpuLostInCapture ==
  /\ phase = "Layers"
  /\ \/ Kind = "capture" /\ (options.inv \/ options.sink)
     \/ Kind = "dump" /\ options.dump
  /\ phase' = "Panicked"
  /\ UNCHANGED <<options, rows, from, layer, at, offset, encoder, gpu,
                 accumulated, samples, maps>>

Next ==
  \/ StartPass \/ Kernel \/ QkvTurn \/ Peel \/ Checkpoint \/ Capture \/ Trace
  \/ OutputHead \/ HeadPanics \/ Mapped \/ NextChunk \/ GpuLost \/ GpuLostInCapture

Spec == Init /\ [][Next]_vars

-----------------------------------------------------------------------------
(* Properties *)

Recorded == gpu \o encoder

\* The indices of the dispatches of a kernel for layer l that cover unit u.
Covering(cmds, k, l, u) ==
  {j \in DOMAIN cmds : /\ cmds[j].kernel = k /\ cmds[j].layer = l
                       /\ u \in cmds[j].first ..
                                  cmds[j].first + cmds[j].count - 1}

\* Every row's Q, K and V of a layer are computed once, before the layer's
\* QK norm and after its attention norm, and no row beyond the batch is,
\* however the chunks and the yields between them fall.
QkvCoversRows ==
  \A i \in DOMAIN Recorded :
    LET l == Recorded[i].layer IN
    /\ Recorded[i].kernel = "QkNorm" =>
         \A r \in 0 .. BatchSize - 1 :
           \E j \in 1 .. i - 1 :
             Covering(Recorded, "Qkv", l, r) = {j}
    /\ Recorded[i].kernel = "Qkv" =>
         /\ Recorded[i].first + Recorded[i].count <= BatchSize
         /\ \E j \in 1 .. i - 1 : Recorded[j].kernel = "AttnNorm"
                                  /\ Recorded[j].layer = l

\* What a pass is, without yields and tiles: the kernels of its layers apart
\* from QKV, and of its head apart from the LM head.
Reference ==
  (({"AttnNorm", "QkNorm", "AttnOut", "AttnProj", "PostAttnNorm", "FfnNorm",
     "FfnProj", "FfnDown", "PostFfwNorm"} \X Layers)
     \ ({"FfnNorm"} \X (Layers \ options.ffnNorm)))
  \cup ({"CopyPreNorm", "FinalNorm", "CopyOut"} \X {0})

HeadOrder == <<"CopyPreNorm", "FinalNorm", "LmHead", "CopyOut">>

\* Where a dispatch belongs: by layer and place in the body, the head last.
Rank(c) ==
  IF c.layer = 0
    THEN Len(Body) * (LayerCount + 1)
           + (CHOOSE i \in DOMAIN HeadOrder : HeadOrder[i] = c.kernel)
    ELSE Len(Body) * c.layer
           + (CHOOSE i \in DOMAIN Body : Body[i][2] = c.kernel)

Work(c) == <<c.kernel, c.layer>>

Running(cmds, w) == {i \in DOMAIN cmds : Work(cmds[i]) = w}

\* A pass that returns its outputs has received all three, and has run on
\* the GPU exactly the kernels of the model, each once and all in order: no
\* yield, readback or tiling loses, repeats or reorders a dispatch.
GpuRunsThePass ==
  phase = "Returned" =>
    /\ maps = Outputs
    /\ \A w \in Reference : \E i \in DOMAIN gpu : Running(gpu, w) = {i}
    /\ \A i \in DOMAIN gpu :
         gpu[i].kernel \in {"Qkv", "LmHead"} \/ Work(gpu[i]) \in Reference
    /\ \A i, j \in DOMAIN gpu : i < j => Rank(gpu[i]) <= Rank(gpu[j])

\* The logits of every workgroup of the vocabulary are computed once, after
\* the final norm and before they are copied, with or without tiles.
HeadCoversVocabulary ==
  phase = "Returned" =>
    /\ \A w \in 0 .. HeadWorkgroups - 1 :
         Cardinality(Covering(gpu, "LmHead", 0, w)) = 1
    /\ \A i \in DOMAIN gpu :
         gpu[i].kernel = "LmHead" =>
           /\ gpu[i].first + gpu[i].count <= HeadWorkgroups
           /\ \E f \in 1 .. i - 1 : gpu[f].kernel = "FinalNorm"

\* A pass computes all it is meant to and nothing else: QKV of every row,
\* the kernels of every layer in order, and the whole vocabulary.
PassIsComplete == QkvCoversRows /\ GpuRunsThePass /\ HeadCoversVocabulary

Pending(ks) == {j \in DOMAIN encoder : encoder[j].kernel \in ks}

\* In a prefill the work that waits for submission is never of two layers, nor
\* more than an interval of QKV dispatches (the turn that yields submits one
\* more), nor, for a large batch, attention and its projection together: this
\* is what keeps a submission below the watchdog.
SubmissionsBounded ==
  phase = "Layers" /\ BatchSize > 1 =>
    /\ \A i, j \in DOMAIN encoder : encoder[i].layer = encoder[j].layer
    /\ Cardinality(Pending({"Qkv"})) <= YieldInterval
    /\ BatchSize > LargeBatch =>
         Pending({"AttnOut"}) = {} \/ Pending({"AttnProj"}) = {}

\* The kernel whose effect a readback is meant to show.
Meant(s) ==
  IF s.point \in DOMAIN StageKernel THEN StageKernel[s.point]
  ELSE IF s.point = "attn_residual" THEN "AttnProj"
  ELSE IF s.point = "ffn_residual" \/ ~options.postNorm THEN "FfnDown"
  ELSE "PostFfwNorm"

\* A readback shows the named stage of its own layer (the residual that
\* comes in: the output of the layer before, or the embeddings) with the
\* last row of the pass.
Fresh(s) ==
  LET l == IF s.point = "residual_in" THEN s.layer - 1 ELSE s.layer IN
  IF l = 0
    THEN s.shows = NoDispatch
    ELSE /\ s.shows.layer = l /\ s.shows.kernel = Meant(s)
         /\ s.shows.first + s.shows.count = s.batch

\* Every stage readback and layer trace, and in a pass of several rows
\* every capture and dump as well, shows what it is named after, except the
\* FFN norm of a layer that does not dispatch it.
SamplesAreFresh ==
  \A s \in samples :
    \/ s.point \in {"capture", "dump"} /\ s.batch = 1
    \/ s.point = "ffn_norm" /\ s.layer \notin options.ffnNorm
    \/ Fresh(s)

\* What layer_dump_gpu relies on: with a prompt of several tokens the dump
\* of the last position shows the layers' outputs.
DumpShowsOutput ==
  \A s \in samples :
    s.point = "dump" /\ rows > 1 /\ s.from + s.batch = rows => Fresh(s)

\* What the comment of the L.S7 readback says: it shows the output of
\* main_ffn_norm.
FfnNormStageIsReal ==
  \A s \in samples : s.point = "ffn_norm" => Fresh(s)

\* What the scheduler is for: past a checkpoint, the work that is recorded
\* and not yet submitted is below the budget.
BudgetIsKept ==
  phase = "Layers" /\ at > 1 /\ Body[at - 1][1] = "check" =>
    Elapsed(encoder) < Budget

=============================================================================
