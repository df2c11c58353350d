# airframe: TLA+ models, checks and proofs

airframe runs a transformer on the GPU through a "bindless" wgpu backend. A
call to `GpuRuntime::generate` turns a prompt into tokens. What makes the
program hard is not one function but the way its parts share state:

* a KV cache on the GPU that several runtimes and threads may reach, guarded by
  a lease protocol over two atomics (`runtime/state.rs`),
* a rule system that drives prefill, decode and stop decisions by deriving
  facts (`crates/airframe_observe/src/isf.rs`),
* hooks between two tokens, each with a state of its own that must stay in step
  with the streamed text (`control.rs` and the controls),
* error and panic paths that cross all of the above (`runtime/gpu.rs`).

This directory models these parts in TLA+, checks them with TLC on small
instances and proves, with TLAPS, the lease protocol, the runtime around it, the
fabric of rules, the controls, the forward pass, the kernels of a layer, the
weights and the profile correct for every instance. Paths below are relative to `src/`.

## 1. Inventory

Status: M = modelled, P = partly, N = not modelled (yet). `PROJECT.json` has
one entry per component, with its sources.

| Component | State | Operations | Status |
|---|---|---|---|
| KV state contract (`runtime/state.rs`) | `active`, `epoch` atomics; a lease: phase, processed, prompt, pending write, closed | begin, start_prefill, prepare_prefill_chunk, prepare_decode, commit, finish, abort, drop; `StateSpec::budget` | M |
| Fact fabric (`isf.rs`, `facts.rs`, `quant_formula.rs`) | fact store, worklist, `ISFState` | try_generate, rules 1a to 7, KvAdvance rule, TensorFact rule, run budget | P |
| GPU runtime (`runtime/gpu.rs`) | request gate, shared KV cache, first error of a call | load_with_context, generate, try_reset, the closures given to the fabric | P: no legacy entry points |
| Request binding (`loader.rs`), KV cache handle (`kv_cache.rs`) | `bound_state`, `seq_len` | begin_request, drop of `ModelRequest`, validate_state_access, reset, set_seq_len | P: no buffer sizes |
| Chunked forward (`pipeline/inference.rs`) | rows left, the lease's pending write; recorded and submitted dispatches | chunk loop, lease checks, commit or abort; layer loop, QKV chunks, diagnostic readbacks, LM head tiles, readback poll | P: no buffer set-up |
| GPU pipelines and shaders (`pipeline/*.rs`, `pipeline_shift.rs`, `*.wgsl`) | residual stream, scratch, K/V cache, its packed copy | bind groups; the kernels of a layer, of the cache and of single matrices; the entry points that string them together | P: no floating point |
| Admission, execution plans (`execution/*`, `model_descriptor.rs`, `core/spec.rs`) | none | descriptor, plan, operator contracts, specification, budgets, device check | P |
| Blob windows and chunk plan (`loader.rs`, `metadata.rs`) | resident chunks | compute_chunk_plan, windows of every dispatch, packed offsets, upload | P: no fused QKV |
| Dequantisation (`quant_formula.rs`, `core/dequant`, three shaders) | none | one element of each of eight formats, on the registry, the CPU and the GPU | P |
| Profiling (`profiling.rs` in both crates, timestamp pool) | aggregates, finished flag, pool and its readback buffer | load and generation events, frames, compute passes, readback, record, finish, drop | P: no counters that are only summed |
| Controls (`control.rs`, `fse_control.rs`, `grammar.rs`, `schoolmarm_control.rs`, `math_bypass_control.rs`) | scan cursor and bytes consumed, grammar state, answer queue | mask, intervene, the chain | P |
| libfse scanner (`crates/libfse`) | automaton, cursor | compile, scan_with_cursor | P: Reject rules only |
| TDR scheduling (`backend/tdr.rs`, `tdr_calibration.rs`) | encoder, accumulated time | force_yield, yield_if_needed, layer checkpoints | P: no calibration file |
| GGUF data (`core/model.rs`, ...) | none | reading of the output head | P: no parsing, no CPU model |
| Observation session (`session.rs`, `observers.rs`, `plan.rs`) | fact store, scheduler | emit, saturate | N: only tests open one |
| CPU KV cache (`runtime/kvcache.rs`) | length, snapshot version | append, truncate, reset | N: only the CPU reference path |
| Sampling (`sampling.rs`) | RNG | sample | N: floating point; the models let it return any token |
| Debug, conformance and validation tools | reports | compare, write | N: sequential tools |

**How they interact.** `generate` takes the runtime's request gate, checks the
context length, and under the KV cache lock asks the loader for a request: the
loader begins a lease on the cache's controller and binds it to the model. The
runtime then builds a fabric around closures: `prefill_fn` and `forward_fn`
lock the cache and run chunks, each of which prepares a write on the lease,
runs the GPU and commits or aborts; the hook looks at the recorded error, asks
the controls, and streams. When the fabric has halted, the recorded error is
returned or the lease is finished; then binding, lease and gate go, in this
order, also when the call unwinds from a panic. Before any of this,
`load_with_context` admits the file, checks adapter and device against it and
uploads it in chunks; the layer table made then says, for each dispatch of a
pass, through which window and with which formula its kernel reads a tensor.
Around it all, a profile session observes load, generation and passes.

**Hard behaviours and what makes each component correct.**

* *Lease*: `begin` is two or three atomic steps that race with the release
  store of another thread. Correct: one owner; the open lease has the current
  epoch; the committed prefix is contiguous and in bounds; a copied write token
  commits once; the flag is always given back.
* *Fabric*: rules run in the order of an external worklist, facts are
  deduplicated. Correct: one prefill, consecutive positions, nothing after the
  halt, the limit and stop tokens decide as they should, the budget is enough,
  there is always a terminal reason.
* *Runtime*: nested locks, poisoning, one error of several, two runtimes over
  one cache. Correct: GPU work is owned; every way out leaves nothing behind;
  the first error is the one returned; an admitted request is not refused later.
* *Controls*: incremental state, and an order of the chain that decides who
  sees what. Correct: a pattern across tokens is seen; mask and grammar control
  agree; a forced answer is streamed exactly.
* *Forward pass*: recorded work is not executed work, and the encoder is swapped
  in the middle of a layer. Correct: every dispatch runs once and in order;
  chunks cover the rows and tiles the vocabulary; a prefill submission stays
  short; a readback shows what it is named after.
* *Layer kernels*: fourteen kernels share one scratch area per token, at offsets
  each shader computes for itself. Correct: no kernel reads what another has
  overwritten, not written yet or writes at the same time; every pipeline gets a
  bind group that fits it.
* *Weights*: offsets in bytes, words and half words, relative to a layer, in a
  window of a chunked file, decoded by shaders that repeat a registry. Correct:
  every element comes from its own bits; what is admitted can be loaded and
  dispatched; a model that is ready is resident.
* *Profiling*: a GPU that answers late, a pass that dies. Correct: nothing is
  lost silently, one truthful summary, a time belongs to its pass.

`PROJECT.json` lists the hazards line by line with the properties that answer
them; one without a property says why.

## 2. Modules

| Module | What it is | Code |
|---|---|---|
| `CommittedPrefix` | what the lease protocol promises, without atomics or tokens | abstract |
| `StateLease` | controller and leases, one step per atomic operation or method | `runtime/state.rs` |
| `Generation` | what one generate call promises, without facts or rules | abstract |
| `InferenceFabric` | try_generate: worklist, rules, budget | `isf.rs`, `quant_formula.rs` |
| `GpuRuntime` | threads, runtimes, locks, chunks; composes `StateLease` by INSTANCE | `gpu.rs`, `loader.rs`, `kv_cache.rs`, `inference.rs` |
| `ForwardPass` | passes of one call down to dispatches, checkpoints and readbacks | `inference.rs`, `tdr.rs` |
| `Controls` | chain, scanner control, grammar mask and control, math bypass | the five control files, `store.rs` of libfse |
| `Bindings` | layouts, shader declarations and bind groups, and what wgpu accepts | `pipeline/mod.rs`, the callers, the shaders |
| `LayerKernels` | kernels of a layer and of the cache over memory, entry points as programs; extends `Bindings` | `sh_layer_v1.wgsl` and variants, `layer.rs`, `pipeline_shift.rs` |
| `BlockFormats` | which bits of a block make an element, three times | `quant_formula.rs`, `core/dequant`, the shaders |
| `BlobWindows` | chunk plan, windows, packed offsets, readers of the shaders; extends `BlockFormats` | `loader.rs`, `pipeline/mod.rs`, `sh_dequant_any.wgsl`, `sh_head_blob.wgsl` |
| `Admission` | from the manifest to an admitted model, every check with its code; extends `BlobWindows` | `model_descriptor.rs`, `execution/*`, `spec.rs` |
| `Weights` | load_with_context and the reading of any row afterwards; extends `Admission` | `gpu.rs`, `loader.rs`, `metadata.rs`, `dequant.rs` |
| `Profiling` | events, frames, timestamps and the answers of the GPU | `profiling.rs` (both), `pool_timestamp.rs` |
| `MC*` | values of the constants for TLC | |
| `StateLease_proofs`, `GpuRuntime_proofs`, `InferenceFabric_proofs`, `Controls_proofs`, `ForwardPass_proofs`, `LayerKernels_proofs`, `Profiling_proofs`, `Weights_proofs` | theorems about the module they are named after, with their TLAPS proofs | |

**StateLease.** `active` and `epoch` are the two atomics; `stage[s]` says how far
slot `s` is inside `begin`; `lease[s]` is the `StateLease`; `issued` is every
`StateWrite` handed out, because the type is `Copy` and a caller may present
any it still has. `BeginClaim`, `BeginEpoch`, `BeginExhausted` are the
compare_exchange, the fetch_update and the store on overflow. The methods of a
lease take `&mut self`, so each is one step; `close` writes one atomic. A call
that returns `Err` and writes nothing is not a step. `prepare_decode` sets the
phase to Decode, and puts it back when `prepare` refuses: no step either.

**InferenceFabric.** A fact is a record; the store is a set (insert is a no-op
for a fact already there); the agenda is the facts whose rule has not run. The
external engine's order is not assumed: any fact of the agenda may be next. A
rule with its locks and callbacks is one action, since the engine runs one rule
at a time. Sampling and hooks may answer anything. `Exhaust` and `Saturate` are
the two ways `run_to_fixpoint` returns.

**GpuRuntime.** One program counter per thread; a step runs up to the next lock
operation, write of an atomic or call out. Panics are steps: `KvPanic` poisons
the cache lock, `Leave` poisons the gate. `L` is `StateLease` with threads as
slots, so the lease operations are the very actions of that module. The fabric
is abstracted to what `InferenceFabric` shows of it: one prefill, then one
forward per token at consecutive positions.

**ForwardPass.** The pass that `GpuRuntime` takes as one step. `encoder` holds the
dispatches recorded and not submitted, `gpu` those submitted, both in order.
`Body` is the loop over a layer as a table of points: dispatch, QKV loop, peel
readback, checkpoint, capture, dump, trace; one action per kind of point. A
readback shows the last executed dispatch that wrote what it copies, so a copy
made too early shows an older one. The environment variables, sinks and traits
of the model that decide control flow are the record `options`. A lost device
ends the pass at any step that polls (`GpuLost`), and panics in the two
captures. `ensure_calibrated` and the reach of a blob window are constants.

**Controls.** Text is a sequence of characters, a token has a piece. `tokens` is
the streamed text, `candidate` what was sampled, `asked` how much of the chain
has been asked. External: the automaton of the scanner (state = longest suffix
that begins a pattern) and the grammar (a piece is accepted when some sentence
continues the text).

**LayerKernels.** `memory` maps a cell, <<buffer, address>>, to a value; addresses
are the shaders' own arithmetic. A float is the name of what was computed,
<<what, row, column>>: an invocation loads cells, and stores its value only when
the loads hold everything that value depends on (`Needs`), and "junk"
otherwise. Invocations of a dispatch run in any order: one of them, any, runs
first and all the others together after it, so that two invocations that touch
one cell show their conflict for some choice (`Execute`). An entry point is a program of
dispatches, copies and snapshots; a dispatch first passes the validation of
wgpu, from the layouts and bind groups of `Bindings`.

**Weights.** A file is a record of metadata, formats and the order of its tensors;
`OffsetsOf` lays it out. `wide` names the keys that are 64 bits wide, and `strays`
the keys that stand a second time under another prefix; `Scan` is what one pass
of `from_gguf_metadata` over the HashMap may take from them, in any order, with
the code's defaults for what it did not take. `spec` is the specification that
the load made of it. `Admit`, `Adapter`, `RequestDevice`, `CheckLoad`,
`UploadChunk`, `LoadHead` and `PopScopes` are the steps of `load_with_context`
with every refusal; `scope` is the error scope in which wgpu remembers a failed
allocation. `Read` then takes any tensor, a row and the way the program reads it:
the matrix kernels, the bank of norms, the final norm, embeddings, the expanded
head, the head in the blob in one dispatch or in tiles. What a read returns is a
function from columns to the record of the file's bits each element is computed
from. A read changes nothing another read depends on, so a behaviour reads one.

**Profiling.** `data` is what the handle aggregates, `slot` the timestamp pool that
the passes of a generation hand on, `frame` the running pass, `truth` a history
of what happened. The answer to the readback is a step of its own, which may
come before, during or after the wait of `finish`, as an error, or never. A GPU
time is the name of the pass that wrote the stamp. A summary is written by
`finish` or by the drop of the session; after a panic the gate is poisoned.

## 3. Runs

| Run (cfg) | Question |
|---|---|
| `StateLease.cfg` | two slots over one store, every interleaving with stale tokens: ownership, epochs, prefix, fresh tokens, the contract; is the store always released |
| `InferenceFabric.cfg` | any worklist order, three prompts, limits 0 to 4, run budgets that are enough, too small or overflow: answer, TDR, budget, hook view, refinement of `Generation`, and does every call end |
| `GpuRuntime.cfg` | two threads, one runtime: committed length and extent, admitted requests fit and are never told Busy; do all calls return |
| `GpuRuntimeShared.cfg` | two runtimes over one cache: GPU ownership, leaks, errors |
| `ForwardPass.cfg` | one and several chunks under every combination of diagnostics: coverage and order, bounded submissions, fresh readbacks |
| `LayerKernels.cfg` | ten shapes of a layer through ten entry points: output, cache, readbacks, shift |
| `LayerKernelsInt4.cfg` | violation: the INT4 layer is refused by wgpu (Findings) |
| `Weights.cfg` | 58 files over seven sets of adapters: right bits, dispatchable, resident, agreeing checks, the specification that every kernel uses |
| `WeightsEmbedding.cfg`, `WeightsKeys.cfg` | violations: rows off a word boundary, keys in a format of their own (Findings) |
| `Profiling.cfg` | two generations, four kinds of adapters, any answer: accounting, summaries, times |
| `Controls.cfg` | every chain of distinct controls, in every order, with and without the mask |

Seven more configurations keep counterexamples to what the documentation says
and are run by hand (`tlc -config X.cfg MC<module>`): `InferenceFabricLimit`,
`ControlsGrammar`, `ForwardPassDump`, `ForwardPassFfnNorm`, `ForwardPassBudget`,
`WeightsHead`, `WeightsTiles`. Each one is named in the finding it shows.

**Named parts.** A property that a run checks may be a conjunction whose parts have
names of their own: `AnswerOK` (positions in order, the answer is the streamed
ids, an Ok is complete), `ExtentOK` (the cache's length is what the lease has
committed, and follows the tokens), `PassIsComplete` (QKV rows, order of the
dispatches, head), `OutputIsRight`, `CacheIsRight`, `AdmittedIsDispatchable`,
`ChecksAgree`.

**Bounds, and why they are enough.**
*StateLease*: capacity 3 lets a prompt take two chunks and one decode, or one
chunk and two decodes; `EpochMax` 2 makes the third begin take the overflow
path; arguments go to capacity + 1, so each comparison is tried on both sides.
Two slots race; a third would only repeat the second, and the proofs cover any
number.
*InferenceFabric*: prompts are empty, with a repeated token, and with two
tokens; the vocabulary has an ordinary token, the eos token and an extra stop
token (eos is in the extra list as well, as tokenizers often have it). Times
reach the TDR budget in one or in three passes. `RecentCap` 2 makes the window
slide. `Slack` is the code's constant 64; 2 keeps the formula tight, so that
`BudgetSuffices` is decided by the coefficients and not by the constant.
`WorkMax` 68 stands for the largest u64: the budget of the longest request
overflows it, the others do not.
*GpuRuntime*: capacity 3 and chunk 2 give a prefill of one and of two chunks;
prompt + limit - 1 falls on both sides of the capacity; three calls are enough
for one call to poison, one to be refused and one to be under way; the epoch
overflows at the third begin. With two runtimes the capacity is 2 and the chunk
1, which keeps two chunks per prompt.
*ForwardPass*: two layers show what crosses a layer boundary. Batches of 1, 2, 4
and 5 rows (6 rows are a pass of 5 and one of 1) lie on both sides of
`LargeBatch` 3 and of 1; QKV chunks of 2 rows give whole and cut last chunks;
`YieldInterval` 1 instead of 16 makes interval yields happen. `Budget` and
`Micros` let forced yields fill the accumulator within a pass, so conditional
yields happen too. Five workgroups in tiles of 2 leave a short last tile.
*LayerKernels*: queries narrower than, as wide as and wider than the residual
stream, one and two rows, at the start of the cache and behind earlier rows;
workgroups of 2 lanes instead of 256 and words of 2 elements instead of 8, so
that rows take whole and cut workgroups. The kernels address memory by linear
forms in the widths, and these shapes put each offset on both sides of the
others. What no shape satisfies is assumed, and said so, in `LayerAssumption`.
*Weights*: the granule of a chunk is the code's 256 bytes, a chunk at most
64 KiB or the adapter's smaller limit, and a file is a few KiB, so that files take one to more than eight chunks, tensors
start, end and cross at boundaries, and windows fall short; a u32 counts 2^20.
Blocks keep their real sizes. All formats are tried in all orders of tensors,
and one file for each refusal. Of what `from_gguf_metadata` reads, a required
dimension, the KV heads (with and without grouped queries), the key length and
the context are given 64 bits, and nine files have a key twice or two epsilons. Of a matrix the rows first, second and last are
read, and of 32 columns the ends of both halves.
*Profiling*: two keys of three fit and two queries of three passes, so both
bounds fill in a frame and the second one still adds to known keys.
*Controls*: a token of two characters makes different tokenisations of one
text; the Reject patterns cross tokens and overlap each other; one sentence can
not be finished by any token, so the mask can run empty.

**Fairness.** `StateLease`: `begin` does not block, and Rust drops every lease
when its owner ends; nothing else is assumed (a holder need not commit or
finish). `InferenceFabric`: the loop runs on until the call has ended.
`GpuRuntime`: a thread with work is scheduled, GPU passes and callbacks return.
`WF_vars(Step(t))` for a lock means that a waiting thread gets it once
it stays free; calls are bounded, so nobody can take it for ever. Starting a
call is never assumed. The other modules state safety only and assume nothing.

**Deadlock** is checked only where the system cannot stop: a call that has
ended, and a bounded number of calls, stop legally. `CallsReturn`
and `AlwaysAnswers` say instead that nobody stops half-way.

Every property has a mutant: an operator `Bug...` in the component's module,
with the parameters of the definition it replaces, that a plausible slip in the
code would amount to. TLC finds the property violated with it.

## 4. Proofs

Each theorem holds for every value of the constants that meets the named
assumptions of the module, which TLC evaluates in every run.

**The lease** (`StateLease_proofs`; `CapacityPos`, `EpochMaxNat`, `PositionsNat`,
`NoHolderNoSlot`)

| Theorem | Statement |
|---|---|
| `TypeCorrect` | `Spec => []TypeOK` |
| `Exclusive` | `Spec => []ExclusiveOwner`: the flag is set exactly while one slot owns the store |
| `OpenIsCurrent` | `Spec => []OpenLeaseIsCurrent` |
| `PrefixCorrect` | `Spec => []CommittedPrefixOK` |
| `TokensNeverReissued` | `Spec => TokensAreFresh` |
| `LeasesImplementContract` | `Spec => ContractSpec`: `StateLease` implements `CommittedPrefix` |

None of these is inductive alone. The invariant is

    IInv == TypeOK /\ ExclusiveOwner /\ EpochsOK /\ CommittedPrefixOK /\ TokensOK

*EpochsOK* is needed because the flag and the epoch change in separate steps:
that an open lease has the current epoch survives `BeginEpoch` only since the
slot that bumps the epoch owns the flag, so nobody else has an open lease
(*ExclusiveOwner*). *TokensOK* says what a caller's old tokens are: none has an
epoch from the future, none is empty, and one that carries the epoch of the
open lease is either the pending write or lies inside the committed prefix. A
write about to be issued starts at the end of the prefix and is not empty, so
it differs from all of them: that is `TokensAreFresh`. *CommittedPrefixOK* ties
the phase to prefix and pending write, so that a commit always extends the
prefix and stays in the capacity, which the refinement needs. There `HolderIs`
and `HolderNone` evaluate the CHOOSE of the mapping, and `ContractStep` maps
`BeginEpoch` to `Acquire`, `Commit` to `Extend`, `Finish`, `Abort` and the drop
of an open lease to `Release`, and everything else to a stutter.

**The runtime** (`GpuRuntime_proofs`; `SizesPos`, `NumbersNat`, `RequestsOK`,
`NobodyNoThread`)

| Theorem | Statement |
|---|---|
| `TypeCorrect`, `WorkIsOwned`, `NoLeaks` | the invariants `TypeOK`, `GpuWorkIsOwned`, `NothingLeaks` |
| `FirstErrorWins` | `Spec => ErrorIsFinal` |
| `RequestsKeepContract` | each store keeps the contract of `CommittedPrefix`, composed from the lemma `StoreIsStateLease` and `LeasesImplementContract` |
| `AcceptedWhenAlone`, `ExtentsAgreeWhenAlone` | `OneRuntime => (Spec => []RequestIsAccepted)`, and the same for `ExtentOK` |

The last two have the hypothesis under which the runs check them: with two
runtimes over one cache a request may be refused as busy, and one runtime's
reset zeroes the length under the other's lease. The invariant is
`TypeOK /\ LP!IInv /\ LocksOK /\ EachRequestOK /\ SharedOK`. `LP` is
`StateLease_proofs` with threads as slots: every step of a thread is a step of
the lease protocol or leaves the leases alone, since the actions are those of
`StateLease` (`StoreIsStateLease`), so the protocol's invariant is used and not
proved again. *LocksOK* says who holds gate and cache lock at which
program point, *EachRequestOK* what a thread's lease, binding and recorded error
are at each of them, and *SharedOK* what a store and its model know of each other.

**The fabric** (`InferenceFabric_proofs`; `TokensOK`, `PromptsOK`, `TensorsOK`,
`NumbersOK`)

| Theorem | Statement |
|---|---|
| `TypeCorrect`, `AnswerIsWhole`, `RiskIsSignalled` | the invariants `TypeOK`, `AnswerOK`, `TdrIsSignalled` |
| `HookSeesCommitted` | `Spec => ControlSeesCommitted` |
| `BudgetIsEnough` | `Spec => []BudgetSuffices`: no order of rules can run out of the budget the program asks for |
| `GenerationImplemented` | `Spec => GenerationSpec`: the rules implement the loop of `Generation` |

The order of the worklist is arbitrary, so the invariant cannot say which rule
comes next. It says which facts may be in store and agenda together:

    IInv == TypeOK /\ StoreOK /\ AgendaOK /\ DequantOK /\ BeforePrefill
            /\ PositionsInOrder /\ AnswerMatchesIds /\ RecordOK /\ TdrIsSignalled

At most one fact of the agenda can move the generation on (*AgendaOK*), and the
store records the history (*StoreOK*), so a rule that runs late finds nothing to
start. The budget is a counting argument: every derived fact gets a name
(prompt position, layer, step, or once), the naming is injective, and the number
of names is bounded by the code's formula.

**The controls** (`Controls_proofs`; `TextTypes`, `EosHidden`, `SentencesVisible`,
`LimitsPos`, `ChainsDistinct`)

| Theorem | Statement |
|---|---|
| `ScanIsComplete` | `Spec => []ScanLagsOneToken`: no pattern is missed, however the text falls into tokens |
| `BlocksAreJustified` | `Spec => []BlockIsJustified` |
| `GrammarFollows` | `Spec => []GrammarInStep` |
| `AnswerIsComputed` | `Spec => []AnswerIsExact` |

The invariant is `TypeInv /\ ScanInv /\ LagInv /\ MaskInv /\ StepInv /\ QueueInv
/\ BlockIsJustified`. Its heart is `ScanCorrect`: after each byte of a delta the
scanner's state is the longest suffix of the whole text that begins a pattern,
by induction over the delta; *LagInv* says how far the cursor is behind the text
while the chain is being asked.

**The forward pass** (`ForwardPass_proofs`; `ForwardAssumption`)

| Theorem | Statement |
|---|---|
| `Invariant` | `Spec => []IInv` |
| `PassCompletes` | `Spec => []PassIsComplete`: every kernel of every layer once and in order, every row, every workgroup of the vocabulary |
| `SubmissionsStayBounded` | `Spec => []SubmissionsBounded` |
| `SamplesStayFresh` | `Spec => []SamplesAreFresh` |

The invariant is `TypeInv /\ OffsetInv /\ OrderInv /\ QkvInv /\ LastInv /\
PendingInv /\ DoneInv /\ SamplesAreFresh`. Yields, readbacks and checkpoints only
move dispatches from the encoder to the GPU, so `Recorded`, the two together,
is what the proof follows: it is sorted by rank (layer and place in the body),
complete below the rank of the point reached and empty from there on, except
for QKV, whose rows *QkvInv* counts chunk by chunk. *LastInv* names the last
writer of every buffer, which makes a readback fresh. *PendingInv* counts the
QKV dispatches that wait modulo the yield interval.

**The kernels of a layer** (`LayerKernels_proofs`; `LayerAssumption`)

| Theorem | Statement |
|---|---|
| `LayerInvariant` | `Spec => []LayerIInv` |
| `LayerComputes` | `Spec => []OutputIsRight`: whatever the widths, rows, lanes and flags and the order of the invocations |
| `CacheIsKept` | `Spec => []CacheIsRight`: the layer's keys and values, the earlier ones, and a requantisation |
| `ReadbacksShow` | `Spec => []ReadbacksAreRight` |
| `ShiftMoves` | `Spec => []ShiftIsRight`: plain and packed |

The proof has three parts. *Effect* says of a dispatch that each invocation has
stored what it computes from the memory before the dispatch, and that no other
cell has changed. That follows, in whatever order the invocations run, once they
are *Apart*: none stores in a cell that another one loads or stores. For each of
the fourteen kernels this is arithmetic over the addresses the shader forms
itself: rows of `Stride` elements do not meet (`PlaceIsUnique`, `TempIsUnique`,
`CacheIsUnique`). *Stage* then says at ten points of a layer where the residual
stream, the norms, query, context, the rows of the FFN and the two caches are,
and one lemma per operation takes a stage to the next (`StepsOn`). The entry
points string the same operations together in four ways; for each of them
`OpStage` names the stage before every operation. A shift or a requantisation
has stages of its own (*CacheStage*): what is *Unmoved*, *Snapped* into the
scratch buffer, *Shifted*, and *Quantized*. The invariant says that memory is at
the stage of the operation that is next:

    LayerIInv ==
      /\ g \in Geometries /\ path \in Paths /\ InMemory(memory) /\ NothingIsRefused
      /\ path \in LayerPaths => Stage(OpStage(pc), memory)
      /\ path \in CachePaths => CacheStage(pc)
      /\ ReadbacksAreRight /\ ...

(the rest is about `pc`, the rows of a call and the range of a shift). It was
checked by TLC on the shapes of `LayerKernels.cfg` before it was proved.
`NothingIsRefused` is proved over all pipelines and bind groups of `Bindings`.

`LayerAssumption` is where the theorem says more than the runs: it names the two
relations of the widths that make the scratch of a token large enough.
*StashFits*: the attention's product, kept behind norm and query, ends in the
token's own scratch; the code asks for it only where it picks the cooperative
kernel. *NormIsKept*: in a model without a gate the norm of the attention, kept
behind the rows of the FFN, lies behind the attention's scratch; no code asks
for that. Both hold when the FFN is wide, as it usually is; section 5 has widths
for which they fail, and for those nothing is proved.

**The profile** (`Profiling_proofs`; `ProfileLimits`)

| Theorem | Statement |
|---|---|
| `Invariant` | `Spec => []IInv` |
| `PassesAccounted` | `Spec => []PassesAreAccounted` |
| `SummaryTruthful` | `Spec => []SummaryIsTruthful` |
| `TimesOwn` | `Spec => []TimesAreOwn` |

The invariant is `TypeInv /\ BooksInv /\ FrameInv /\ SlotInv /\ LogInv`: the books
balance with what the running frame owes, the buffer holds queries of this frame
only and is free between frames, and the log has both events of every finished
generation. Recording a frame is a fold over its passes; that it keeps the books
is proved by `SeqInduction`, with sums as cardinalities of sets of units.

**The weights** (`Weights_proofs`; `BlobAssumption`, `AdmissionAssumption`,
`WeightsAssumption`, `FilesOK`, `AdaptersOK`)

| Theorem | Statement |
|---|---|
| `LoadIsInductive` | `Spec => []IInv` |
| `EveryRowIsRight` | `Spec => []WeightsAreRight`: every dispatch computes with the bits the registry names |
| `AdmittedCanDispatch` | `Spec => []AdmittedIsDispatchable` |
| `ReadyIsWhole` | `Spec => []ReadyMeansResident` |
| `ChecksDoAgree` | `Spec => ChecksAgree`: when the two derivations of a shape may differ, and when the program ends instead of refusing |
| `SpecDoesFollow` | `Spec => []SpecFollowsPlan`: the specification of an admitted model is the descriptor's plan, whatever the scan of the keys found |
| `DecodersAgree`, `CpuAgrees` | each shader's switch and each CPU loop takes the bits of the registry, per format |

The assumptions are about what the code takes on trust. *FilesOK* is what the
external parser of GGUF files vouches for: dimensions are numbers, there is a
vocabulary, and the rows of a tensor are whole blocks of its format. *AdaptersOK*:
an adapter guarantees at least a granule, 256 bytes, per binding (WebGPU's default
is 128 MiB). *BlobAssumption*: a pass can bind two chunks or
more. The invariant is `LoadInv /\ WeightsAreRight` with

    LoadInv == FileInv /\ CodeInv /\ DeviceInv /\ PlanInv /\ HeadInv /\ ScopeInv /\ RowInv

It carries what each phase has established to the rows that are read at the end:
the file was admitted (descriptor without failure, offsets and layer table
computed from it), the limits passed the check of the device also after the
device was requested, the chunks so far are the first ones of the plan. The
argument for a row then has four parts. `OffsetsOf` places tensors apart, on words
and in order. A window of an admitted layer or
head shows every word between its first and its last chunk under one shift
(*Sees*), which `check_device` guarantees for the span of a layer. Offsets packed
in words and half words, and the head's base that wraps modulo the address space,
name the right byte of the file (`MatrixRowIs`, `HeadElementIs`). A reader of
right bytes is all a decoder needs (*Faithful*, `DecodersAgree`).

The metadata is read twice, by the descriptor under the key's own prefix and by
`from_gguf_metadata` by the key's suffix, and `SpecMatches` compares the two.
*Follows* carries what that comparison establishes to every later phase, so an
admitted specification has the plan's dimensions for every scan of every file.
That the comparison also agrees on its own needs the file to say each key once
(`Scan` is then a function of the file): the specification is the descriptor's
unless a part of the head is rotated or a 64-bit `head_count_kv` was defaulted.
The operator contracts follow from what the descriptor checked
(`OperatorsPass`), so they refuse nothing. And the program ends in place of a
refusal only where one of the four dimensions it expects is not a 32-bit number.

The two cases `WeightsAreRight` leaves out are wrong, and shown so by findings.

**How induction is done.** The library's induction theorems take an operator and
cannot be used here. `Induction` and `SeqInduction` state them for a set: a
property P holds of all numbers when `{n \in Nat : P(n)}` is closed. From this
follow the value of `FoldLeft`, step by step, and of sums over functions. Each
proof module that needs such lemmas states them at its start.

**Only model-checked**: every liveness property,
`AlwaysAnswers`, `CallsReturn`, `StoreIsReleased` (fairness and ENABLED are out
of the prover's reach); the three findings that a run shows.

## 5. Findings

Shown by a run of the project:

1. `run_layer_with_cache_int4` builds bind groups of ten entries under a layout
   of seventeen: wgpu refuses the first and the call never runs
   (`LayerKernelsInt4.cfg`).
2. An embedding row is read from the word its byte offset lies in: rows of an odd
   number of blocks (Q4_0, Q5_0, Q8_0, Q6_K) start between two words, and every
   other row is decoded from two bytes too early (`WeightsEmbedding.cfg`).
3. Keys are decoded with the formula of the queries, and the admission takes any
   supported format for each tensor: a file with keys in another format is
   admitted and read wrongly (`WeightsKeys.cfg`).

Shown by a configuration run by hand:

4. A head in F16 or Q5_0 passes the admission and ends the load after the upload
   (`WeightsHead.cfg`).
5. The last tile of a head in the blob asks for whole workgroups of rows, past the
   vocabulary: at the end of the file there is no such window and the program
   stops by `expect` (`WeightsTiles.cfg`).
6. `isf.rs:151` documents `max_tokens` as "Max tokens allowed". The first token
   is streamed by Rule 4, which does not look at the limit; a fabric with
   `max_tokens` 0 streams one token (`InferenceFabricLimit.cfg`). `generate` in
   `gpu.rs` returns early for 0, so the runtime is not affected.
7. `schoolmarm_control.rs` answers EarlyExit for the candidate that completes a
   sentence, and the fabric ends the generation without streaming it, so the
   text of a grammar-constrained generation that ended cleanly lacks its last
   token (`ControlsGrammar.cfg`). The module's doc says the policy constrains
   generated text, and EarlyExit is documented as a clean stop.
8. `emit_layer_dump_state` copies the activation without a yield. In a pass of
   one row the layer is not submitted yet, and the dump shows the embeddings.
   `layer_dump_gpu.rs:237` knows the effect and relies on a prefill of several
   rows, but with chunks of 512 a prompt of 513 tokens has its last position in
   a pass of one row (`ForwardPassDump.cfg`).
9. The stage readback `ffn_norm` also runs in layers that do not dispatch
   FFNNorm; there it shows old scratch, while the comment calls it the output
   of `main_ffn_norm` (`ForwardPassFfnNorm.cfg`).
10. `tdr.rs` says the scheduler tracks dispatch time to stay below the watchdog.
    Only `force_yield` adds time, and a decode forces nothing: its accumulator
    stays 0 and no recorded work makes it yield (`ForwardPassBudget.cfg`).

Noticed while modelling, and part of the models:

* `run_qkv_only_test` binds a read-only dummy where the layout wants storage that
  is written, and is refused (`RefusedPaths`); the debug capture of Q is right
  only for queries no wider than the residual stream (`ReadbacksAreRight`), and
  the INT4 attention looks for Q behind the residual stream whatever its width.
* `temp_buffer_size` (`core/spec.rs:164`) does not count the stash of the
  attention's product, which ends at `2 * dim + q`. Only the cooperative kernel
  asks for it (`cooperative_attn_proj_eligible`, `pipeline/mod.rs:765`); with
  dim 6, one head of width 1, FFN 1 and two rows the stash of one row reaches
  into the next (in any unit, since sizes are rounded up to 1024). In a model
  without a gate the attention's norm is kept at twice the FFN width; with dim
  1, four heads of width 1 and FFN 3 the query lies over it. The comment above
  says that the buffer "must fit ALL intermediates at once". The FFN of a usual
  model is wide enough (*StashFits* and *NormIsKept* of
  `LayerAssumption`).
* The descriptor takes a number as U32 or U64, `from_gguf_metadata` only as U32.
  `embedding_length`, `block_count`, `feed_forward_length` and `head_count` in 64
  bits end the program by `expect`. `head_count_kv` in 64 bits is taken for
  missing and defaults to `head_count` (`spec.rs:339`): a file with grouped
  queries is refused as `model_plan_mismatch`. `key_length` and `context_length`
  do no harm, since the query weights correct the first and the context the
  model is loaded with replaces the second (`ChecksAgree`).
* `rope.dimension_count` below the head dimension passes the descriptor, and is
  refused as `model_plan_mismatch` (`ChecksAgree`).
* `from_gguf_metadata` takes a key by its suffix under any prefix, in the order of
  a HashMap. A file with such a key twice, or with the epsilons of both norms,
  may be loaded once and refused the next time, as `model_plan_mismatch` or
  `unsupported_operator_semantics`. It is never loaded with a value that differs
  from the descriptor's (`SpecFollowsPlan`).
* A pass that dies reports its samples as "unsupported" even where timestamps
  work, and the reason "capacity" is never given, because records and queries
  have the same bound (`Profiling`).

## 6. Abstractions and what is not modelled

* The engine crate `dzero`, the grammar crate, Aho-Corasick, the GGUF parser and
  wgpu are external and modelled from how the code uses them.
* Floating-point values: which values enter a result is modelled, not what comes
  out; reductions inside a workgroup are taken as one.
* GPU passes end: the readback loop polls without a bound, and a device that
  never answers would block the call.
* In `ForwardPass` everything that can be selected for capture (position,
  layer, whole batch) is selected, readbacks with nothing recorded in between
  are one, and time is proportional to the rows of a dispatch.
* `ExtentOK` is checked for one runtime per cache, which is what the code builds.
  With two, one runtime's reset zeroes `seq_len` under the lease of the other;
  nothing on the leased path reads it (`GpuWorkIsOwned` holds for two).
* A fabric is used for one call, as `generate` does. Sampling, masks and
  numbers are nondeterministic. The arithmetic in the prompt that arms the math
  bypass is the set of its possible answer queues.
* At `max_tokens` a call ends without asking the controls again, so the last
  streamed token is not scanned: `ScanLagsOneToken` leaves it out.
* Layers with a fused QKV matrix, biases and experts are refused by the
  admission, and modelled only as that refusal.
* The observation session and the CPU reference path (CPU model, CPU KV cache,
  Q5_0 on the CPU) are used by tests and validation tools only.
* Not modelled because it is floating point, pure I/O or reporting: sampling,
  the calibration file, debug, conformance and validation tools.

## 7. What is left

The parts of the production path are modelled, and every safety property that a
run checks is proved. What is left is depth:

1. `Record` and `ControlReset` rules of libfse against a search of the whole text.
2. A width check in the code for *StashFits* and *NormIsKept*, after which
   `LayerAssumption` would follow from the admission (`Admission`).
