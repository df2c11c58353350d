----------------------------- MODULE GpuRuntime -----------------------------
(***************************************************************************)
(* src/src/runtime/gpu.rs: threads that call generate and try_reset on     *)
(* runtimes whose kv_cache is one shared Arc<Mutex<KVCache>>, down to the  *)
(* lease operations of StateLease.  Each thread is the slot of its lease.  *)
(*                                                                         *)
(* The state that other threads can touch is behind three locks: the       *)
(* runtime's request_gate, the KVCache and the model's bound_state.  A     *)
(* step runs up to the next acquisition or release of one of them, to the  *)
(* next write of the controller's atomics, or to the next call out (GPU    *)
(* work, callbacks).  bound_state is only locked inside one step at a      *)
(* time, and only by the thread that holds the gate of its runtime.        *)
(*                                                                         *)
(* What InferenceFabric shows is used here: the fabric calls the prefill   *)
(* once and then one forward per token, at consecutive positions.          *)
(*                                                                         *)
(* External: the GPU.  A pass gives finite logits, other logits, an error  *)
(* (before or after the lease has prepared the write) or panics; its poll  *)
(* loop is assumed to end.                                                 *)
(***************************************************************************)
EXTENDS Naturals

CONSTANTS Threads,   \* callers
          Runtimes,  \* GpuRuntimes built over the same KVCache
          Nobody,    \* no thread
          Capacity,  \* n_ctx = capacity of the state plan
          EpochMax,  \* u64::MAX
          Chunk,     \* SHIMMY_PREFILL_CHUNK
          Prompts,   \* prompt lengths, in tokens
          Limits,    \* GenerationParams.max_tokens
          Calls      \* bound: calls made in one behaviour

ASSUME SizesPos == {Capacity, Chunk} \subseteq Nat \ {0}
ASSUME NumbersNat == {EpochMax, Calls} \subseteq Nat
ASSUME RequestsOK == Prompts \subseteq Nat \ {0} /\ Limits \subseteq Nat
ASSUME NobodyNoThread == Nobody \notin Threads

VARIABLES active, epoch, stage, lease, issued, \* StateController and leases
          gate,      \* request_gate of each runtime: holder
          poisoned,  \* locks whose holder panicked: runtimes, and "kv"
          bound,     \* bound_state of each runtime's model
          kv,        \* kv_cache: lock holder and seq_len
          call,      \* what each thread is doing
          calls      \* calls made so far

leaseVars == <<active, epoch, stage, lease, issued>>
vars == <<leaseVars, gate, poisoned, bound, kv, call, calls>>

L == INSTANCE StateLease
       WITH Slots <- Threads, NoHolder <- Nobody, Positions <- 0 .. Capacity

\* from, left: the next position of the running pass and its rows to go.
Idle == [pc |-> "idle", rt |-> Nobody, prompt |-> 0, limit |-> 0, from |-> 0,
         left |-> 0, text |-> 0, error |-> "none", result |-> "none"]

Init ==
  /\ L!Init
  /\ gate = [r \in Runtimes |-> Nobody]
  /\ poisoned = {}
  /\ bound = [r \in Runtimes |-> Nobody]
  /\ kv = [holder |-> Nobody, seqLen |-> 0]
  /\ call = [t \in Threads |-> Idle]
  /\ calls = 0

At(t, pc) == call[t].pc = pc

Goto(t, pc) == call' = [call EXCEPT ![t].pc = pc]

\* generate's inner closure has its result; what it owns is dropped next.
Answer(t, pc, result) ==
  call' = [call EXCEPT ![t].pc = pc, ![t].result = result]

\* get_or_insert: the first error is the one that is kept.
Fail(t, pc, error) ==
  call' = [call EXCEPT ![t].pc = pc,
                       ![t].error = IF @ = "none" THEN error ELSE @]

KvFree == kv.holder = Nobody

\* The guard of the KVCache is dropped by unwinding.
KvPanic(t) ==
  /\ kv' = [kv EXCEPT !.holder = Nobody]
  /\ poisoned' = poisoned \cup {"kv"}
  /\ Answer(t, "unbind", "Panic")

-----------------------------------------------------------------------------
(* Calls *)

Generate(t) ==
  /\ At(t, "idle") /\ calls < Calls
  /\ calls' = calls + 1
  /\ \E r \in Runtimes, p \in Prompts, m \in Limits :
       call' = [call EXCEPT ![t] = [Idle EXCEPT !.pc = "gate", !.rt = r,
                                                !.prompt = p, !.limit = m]]
  /\ UNCHANGED <<leaseVars, gate, poisoned, bound, kv>>

\* request_gate.lock(), Err when it is poisoned.
EnterGate(t) ==
  LET r == call[t].rt IN
  /\ At(t, "gate") /\ gate[r] = Nobody
  /\ IF r \in poisoned
       THEN /\ Answer(t, "idle", "Poisoned")
            /\ UNCHANGED gate
       ELSE /\ gate' = [gate EXCEPT ![r] = t]
            /\ Goto(t, "check")
  /\ UNCHANGED <<leaseVars, poisoned, bound, kv, calls>>

\* try_reset: try_lock fails when the gate is held, and when it is poisoned.
TryReset(t) ==
  /\ At(t, "idle") /\ calls < Calls
  /\ calls' = calls + 1
  /\ \E r \in Runtimes :
       IF gate[r] = Nobody /\ r \notin poisoned
         THEN /\ gate' = [gate EXCEPT ![r] = t]
              /\ call' = [call EXCEPT ![t] =
                            [Idle EXCEPT !.pc = "tryreset", !.rt = r]]
         ELSE /\ call' = [call EXCEPT ![t] = [Idle EXCEPT !.result = "Busy"]]
              /\ UNCHANGED gate
  /\ UNCHANGED <<leaseVars, poisoned, bound, kv>>

TryResetKv(t) ==
  /\ At(t, "tryreset") /\ KvFree
  /\ IF "kv" \in poisoned
       THEN Answer(t, "leave", "Poisoned") /\ UNCHANGED kv
       ELSE Answer(t, "leave", "Ok") /\ kv' = [kv EXCEPT !.seqLen = 0]
  /\ UNCHANGED <<leaseVars, gate, poisoned, bound, calls>>

-----------------------------------------------------------------------------
(* Admission: context_length_exceeded, max_tokens = 0, begin_request *)

\* Mutant: only the prompt is compared with the context.
BugContextFits(p, m) == p <= Capacity

\* The last sampled token is never fed back, so it needs no position.
ContextFits(p, m) == p + (IF m = 0 THEN 0 ELSE m - 1) <= Capacity

Check(t) ==
  LET p == call[t].prompt  m == call[t].limit IN
  /\ At(t, "check")
  /\ \/ ~ContextFits(p, m) /\ Answer(t, "leave", "Request")
     \/ ContextFits(p, m) /\ m = 0 /\ Answer(t, "leave", "Ok")
     \/ ContextFits(p, m) /\ m > 0 /\ Goto(t, "begin")
  /\ UNCHANGED <<leaseVars, gate, poisoned, bound, kv, calls>>

\* begin_request under the KVCache lock, as far as the compare_exchange.
BeginClaim(t) ==
  /\ At(t, "begin") /\ KvFree
  /\ \/ /\ "kv" \in poisoned
        /\ Answer(t, "leave", "Poisoned")
        /\ UNCHANGED <<leaseVars, kv>>
     \/ /\ "kv" \notin poisoned
        /\ active \/ bound[call[t].rt] # Nobody
        /\ Answer(t, "leave", "Busy")
        /\ UNCHANGED <<leaseVars, kv>>
     \/ /\ "kv" \notin poisoned
        /\ bound[call[t].rt] = Nobody
        /\ L!BeginClaim(t)
        /\ kv' = [kv EXCEPT !.holder = t]
        /\ Goto(t, "epoch")
  /\ UNCHANGED <<gate, poisoned, bound, calls>>

BeginEpoch(t) ==
  /\ At(t, "epoch")
  /\ L!BeginEpoch(t)
  /\ Goto(t, IF epoch < EpochMax THEN "start" ELSE "exhausted")
  /\ UNCHANGED <<gate, poisoned, bound, kv, calls>>

BeginExhausted(t) ==
  /\ At(t, "exhausted")
  /\ L!BeginExhausted(t)
  /\ kv' = [kv EXCEPT !.holder = Nobody]
  /\ Answer(t, "leave", "Epoch")
  /\ UNCHANGED <<gate, poisoned, bound, calls>>

\* start_prefill, KVCache::reset, the binding, and the lock is released.
BeginStart(t) ==
  LET c == call[t] IN
  /\ At(t, "start")
  /\ L!StartPrefill(t, c.prompt)
  /\ kv' = [holder |-> Nobody, seqLen |-> 0]
  /\ bound' = [bound EXCEPT ![c.rt] = t]
  /\ call' = [call EXCEPT ![t].pc = "forward", ![t].left = c.prompt]
  /\ UNCHANGED <<gate, poisoned, calls>>

-----------------------------------------------------------------------------
(* prefill_fn and forward_fn: chunks under the KVCache lock *)

\* Mutant: the pass goes on without the KVCache lock.
BugForward(t) ==
  /\ At(t, "forward")
  /\ Goto(t, "chunk")
  /\ UNCHANGED <<leaseVars, gate, poisoned, bound, kv, calls>>

\* kv_cache.lock().unwrap()
Forward(t) ==
  /\ At(t, "forward") /\ KvFree
  /\ IF "kv" \in poisoned
       THEN Answer(t, "unbind", "Panic") /\ UNCHANGED kv
       ELSE Goto(t, "chunk") /\ kv' = [kv EXCEPT !.holder = t]
  /\ UNCHANGED <<leaseVars, gate, poisoned, bound, calls>>

\* run_dequant_any_hot panics on a lost device, before the cache is locked.
DequantPanics(t) ==
  /\ At(t, "forward")
  /\ Answer(t, "unbind", "Panic")
  /\ UNCHANGED <<leaseVars, gate, poisoned, bound, kv, calls>>

\* Rows of the next chunk: decode passes have one row.
Rows(c) == IF c.left < Chunk THEN c.left ELSE Chunk

\* The lease takes the write, or a check before that returns Err: the lease
\* is neither aborted nor written then.
Prepare(t) ==
  LET c == call[t] IN
  /\ At(t, "chunk") /\ c.left > 0
  /\ \/ /\ L!CheckIdentity(t)
        /\ L!RequireRead(t, 0, c.from)
        /\ \/ L!PreparePrefillChunk(t, c.from, Rows(c))
           \/ Rows(c) = 1 /\ L!PrepareDecode(t, c.from)
        /\ Goto(t, "gpu")
     \/ /\ Fail(t, "seqlen", "Gpu")
        /\ UNCHANGED leaseVars
  /\ UNCHANGED <<gate, poisoned, bound, kv, calls>>

GpuDone(t) ==
  LET w == lease[t].pending IN
  /\ At(t, "gpu")
  /\ L!Commit(t, w)
  /\ call' = [call EXCEPT ![t].pc = "chunk", ![t].from = @ + w.count,
                          ![t].left = @ - w.count]
  /\ UNCHANGED <<gate, poisoned, bound, kv, calls>>

GpuFails(t) ==
  /\ At(t, "gpu")
  /\ L!Abort(t)
  /\ Fail(t, "seqlen", "Gpu")
  /\ UNCHANGED <<gate, poisoned, bound, kv, calls>>

\* Device code panics; the lease mutex is poisoned too, but finish, abort and
\* drop go through into_inner.
GpuPanics(t) ==
  /\ At(t, "gpu")
  /\ KvPanic(t)
  /\ UNCHANGED <<leaseVars, gate, bound, calls>>

\* The last chunk is through; its logits are finite, or they are not.
PassDone(t) ==
  /\ At(t, "chunk") /\ call[t].left = 0
  /\ \/ Goto(t, "seqlen")
     \/ Fail(t, "seqlen", "Gpu")
  /\ UNCHANGED <<leaseVars, gate, poisoned, bound, kv, calls>>

\* Mutant: the reset of the error path is what stays.
BugExtent(t) == IF call[t].error = "none" THEN lease[t].processed ELSE 0

\* Mutant: the sampled token is counted although it was never fed back.
BugExtentSampled(t) == lease[t].processed + 1

\* The reset of the error path is overwritten by set_seq_len.
Extent(t) == lease[t].processed

SetSeqLen(t) ==
  /\ At(t, "seqlen")
  /\ kv' = [holder |-> Nobody, seqLen |-> Extent(t)]
  /\ Goto(t, "sample")
  /\ UNCHANGED <<leaseVars, gate, poisoned, bound, calls>>

-----------------------------------------------------------------------------
(* The hooks and callbacks between two passes *)

\* Mutant: the check is missing for the first token.
BugHookBlocks(t) == call[t].text > 0 /\ call[t].error # "none"

\* The control hook looks at execution_error before anything else, and after
\* a failed decode pass the fabric halts on the empty logits by itself.
HookBlocks(t) == call[t].error # "none"

Blocked(t) ==
  /\ At(t, "sample")
  /\ HookBlocks(t)
  /\ Goto(t, "wrapup")
  /\ UNCHANGED <<leaseVars, gate, poisoned, bound, kv, calls>>

\* invalid_logit_mask, invalid_control_token, policy_blocked.
HookFails(t) ==
  /\ At(t, "sample")
  /\ ~HookBlocks(t)
  /\ \E e \in {"Mask", "Control", "Policy"} : Fail(t, "wrapup", e)
  /\ UNCHANGED <<leaseVars, gate, poisoned, bound, kv, calls>>

\* EarlyExit, or a stop token.
Stop(t) ==
  /\ At(t, "sample")
  /\ ~HookBlocks(t)
  /\ Goto(t, "wrapup")
  /\ UNCHANGED <<leaseVars, gate, poisoned, bound, kv, calls>>

\* on_token, then the next DecodeStep: the limit, or one more forward of the
\* token at position prompt_len + step.
Token(t) ==
  LET c == call[t]  text == c.text + 1 IN
  /\ At(t, "sample")
  /\ ~HookBlocks(t)
  /\ call' = [call EXCEPT ![t].text = text,
                          ![t].pc = IF text >= c.limit THEN "wrapup"
                                                       ELSE "forward",
                          ![t].from = c.prompt + text - 1,
                          ![t].left = 1]
  /\ UNCHANGED <<leaseVars, gate, poisoned, bound, kv, calls>>

\* A mask, control, trace or token callback panics: no lock of the KV state
\* is held, the gate's guard is dropped by unwinding in Leave.  After a failed
\* prefill the mask still runs; after a failed decode pass no hook does.
CallbackPanics(t) ==
  /\ At(t, "sample")
  /\ HookBlocks(t) => call[t].text = 0
  /\ Answer(t, "unbind", "Panic")
  /\ UNCHANGED <<leaseVars, gate, poisoned, bound, kv, calls>>

-----------------------------------------------------------------------------
(* The end of the call *)

\* execution_error is returned first; otherwise the lease is finished.
WrapUp(t) ==
  /\ At(t, "wrapup")
  /\ \/ /\ call[t].error # "none"
        /\ Answer(t, "unbind", call[t].error)
        /\ UNCHANGED leaseVars
     \/ /\ call[t].error = "none"
        /\ L!Finish(t)
        /\ Goto(t, "reset")
  /\ UNCHANGED <<gate, poisoned, bound, kv, calls>>

\* kv_cache.lock().unwrap().reset()
Reset(t) ==
  /\ At(t, "reset") /\ KvFree
  /\ IF "kv" \in poisoned
       THEN Answer(t, "unbind", "Panic") /\ UNCHANGED kv
       ELSE Answer(t, "unbind", "Ok") /\ kv' = [kv EXCEPT !.seqLen = 0]
  /\ UNCHANGED <<leaseVars, gate, poisoned, bound, calls>>

\* Mutant: the binding is cleared on an orderly return only.
BugUnbind(t) ==
  LET r == call[t].rt IN
  /\ At(t, "unbind")
  /\ bound' = [bound EXCEPT ![r] =
                 IF call[t].result # "Panic" THEN Nobody ELSE @]
  /\ Goto(t, "drop")
  /\ UNCHANGED <<leaseVars, gate, poisoned, kv, calls>>

\* Drop for ModelRequest: first the binding, if it is this request's.
Unbind(t) ==
  LET r == call[t].rt IN
  /\ At(t, "unbind")
  /\ bound' = [bound EXCEPT ![r] = IF @ = t THEN Nobody ELSE @]
  /\ Goto(t, "drop")
  /\ UNCHANGED <<leaseVars, gate, poisoned, kv, calls>>

\* abort, and the last Arc of the lease goes.
DropLease(t) ==
  /\ At(t, "drop")
  /\ L!Drop(t)
  /\ Goto(t, "leave")
  /\ UNCHANGED <<gate, poisoned, bound, kv, calls>>

\* Mutant: an unwinding call keeps the gate.
BugLeave(t) ==
  LET r == call[t].rt IN
  /\ At(t, "leave")
  /\ gate' = [gate EXCEPT ![r] =
                IF call[t].result = "Panic" THEN @ ELSE Nobody]
  /\ Goto(t, "idle")
  /\ UNCHANGED <<leaseVars, poisoned, bound, kv, calls>>

\* The gate's guard goes; unwinding leaves the gate poisoned.
Leave(t) ==
  LET r == call[t].rt IN
  /\ At(t, "leave")
  /\ gate' = [gate EXCEPT ![r] = Nobody]
  /\ poisoned' = poisoned \cup {x \in {r} : call[t].result = "Panic"}
  /\ Goto(t, "idle")
  /\ UNCHANGED <<leaseVars, bound, kv, calls>>

-----------------------------------------------------------------------------
\* What a thread does once it has called.
Step(t) ==
  \/ EnterGate(t) \/ TryResetKv(t) \/ Check(t)
  \/ BeginClaim(t) \/ BeginEpoch(t) \/ BeginExhausted(t) \/ BeginStart(t)
  \/ Forward(t) \/ DequantPanics(t) \/ Prepare(t)
  \/ GpuDone(t) \/ GpuFails(t) \/ GpuPanics(t)
  \/ PassDone(t) \/ SetSeqLen(t)
  \/ Blocked(t) \/ HookFails(t) \/ Stop(t) \/ Token(t) \/ CallbackPanics(t)
  \/ WrapUp(t) \/ Reset(t) \/ Unbind(t) \/ DropLease(t) \/ Leave(t)

Next == \E t \in Threads : Generate(t) \/ TryReset(t) \/ Step(t)

Spec == Init /\ [][Next]_vars

\* A running thread is scheduled, callbacks and GPU passes return.  A lock
\* that is free is taken: with Calls calls nobody can take it for ever.
FairSpec == Spec /\ \A t \in Threads : WF_vars(Step(t))

-----------------------------------------------------------------------------
(* Properties *)

Pc == {"idle", "gate", "check", "tryreset", "begin", "epoch", "exhausted",
       "start", "forward", "chunk", "gpu", "seqlen", "sample", "wrapup",
       "reset", "unbind", "drop", "leave"}

Error == {"none", "Gpu", "Mask", "Control", "Policy"}

Result == Error \cup {"Ok", "Busy", "Poisoned", "Request", "Epoch", "Panic"}

\* Type invariant.
TypeOK ==
  /\ L!TypeOK
  /\ gate \in [Runtimes -> Threads \cup {Nobody}]
  /\ poisoned \subseteq Runtimes \cup {"kv"}
  /\ bound \in [Runtimes -> Threads \cup {Nobody}]
  /\ kv \in [holder : Threads \cup {Nobody}, seqLen : 0 .. Capacity]
  /\ call \in [Threads -> [pc : Pc, rt : Runtimes \cup {Nobody}, prompt : Nat,
                           limit : Nat, from : Nat, left : Nat, text : Nat,
                           error : Error, result : Result]]
  /\ calls \in 0 .. Calls

\* GPU work on the shared K/V buffers is done by one thread at a time, the one
\* that holds the KVCache lock, whose request is bound to its own model and
\* whose open lease is the controller's current one, even while the requests
\* of other runtimes begin, finish and unwind.
GpuWorkIsOwned ==
  \A t \in Threads : At(t, "gpu") =>
    /\ kv.holder = t
    /\ bound[call[t].rt] = t
    /\ L!CheckIdentity(t)
    /\ lease[t].pending.start = call[t].from
    /\ \A u \in Threads \ {t} : ~L!Open(u)

\* With one runtime a generate call is never told Busy: the gate is released
\* only after the request's binding and lease are gone.
NeverBusy ==
  \A t \in Threads : call[t].result = "Busy" => call[t].rt = Nobody

\* An admitted request is never turned away, neither by what an earlier call
\* left behind (NeverBusy; no earlier request is bound to the model) nor by
\* its own lease: every chunk fits (the context check leaves out the position
\* of the last token, which is never fed back), and a call without an error
\* finds its lease ready to be finished.
RequestIsAccepted ==
  /\ NeverBusy
  /\ \A t \in Threads : LET c == call[t] IN
       /\ At(t, "begin") => bound[c.rt] = Nobody
       /\ At(t, "chunk") /\ c.left > 0 =>
            /\ L!CheckIdentity(t)
            /\ L!RequireRead(t, 0, c.from)
            /\ \/ lease[t].phase = "Prefill"
               \/ lease[t].phase = "Ready" /\ Rows(c) = 1
            /\ L!Fits(lease[t], c.from, Rows(c),
                      IF lease[t].phase = "Prefill" THEN lease[t].prompt
                                                    ELSE Capacity)
       /\ At(t, "wrapup") /\ c.error = "none" =>
            lease[t].phase = "Ready" /\ lease[t].pending = L!NoWrite

\* The committed prefix is the prompt and every streamed token but the last
\* one: the positions the fabric hands out are the ones the lease expects.
ExtentFollowsTokens ==
  \A t \in Threads : LET c == call[t] IN
    /\ At(t, "sample") /\ c.error = "none" =>
         lease[t].processed = c.prompt + c.text
    /\ At(t, "forward") /\ c.text > 0 =>
         lease[t].processed = c.prompt + c.text - 1

\* With one runtime over the cache, KVCache.seq_len is the committed prefix of
\* the open lease whenever the cache is unlocked, on every error path too.
SeqLenIsCommitted ==
  \A t \in Threads :
    KvFree /\ "kv" \notin poisoned /\ L!Open(t)
      => kv.seqLen = lease[t].processed

\* The three counts of one sequence agree: tokens streamed to the caller,
\* positions the lease has committed, and the length the cache reports.
ExtentOK == ExtentFollowsTokens /\ SeqLenIsCommitted

\* However a call ends (refusal, error, stop, panic in the GPU code or in a
\* callback), it leaves no lock, no binding, no lease and no claim behind,
\* and with no call under way the controller is free.
NothingLeaks ==
  /\ \A t \in Threads : call[t].pc \in {"idle", "gate"} =>
       /\ kv.holder # t
       /\ \A r \in Runtimes : gate[r] # t /\ bound[r] # t
       /\ stage[t] = "none"
  /\ (\A t \in Threads : stage[t] = "none") => ~active

\* Once an error is recorded the call streams nothing more, keeps that first
\* error and ends with it, or with a callback's panic: never with Ok.
ErrorIsFinal ==
  [][\A t \in Threads : call[t].error # "none" /\ call[t].pc # "idle" =>
       /\ call'[t].error = call[t].error
       /\ call'[t].text = call[t].text
       /\ call'[t].result \in {"none", "Panic", call[t].error}]_vars

\* Every call returns.
CallsReturn == \A t \in Threads : ~At(t, "idle") ~> At(t, "idle")
=============================================================================
