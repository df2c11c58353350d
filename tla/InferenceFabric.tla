--------------------------- MODULE InferenceFabric ---------------------------
(***************************************************************************)
(* crates/airframe_observe/src/isf.rs: one generate call driven by facts.  *)
(*                                                                         *)
(* try_generate asserts one fact per prompt token and lets the dzero       *)
(* worklist run the rules to a fixpoint.  dzero is an external crate: here *)
(* its FactStore is a set (a fact that is already there is not inserted    *)
(* again) and its worklist is the set of facts whose rule has not run yet, *)
(* taken in ANY order.  Everything below therefore holds whatever order    *)
(* the crate uses.  One rule runs at a time, so a rule is one step.        *)
(*                                                                         *)
(* Abstracted: embeddings, logits and text pieces (a forward pass gives    *)
(* logits or none, a sample gives any token, a piece is its token), RMS    *)
(* values and checksums (distinct for distinct passes), and logging.       *)
(***************************************************************************)
EXTENDS Integers, Sequences, FiniteSets

CONSTANTS Vocab,       \* token ids
          Eos,         \* ISFState.eos_token
          Stops,       \* ISFState.extra_stop_ids
          NoToken,     \* no token id: the field is not used by this fact
          Prompts,     \* the prompts callers pass
          Limits,      \* the max_tokens callers pass
          Tensors,     \* TensorFacts asserted when the model was bound
          Times,       \* elapsed_ms of one GPU pass
          TdrBudget,   \* ISFState.tdr_budget_ms
          RecentCap,   \* 64: the window of the repetition penalty
          Slack,       \* 64: the fixed part of the run budget
          WorkMax      \* u32::MAX: the largest run budget

ASSUME TokensOK ==
  /\ Eos \in Vocab
  /\ Stops \subseteq Vocab
  /\ NoToken \notin Vocab
ASSUME PromptsOK == Prompts \subseteq Seq(Vocab)
ASSUME TensorsOK ==
  /\ Tensors \subseteq [offset : Nat, quant : Nat]
  /\ IsFiniteSet(Tensors)
ASSUME NumbersOK ==
  /\ Limits \subseteq Nat /\ Times \subseteq Nat
  /\ TdrBudget \in Nat \ {0} /\ RecentCap \in Nat \ {0}
  /\ Slack \in Nat /\ WorkMax \in Nat

(* Facts: kind, a position/layer/offset, a token, and a step, time or tag. *)
Fact(kind, at, tok, n) == [kind |-> kind, at |-> at, tok |-> tok, n |-> n]

HaltReason == {"EosToken", "ExtraStopToken", "MaxTokensReached", "ControlHalt"}

PromptToken(pos, tok)       == Fact("PromptToken", pos, tok, 0)
EmbeddingRequest(tok)       == Fact("EmbeddingRequest", 0, tok, 0)
EmbeddingReady(tok)         == Fact("EmbeddingReady", 0, tok, 0)
PrefillBatchReady(count)    == Fact("PrefillBatchReady", count, NoToken, 0)
PrefillComplete(pos)        == Fact("PrefillComplete", pos, NoToken, 0)
LayerOutput(pos)            == Fact("LayerOutput", pos, NoToken, 0)
FinalLogits(pos, pass)      == Fact("FinalLogits", pos, NoToken, pass)
KvAdvance(pos)              == Fact("KvAdvance", pos, NoToken, 0)
KvWritten                   == Fact("KvWritten", 0, NoToken, 0)
DecodeStep(step, tok, pos)  == Fact("DecodeStep", pos, tok, step)
DispatchCompleted(layer, t) == Fact("DispatchCompleted", layer, NoToken, t)
TdrRiskHigh(layer)          == Fact("TdrRiskHigh", layer, NoToken, 0)
YieldNow(layer)             == Fact("YieldNow", layer, NoToken, 0)
GenerationHalt(reason)      == Fact(reason, 0, NoToken, 0)
TensorFact(offset, quant)   == Fact("TensorFact", offset, NoToken, quant)
DispatchFact(offset, slot)  == Fact("DispatchFact", offset, NoToken, slot)

\* The kinds some rule is registered for; the others start nothing.
Reactive == {"PromptToken", "EmbeddingRequest", "EmbeddingReady",
             "PrefillBatchReady", "PrefillComplete", "KvAdvance",
             "DecodeStep", "DispatchCompleted", "TdrRiskHigh", "TensorFact"}

VARIABLES prompt,    \* prompt_token_ids
          limit,     \* max_tokens
          status,    \* the call: "idle", "running", or its result
          budget,    \* RunBudget of the call
          store,     \* FactStore
          agenda,    \* facts whose rule has not run yet
          cache,     \* embedding_cache, by its keys
          dequants,  \* calls of dequant_fn, per token
          computed,  \* positions handed to prefill_fn and forward_fn, in order
          ids,       \* all_token_ids after the prompt
          recent,    \* recent_tokens
          text,      \* generated_text = what on_token got, as tokens
          halt,      \* ISFState.halt
          blocked,   \* block_reason is set
          view,      \* step and kv_len given to the last control call
          tdr        \* tdr_accumulated_ms and tdr_yield_count

stateVars == <<cache, dequants, computed, ids, recent, text, halt,
               blocked, view, tdr>>
vars == <<prompt, limit, status, budget, store, agenda, stateVars>>

TensorFacts == {TensorFact(t.offset, t.quant) : t \in Tensors}

Init ==
  /\ prompt \in Prompts
  /\ limit \in Limits
  /\ status = "idle"
  /\ budget = 0
  /\ store = TensorFacts
  /\ agenda = TensorFacts
  /\ cache = {}
  /\ dequants = [t \in Vocab |-> 0]
  /\ computed = <<>>
  /\ ids = <<>>
  /\ recent = <<>>
  /\ text = <<>>
  /\ halt = "none"
  /\ blocked = FALSE
  /\ view = [step |-> 0, kv |-> 0]
  /\ tdr = [spent |-> 0, yields |-> 0]

-----------------------------------------------------------------------------
(* try_generate *)

\* Mutant: the output tokens are left out of the bound.
BugRequestRunBudget(prompt_tokens, max_tokens, existing) ==
  3 * prompt_tokens + max_tokens + 2 * existing + Slack

RequestRunBudget(prompt_tokens, max_tokens, existing) ==
  6 * prompt_tokens + 16 * max_tokens + 2 * existing + Slack

Generate ==
  LET work   == RequestRunBudget(Len(prompt), limit, Cardinality(store))
      tokens == {PromptToken(i - 1, prompt[i]) : i \in 1 .. Len(prompt)}
  IN  /\ status = "idle"
      /\ IF work <= WorkMax
           THEN /\ status' = "running"
                /\ budget' = work
                /\ store' = store \cup tokens
                /\ agenda' = agenda \cup tokens
           ELSE /\ status' = "BudgetOverflow"
                /\ UNCHANGED <<budget, store, agenda>>
      /\ UNCHANGED <<prompt, limit, stateVars>>

Exhausted == Cardinality(store) > budget

\* Mutant: RunReport.saturated is not looked at.
BugExhaust ==
  /\ status = "running"
  /\ agenda # {}
  /\ Exhausted
  /\ status' = IF halt = "none" THEN "MissingTerminalReason" ELSE "Ok"
  /\ UNCHANGED <<prompt, limit, budget, store, agenda, stateVars>>

\* run_to_fixpoint returns with the worklist not empty.
Exhaust ==
  /\ status = "running"
  /\ agenda # {}
  /\ Exhausted
  /\ status' = "BudgetExhausted"
  /\ UNCHANGED <<prompt, limit, budget, store, agenda, stateVars>>

Saturate ==
  /\ status = "running"
  /\ agenda = {}
  /\ status' = IF halt = "none" THEN "MissingTerminalReason" ELSE "Ok"
  /\ UNCHANGED <<prompt, limit, budget, store, agenda, stateVars>>

-----------------------------------------------------------------------------
(* The worklist *)

Take(f) ==
  /\ status = "running"
  /\ f \in agenda
  /\ ~Exhausted

\* The rule of f has run and returned these facts.
Derive(f, consequents) ==
  /\ store' = store \cup consequents
  /\ agenda' = (agenda \ {f})
                 \cup {c \in consequents \ store : c.kind \in Reactive}
  /\ UNCHANGED <<prompt, limit, status, budget>>

-----------------------------------------------------------------------------
(* Rules 1a, 1b and 2: one dequantisation per distinct prompt token *)

PromptTokenRule(f) ==
  /\ Take(f) /\ f.kind = "PromptToken"
  /\ Derive(f, {EmbeddingRequest(f.tok)})
  /\ UNCHANGED stateVars

EmbeddingRequestRule(f) ==
  /\ Take(f) /\ f.kind = "EmbeddingRequest"
  /\ dequants' = [dequants EXCEPT ![f.tok] = @ + 1]
  /\ cache' = cache \cup {f.tok}
  /\ Derive(f, {EmbeddingReady(f.tok)})
  /\ UNCHANGED <<computed, ids, recent, text, halt, blocked, view, tdr>>

\* Mutant: cached tokens are counted against prompt positions.
BugAllEmbeddingsCached == Cardinality(cache) = Len(prompt)

AllEmbeddingsCached == \A i \in 1 .. Len(prompt) : prompt[i] \in cache

EmbeddingReadyRule(f) ==
  /\ Take(f) /\ f.kind = "EmbeddingReady"
  /\ Derive(f, {c \in {PrefillBatchReady(Len(prompt))} : AllEmbeddingsCached})
  /\ UNCHANGED stateVars

-----------------------------------------------------------------------------
(* Rule 3: the prefill *)

\* The closure of gpu.rs computes the positions 0 .. count - 1.
PrefillFacts(count, elapsed) ==
  {KvAdvance(pos) : pos \in 0 .. count - 1}
    \cup {PrefillComplete(count), LayerOutput(count), FinalLogits(count, 0),
          DispatchCompleted(0, elapsed)}

PrefillBatchReadyRule(f) ==
  /\ Take(f) /\ f.kind = "PrefillBatchReady"
  /\ computed' = computed \o [i \in 1 .. f.at |-> i - 1]
  /\ \E elapsed \in Times : Derive(f, PrefillFacts(f.at, elapsed))
  /\ UNCHANGED <<cache, dequants, ids, recent, text, halt, blocked, view, tdr>>

\* Rule KvAdvance: kv_increment_fn does nothing (gpu.rs passes a no-op).
KvAdvanceRule(f) ==
  /\ Take(f) /\ f.kind = "KvAdvance"
  /\ Derive(f, {KvWritten})
  /\ UNCHANGED stateVars

-----------------------------------------------------------------------------
(* Rules 4 and 5: sample, ask the control hook, stream *)

IsStop(tok) == tok = Eos \/ tok \in Stops

ReasonOf(tok) == IF tok = Eos THEN "EosToken" ELSE "ExtraStopToken"

Halt(f, reason) ==
  /\ halt' = reason
  /\ Derive(f, {GenerationHalt(reason)})

\* Mutant: the window is one token too long.
BugRemember(tok) ==
  LET all == Append(recent, tok)
  IN  recent' = IF Len(all) > RecentCap + 1 THEN Tail(all) ELSE all

\* Vec::push and remove(0) once the window is full.
Remember(tok) ==
  LET all == Append(recent, tok)
  IN  recent' = IF Len(all) > RecentCap THEN Tail(all) ELSE all

\* The control hook answers EarlyExit, or Block with a reason.
ControlStops(f) ==
  /\ blocked' \in {blocked, TRUE}
  /\ Halt(f, "ControlHalt")
  /\ UNCHANGED <<ids, recent, text>>

Stream(tok) ==
  /\ text' = Append(text, tok)
  /\ UNCHANGED <<halt, blocked>>

\* The first token.  Sampling gives any token and a control hook may force
\* any, so tok is what Allow or ForceToken leaves.
PrefillCompleteRule(f) ==
  /\ Take(f) /\ f.kind = "PrefillComplete"
  /\ view' = [step |-> 0, kv |-> Len(prompt)]
  /\ \/ ControlStops(f)
     \/ \E tok \in Vocab :
          /\ Remember(tok)
          /\ ids' = Append(ids, tok)
          /\ \/ /\ IsStop(tok)
                /\ Halt(f, ReasonOf(tok))
                /\ UNCHANGED <<text, blocked>>
             \/ /\ ~IsStop(tok)
                /\ Stream(tok)
                /\ Derive(f, {DecodeStep(0, tok, Len(prompt))})
  /\ UNCHANGED <<cache, dequants, computed, tdr>>

\* Mutant: one token more than max_tokens.
BugLimitReached(step) == step >= limit

LimitReached(step) == step + 1 >= limit

DecodeLimit(f) ==
  /\ Take(f) /\ f.kind = "DecodeStep"
  /\ LimitReached(f.n)
  /\ Halt(f, "MaxTokensReached")
  /\ UNCHANGED <<cache, dequants, computed, ids, recent, text, blocked, view,
                 tdr>>

StepFacts(f, tok, elapsed) ==
  {KvAdvance(f.at), DecodeStep(f.n + 1, tok, f.at + 1),
   FinalLogits(f.at, f.n + 1), DispatchCompleted(f.at, elapsed)}

\* Mutant: the hook gets the length of the history with the candidate in it.
BugControlView == [step |-> Len(ids), kv |-> Len(prompt) + Len(ids) + 1]

ControlView == [step |-> Len(ids), kv |-> Len(prompt) + Len(ids)]

\* One forward pass and what is made of its logits; no logits end the call.
DecodeForward(f) ==
  /\ Take(f) /\ f.kind = "DecodeStep"
  /\ ~LimitReached(f.n)
  /\ computed' = Append(computed, f.at)
  /\ \/ /\ Halt(f, "ControlHalt")
        /\ blocked' = TRUE
        /\ UNCHANGED <<ids, recent, text, view>>
     \/ /\ view' = ControlView
        /\ ControlStops(f)
     \/ /\ view' = ControlView
        /\ \E tok \in Vocab :
             /\ ids' = Append(ids, tok)
             /\ \/ /\ IsStop(tok)
                   /\ Halt(f, ReasonOf(tok))
                   /\ UNCHANGED <<recent, text, blocked>>
                \/ /\ ~IsStop(tok)
                   /\ Remember(tok)
                   /\ Stream(tok)
                   /\ \E t \in Times : Derive(f, StepFacts(f, tok, t))
  /\ UNCHANGED <<cache, dequants, tdr>>

-----------------------------------------------------------------------------
(* Rules 6 and 7, and the TensorFact rule *)

\* Mutant: every risk is reported for layer 0.
BugDispatchCompletedRule(f) ==
  /\ Take(f) /\ f.kind = "DispatchCompleted"
  /\ tdr' = [tdr EXCEPT !.spent = @ + f.n]
  /\ Derive(f, {c \in {TdrRiskHigh(0)} : tdr.spent + f.n >= TdrBudget})
  /\ UNCHANGED <<cache, dequants, computed, ids, recent, text, halt, blocked,
                 view>>

DispatchCompletedRule(f) ==
  /\ Take(f) /\ f.kind = "DispatchCompleted"
  /\ tdr' = [tdr EXCEPT !.spent = @ + f.n]
  /\ Derive(f, {c \in {TdrRiskHigh(f.at)} : tdr.spent + f.n >= TdrBudget})
  /\ UNCHANGED <<cache, dequants, computed, ids, recent, text, halt, blocked,
                 view>>

TdrRiskHighRule(f) ==
  /\ Take(f) /\ f.kind = "TdrRiskHigh"
  /\ tdr' = [spent |-> 0, yields |-> tdr.yields + 1]
  /\ Derive(f, {YieldNow(f.at)})
  /\ UNCHANGED <<cache, dequants, computed, ids, recent, text, halt, blocked,
                 view>>

\* quant_formula::slot_for_type: ggml type ids with a formula slot.
SlotForType == [q \in {0, 1, 2, 6, 8, 12, 13, 14} |->
  CASE q \in 0 .. 2 -> q [] q = 6 -> 3 [] q = 8 -> 4 [] OTHER -> q - 7]

TensorFactRule(f) ==
  /\ Take(f) /\ f.kind = "TensorFact"
  /\ Derive(f, {DispatchFact(f.at, SlotForType[q]) :
                  q \in {f.n} \cap DOMAIN SlotForType})
  /\ UNCHANGED stateVars

-----------------------------------------------------------------------------
Rule(f) ==
  \/ PromptTokenRule(f)
  \/ EmbeddingRequestRule(f)
  \/ EmbeddingReadyRule(f)
  \/ PrefillBatchReadyRule(f)
  \/ KvAdvanceRule(f)
  \/ PrefillCompleteRule(f)
  \/ DecodeLimit(f)
  \/ DecodeForward(f)
  \/ DispatchCompletedRule(f)
  \/ TdrRiskHighRule(f)
  \/ TensorFactRule(f)

Next ==
  \/ Generate
  \/ Exhaust
  \/ Saturate
  \/ \E f \in agenda : Rule(f)

Spec == Init /\ [][Next]_vars

\* A call that has started runs on: the worklist is a loop, no rule blocks.
FairSpec == Spec /\ WF_vars(Next)

-----------------------------------------------------------------------------
(* Properties *)

Status == {"idle", "running", "Ok", "BudgetOverflow", "BudgetExhausted",
           "MissingTerminalReason"}

Kinds == Reactive \cup HaltReason
           \cup {"LayerOutput", "FinalLogits", "KvWritten", "YieldNow",
                 "DispatchFact"}

Facts == [kind : Kinds, at : Nat, tok : Vocab \cup {NoToken}, n : Nat]

\* Type invariant of the call, the worklist and the shared ISFState.
TypeOK ==
  /\ prompt \in Seq(Vocab)
  /\ limit \in Nat
  /\ status \in Status
  /\ budget \in 0 .. WorkMax
  /\ store \subseteq Facts
  /\ agenda \subseteq {f \in store : f.kind \in Reactive}
  /\ cache \subseteq Vocab
  /\ dequants \in [Vocab -> {0, 1}]
  /\ computed \in Seq(Nat)
  /\ ids \in Seq(Vocab)
  /\ recent \in Seq(Vocab) /\ Len(recent) <= RecentCap
  /\ text \in Seq(Vocab)
  /\ halt \in HaltReason \cup {"none"}
  /\ blocked \in BOOLEAN
  /\ view \in [step : Nat, kv : Nat]
  /\ tdr \in [spent : Nat, yields : Nat]

\* Whatever order the worklist takes facts in, and however many
\* EmbeddingReady facts find the cache complete, the prompt is prefilled once,
\* after every prompt token is in the cache, and prefill and decode write the
\* KV positions 0, 1, 2, ... with no gap and no position twice.
PositionsInOrder ==
  /\ computed = [i \in 1 .. Len(computed) |-> i - 1]
  /\ computed # <<>> => AllEmbeddingsCached
  /\ text # <<>> => Len(computed) + 1 - Len(prompt) - Len(text) \in {0, 1}

\* At most one token is computed but not yet answered: the streamed text is
\* the generated ids without the stop token, the halt reason says how the ids
\* end, and the limit is met exactly when it is the reason.
AnswerMatchesIds ==
  /\ \A i \in 1 .. Len(ids) - 1 : ~IsStop(ids[i])
  /\ \A i \in 1 .. Len(text) : text[i] = ids[i]
  /\ Len(ids) = IF ids # <<>> /\ IsStop(ids[Len(ids)]) THEN Len(text) + 1
                                                     ELSE Len(text)
  /\ halt = "EosToken" <=> ids # text /\ ids[Len(ids)] = Eos
  /\ halt = "ExtraStopToken" <=> ids # text /\ ids[Len(ids)] # Eos
  /\ halt = "MaxTokensReached" => Len(text) = (IF limit = 0 THEN 1 ELSE limit)
  /\ Len(ids) <= (IF limit = 0 THEN 1 ELSE limit)
  /\ blocked => halt = "ControlHalt"

\* A call that ran out of budget is an error, never a partial success: Ok
\* means every derived fact was processed and the halt reason is recorded.
OkIsComplete ==
  status = "Ok" =>
    /\ agenda = {}
    /\ {f.kind : f \in store} \cap HaltReason = {halt}
    /\ \A i \in 1 .. Len(text) - 1 : KvAdvance(Len(prompt) + i - 1) \in store

\* What generate returns is the whole answer and nothing else: positions in
\* order, text, ids and halt reason that agree at every step, and Ok only
\* when no rule is left to run.
AnswerOK == PositionsInOrder /\ AnswerMatchesIds /\ OkIsComplete

\* The control hook is told the step it decides and the number of positions
\* that really are in the KV cache at that moment, for the first token (where
\* the code passes 0 and prompt_len) as for every later one; no token joins
\* the answer on what the hook was told of an earlier one.
ControlSeesCommitted ==
  [][view' # view \/ ids' # ids => /\ view'.step = Len(ids)
                                   /\ view'.kv = Len(computed')]_vars

\* GPU time at or over the TDR budget is always followed by a yield: no order
\* of completions and resets loses the TdrRiskHigh fact to deduplication.
TdrIsSignalled ==
  tdr.spent >= TdrBudget => \E f \in agenda : f.kind = "TdrRiskHigh"

\* The run budget covers the facts the rules can derive for the request, so
\* a call that may emit a token never ends in BudgetExhausted.
BudgetSuffices == limit # 0 => status # "BudgetExhausted"

\* Every call for a prompt that has tokens returns with a terminal reason,
\* or as exhausted where the work bound is too small.
AlwaysAnswers ==
  status = "running" /\ prompt # <<>> ~> status \in {"Ok", "BudgetExhausted"}

\* max_tokens is documented as the number of tokens allowed.
LimitRespected == Len(text) <= limit

Promise == INSTANCE Generation
             WITH Tokens <- {t \in Vocab : ~IsStop(t)},
                  prompt <- Len(prompt),
                  positions <- Len(computed),
                  ended <- halt # "none"

\* The rule system implements the promise made to the caller of generate.
GenerationSpec == Promise!Spec
=============================================================================
