------------------------ MODULE InferenceFabric_proofs ------------------------
(***************************************************************************)
(* Proofs about InferenceFabric for every vocabulary, prompt, limit, set   *)
(* of stop tokens, time budget and order of the worklist.                  *)
(***************************************************************************)
EXTENDS InferenceFabric, FiniteSetTheorems, SequenceTheorems, TLAPS

-----------------------------------------------------------------------------
(* The inductive invariant *)

InPrompt(tok) == \E i \in 1 .. Len(prompt) : prompt[i] = tok

\* What a fact in the store says about the call, by its kind.
FactOK(f) ==
  /\ f.kind \in {"PromptToken", "EmbeddingRequest", "EmbeddingReady"} =>
       InPrompt(f.tok)
  /\ f.kind = "EmbeddingRequest" => f = EmbeddingRequest(f.tok)
  /\ f.kind = "PrefillBatchReady" =>
       /\ f = PrefillBatchReady(Len(prompt))
       /\ prompt # <<>> /\ AllEmbeddingsCached
  /\ f.kind = "PrefillComplete" =>
       f = PrefillComplete(Len(prompt)) /\ computed # <<>>
  /\ f.kind = "DecodeStep" =>
       f.n < Len(text) /\ f.at = Len(prompt) + f.n
  /\ f.kind \in {"DispatchCompleted", "TdrRiskHigh"} => f.at < Len(computed)
  /\ f.kind \in HaltReason => f.kind = halt

\* One DecodeStep per step, one DispatchCompleted per layer tag.
SameFact(f, g) ==
  f.kind = g.kind =>
    /\ f.kind = "DecodeStep" /\ f.n = g.n => f = g
    /\ f.kind = "DispatchCompleted" /\ f.at = g.at => f = g

StoreOK ==
  /\ \A f \in store : FactOK(f)
  /\ \A f, g \in store : SameFact(f, g)

\* What a rule that has not run yet may rely on.
PendingOK(f) ==
  /\ f.kind = "PrefillBatchReady" => computed = <<>>
  /\ f.kind = "PrefillComplete" =>
       /\ Len(computed) = Len(prompt)
       /\ ids = <<>> /\ text = <<>> /\ halt = "none"
  /\ f.kind = "DecodeStep" =>
       /\ f.n = Len(text) - 1
       /\ Len(computed) = Len(prompt) + Len(text) - 1
       /\ ids = text /\ halt = "none"
  /\ f.kind = "DispatchCompleted" => TdrRiskHigh(f.at) \notin store

AgendaOK == \A f \in agenda : PendingOK(f)

\* An embedding is dequantised by the one rule that runs for its token.
DequantOK ==
  \A tok \in Vocab :
    dequants[tok] = 1 => EmbeddingRequest(tok) \in store \ agenda

\* Before the prefill nothing has been answered.
BeforePrefill ==
  computed = <<>> => ids = <<>> /\ text = <<>> /\ halt = "none"

\* What the end of the call relies on.
RecordOK ==
  /\ halt # "none" => GenerationHalt(halt) \in store
  /\ \A i \in 1 .. Len(text) - 1 : KvAdvance(Len(prompt) + i - 1) \in store
  /\ status = "Ok" => agenda = {} /\ halt # "none"
  /\ status = "idle" => store = TensorFacts
  /\ computed # <<>> =>
       /\ Len(computed) >= Len(prompt)
       /\ PrefillBatchReady(Len(prompt)) \in store

IInv ==
  /\ TypeOK
  /\ StoreOK
  /\ AgendaOK
  /\ DequantOK
  /\ BeforePrefill
  /\ PositionsInOrder
  /\ AnswerMatchesIds
  /\ RecordOK
  /\ TdrIsSignalled
-----------------------------------------------------------------------------
(* Facts *)

LEMMA FactFields ==
  ASSUME NEW k, NEW at, NEW tok, NEW n
  PROVE  /\ Fact(k, at, tok, n).kind = k /\ Fact(k, at, tok, n).at = at
         /\ Fact(k, at, tok, n).tok = tok /\ Fact(k, at, tok, n).n = n
  BY DEF Fact

LEMMA FactType ==
  ASSUME NEW k \in Kinds, NEW at \in Nat, NEW n \in Nat,
         NEW tok \in Vocab \cup {NoToken}
  PROVE  Fact(k, at, tok, n) \in Facts
  BY DEF Fact, Facts

LEMMA FactIsItsFields ==
  ASSUME NEW f \in Facts PROVE f = Fact(f.kind, f.at, f.tok, f.n)
  BY DEF Fact, Facts

LEMMA SlotsNat == \A q \in DOMAIN SlotForType : SlotForType[q] \in Nat
<1> DEFINE S == {0, 1, 2, 6, 8, 12, 13, 14}
           V(q) == CASE q \in 0 .. 2 -> q [] q = 6 -> 3 [] q = 8 -> 4
                     [] OTHER -> q - 7
<1>1. SlotForType = [q \in S |-> V(q)]
  BY DEF SlotForType
<1>2. ASSUME NEW q \in S PROVE V(q) \in Nat
  <2>1. CASE q \in 0 .. 2
    BY <2>1
  <2>2. CASE q = 6
    BY <2>2
  <2>3. CASE q = 8
    BY <2>3
  <2>4. CASE q \in {12, 13, 14}
    BY <2>4
  <2>5. QED
    BY <2>1, <2>2, <2>3, <2>4
<1> HIDE DEF V, S
<1>3. QED
  BY <1>1, <1>2

-----------------------------------------------------------------------------
LEMMA InitInv == Init => IInv
<1> SUFFICES ASSUME Init PROVE IInv
  OBVIOUS
<1>1. /\ prompt \in Seq(Vocab) /\ limit \in Nat
  BY PromptsOK, NumbersOK DEF Init
<1>2. \A f \in TensorFacts : f \in Facts /\ f.kind = "TensorFact"
  <2>1. ASSUME NEW t \in Tensors
        PROVE  /\ TensorFact(t.offset, t.quant) \in Facts
               /\ TensorFact(t.offset, t.quant).kind = "TensorFact"
    <3>1. t.offset \in Nat /\ t.quant \in Nat
      BY TensorsOK
    <3>2. QED
      BY <3>1, FactFields, FactType DEF TensorFact, Kinds, Reactive
  <2>2. QED
    BY <2>1 DEF TensorFacts
<1>3. TypeOK
  <2>1. /\ store \subseteq Facts
        /\ agenda \subseteq {f \in store : f.kind \in Reactive}
    BY <1>2 DEF Init, Reactive
  <2>2. /\ dequants \in [Vocab -> {0, 1}] /\ view \in [step : Nat, kv : Nat]
        /\ tdr \in [spent : Nat, yields : Nat]
    BY DEF Init
  <2>3. recent \in Seq(Vocab) /\ Len(recent) <= RecentCap
    BY NumbersOK DEF Init
  <2>4. /\ computed \in Seq(Nat) /\ ids \in Seq(Vocab) /\ text \in Seq(Vocab)
        /\ cache \subseteq Vocab /\ blocked \in BOOLEAN
        /\ status \in Status /\ halt \in HaltReason \cup {"none"}
    <3>1. computed \in Seq(Nat) /\ ids \in Seq(Vocab) /\ text \in Seq(Vocab)
      BY DEF Init
    <3>2. cache \subseteq Vocab /\ blocked \in BOOLEAN
      BY DEF Init
    <3>3. status \in Status /\ halt \in HaltReason \cup {"none"}
      BY DEF Init, Status
    <3>4. QED
      BY <3>1, <3>2, <3>3
  <2>5. budget \in 0 .. WorkMax
    BY NumbersOK DEF Init
  <2>6. QED
    BY <1>1, <2>1, <2>2, <2>3, <2>4, <2>5 DEF TypeOK
<1>4. StoreOK /\ AgendaOK
  BY <1>2
     DEF Init, StoreOK, AgendaOK, FactOK, SameFact, PendingOK, HaltReason
<1>5. DequantOK /\ BeforePrefill /\ TdrIsSignalled
  BY NumbersOK DEF Init, DequantOK, BeforePrefill, TdrIsSignalled
<1>6. PositionsInOrder
  BY DEF Init, PositionsInOrder
<1>7. AnswerMatchesIds
  BY <1>1 DEF Init, AnswerMatchesIds
<1>8. RecordOK
  BY DEF Init, RecordOK
<1>9. QED
  BY <1>3, <1>4, <1>5, <1>6, <1>7, <1>8 DEF IInv

-----------------------------------------------------------------------------
(* What a rule does to the store and the worklist *)

LEMMA DeriveFacts ==
  ASSUME TypeOK, NEW f \in agenda, NEW C \in SUBSET Facts, Derive(f, C)
  PROVE  /\ store' = store \cup C
         /\ store' \subseteq Facts
         /\ agenda' \subseteq {g \in store' : g.kind \in Reactive}
         /\ \A g \in agenda' : g \in agenda \ {f} \/ g \in C \ store
         /\ prompt' = prompt /\ limit' = limit /\ status' = status
         /\ budget' = budget
  BY DEF TypeOK, Derive

\* The rules that leave the answer alone.
AnswerVars == <<computed, ids, recent, text, halt, blocked, view>>

QuietKinds == {"EmbeddingRequest", "EmbeddingReady", "PrefillBatchReady",
               "KvWritten", "TdrRiskHigh", "YieldNow", "DispatchFact"}

\* The facts a quiet rule derives hold, and report the risk of no layer
\* whose completion is still to be looked at.
QuietFacts(f, C) ==
  \A c \in C : /\ c.kind \in QuietKinds
               /\ FactOK(c)'
               /\ \A g \in agenda \ {f} :
                    g.kind = "DispatchCompleted" => c # TdrRiskHigh(g.at)

LEMMA QuietInv ==
  ASSUME IInv, NEW f \in agenda, status = "running",
         NEW C \in SUBSET Facts, Derive(f, C), UNCHANGED AnswerVars,
         cache \subseteq cache', cache' \subseteq Vocab,
         dequants' \in [Vocab -> {0, 1}], tdr' \in [spent : Nat, yields : Nat],
         DequantOK', TdrIsSignalled', QuietFacts(f, C)
  PROVE  IInv'
<1> USE DEF IInv, QuietFacts
<1>1. /\ store' = store \cup C
      /\ store' \subseteq Facts
      /\ agenda' \subseteq {g \in store' : g.kind \in Reactive}
      /\ \A g \in agenda' : g \in agenda \ {f} \/ g \in C \ store
      /\ prompt' = prompt /\ limit' = limit /\ status' = status
      /\ budget' = budget
  BY DeriveFacts
<1>2. /\ computed' = computed /\ ids' = ids /\ recent' = recent
      /\ text' = text /\ halt' = halt /\ blocked' = blocked /\ view' = view
  BY DEF AnswerVars
<1>3. TypeOK'
  BY <1>1, <1>2 DEF TypeOK
<1>4. AllEmbeddingsCached => AllEmbeddingsCached'
  BY <1>1 DEF AllEmbeddingsCached
<1>5. StoreOK'
  <2>1. ASSUME NEW g \in store PROVE FactOK(g)'
    <3>1. FactOK(g)
      BY DEF StoreOK
    <3>2. QED
      BY <1>1, <1>2, <1>4, <3>1 DEF FactOK, InPrompt
  <2>2. \A g, h \in store' : SameFact(g, h)
    BY <1>1 DEF StoreOK, SameFact, QuietKinds
  <2>3. QED
    BY <1>1, <2>1, <2>2 DEF StoreOK, SameFact
<1>6. AgendaOK'
  <2> SUFFICES ASSUME NEW g \in agenda' PROVE PendingOK(g)'
    BY DEF AgendaOK
  <2>1. CASE g \in agenda \ {f}
    BY <1>1, <1>2, <2>1 DEF AgendaOK, PendingOK, TdrRiskHigh
  <2>2. CASE g \in C \ store
    BY <1>1, <1>2, <2>2 DEF PendingOK, QuietKinds, RecordOK, FactOK
  <2>3. QED
    BY <1>1, <2>1, <2>2
<1>7. BeforePrefill' /\ AnswerMatchesIds'
  BY <1>1, <1>2 DEF BeforePrefill, AnswerMatchesIds
<1>8. PositionsInOrder'
  BY <1>1, <1>2, <1>4 DEF PositionsInOrder
<1>9. RecordOK'
  BY <1>1, <1>2 DEF RecordOK
<1>10. QED
  BY <1>3, <1>5, <1>6, <1>7, <1>8, <1>9

\* dequants and the worklist, for the rules that do not dequantise.
LEMMA DequantKept ==
  ASSUME TypeOK, DequantOK, NEW f \in agenda, NEW C \in SUBSET Facts,
         Derive(f, C), dequants' = dequants
  PROVE  DequantOK'
  BY DeriveFacts DEF DequantOK

\* The other rules leave the pending TdrRiskHigh alone.
LEMMA SignalKept ==
  ASSUME TypeOK, TdrIsSignalled, NEW f \in agenda, f.kind # "TdrRiskHigh",
         NEW C \in SUBSET Facts, Derive(f, C), tdr' = tdr
  PROVE  TdrIsSignalled'
  BY DEF TdrIsSignalled, Derive

LEMMA PromptTokenInv ==
  ASSUME IInv, NEW f \in agenda, PromptTokenRule(f) PROVE IInv'
<1> DEFINE C == {EmbeddingRequest(f.tok)}
<1>1. /\ status = "running" /\ f.kind = "PromptToken" /\ Derive(f, C)
      /\ UNCHANGED <<cache, dequants, computed, ids, recent, text, halt,
                     blocked, view, tdr>>
  BY DEF PromptTokenRule, Take, stateVars
<1>2. f \in Facts /\ InPrompt(f.tok) /\ f.tok \in Vocab \cup {NoToken}
  BY <1>1 DEF IInv, TypeOK, StoreOK, FactOK, Facts
<1>3. /\ EmbeddingRequest(f.tok).kind = "EmbeddingRequest"
      /\ EmbeddingRequest(f.tok).tok = f.tok
      /\ EmbeddingRequest(f.tok) \in Facts
  BY <1>2, FactFields, FactType DEF EmbeddingRequest, Kinds, Reactive
<1>4. prompt' = prompt
  BY <1>1 DEF Derive
<1>5. C \in SUBSET Facts /\ QuietFacts(f, C)
  BY <1>2, <1>3, <1>4, FactFields
     DEF QuietFacts, QuietKinds, FactOK, InPrompt, HaltReason, TdrRiskHigh
<1> HIDE DEF C
<1>6. DequantOK' /\ TdrIsSignalled'
  BY <1>1, <1>5, DequantKept, SignalKept DEF IInv
<1>7. UNCHANGED AnswerVars
  BY <1>1 DEF AnswerVars
<1>8. QED
  BY <1>1, <1>5, <1>6, <1>7, QuietInv DEF IInv, TypeOK

LEMMA EmbeddingRequestInv ==
  ASSUME IInv, NEW f \in agenda, EmbeddingRequestRule(f) PROVE IInv'
<1> DEFINE C == {EmbeddingReady(f.tok)}
<1>1. /\ status = "running" /\ f.kind = "EmbeddingRequest" /\ Derive(f, C)
      /\ dequants' = [dequants EXCEPT ![f.tok] = dequants[f.tok] + 1]
      /\ cache' = cache \cup {f.tok}
      /\ UNCHANGED <<computed, ids, recent, text, halt, blocked, view, tdr>>
  BY DEF EmbeddingRequestRule, Take
<1>2. f \in Facts /\ InPrompt(f.tok) /\ f.tok \in Vocab
  <2>1. f \in Facts /\ InPrompt(f.tok)
    BY <1>1 DEF IInv, TypeOK, StoreOK, FactOK
  <2>2. prompt \in Seq(Vocab)
    BY DEF IInv, TypeOK
  <2>3. QED
    BY <2>1, <2>2 DEF InPrompt
<1>3. /\ EmbeddingReady(f.tok).kind = "EmbeddingReady"
      /\ EmbeddingReady(f.tok).tok = f.tok
      /\ EmbeddingReady(f.tok) \in Facts
  BY <1>2, FactFields, FactType DEF EmbeddingReady, Kinds, Reactive
<1>4. prompt' = prompt
  BY <1>1 DEF Derive
<1>5. C \in SUBSET Facts /\ QuietFacts(f, C)
  BY <1>2, <1>3, <1>4, FactFields
     DEF QuietFacts, QuietKinds, FactOK, InPrompt, HaltReason, TdrRiskHigh
<1> HIDE DEF C
<1>6. TdrIsSignalled'
  BY <1>1, <1>5, SignalKept DEF IInv
<1>7. f = EmbeddingRequest(f.tok) /\ f \in store
  BY <1>1 DEF IInv, StoreOK, FactOK, TypeOK
<1>8. dequants[f.tok] = 0 /\ dequants' \in [Vocab -> {0, 1}]
  BY <1>1, <1>2, <1>7 DEF IInv, TypeOK, DequantOK
<1>9. DequantOK'
  <2> SUFFICES ASSUME NEW tok \in Vocab, dequants'[tok] = 1
               PROVE  EmbeddingRequest(tok) \in store' \ agenda'
    BY DEF DequantOK
  <2>1. /\ store' = store \cup C
        /\ \A g \in agenda' : g \in agenda \ {f} \/ g \in C \ store
    BY <1>1, <1>5, DeriveFacts DEF IInv
  <2>2. CASE tok = f.tok
    BY <1>7, <2>1, <2>2
  <2>3. CASE tok # f.tok
    BY <1>1, <2>1, <2>3 DEF IInv, DequantOK, TypeOK
  <2>4. QED
    BY <2>2, <2>3
<1>10. UNCHANGED AnswerVars
  BY <1>1 DEF AnswerVars
<1>11. QED
  BY <1>1, <1>2, <1>5, <1>6, <1>8, <1>9, <1>10, QuietInv DEF IInv, TypeOK

LEMMA EmbeddingReadyInv ==
  ASSUME IInv, NEW f \in agenda, EmbeddingReadyRule(f) PROVE IInv'
<1> DEFINE C == {c \in {PrefillBatchReady(Len(prompt))} : AllEmbeddingsCached}
<1>1. /\ status = "running" /\ f.kind = "EmbeddingReady" /\ Derive(f, C)
      /\ UNCHANGED <<cache, dequants, computed, ids, recent, text, halt,
                     blocked, view, tdr>>
  BY DEF EmbeddingReadyRule, Take, stateVars
<1>2. f \in Facts /\ InPrompt(f.tok) /\ prompt \in Seq(Vocab)
  BY <1>1 DEF IInv, TypeOK, StoreOK, FactOK
<1>3. prompt # <<>> /\ Len(prompt) \in Nat
  BY <1>2 DEF InPrompt
<1>4. /\ PrefillBatchReady(Len(prompt)).kind = "PrefillBatchReady"
      /\ PrefillBatchReady(Len(prompt)) \in Facts
  BY <1>3, FactFields, FactType DEF PrefillBatchReady, Kinds, Reactive
<1>5. prompt' = prompt /\ cache' = cache
  BY <1>1 DEF Derive
<1>6. C \in SUBSET Facts /\ QuietFacts(f, C)
  BY <1>3, <1>4, <1>5, FactFields
     DEF QuietFacts, QuietKinds, FactOK, InPrompt, HaltReason, TdrRiskHigh,
         AllEmbeddingsCached
<1> HIDE DEF C
<1>7. DequantOK' /\ TdrIsSignalled'
  BY <1>1, <1>6, DequantKept, SignalKept DEF IInv
<1>8. UNCHANGED AnswerVars
  BY <1>1 DEF AnswerVars
<1>9. QED
  BY <1>1, <1>6, <1>7, <1>8, QuietInv DEF IInv, TypeOK

LEMMA KvAdvanceInv ==
  ASSUME IInv, NEW f \in agenda, KvAdvanceRule(f) PROVE IInv'
<1> DEFINE C == {KvWritten}
<1>1. /\ status = "running" /\ f.kind = "KvAdvance" /\ Derive(f, C)
      /\ UNCHANGED <<cache, dequants, computed, ids, recent, text, halt,
                     blocked, view, tdr>>
  BY DEF KvAdvanceRule, Take, stateVars
<1>2. KvWritten.kind = "KvWritten" /\ KvWritten \in Facts
  BY FactFields, FactType DEF KvWritten, Kinds, Reactive, HaltReason
<1>3. C \in SUBSET Facts /\ QuietFacts(f, C)
  BY <1>2, FactFields
     DEF QuietFacts, QuietKinds, FactOK, HaltReason, TdrRiskHigh
<1> HIDE DEF C
<1>4. DequantOK' /\ TdrIsSignalled'
  BY <1>1, <1>3, DequantKept, SignalKept DEF IInv
<1>5. UNCHANGED AnswerVars
  BY <1>1 DEF AnswerVars
<1>6. QED
  BY <1>1, <1>3, <1>4, <1>5, QuietInv DEF IInv, TypeOK

LEMMA TensorFactInv ==
  ASSUME IInv, NEW f \in agenda, TensorFactRule(f) PROVE IInv'
<1> DEFINE C == {DispatchFact(f.at, SlotForType[q]) :
                   q \in {f.n} \cap DOMAIN SlotForType}
<1>1. /\ status = "running" /\ f.kind = "TensorFact" /\ Derive(f, C)
      /\ UNCHANGED <<cache, dequants, computed, ids, recent, text, halt,
                     blocked, view, tdr>>
  BY DEF TensorFactRule, Take, stateVars
<1>2. f.at \in Nat
  BY DEF IInv, TypeOK, Facts
<1>3. ASSUME NEW q \in DOMAIN SlotForType
      PROVE  /\ DispatchFact(f.at, SlotForType[q]).kind = "DispatchFact"
             /\ DispatchFact(f.at, SlotForType[q]) \in Facts
  BY <1>2, SlotsNat, FactFields, FactType
     DEF DispatchFact, Kinds, Reactive, HaltReason
<1>4. \A c \in C : c.kind = "DispatchFact" /\ c \in Facts
  BY <1>3
<1> HIDE DEF C
<1>5. C \in SUBSET Facts /\ QuietFacts(f, C)
  BY <1>4, FactFields
     DEF QuietFacts, QuietKinds, FactOK, HaltReason, TdrRiskHigh
<1>6. DequantOK' /\ TdrIsSignalled'
  BY <1>1, <1>5, DequantKept, SignalKept DEF IInv
<1>7. UNCHANGED AnswerVars
  BY <1>1 DEF AnswerVars
<1>8. QED
  BY <1>1, <1>5, <1>6, <1>7, QuietInv DEF IInv, TypeOK

LEMMA DispatchCompletedInv ==
  ASSUME IInv, NEW f \in agenda, DispatchCompletedRule(f) PROVE IInv'
<1> DEFINE risk == TdrRiskHigh(f.at)
           C == {c \in {risk} : tdr.spent + f.n >= TdrBudget}
<1>1. /\ status = "running" /\ f.kind = "DispatchCompleted" /\ Derive(f, C)
      /\ tdr' = [tdr EXCEPT !.spent = tdr.spent + f.n]
      /\ UNCHANGED <<cache, dequants, computed, ids, recent, text, halt,
                     blocked, view>>
  BY DEF DispatchCompletedRule, Take
<1>2. /\ f \in Facts /\ f.at \in Nat /\ f.n \in Nat /\ f \in store
      /\ f.at < Len(computed) /\ risk \notin store
  BY <1>1 DEF IInv, TypeOK, StoreOK, AgendaOK, FactOK, PendingOK, Facts
<1>3. risk.kind = "TdrRiskHigh" /\ risk.at = f.at /\ risk \in Facts
  BY <1>2, FactFields, FactType DEF TdrRiskHigh, Kinds, Reactive
<1>4. ASSUME NEW g \in agenda \ {f}, g.kind = "DispatchCompleted"
      PROVE  risk # TdrRiskHigh(g.at)
  <2>1. g.at # f.at
    BY <1>1, <1>2, <1>4 DEF IInv, StoreOK, SameFact, TypeOK
  <2>2. TdrRiskHigh(g.at).at = g.at
    BY FactFields DEF TdrRiskHigh
  <2>3. QED
    BY <1>3, <2>1, <2>2
<1> HIDE DEF risk
<1>5. C \in SUBSET Facts /\ QuietFacts(f, C)
  <2>1. computed' = computed
    BY <1>1
  <2>2. FactOK(risk)'
    BY <1>2, <1>3, <2>1 DEF FactOK, HaltReason
  <2>3. QED
    BY <1>3, <1>4, <2>2 DEF QuietFacts, QuietKinds
<1>6. tdr \in [spent : Nat, yields : Nat]
      /\ tdr' \in [spent : Nat, yields : Nat]
      /\ tdr'.spent = tdr.spent + f.n
  <2>1. tdr \in [spent : Nat, yields : Nat]
    BY DEF IInv, TypeOK
  <2>2. tdr' = [spent |-> tdr.spent + f.n, yields |-> tdr.yields]
    BY <1>1, <2>1
  <2>3. QED
    BY <1>2, <2>1, <2>2
<1>7. TdrIsSignalled'
  <2> SUFFICES ASSUME tdr'.spent >= TdrBudget
               PROVE  \E g \in agenda' : g.kind = "TdrRiskHigh"
    BY DEF TdrIsSignalled
  <2>1. risk \in C
    BY <1>6
  <2>2. risk \in agenda'
    BY <1>1, <1>2, <1>3, <2>1 DEF Derive, Reactive
  <2>3. QED
    BY <1>3, <2>2
<1> HIDE DEF C
<1>8. DequantOK'
  BY <1>1, <1>5, DequantKept DEF IInv
<1>9. UNCHANGED AnswerVars
  BY <1>1 DEF AnswerVars
<1>10. QED
  BY <1>1, <1>5, <1>6, <1>7, <1>8, <1>9, QuietInv DEF IInv, TypeOK

LEMMA TdrRiskHighInv ==
  ASSUME IInv, NEW f \in agenda, TdrRiskHighRule(f) PROVE IInv'
<1> DEFINE C == {YieldNow(f.at)}
<1>1. /\ status = "running" /\ f.kind = "TdrRiskHigh" /\ Derive(f, C)
      /\ tdr' = [spent |-> 0, yields |-> tdr.yields + 1]
      /\ UNCHANGED <<cache, dequants, computed, ids, recent, text, halt,
                     blocked, view>>
  BY DEF TdrRiskHighRule, Take
<1>2. f.at \in Nat /\ tdr.yields \in Nat
  BY DEF IInv, TypeOK, Facts
<1>3. YieldNow(f.at).kind = "YieldNow" /\ YieldNow(f.at) \in Facts
  BY <1>2, FactFields, FactType DEF YieldNow, Kinds, Reactive, HaltReason
<1>4. C \in SUBSET Facts /\ QuietFacts(f, C)
  BY <1>3, FactFields
     DEF QuietFacts, QuietKinds, FactOK, HaltReason, TdrRiskHigh
<1> HIDE DEF C
<1>5. tdr' \in [spent : Nat, yields : Nat] /\ TdrIsSignalled'
  BY <1>1, <1>2, NumbersOK DEF TdrIsSignalled
<1>6. DequantOK'
  BY <1>1, <1>4, DequantKept DEF IInv
<1>7. UNCHANGED AnswerVars
  BY <1>1 DEF AnswerVars
<1>8. QED
  BY <1>1, <1>4, <1>5, <1>6, <1>7, QuietInv DEF IInv, TypeOK

-----------------------------------------------------------------------------
(* Sequences *)

LEMMA AppendSeq ==
  ASSUME NEW S, NEW s \in Seq(S), NEW e \in S
  PROVE  /\ Append(s, e) \in Seq(S)
         /\ Len(s) \in Nat /\ Len(Append(s, e)) = Len(s) + 1
         /\ \A i \in 1 .. Len(s) : Append(s, e)[i] = s[i]
         /\ Append(s, e)[Len(s) + 1] = e
         /\ Append(s, e) # <<>>
  OBVIOUS

LEMMA PositionsSeq ==
  ASSUME NEW n \in Nat
  PROVE  /\ [i \in 1 .. n |-> i - 1] \in Seq(Nat)
         /\ Len([i \in 1 .. n |-> i - 1]) = n
         /\ <<>> \o [i \in 1 .. n |-> i - 1] = [i \in 1 .. n |-> i - 1]
<1> DEFINE s == [i \in 1 .. n |-> i - 1]
<1>1. s \in Seq(Nat) /\ Len(s) = n
  OBVIOUS
<1> HIDE DEF s
<1>2. <<>> \o s = s
  BY <1>1
<1>3. QED
  BY <1>1, <1>2 DEF s

LEMMA RememberType ==
  ASSUME TypeOK, NEW tok \in Vocab, Remember(tok)
  PROVE  recent' \in Seq(Vocab) /\ Len(recent') <= RecentCap
<1> DEFINE all == Append(recent, tok)
<1>1. /\ recent \in Seq(Vocab) /\ Len(recent) <= RecentCap
      /\ recent' = IF Len(all) > RecentCap THEN Tail(all) ELSE all
  BY DEF TypeOK, Remember
<1>2. /\ all \in Seq(Vocab) /\ Len(all) = Len(recent) + 1 /\ all # <<>>
      /\ Len(recent) \in Nat
  BY <1>1, AppendSeq
<1> HIDE DEF all
<1>3. Tail(all) \in Seq(Vocab) /\ Len(Tail(all)) = Len(all) - 1
  BY <1>2
<1>4. QED
  BY <1>1, <1>2, <1>3, NumbersOK

-----------------------------------------------------------------------------
(* The rules that change the answer: at most one of them is pending *)

Answering == {"PrefillBatchReady", "PrefillComplete", "DecodeStep"}

LEMMA OnePending ==
  ASSUME IInv, NEW f \in agenda, f.kind \in Answering
  PROVE  /\ \A g \in agenda \ {f} : g.kind \notin Answering
         /\ halt = "none" /\ ids = text /\ blocked = FALSE
<1> USE DEF IInv
<1>1. /\ prompt \in Seq(Vocab) /\ text \in Seq(Vocab) /\ computed \in Seq(Nat)
      /\ agenda \subseteq store /\ store \subseteq Facts
  BY DEF TypeOK
<1>2. \A g \in agenda : FactOK(g) /\ PendingOK(g) /\ g.n \in Nat
  BY <1>1 DEF StoreOK, AgendaOK, Facts
<1>3. \A g \in agenda : g.kind = "PrefillBatchReady" =>
        /\ g = PrefillBatchReady(Len(prompt)) /\ computed = <<>>
        /\ text = <<>> /\ prompt # <<>> /\ ids = <<>> /\ halt = "none"
  BY <1>2 DEF FactOK, PendingOK, BeforePrefill
<1>4. \A g \in agenda : g.kind = "PrefillComplete" =>
        /\ g = PrefillComplete(Len(prompt)) /\ computed # <<>> /\ text = <<>>
        /\ ids = <<>> /\ halt = "none"
  BY <1>2 DEF FactOK, PendingOK
<1>5. \A g \in agenda : g.kind = "DecodeStep" =>
        /\ text # <<>> /\ g.n = Len(text) - 1
        /\ ids = text /\ halt = "none"
  BY <1>1, <1>2 DEF FactOK, PendingOK
<1>6. halt = "none" /\ ids = text
  BY <1>3, <1>4, <1>5 DEF Answering
<1>7. blocked = FALSE
  BY <1>6 DEF AnswerMatchesIds, TypeOK
<1>8. ASSUME NEW g \in agenda \ {f}, g.kind \in Answering PROVE FALSE
  <2>1. text = <<>> => f.kind # "DecodeStep" /\ g.kind # "DecodeStep"
    BY <1>5
  <2>2. CASE f.kind = "DecodeStep"
    BY <1>1, <1>3, <1>4, <1>5, <1>8, <2>2 DEF StoreOK, SameFact, Answering
  <2>3. CASE f.kind = "PrefillComplete"
    BY <1>3, <1>4, <1>8, <2>1, <2>3 DEF Answering
  <2>4. CASE f.kind = "PrefillBatchReady"
    BY <1>3, <1>4, <1>8, <2>1, <2>4 DEF Answering
  <2>5. QED
    BY <2>2, <2>3, <2>4 DEF Answering
<1>9. QED
  BY <1>6, <1>7, <1>8

AnswerTypeOK ==
  /\ computed \in Seq(Nat) /\ ids \in Seq(Vocab) /\ text \in Seq(Vocab)
  /\ recent \in Seq(Vocab) /\ Len(recent) <= RecentCap
  /\ halt \in HaltReason \cup {"none"} /\ blocked \in BOOLEAN
  /\ view \in [step : Nat, kv : Nat]

\* The facts such a rule derives hold, and are newer than those in the store.
AnswerFacts(C) ==
  /\ \A c \in C :
       /\ FactOK(c)'
       /\ c.kind \notin {"EmbeddingRequest", "TdrRiskHigh"}
       /\ c.kind \in Answering => PendingOK(c)'
       /\ c.kind = "DecodeStep" => c.n >= Len(text)
       /\ c.kind = "DispatchCompleted" => c.at >= Len(computed)
  /\ \A c, d \in C : SameFact(c, d)

AnswerGrows(C) ==
  /\ Len(computed') >= Len(computed) /\ Len(computed') >= Len(prompt)
  /\ computed' # <<>>
  /\ Len(text') >= Len(text)
  /\ halt' # "none" => GenerationHalt(halt') \in C
  /\ \A i \in 1 .. Len(text') - 1 : KvAdvance(Len(prompt) + i - 1) \in store'

LEMMA AnswerInv ==
  ASSUME IInv, NEW f \in agenda, f.kind \in Answering, status = "running",
         NEW C \in SUBSET Facts, Derive(f, C),
         UNCHANGED <<cache, dequants, tdr>>,
         AnswerTypeOK', AnswerFacts(C), AnswerGrows(C),
         PositionsInOrder', AnswerMatchesIds'
  PROVE  IInv'
<1> USE DEF IInv
<1>1. /\ store' = store \cup C
      /\ store' \subseteq Facts
      /\ agenda' \subseteq {g \in store' : g.kind \in Reactive}
      /\ \A g \in agenda' : g \in agenda \ {f} \/ g \in C \ store
      /\ prompt' = prompt /\ limit' = limit /\ status' = status
      /\ budget' = budget
  BY DeriveFacts
<1>2. /\ cache' = cache /\ dequants' = dequants /\ tdr' = tdr
  OBVIOUS
<1>3. TypeOK'
  BY <1>1, <1>2 DEF TypeOK, AnswerTypeOK
<1>4. /\ prompt \in Seq(Vocab) /\ text \in Seq(Vocab) /\ computed \in Seq(Nat)
      /\ text' \in Seq(Vocab) /\ computed' \in Seq(Nat)
      /\ agenda \subseteq store /\ store \subseteq Facts /\ C \subseteq Facts
  BY DEF TypeOK, AnswerTypeOK
<1>5. /\ \A g \in agenda \ {f} : g.kind \notin Answering
      /\ halt = "none"
  BY OnePending
<1>6. Len(text) \in Nat /\ Len(text') \in Nat /\ Len(computed) \in Nat
      /\ Len(computed') \in Nat
  BY <1>4
<1>7. AllEmbeddingsCached => AllEmbeddingsCached'
  BY <1>1, <1>2 DEF AllEmbeddingsCached
<1>8. ASSUME NEW g \in store PROVE FactOK(g)'
  <2>1. FactOK(g) /\ g.n \in Nat /\ g.at \in Nat
    BY <1>4 DEF StoreOK, Facts
  <2>2. g.kind \notin HaltReason
    BY <1>5, <2>1 DEF FactOK, HaltReason
  <2>3. g.kind = "DecodeStep" => g.n < Len(text')
    BY <1>6, <2>1 DEF FactOK, AnswerGrows
  <2>4. g.kind \in {"DispatchCompleted", "TdrRiskHigh"} =>
          g.at < Len(computed')
    BY <1>6, <2>1 DEF FactOK, AnswerGrows
  <2>5. computed' # <<>>
    BY DEF AnswerGrows
  <2>6. QED
    BY <1>1, <1>7, <2>1, <2>2, <2>3, <2>4, <2>5 DEF FactOK, InPrompt
<1>9. StoreOK'
  <2>1. ASSUME NEW g \in store, NEW c \in C
        PROVE  SameFact(g, c) /\ SameFact(c, g)
    <3>1. FactOK(g) /\ g.n \in Nat /\ g.at \in Nat
      BY <1>4 DEF StoreOK, Facts
    <3>2. g.kind = "DecodeStep" => g.n < Len(text)
      BY <3>1 DEF FactOK
    <3>3. g.kind = "DispatchCompleted" => g.at < Len(computed)
      BY <3>1 DEF FactOK
    <3>4. c.n \in Nat /\ c.at \in Nat
      BY <1>4 DEF Facts
    <3>5. QED
      BY <1>6, <3>1, <3>2, <3>3, <3>4 DEF SameFact, AnswerFacts
  <2>2. \A g, h \in store' : SameFact(g, h)
    BY <1>1, <2>1 DEF StoreOK, AnswerFacts
  <2>3. \A g, h \in store' : SameFact(g, h)'
    BY <2>2 DEF SameFact
  <2>4. \A g \in store' : FactOK(g)'
    BY <1>1, <1>8 DEF AnswerFacts
  <2>5. QED
    BY <2>3, <2>4 DEF StoreOK
<1>10. AgendaOK'
  <2> SUFFICES ASSUME NEW g \in agenda' PROVE PendingOK(g)'
    BY DEF AgendaOK
  <2>1. g.kind \in Answering => PendingOK(g)'
    BY <1>1, <1>5 DEF AnswerFacts
  <2>2. ASSUME g.kind = "DispatchCompleted"
        PROVE  TdrRiskHigh(g.at) \notin store'
    <3>1. TdrRiskHigh(g.at).kind = "TdrRiskHigh"
          /\ TdrRiskHigh(g.at).at = g.at
      BY FactFields DEF TdrRiskHigh
    <3>2. TdrRiskHigh(g.at) \notin C
      BY <3>1 DEF AnswerFacts
    <3>3. CASE g \in agenda \ {f}
      BY <1>1, <2>2, <3>2, <3>3 DEF AgendaOK, PendingOK
    <3>4. CASE g \in C \ store
      <4>1. g.at >= Len(computed) /\ g.at \in Nat
        BY <1>4, <2>2, <3>4 DEF AnswerFacts, Facts
      <4>2. TdrRiskHigh(g.at) \in store => g.at < Len(computed)
        BY <3>1 DEF StoreOK, FactOK
      <4>3. QED
        BY <1>1, <1>6, <3>2, <4>1, <4>2
    <3>5. QED
      BY <1>1, <3>3, <3>4
  <2>3. QED
    BY <2>1, <2>2 DEF PendingOK, Answering
<1>11. DequantOK'
  BY <1>2, DequantKept
<1>12. TdrIsSignalled'
  BY <1>2, SignalKept DEF Answering
<1>13. BeforePrefill'
  BY DEF BeforePrefill, AnswerGrows
<1>14. RecordOK'
  <2>1. PrefillBatchReady(Len(prompt)) \in store
    <3>1. FactOK(f) /\ f \in store /\ f.n \in Nat /\ PendingOK(f)
      BY <1>4 DEF StoreOK, AgendaOK, Facts
    <3>2. CASE f.kind = "PrefillBatchReady"
      BY <3>1, <3>2 DEF FactOK
    <3>3. CASE f.kind = "PrefillComplete"
      BY <3>1, <3>3 DEF FactOK, RecordOK
    <3>4. CASE f.kind = "DecodeStep"
      <4>1. text # <<>>
        BY <1>4, <3>1, <3>4 DEF FactOK
      <4>2. QED
        BY <4>1 DEF BeforePrefill, RecordOK
    <3>5. QED
      BY <3>2, <3>3, <3>4 DEF Answering
  <2>2. QED
    BY <1>1, <2>1 DEF RecordOK, AnswerGrows
<1>15. QED
  BY <1>3, <1>9, <1>10, <1>11, <1>12, <1>13, <1>14

-----------------------------------------------------------------------------
LEMMA PrefillBatchReadyInv ==
  ASSUME IInv, NEW f \in agenda, PrefillBatchReadyRule(f) PROVE IInv'
<1> DEFINE N == Len(prompt)
<1>1. /\ status = "running" /\ f.kind = "PrefillBatchReady"
      /\ computed' = computed \o [i \in 1 .. f.at |-> i - 1]
      /\ UNCHANGED <<cache, dequants, ids, recent, text, halt, blocked, view,
                     tdr>>
  BY DEF PrefillBatchReadyRule, Take
<1>2. PICK elapsed \in Times : Derive(f, PrefillFacts(f.at, elapsed))
  BY DEF PrefillBatchReadyRule
<1>3. /\ f \in store /\ FactOK(f) /\ PendingOK(f)
      /\ prompt \in Seq(Vocab)
  BY DEF IInv, TypeOK, StoreOK, AgendaOK
<1>4. /\ f.at = N /\ prompt # <<>> /\ AllEmbeddingsCached /\ computed = <<>>
  BY <1>1, <1>3, FactFields DEF FactOK, PendingOK, PrefillBatchReady
<1>5. N \in Nat /\ N > 0 /\ elapsed \in Nat
  BY <1>3, <1>4, NumbersOK
<1>6. /\ ids = <<>> /\ text = <<>> /\ halt = "none"
  BY <1>4 DEF IInv, BeforePrefill
<1> HIDE DEF N
<1>7. /\ computed' = [i \in 1 .. N |-> i - 1] /\ Len(computed') = N
      /\ computed' \in Seq(Nat) /\ computed' # <<>>
  <2>1. computed' = [i \in 1 .. N |-> i - 1]
    BY <1>1, <1>4, <1>5, PositionsSeq
  <2>2. Len(computed') = N /\ computed' \in Seq(Nat)
    BY <1>5, <2>1, PositionsSeq
  <2>3. QED
    BY <1>5, <2>1, <2>2
<1> DEFINE C == PrefillFacts(f.at, elapsed)
<1>8. /\ prompt' = prompt /\ limit' = limit /\ Derive(f, C)
  BY <1>2 DEF Derive
<1>9. ASSUME NEW c \in C
      PROVE  \/ c.kind = "KvAdvance" /\ c \in Facts
             \/ /\ c = PrefillComplete(N) /\ c \in Facts
                /\ c.kind = "PrefillComplete"
             \/ c.kind = "LayerOutput" /\ c \in Facts
             \/ c.kind = "FinalLogits" /\ c \in Facts
             \/ /\ c = DispatchCompleted(0, elapsed) /\ c \in Facts
                /\ c.kind = "DispatchCompleted" /\ c.at = 0
  <2> USE FactFields, FactType DEF Kinds, Reactive
  <2>1. CASE c \in {KvAdvance(pos) : pos \in 0 .. f.at - 1}
    BY <1>4, <1>5, <2>1 DEF KvAdvance
  <2>2. CASE c = PrefillComplete(f.at)
    BY <1>4, <1>5, <2>2 DEF PrefillComplete
  <2>3. CASE c = LayerOutput(f.at)
    BY <1>4, <1>5, <2>3 DEF LayerOutput
  <2>4. CASE c = FinalLogits(f.at, 0)
    BY <1>4, <1>5, <2>4 DEF FinalLogits
  <2>5. CASE c = DispatchCompleted(0, elapsed)
    BY <1>5, <2>5 DEF DispatchCompleted
  <2>6. QED
    BY <2>1, <2>2, <2>3, <2>4, <2>5 DEF PrefillFacts
<1> HIDE DEF C
<1>10. C \in SUBSET Facts
  BY <1>9
<1>11. AnswerFacts(C)
  <2>1. ASSUME NEW c \in C
        PROVE  /\ FactOK(c)'
               /\ c.kind \in Answering => PendingOK(c)'
    <3>1. FactOK(c)'
      BY <1>5, <1>7, <1>8, <1>9 DEF FactOK, HaltReason, N
    <3>2. c.kind \in Answering => c.kind = "PrefillComplete"
      BY <1>9 DEF Answering
    <3>3. c.kind = "PrefillComplete" => PendingOK(c)'
      BY <1>1, <1>6, <1>7, <1>8 DEF PendingOK, N
    <3>4. QED
      BY <3>1, <3>2, <3>3
  <2>2. Len(computed) = 0
    BY <1>4
  <2>3. \A c \in C : /\ c.kind \notin {"EmbeddingRequest", "TdrRiskHigh"}
                     /\ c.kind # "DecodeStep"
                     /\ c.kind = "DispatchCompleted" =>
                          /\ c.at >= Len(computed)
                          /\ c = DispatchCompleted(0, elapsed)
    BY <1>9, <2>2
  <2>4. \A c, d \in C : SameFact(c, d)
    BY <2>3 DEF SameFact
  <2>5. QED
    BY <2>1, <2>3, <2>4 DEF AnswerFacts
<1>12. AnswerGrows(C)
  BY <1>1, <1>4, <1>5, <1>6, <1>7 DEF AnswerGrows, N
<1>13. AnswerTypeOK'
  BY <1>1, <1>7 DEF IInv, TypeOK, AnswerTypeOK
<1>14. PositionsInOrder'
  <2>1. AllEmbeddingsCached'
    BY <1>1, <1>4, <1>8 DEF AllEmbeddingsCached
  <2>2. QED
    BY <1>1, <1>6, <1>7, <2>1 DEF PositionsInOrder
<1>15. AnswerMatchesIds'
  BY <1>1, <1>8 DEF IInv, AnswerMatchesIds
<1>16. QED
  BY <1>1, <1>8, <1>10, <1>11, <1>12, <1>13, <1>14, <1>15, AnswerInv
     DEF Answering

\* A rule that ends the generation: one halt fact, nothing streamed.
LEMMA HaltInv ==
  ASSUME IInv, NEW f \in agenda, f.kind \in {"PrefillComplete", "DecodeStep"},
         status = "running", NEW reason \in HaltReason, Halt(f, reason),
         UNCHANGED <<cache, dequants, tdr, text>>,
         AnswerTypeOK', Len(computed') >= Len(computed),
         PositionsInOrder', AnswerMatchesIds'
  PROVE  IInv'
<1> DEFINE c == GenerationHalt(reason)
           C == {c}
<1>1. Derive(f, C) /\ halt' = reason /\ prompt' = prompt
  BY DEF Halt, Derive
<1>2. c.kind = reason /\ c \in Facts
  BY FactFields, FactType DEF GenerationHalt, Kinds
<1>3. /\ f \in store /\ FactOK(f) /\ PendingOK(f) /\ f.n \in Nat
      /\ prompt \in Seq(Vocab) /\ text \in Seq(Vocab) /\ computed \in Seq(Nat)
      /\ computed' \in Seq(Nat)
  BY DEF IInv, TypeOK, StoreOK, AgendaOK, Facts, AnswerTypeOK
<1>4. computed # <<>> /\ Len(computed) >= Len(prompt)
  <2>1. CASE f.kind = "PrefillComplete"
    BY <1>3, <2>1 DEF FactOK, IInv, RecordOK
  <2>2. CASE f.kind = "DecodeStep"
    <3>1. text # <<>>
      BY <1>3, <2>2 DEF FactOK
    <3>2. QED
      BY <3>1 DEF IInv, BeforePrefill, RecordOK
  <2>3. QED
    BY <2>1, <2>2
<1>5. /\ Len(computed') >= Len(prompt) /\ computed' # <<>>
  BY <1>3, <1>4
<1>6. c.kind \notin {"PromptToken", "EmbeddingRequest", "EmbeddingReady",
                     "PrefillBatchReady", "PrefillComplete", "DecodeStep",
                     "DispatchCompleted", "TdrRiskHigh"}
  BY <1>2 DEF HaltReason
<1>7. FactOK(c)'
  BY <1>1, <1>2, <1>6 DEF FactOK
<1> HIDE DEF c
<1>8. AnswerFacts(C)
  BY <1>6, <1>7 DEF AnswerFacts, SameFact, Answering
<1>9. AnswerGrows(C)
  <2>1. \A i \in 1 .. Len(text') - 1 :
          KvAdvance(Len(prompt) + i - 1) \in store'
    BY <1>1 DEF IInv, RecordOK, Derive
  <2>2. GenerationHalt(halt') \in C
    BY <1>1 DEF c
  <2>3. QED
    BY <1>3, <1>5, <2>1, <2>2 DEF AnswerGrows
<1>10. C \in SUBSET Facts
  BY <1>2
<1> HIDE DEF C
<1>11. QED
  BY <1>1, <1>8, <1>9, <1>10, AnswerInv DEF Answering

-----------------------------------------------------------------------------
(* What one more id, streamed or not, does to the answer *)

LEMMA StopAnswer ==
  ASSUME IInv, ids = text, blocked = FALSE, NEW tok \in Vocab, IsStop(tok),
         ids' = Append(ids, tok), text' = text, halt' = ReasonOf(tok),
         blocked' = blocked, limit' = limit,
         Len(text) + 1 <= (IF limit = 0 THEN 1 ELSE limit)
  PROVE  AnswerMatchesIds'
<1>1. /\ ids \in Seq(Vocab) /\ text \in Seq(Vocab) /\ limit \in Nat
      /\ ids' \in Seq(Vocab)
  BY AppendSeq DEF IInv, TypeOK
<1>2. /\ Len(ids) \in Nat /\ Len(ids') = Len(ids) + 1 /\ ids' # <<>>
      /\ \A i \in 1 .. Len(ids) : ids'[i] = ids[i]
      /\ ids'[Len(ids')] = tok
  BY <1>1, AppendSeq
<1>3. \A i \in 1 .. Len(ids) : ~IsStop(ids[i])
  <2>1. /\ \A i \in 1 .. Len(ids) - 1 : ~IsStop(ids[i])
        /\ ids # <<>> => ~IsStop(ids[Len(ids)])
    BY <1>1, <1>2 DEF IInv, AnswerMatchesIds
  <2>2. QED
    BY <1>1, <1>2, <2>1
<1>4. \A i \in 1 .. Len(ids') - 1 : ~IsStop(ids'[i])
  BY <1>2, <1>3
<1>5. ids' # text'
  BY <1>2
<1>6. /\ halt' = "EosToken" <=> tok = Eos
      /\ halt' = "ExtraStopToken" <=> tok # Eos
      /\ halt' # "MaxTokensReached"
  BY DEF ReasonOf
<1>7. /\ \A i \in 1 .. Len(text') : text'[i] = ids'[i]
      /\ Len(ids') = Len(text') + 1
  BY <1>2
<1>8. QED
  BY <1>2, <1>4, <1>5, <1>6, <1>7 DEF AnswerMatchesIds, IsStop

LEMMA StreamAnswer ==
  ASSUME IInv, ids = text, halt = "none", blocked = FALSE,
         NEW tok \in Vocab, ~IsStop(tok),
         ids' = Append(ids, tok), text' = Append(text, tok), halt' = halt,
         blocked' = blocked, limit' = limit,
         Len(text) + 1 <= (IF limit = 0 THEN 1 ELSE limit)
  PROVE  AnswerMatchesIds'
<1>1. /\ ids \in Seq(Vocab) /\ text \in Seq(Vocab) /\ limit \in Nat
      /\ ids' \in Seq(Vocab)
  BY AppendSeq DEF IInv, TypeOK
<1>2. /\ Len(ids) \in Nat /\ Len(ids') = Len(ids) + 1 /\ ids' # <<>>
      /\ \A i \in 1 .. Len(ids) : ids'[i] = ids[i]
      /\ ids'[Len(ids')] = tok
  BY <1>1, AppendSeq
<1>3. \A i \in 1 .. Len(ids) : ~IsStop(ids[i])
  <2>1. /\ \A i \in 1 .. Len(ids) - 1 : ~IsStop(ids[i])
        /\ ids # <<>> => ~IsStop(ids[Len(ids)])
    BY <1>1, <1>2 DEF IInv, AnswerMatchesIds
  <2>2. QED
    BY <1>1, <1>2, <2>1
<1>4. \A i \in 1 .. Len(ids') - 1 : ~IsStop(ids'[i])
  BY <1>2, <1>3
<1>5. ids' = text'
  OBVIOUS
<1>6. QED
  BY <1>2, <1>4, <1>5 DEF AnswerMatchesIds, IsStop

\* The end of the call with the ids as they are.
LEMMA KeepAnswer ==
  ASSUME IInv, ids = text, ids' = ids, text' = text, limit' = limit,
         blocked' \in BOOLEAN,
         \/ halt' = "ControlHalt"
         \/ /\ halt' = "MaxTokensReached" /\ blocked' = FALSE
            /\ Len(text) = (IF limit = 0 THEN 1 ELSE limit)
  PROVE  AnswerMatchesIds'
  BY DEF IInv, AnswerMatchesIds, IsStop

LEMMA PrefillCompleteInv ==
  ASSUME IInv, NEW f \in agenda, PrefillCompleteRule(f) PROVE IInv'
<1>1. /\ status = "running" /\ f.kind = "PrefillComplete"
      /\ view' = [step |-> 0, kv |-> Len(prompt)]
      /\ cache' = cache /\ dequants' = dequants /\ computed' = computed
      /\ tdr' = tdr
  BY DEF PrefillCompleteRule, Take
<1>2. /\ halt = "none" /\ ids = text /\ blocked = FALSE
  BY <1>1, OnePending DEF Answering
<1>3. /\ f \in store /\ FactOK(f) /\ PendingOK(f)
      /\ prompt \in Seq(Vocab) /\ limit \in Nat /\ computed \in Seq(Nat)
      /\ ids \in Seq(Vocab) /\ text \in Seq(Vocab) /\ recent \in Seq(Vocab)
      /\ Len(recent) <= RecentCap
  BY DEF IInv, TypeOK, StoreOK, AgendaOK
<1>4. /\ computed # <<>> /\ Len(computed) = Len(prompt) /\ text = <<>>
      /\ Len(text) = 0 /\ Len(text) + 1 <= (IF limit = 0 THEN 1 ELSE limit)
  <2>1. computed # <<>> /\ Len(computed) = Len(prompt) /\ text = <<>>
    BY <1>1, <1>3 DEF FactOK, PendingOK
  <2>2. Len(text) = 0
    BY <2>1
  <2>3. QED
    BY <1>3, <2>1, <2>2
<1>5. view' \in [step : Nat, kv : Nat] /\ Len(prompt) \in Nat
      /\ Len(computed') \in Nat
  BY <1>1, <1>3
<1>6. ASSUME prompt' = prompt, text' # <<>> => Len(text') = 1
      PROVE  PositionsInOrder'
  BY <1>1, <1>4, <1>5, <1>6
     DEF IInv, PositionsInOrder, AllEmbeddingsCached
<1>7. \/ ControlStops(f)
      \/ \E tok \in Vocab :
           /\ Remember(tok)
           /\ ids' = Append(ids, tok)
           /\ \/ /\ IsStop(tok)
                 /\ Halt(f, ReasonOf(tok))
                 /\ UNCHANGED <<text, blocked>>
              \/ /\ ~IsStop(tok)
                 /\ Stream(tok)
                 /\ Derive(f, {DecodeStep(0, tok, Len(prompt))})
  BY DEF PrefillCompleteRule
<1>8. CASE ControlStops(f)
  <2>1. /\ Halt(f, "ControlHalt") /\ halt' = "ControlHalt"
        /\ blocked' \in BOOLEAN
        /\ ids' = ids /\ recent' = recent /\ text' = text
        /\ prompt' = prompt /\ limit' = limit
    BY <1>2, <1>8 DEF ControlStops, Halt, Derive
  <2>2. AnswerTypeOK'
    BY <1>1, <1>3, <1>5, <2>1 DEF AnswerTypeOK, HaltReason
  <2>3. AnswerMatchesIds' /\ PositionsInOrder'
    BY <1>2, <1>4, <1>6, <2>1, KeepAnswer
  <2>4. "ControlHalt" \in HaltReason /\ Len(computed') >= Len(computed)
    BY <1>1, <1>5 DEF HaltReason
  <2>5. QED
    BY <1>1, <2>1, <2>2, <2>3, <2>4, HaltInv
<1>9. ASSUME NEW tok \in Vocab, Remember(tok), ids' = Append(ids, tok),
             IsStop(tok), Halt(f, ReasonOf(tok)), UNCHANGED <<text, blocked>>
      PROVE  IInv'
  <2>1. /\ halt' = ReasonOf(tok) /\ ReasonOf(tok) \in HaltReason
        /\ prompt' = prompt /\ limit' = limit
    BY <1>9 DEF Halt, Derive, ReasonOf, HaltReason
  <2>2. recent' \in Seq(Vocab) /\ Len(recent') <= RecentCap
    BY <1>9, RememberType DEF IInv
  <2>3. AnswerTypeOK'
    BY <1>1, <1>2, <1>3, <1>5, <1>9, <2>1, <2>2, AppendSeq DEF AnswerTypeOK
  <2>4. AnswerMatchesIds'
    BY <1>2, <1>3, <1>4, <1>9, <2>1, StopAnswer
  <2>5. PositionsInOrder'
    BY <1>4, <1>6, <1>9, <2>1
  <2>6. Len(computed') >= Len(computed)
    BY <1>1, <1>5
  <2>7. QED
    BY <1>1, <1>9, <2>1, <2>3, <2>4, <2>5, <2>6, HaltInv
<1>10. ASSUME NEW tok \in Vocab, Remember(tok), ids' = Append(ids, tok),
              ~IsStop(tok), Stream(tok),
              Derive(f, {DecodeStep(0, tok, Len(prompt))})
       PROVE  IInv'
  <2>0. PICK c : c = DecodeStep(0, tok, Len(prompt))
    OBVIOUS
  <2> DEFINE C == {c}
  <2>1. /\ text' = Append(text, tok) /\ halt' = halt /\ blocked' = blocked
        /\ prompt' = prompt /\ limit' = limit /\ Derive(f, C)
    BY <1>10, <2>0 DEF Stream, Derive
  <2>2. /\ c.kind = "DecodeStep" /\ c.n = 0 /\ c.at = Len(prompt)
        /\ c \in Facts
    BY <1>5, <2>0, FactFields, FactType DEF DecodeStep, Kinds, Reactive
  <2>3. /\ text' \in Seq(Vocab) /\ ids' \in Seq(Vocab) /\ Len(text') = 1
        /\ ids' = text'
    BY <1>2, <1>3, <1>4, <1>10, <2>1, AppendSeq
  <2>4. recent' \in Seq(Vocab) /\ Len(recent') <= RecentCap
    BY <1>10, RememberType DEF IInv
  <2>5. AnswerTypeOK'
    BY <1>1, <1>2, <1>3, <1>5, <2>1, <2>3, <2>4 DEF AnswerTypeOK
  <2>6. AnswerMatchesIds'
    BY <1>2, <1>3, <1>4, <1>10, <2>1, StreamAnswer
  <2>7. PositionsInOrder'
    BY <1>6, <2>1, <2>3
  <2>8. FactOK(c)'
    <3>1. c.at = Len(prompt') + c.n /\ c.n < Len(text')
      BY <1>5, <2>1, <2>2, <2>3
    <3>2. QED
      BY <2>2, <3>1 DEF FactOK, HaltReason
  <2>9. PendingOK(c)'
    <3>1. /\ c.n = Len(text') - 1 /\ ids' = text' /\ halt' = "none"
      BY <1>2, <2>1, <2>2, <2>3
    <3>2. Len(computed') = Len(prompt') + Len(text') - 1
      BY <1>1, <1>4, <1>5, <2>1, <2>3
    <3>3. QED
      BY <2>2, <3>1, <3>2 DEF PendingOK
  <2>10. AnswerFacts(C)
    <3>1. c.n >= Len(text)
      BY <1>4, <2>2
    <3>2. QED
      BY <2>2, <2>8, <2>9, <3>1 DEF AnswerFacts, SameFact
  <2>11. AnswerGrows(C)
    BY <1>1, <1>2, <1>4, <1>5, <2>1, <2>3 DEF AnswerGrows
  <2>12. C \in SUBSET Facts
    BY <2>2
  <2> HIDE DEF C
  <2>13. QED
    BY <1>1, <2>1, <2>5, <2>6, <2>7, <2>10, <2>11, <2>12, AnswerInv
       DEF Answering
<1>11. QED
  BY <1>7, <1>8, <1>9, <1>10

LEMMA DecodeLimitInv ==
  ASSUME IInv, NEW f \in agenda, DecodeLimit(f) PROVE IInv'
<1>1. /\ status = "running" /\ f.kind = "DecodeStep" /\ f.n + 1 >= limit
      /\ Halt(f, "MaxTokensReached") /\ halt' = "MaxTokensReached"
      /\ UNCHANGED <<cache, dequants, computed, ids, recent, text, blocked,
                     view, tdr>>
      /\ prompt' = prompt /\ limit' = limit
  BY DEF DecodeLimit, Take, LimitReached, Halt, Derive
<1>2. /\ halt = "none" /\ ids = text /\ blocked = FALSE
  BY <1>1, OnePending DEF Answering
<1>3. /\ f \in store /\ FactOK(f) /\ PendingOK(f) /\ f.n \in Nat
      /\ limit \in Nat /\ text \in Seq(Vocab) /\ computed \in Seq(Nat)
  BY DEF IInv, TypeOK, StoreOK, AgendaOK, Facts
<1>4. Len(text) = f.n + 1
  BY <1>1, <1>3 DEF PendingOK
<1>5. Len(text) = (IF limit = 0 THEN 1 ELSE limit)
  <2>1. Len(text) <= (IF limit = 0 THEN 1 ELSE limit)
    BY <1>2 DEF IInv, AnswerMatchesIds
  <2>2. QED
    BY <1>1, <1>3, <1>4, <2>1
<1>6. AnswerTypeOK'
  BY <1>1 DEF IInv, TypeOK, AnswerTypeOK, HaltReason
<1>7. AnswerMatchesIds'
  BY <1>1, <1>2, <1>5, KeepAnswer
<1>8. PositionsInOrder'
  BY <1>1 DEF IInv, PositionsInOrder, AllEmbeddingsCached
<1>9. "MaxTokensReached" \in HaltReason /\ Len(computed') >= Len(computed)
  BY <1>1, <1>3 DEF HaltReason
<1>10. QED
  BY <1>1, <1>6, <1>7, <1>8, <1>9, HaltInv

LEMMA DecodeForwardInv ==
  ASSUME IInv, NEW f \in agenda, DecodeForward(f) PROVE IInv'
<1> DEFINE P == Len(prompt)
<1>1. /\ status = "running" /\ f.kind = "DecodeStep" /\ ~LimitReached(f.n)
      /\ computed' = Append(computed, f.at)
      /\ cache' = cache /\ dequants' = dequants /\ tdr' = tdr
  BY DEF DecodeForward, Take
<1>2. /\ halt = "none" /\ ids = text /\ blocked = FALSE
  BY <1>1, OnePending DEF Answering
<1>3. /\ f \in store /\ FactOK(f) /\ PendingOK(f)
      /\ f.n \in Nat /\ f.at \in Nat
      /\ prompt \in Seq(Vocab) /\ limit \in Nat /\ computed \in Seq(Nat)
      /\ ids \in Seq(Vocab) /\ text \in Seq(Vocab) /\ recent \in Seq(Vocab)
      /\ Len(recent) <= RecentCap /\ view \in [step : Nat, kv : Nat]
  BY DEF IInv, TypeOK, StoreOK, AgendaOK, Facts
<1>4. /\ P \in Nat /\ Len(text) \in Nat /\ Len(computed) \in Nat
      /\ f.n \in Nat /\ f.at \in Nat
      /\ Len(text) = f.n + 1 /\ f.at = P + f.n /\ Len(computed) = f.at
      /\ Len(ids) = Len(text)
  BY SMTT(30), <1>1, <1>2, <1>3 DEF FactOK, PendingOK
<1>5. Len(text) + 1 <= (IF limit = 0 THEN 1 ELSE limit)
  BY SMTT(30), <1>1, <1>3, <1>4 DEF LimitReached
<1>6. /\ computed' \in Seq(Nat) /\ computed' # <<>>
      /\ \A i \in 1 .. Len(computed) : computed'[i] = computed[i]
      /\ computed'[Len(computed) + 1] = f.at
      /\ Len(computed') = Len(computed) + 1
  BY SMTT(30), <1>1, <1>3, AppendSeq
<1> DEFINE m == Len(text)
           k == Len(computed)
           k1 == Len(computed')
<1>6a. /\ P \in Nat /\ m \in Nat /\ k \in Nat /\ k1 \in Nat
       /\ f.n = m - 1 /\ f.at = k /\ k = P + m - 1 /\ k1 = P + m /\ m > 0
  BY SMTT(30), <1>4, <1>6
<1> HIDE DEF m, k, k1
<1>7. computed' = [i \in 1 .. Len(computed') |-> i - 1]
  <2> DEFINE n == Len(computed')
             s == [i \in 1 .. n |-> i - 1]
  <2>1. n \in Nat /\ n = Len(computed) + 1
    BY <1>4, <1>6
  <2>2. \A i \in 1 .. k : computed[i] = i - 1
    <3>1. computed = [i \in 1 .. k |-> i - 1]
      BY DEF IInv, PositionsInOrder, k
    <3>2. QED
      BY <3>1
  <2>3. \A i \in 1 .. n : computed'[i] = i - 1
    <3> SUFFICES ASSUME NEW i \in 1 .. n PROVE computed'[i] = i - 1
      OBVIOUS
    <3>1. CASE i \in 1 .. k
      BY <1>6, <2>2, <3>1 DEF k
    <3>2. CASE i = k + 1
      BY <1>6, <1>6a, <3>2 DEF k
    <3>3. QED
      BY <1>6a, <2>1, <3>1, <3>2 DEF k
  <2>4. s \in Seq(Nat) /\ Len(s) = n
    BY <2>1, PositionsSeq
  <2>5. \A i \in 1 .. n : s[i] = i - 1
    OBVIOUS
  <2> HIDE DEF n, s
  <2>6. computed' = s
    BY <1>6, <2>3, <2>4, <2>5, SeqEqual DEF n
  <2>7. QED
    BY <2>6 DEF n, s
<1>8. text # <<>> /\ computed # <<>> /\ AllEmbeddingsCached
  <2>1. text # <<>>
    BY <1>6a DEF m
  <2>2. QED
    BY <2>1 DEF IInv, BeforePrefill, PositionsInOrder
<1>9. ASSUME prompt' = prompt,
             Len(text') = Len(text) \/ Len(text') = Len(text) + 1
      PROVE  PositionsInOrder'
  <2>1. AllEmbeddingsCached'
    BY <1>1, <1>8, <1>9 DEF AllEmbeddingsCached
  <2>2. Len(computed') + 1 - Len(prompt') - Len(text') \in {0, 1}
    <3>1. Len(prompt') = P
      BY <1>9
    <3>2. QED
      BY <1>6a, <1>9, <3>1 DEF m, k1
  <2>3. QED
    BY <1>7, <2>1, <2>2 DEF PositionsInOrder
<1>10. \/ /\ Halt(f, "ControlHalt")
          /\ blocked' = TRUE
          /\ UNCHANGED <<ids, recent, text, view>>
       \/ /\ view' = ControlView
          /\ ControlStops(f)
       \/ /\ view' = ControlView
          /\ \E tok \in Vocab :
               /\ ids' = Append(ids, tok)
               /\ \/ /\ IsStop(tok)
                     /\ Halt(f, ReasonOf(tok))
                     /\ UNCHANGED <<recent, text, blocked>>
                  \/ /\ ~IsStop(tok)
                     /\ Remember(tok)
                     /\ Stream(tok)
                     /\ \E t \in Times : Derive(f, StepFacts(f, tok, t))
  BY DEF DecodeForward
<1>11. ControlView \in [step : Nat, kv : Nat]
  BY <1>3 DEF ControlView
<1>12. Len(computed') >= Len(computed)
  BY <1>4, <1>6
<1> HIDE DEF P
<1>13. ASSUME Halt(f, "ControlHalt"), blocked' \in BOOLEAN,
              UNCHANGED <<ids, recent, text>>,
              view' \in [step : Nat, kv : Nat]
       PROVE  IInv'
  <2>1. /\ halt' = "ControlHalt" /\ ids' = ids /\ recent' = recent
        /\ text' = text /\ prompt' = prompt /\ limit' = limit
    BY <1>13 DEF Halt, Derive
  <2>2. AnswerTypeOK'
    BY <1>3, <1>6, <1>13, <2>1 DEF AnswerTypeOK, HaltReason
  <2>3. AnswerMatchesIds'
    BY <1>2, <1>13, <2>1, KeepAnswer
  <2>4. PositionsInOrder'
    BY <1>9, <2>1
  <2>5. "ControlHalt" \in HaltReason
    BY DEF HaltReason
  <2>6. QED
    BY <1>1, <1>12, <1>13, <2>1, <2>2, <2>3, <2>4, <2>5, HaltInv
<1>14. ASSUME view' = ControlView, NEW tok \in Vocab,
              ids' = Append(ids, tok), IsStop(tok), Halt(f, ReasonOf(tok)),
              UNCHANGED <<recent, text, blocked>>
       PROVE  IInv'
  <2>1. /\ halt' = ReasonOf(tok) /\ ReasonOf(tok) \in HaltReason
        /\ prompt' = prompt /\ limit' = limit /\ text' = text
    BY <1>14 DEF Halt, Derive, ReasonOf, HaltReason
  <2>2. AnswerTypeOK'
    BY <1>2, <1>3, <1>6, <1>11, <1>14, <2>1, AppendSeq DEF AnswerTypeOK
  <2>3. AnswerMatchesIds'
    BY <1>2, <1>5, <1>14, <2>1, StopAnswer
  <2>4. PositionsInOrder'
    BY <1>9, <2>1
  <2>5. QED
    BY <1>1, <1>12, <1>14, <2>1, <2>2, <2>3, <2>4, HaltInv
<1>15. ASSUME view' = ControlView, NEW tok \in Vocab,
              ids' = Append(ids, tok), ~IsStop(tok), Remember(tok),
              Stream(tok), NEW t \in Times, Derive(f, StepFacts(f, tok, t))
       PROVE  IInv'
  <2> DEFINE C == StepFacts(f, tok, t)
  <2>1. /\ text' = Append(text, tok) /\ halt' = halt /\ blocked' = blocked
        /\ prompt' = prompt /\ limit' = limit /\ Derive(f, C)
        /\ store' = store \cup C
    BY <1>15 DEF Stream, Derive
  <2>2. ASSUME NEW c \in C
        PROVE  /\ c \in Facts
               /\ \/ c = KvAdvance(f.at) /\ c.kind = "KvAdvance"
                  \/ /\ c = DecodeStep(f.n + 1, tok, f.at + 1)
                     /\ c.kind = "DecodeStep" /\ c.n = f.n + 1
                     /\ c.at = f.at + 1
                  \/ c = FinalLogits(f.at, f.n + 1) /\ c.kind = "FinalLogits"
                  \/ /\ c = DispatchCompleted(f.at, t)
                     /\ c.kind = "DispatchCompleted" /\ c.at = f.at
    <3> USE <1>3, NumbersOK, FactFields, FactType DEF Kinds, Reactive
    <3>1. CASE c = KvAdvance(f.at)
      BY SMTT(30), <3>1 DEF KvAdvance
    <3>2. CASE c = DecodeStep(f.n + 1, tok, f.at + 1)
      BY SMTT(30), <3>2 DEF DecodeStep
    <3>3. CASE c = FinalLogits(f.at, f.n + 1)
      <4>1. f.n + 1 \in Nat
        OBVIOUS
      <4>2. "FinalLogits" \in Kinds /\ NoToken \in Vocab \cup {NoToken}
        BY DEF Kinds
      <4>3. Fact("FinalLogits", f.at, NoToken, f.n + 1) \in Facts
        BY <1>3, <4>1, <4>2, FactType
      <4>4. QED
        BY <3>3, <4>3, FactFields DEF FinalLogits
    <3>4. CASE c = DispatchCompleted(f.at, t)
      BY <3>4 DEF DispatchCompleted
    <3>5. QED
      BY <3>1, <3>2, <3>3, <3>4 DEF StepFacts
  <2>3. KvAdvance(f.at) \in C
    BY DEF StepFacts
  <2> HIDE DEF C
  <2>4. /\ text' \in Seq(Vocab) /\ ids' \in Seq(Vocab)
        /\ Len(text') = Len(text) + 1 /\ ids' = text'
    BY <1>2, <1>3, <1>15, <2>1, AppendSeq
  <2>5. recent' \in Seq(Vocab) /\ Len(recent') <= RecentCap
    BY <1>15, RememberType DEF IInv
  <2>6. AnswerTypeOK'
    BY <1>2, <1>6, <1>11, <1>15, <2>1, <2>4, <2>5 DEF AnswerTypeOK
  <2>7. AnswerMatchesIds'
    BY <1>2, <1>5, <1>15, <2>1, StreamAnswer
  <2>8. PositionsInOrder'
    BY <1>9, <2>1, <2>4
  <2>9. ASSUME NEW c \in C PROVE FactOK(c)'
    <3>1. c.kind = "DecodeStep" =>
            c.n < Len(text') /\ c.at = Len(prompt') + c.n
      BY <1>6a, <2>1, <2>2, <2>4 DEF P, m
    <3>2. c.kind = "DispatchCompleted" => c.at < Len(computed')
      BY <1>6a, <2>2 DEF k1
    <3>3. c.kind \in {"KvAdvance", "DecodeStep", "FinalLogits",
                      "DispatchCompleted"}
      BY <2>2
    <3>4. QED
      BY <3>1, <3>2, <3>3 DEF FactOK, HaltReason
  <2>10. ASSUME NEW c \in C, c.kind \in Answering PROVE PendingOK(c)'
    <3>1. c.kind = "DecodeStep" /\ c.n = f.n + 1
      BY <2>2, <2>10 DEF Answering
    <3>2. /\ c.n = Len(text') - 1 /\ ids' = text' /\ halt' = "none"
      BY <1>2, <1>6a, <2>1, <2>4, <3>1 DEF m
    <3>3. Len(computed') = Len(prompt') + Len(text') - 1
      BY <1>6a, <2>1, <2>4 DEF P, m, k1
    <3>4. QED
      BY <3>1, <3>2, <3>3 DEF PendingOK
  <2>11. AnswerFacts(C)
    <3>1. \A c \in C : /\ c.kind \notin {"EmbeddingRequest", "TdrRiskHigh"}
                       /\ c.kind = "DecodeStep" => c.n >= Len(text)
                       /\ c.kind = "DispatchCompleted" =>
                            c.at >= Len(computed)
      BY <1>6a, <2>2 DEF m, k
    <3>2. \A c, d \in C : SameFact(c, d)
      BY <2>2 DEF SameFact
    <3>3. QED
      BY <2>9, <2>10, <3>1, <3>2 DEF AnswerFacts
  <2>12. AnswerGrows(C)
    <3>1. ASSUME NEW i \in 1 .. Len(text') - 1
          PROVE  KvAdvance(Len(prompt) + i - 1) \in store'
      <4>1. CASE i <= Len(text) - 1
        BY <1>4, <2>1, <4>1 DEF IInv, RecordOK
      <4>2. CASE i = Len(text)
        <5>1. Len(prompt) + i - 1 = f.at
          BY <1>3, <1>4, <4>2 DEF P
        <5>2. QED
          BY <2>1, <2>3, <5>1
      <4>3. QED
        BY <1>4, <2>4, <4>1, <4>2
    <3>2. Len(computed') >= Len(prompt) /\ Len(text') >= Len(text)
      BY <1>6a, <2>4 DEF P, m, k1
    <3>3. QED
      BY <1>2, <1>6, <1>12, <2>1, <3>1, <3>2 DEF AnswerGrows
  <2>13. C \in SUBSET Facts
    BY <2>2
  <2>14. QED
    BY <1>1, <2>1, <2>6, <2>7, <2>8, <2>11, <2>12, <2>13, AnswerInv
       DEF Answering
<1>16. CASE /\ Halt(f, "ControlHalt")
            /\ blocked' = TRUE
            /\ UNCHANGED <<ids, recent, text, view>>
  BY <1>3, <1>13, <1>16
<1>17. CASE view' = ControlView /\ ControlStops(f)
  BY <1>2, <1>11, <1>13, <1>17 DEF ControlStops
<1>18. QED
  BY <1>10, <1>14, <1>15, <1>16, <1>17

-----------------------------------------------------------------------------
LEMMA TensorFactsFinite ==
  /\ IsFiniteSet(TensorFacts) /\ Cardinality(TensorFacts) \in Nat
<1> DEFINE fact == [t \in Tensors |-> TensorFact(t.offset, t.quant)]
<1>1. fact \in Surjection(Tensors, TensorFacts)
  BY DEF Surjection, TensorFacts
<1>2. QED
  BY <1>1, TensorsOK, FS_Surjection, FS_CardinalityType

LEMMA GenerateInv ==
  ASSUME IInv, Generate PROVE IInv'
<1> DEFINE work == RequestRunBudget(Len(prompt), limit, Cardinality(store))
           tokens == {PromptToken(i - 1, prompt[i]) : i \in 1 .. Len(prompt)}
<1>1. /\ status = "idle"
      /\ UNCHANGED <<prompt, limit, cache, dequants, computed, ids, recent,
                     text, halt, blocked, view, tdr>>
  BY DEF Generate, stateVars
<1>2. \/ /\ work <= WorkMax /\ status' = "running" /\ budget' = work
         /\ store' = store \cup tokens /\ agenda' = agenda \cup tokens
      \/ /\ status' = "BudgetOverflow"
         /\ budget' = budget /\ store' = store /\ agenda' = agenda
  BY DEF Generate
<1>3. /\ prompt \in Seq(Vocab) /\ limit \in Nat /\ budget \in 0 .. WorkMax
      /\ store \subseteq Facts
      /\ agenda \subseteq {f \in store : f.kind \in Reactive}
  BY DEF IInv, TypeOK
<1>4. ASSUME NEW c \in tokens
      PROVE  /\ c \in Facts /\ c.kind = "PromptToken" /\ InPrompt(c.tok)
  <2>1. PICK i \in 1 .. Len(prompt) : c = PromptToken(i - 1, prompt[i])
    OBVIOUS
  <2>2. prompt[i] \in Vocab /\ i - 1 \in Nat
    BY <1>3, ElementOfSeq
  <2>3. /\ c.kind = "PromptToken" /\ c.tok = prompt[i] /\ c \in Facts
    <3>1. "PromptToken" \in Kinds
      BY DEF Kinds, Reactive
    <3>2. Fact("PromptToken", i - 1, prompt[i], 0) \in Facts
      BY <2>2, <3>1, FactType
    <3>3. QED
      BY <2>1, <3>2, FactFields DEF PromptToken
  <2>4. QED
    BY <2>3 DEF InPrompt
<1>5. work \in Nat
  <2>1. Cardinality(store) \in Nat
    BY <1>1, TensorFactsFinite DEF IInv, RecordOK
  <2>2. QED
    BY <1>3, <2>1, NumbersOK DEF RequestRunBudget
<1> HIDE DEF work, tokens
<1>6. /\ store' \subseteq Facts /\ store \subseteq store'
      /\ agenda' \subseteq {f \in store' : f.kind \in Reactive}
      /\ \A f \in store' : f \in store \/ f \in tokens
      /\ \A f \in agenda' : f \in agenda \/ f \in tokens
      /\ agenda \subseteq agenda'
      /\ status' \in {"running", "BudgetOverflow"}
      /\ budget' \in 0 .. WorkMax
  BY <1>2, <1>3, <1>4, <1>5 DEF Reactive
<1>7. TypeOK'
  BY <1>1, <1>6 DEF IInv, TypeOK, Status
<1>8. \A f : FactOK(f) => FactOK(f)'
  BY <1>1 DEF FactOK, InPrompt, AllEmbeddingsCached
<1>9. StoreOK'
  <2>1. \A c \in tokens : FactOK(c)
    BY <1>4 DEF FactOK, HaltReason
  <2>2. \A f, g \in store' : SameFact(f, g)
    BY <1>4, <1>6 DEF IInv, StoreOK, SameFact
  <2>3. \A f, g \in store' : SameFact(f, g)'
    BY <2>2 DEF SameFact
  <2>4. \A f \in store' : FactOK(f)'
    BY <1>6, <1>8, <2>1 DEF IInv, StoreOK
  <2>5. QED
    BY <2>3, <2>4 DEF StoreOK
<1>10. AgendaOK'
  <2> SUFFICES ASSUME NEW f \in agenda' PROVE PendingOK(f)'
    BY DEF AgendaOK
  <2>1. CASE f \in agenda
    <3>1. TdrRiskHigh(f.at) \notin tokens
      BY <1>4, FactFields DEF TdrRiskHigh
    <3>2. QED
      BY <1>1, <1>6, <2>1, <3>1 DEF IInv, AgendaOK, PendingOK
  <2>2. CASE f \in tokens
    BY <1>4, <2>2 DEF PendingOK
  <2>3. QED
    BY <1>6, <2>1, <2>2
<1>11. DequantOK'
  <2>1. \A tok : EmbeddingRequest(tok) \notin tokens
    BY <1>4, FactFields DEF EmbeddingRequest
  <2>2. QED
    BY <1>1, <1>6, <2>1 DEF IInv, DequantOK
<1>12. BeforePrefill' /\ AnswerMatchesIds' /\ PositionsInOrder'
  BY <1>1 DEF IInv, BeforePrefill, AnswerMatchesIds, PositionsInOrder,
              AllEmbeddingsCached
<1>13. RecordOK' /\ TdrIsSignalled'
  BY <1>1, <1>6 DEF IInv, RecordOK, TdrIsSignalled
<1>14. QED
  BY <1>7, <1>9, <1>10, <1>11, <1>12, <1>13 DEF IInv

\* The end of the call, and steps that change nothing.
LEMMA ReturnInv ==
  ASSUME IInv, UNCHANGED <<prompt, limit, budget, store, agenda, stateVars>>,
         status' \in Status,
         status' = "Ok" => agenda = {} /\ halt # "none",
         status' = "idle" => status = "idle"
  PROVE  IInv'
<1>1. UNCHANGED <<prompt, limit, budget, store, agenda, cache, dequants,
                  computed, ids, recent, text, halt, blocked, view, tdr>>
  BY DEF stateVars
<1>2. TypeOK' /\ DequantOK' /\ BeforePrefill' /\ RecordOK' /\ TdrIsSignalled'
  BY <1>1 DEF IInv, TypeOK, DequantOK, BeforePrefill, RecordOK, TdrIsSignalled
<1>3. StoreOK' /\ AgendaOK'
  BY <1>1 DEF IInv, StoreOK, AgendaOK, FactOK, SameFact, PendingOK, InPrompt,
              AllEmbeddingsCached
<1>4. AnswerMatchesIds' /\ PositionsInOrder'
  BY <1>1 DEF IInv, AnswerMatchesIds, PositionsInOrder, AllEmbeddingsCached
<1>5. QED
  BY <1>2, <1>3, <1>4 DEF IInv

LEMMA NextInv == IInv /\ [Next]_vars => IInv'
<1> SUFFICES ASSUME IInv, [Next]_vars PROVE IInv'
  OBVIOUS
<1>1. CASE Generate
  BY <1>1, GenerateInv
<1>2. CASE Exhaust
  BY <1>2, ReturnInv DEF Exhaust, Status
<1>3. CASE Saturate
  BY <1>3, ReturnInv DEF Saturate, Status
<1>4. ASSUME NEW f \in agenda, Rule(f) PROVE IInv'
  BY <1>4, PromptTokenInv, EmbeddingRequestInv, EmbeddingReadyInv,
     PrefillBatchReadyInv, KvAdvanceInv, PrefillCompleteInv, DecodeLimitInv,
     DecodeForwardInv, DispatchCompletedInv, TdrRiskHighInv, TensorFactInv
     DEF Rule
<1>5. CASE UNCHANGED vars
  <2>1. /\ UNCHANGED <<prompt, limit, budget, store, agenda, stateVars>>
        /\ status' = status
    BY <1>5 DEF vars
  <2>2. QED
    BY <2>1, ReturnInv DEF IInv, TypeOK, RecordOK
<1>6. QED
  BY <1>1, <1>2, <1>3, <1>4, <1>5 DEF Next

LEMMA Invariance == Spec => []IInv
<1>1. Init => IInv
  BY InitInv
<1>2. IInv /\ [Next]_vars => IInv'
  BY NextInv
<1>3. QED
  BY <1>1, <1>2, PTL DEF Spec

-----------------------------------------------------------------------------
(* The theorems *)

\* Type correctness: no order of the rules makes a second dequantisation of a
\* token, a window over RecentCap or a fact with a field out of range.
THEOREM TypeCorrect == Spec => []TypeOK
<1>1. IInv => TypeOK
  BY DEF IInv
<1>2. QED
  BY <1>1, Invariance, PTL

\* GPU time at or over the TDR budget has a TdrRiskHigh fact in the worklist,
\* so a yield always follows, for every budget and every elapsed time.
THEOREM RiskIsSignalled == Spec => []TdrIsSignalled
<1>1. IInv => TdrIsSignalled
  BY DEF IInv
<1>2. QED
  BY <1>1, Invariance, PTL

\* The answer of generate is whole: positions in order and without a gap, text
\* and ids and halt reason that agree, and Ok only when no rule is left.
THEOREM AnswerIsWhole == Spec => []AnswerOK
<1>1. IInv => AnswerOK
  <2> SUFFICES ASSUME IInv PROVE OkIsComplete
    BY DEF IInv, AnswerOK
  <2> SUFFICES ASSUME status = "Ok"
               PROVE  /\ agenda = {}
                      /\ {f.kind : f \in store} \cap HaltReason = {halt}
                      /\ \A i \in 1 .. Len(text) - 1 :
                           KvAdvance(Len(prompt) + i - 1) \in store
    BY DEF OkIsComplete
  <2>1. /\ agenda = {} /\ halt # "none" /\ GenerationHalt(halt) \in store
        /\ halt \in HaltReason
        /\ \A i \in 1 .. Len(text) - 1 :
             KvAdvance(Len(prompt) + i - 1) \in store
    BY DEF IInv, RecordOK, TypeOK
  <2>2. GenerationHalt(halt).kind = halt
    BY FactFields DEF GenerationHalt
  <2>3. \A f \in store : f.kind \in HaltReason => f.kind = halt
    BY DEF IInv, StoreOK, FactOK
  <2>4. {f.kind : f \in store} \cap HaltReason = {halt}
    BY <2>1, <2>2, <2>3
  <2>5. QED
    BY <2>1, <2>4
<1>2. QED
  BY <1>1, Invariance, PTL

\* What the two rules that sample find, and what they do.
LEMMA FirstAnswer ==
  ASSUME IInv, NEW f \in agenda, PrefillCompleteRule(f)
  PROVE  /\ ids = <<>> /\ text = <<>> /\ halt = "none"
         /\ Len(prompt) \in Nat /\ Len(computed) = Len(prompt)
         /\ computed' = computed /\ prompt' = prompt /\ limit' = limit
         /\ view' = [step |-> 0, kv |-> Len(prompt)]
         /\ \/ halt' \in HaltReason /\ text' = text
            \/ /\ halt' = halt
               /\ \E tok \in Vocab : ~IsStop(tok) /\ text' = Append(text, tok)
<1>1. /\ f.kind = "PrefillComplete" /\ PendingOK(f) /\ prompt \in Seq(Vocab)
  BY DEF IInv, TypeOK, AgendaOK, PrefillCompleteRule, Take
<1>2. /\ ids = <<>> /\ text = <<>> /\ halt = "none"
      /\ Len(computed) = Len(prompt) /\ Len(prompt) \in Nat
  BY <1>1 DEF PendingOK
<1>3. /\ computed' = computed /\ view' = [step |-> 0, kv |-> Len(prompt)]
  BY DEF PrefillCompleteRule
<1>4. \/ ControlStops(f)
      \/ \E tok \in Vocab :
           \/ Halt(f, ReasonOf(tok)) /\ text' = text
           \/ /\ ~IsStop(tok) /\ Stream(tok)
              /\ Derive(f, {DecodeStep(0, tok, Len(prompt))})
  BY DEF PrefillCompleteRule
<1>5. /\ prompt' = prompt /\ limit' = limit
      /\ \/ halt' \in HaltReason /\ text' = text
         \/ /\ halt' = halt
            /\ \E tok \in Vocab : ~IsStop(tok) /\ text' = Append(text, tok)
  BY <1>4 DEF ControlStops, Halt, Derive, Stream, ReasonOf, HaltReason
<1>6. QED
  BY <1>2, <1>3, <1>5

LEMMA NextAnswer ==
  ASSUME IInv, NEW f \in agenda, DecodeForward(f)
  PROVE  /\ ids = text /\ halt = "none"
         /\ Len(prompt) \in Nat /\ Len(text) \in Nat \ {0} /\ limit \in Nat
         /\ Len(text) < limit
         /\ Len(computed) = Len(prompt) + Len(text) - 1
         /\ Len(computed') = Len(prompt) + Len(text)
         /\ prompt' = prompt /\ limit' = limit
         /\ view' = ControlView \/ UNCHANGED <<view, ids>>
         /\ \/ halt' \in HaltReason /\ text' = text
            \/ /\ halt' = halt
               /\ \E tok \in Vocab : ~IsStop(tok) /\ text' = Append(text, tok)
<1>1. /\ f.kind = "DecodeStep" /\ PendingOK(f) /\ prompt \in Seq(Vocab)
      /\ f.n \in Nat /\ f.at \in Nat /\ text \in Seq(Vocab) /\ limit \in Nat
      /\ computed \in Seq(Nat) /\ ~(f.n + 1 >= limit)
      /\ computed' = Append(computed, f.at)
  BY DEF IInv, TypeOK, AgendaOK, DecodeForward, Take, LimitReached, Facts
<1>2. /\ ids = text /\ halt = "none" /\ f.n = Len(text) - 1
      /\ Len(computed) = Len(prompt) + Len(text) - 1
      /\ Len(prompt) \in Nat /\ Len(text) \in Nat
  BY <1>1 DEF PendingOK
<1>3. Len(computed') = Len(computed) + 1 /\ Len(computed) \in Nat
  BY <1>1, AppendSeq
<1>4. /\ Len(text) \in Nat \ {0} /\ Len(text) < limit
      /\ Len(computed') = Len(prompt) + Len(text)
  BY <1>1, <1>2, <1>3
<1>5. \/ Halt(f, "ControlHalt") /\ text' = text
      \/ ControlStops(f)
      \/ \E tok \in Vocab :
           \/ Halt(f, ReasonOf(tok)) /\ text' = text
           \/ /\ ~IsStop(tok) /\ Stream(tok)
              /\ \E t \in Times : Derive(f, StepFacts(f, tok, t))
  BY DEF DecodeForward
<1>6. /\ prompt' = prompt /\ limit' = limit
      /\ \/ halt' \in HaltReason /\ text' = text
         \/ /\ halt' = halt
            /\ \E tok \in Vocab : ~IsStop(tok) /\ text' = Append(text, tok)
  BY <1>5 DEF ControlStops, Halt, Derive, Stream, ReasonOf, HaltReason
<1>7. view' = ControlView \/ UNCHANGED <<view, ids>>
  BY DEF DecodeForward
<1>8. QED
  BY <1>1, <1>2, <1>4, <1>6, <1>7

\* The steps that neither compute a position nor answer.
LEMMA OtherSteps ==
  ASSUME [Next]_vars,
         \A f \in agenda : /\ ~PrefillBatchReadyRule(f)
                           /\ ~PrefillCompleteRule(f)
                           /\ ~DecodeLimit(f) /\ ~DecodeForward(f)
  PROVE  UNCHANGED <<prompt, limit, computed, ids, text, halt, view>>
<1>1. CASE Generate \/ Exhaust \/ Saturate \/ UNCHANGED vars
  BY <1>1 DEF Generate, Exhaust, Saturate, vars, stateVars
<1>2. ASSUME NEW f \in agenda, Rule(f)
      PROVE  UNCHANGED <<prompt, limit, computed, ids, text, halt, view>>
  <2>1. CASE PromptTokenRule(f) \/ EmbeddingReadyRule(f) \/ KvAdvanceRule(f)
               \/ TensorFactRule(f)
    BY <2>1 DEF PromptTokenRule, EmbeddingReadyRule, KvAdvanceRule,
                TensorFactRule, Derive, stateVars
  <2>2. CASE EmbeddingRequestRule(f) \/ DispatchCompletedRule(f)
               \/ TdrRiskHighRule(f)
    BY <2>2 DEF EmbeddingRequestRule, DispatchCompletedRule, TdrRiskHighRule,
                Derive
  <2>3. QED
    BY <1>2, <2>1, <2>2 DEF Rule
<1>3. QED
  BY <1>1, <1>2 DEF Next

\* The control hook is told the step it decides and the number of positions
\* that are in the KV cache at that moment, for every token of every call.
THEOREM HookSeesCommitted == Spec => ControlSeesCommitted
<1> DEFINE A == view' # view \/ ids' # ids => /\ view'.step = Len(ids)
                                              /\ view'.kv = Len(computed')
<1>1. IInv /\ [Next]_vars => [A]_vars
  <2> SUFFICES ASSUME IInv, [Next]_vars PROVE A
    OBVIOUS
  <2>1. CASE \E f \in agenda : PrefillCompleteRule(f)
    BY <2>1, FirstAnswer
  <2>2. CASE \E f \in agenda : DecodeForward(f)
    <3>1. /\ ids = text /\ Len(computed') = Len(prompt) + Len(text)
          /\ view' = ControlView \/ UNCHANGED <<view, ids>>
      BY <2>2, NextAnswer
    <3>2. QED
      BY <3>1 DEF ControlView
  <2>3. CASE \E f \in agenda : PrefillBatchReadyRule(f) \/ DecodeLimit(f)
    BY <2>3 DEF PrefillBatchReadyRule, DecodeLimit
  <2>4. QED
    BY <2>1, <2>2, <2>3, OtherSteps
<1>2. QED
  BY <1>1, Invariance, PTL DEF Spec, ControlSeesCommitted

\* The rule system implements Generation, the promise made to the caller: one
\* prefill, then one position and one streamed token at a time until the end.
THEOREM GenerationImplemented == Spec => GenerationSpec
<1>1. Init => Promise!Init
  <2> SUFFICES ASSUME Init PROVE Promise!Init
    OBVIOUS
  <2>1. prompt \in Seq(Vocab) /\ limit \in Nat
    BY PromptsOK, NumbersOK DEF Init
  <2>2. /\ Len(prompt) \in Nat /\ Len(computed) = 0 /\ text = <<>>
        /\ (halt # "none") = FALSE
    BY <2>1 DEF Init
  <2>3. QED
    BY <2>1, <2>2 DEF Promise!Init
<1>2. IInv /\ [Next]_vars => [Promise!Next]_Promise!vars
  <2> SUFFICES ASSUME IInv, [Next]_vars
               PROVE  Promise!Next \/ UNCHANGED Promise!vars
    OBVIOUS
  <2>1. ASSUME NEW f \in agenda, PrefillBatchReadyRule(f)
        PROVE  Promise!Prefill
    <3>1. /\ f.kind = "PrefillBatchReady" /\ PendingOK(f) /\ FactOK(f)
          /\ prompt \in Seq(Vocab)
          /\ computed' = computed \o [i \in 1 .. f.at |-> i - 1]
          /\ prompt' = prompt /\ limit' = limit /\ text' = text /\ halt' = halt
      BY <2>1 DEF IInv, TypeOK, AgendaOK, StoreOK, PrefillBatchReadyRule, Take,
                  Derive
    <3>2. /\ computed = <<>> /\ f.at = Len(prompt) /\ Len(prompt) \in Nat
      BY <3>1, FactFields DEF PendingOK, FactOK, PrefillBatchReady
    <3>3. /\ halt = "none" /\ Len(computed) = 0
          /\ Len(computed') = Len(prompt)
      BY <3>1, <3>2, PositionsSeq DEF IInv, BeforePrefill
    <3>4. (halt' # "none") = (halt # "none") /\ ~(halt # "none")
      BY <3>1, <3>3
    <3>5. QED
      BY <3>1, <3>3, <3>4 DEF Promise!Prefill
  <2>2. ASSUME NEW f \in agenda, PrefillCompleteRule(f)
        PROVE  Promise!First
    <3>1. Promise!Answer
      BY <2>2, FirstAnswer DEF Promise!Answer, HaltReason
    <3>2. QED
      BY <2>2, <3>1, FirstAnswer DEF Promise!First
  <2>3. ASSUME NEW f \in agenda, DecodeForward(f)
        PROVE  Promise!Step
    <3>1. Promise!Answer
      BY <2>3, NextAnswer DEF Promise!Answer, HaltReason
    <3>2. /\ Len(text) \in 1 .. limit - 1
          /\ Len(computed) = Len(prompt) + Len(text) - 1
          /\ Len(computed') = Len(computed) + 1
          /\ prompt' = prompt /\ limit' = limit /\ halt = "none"
      BY <2>3, NextAnswer
    <3>3. QED
      BY <3>1, <3>2 DEF Promise!Step
  <2>4. ASSUME NEW f \in agenda, DecodeLimit(f)
        PROVE  Promise!Limit
    <3>1. /\ f.kind = "DecodeStep" /\ PendingOK(f) /\ f.n \in Nat
          /\ f.n + 1 >= limit /\ halt' = "MaxTokensReached"
          /\ text \in Seq(Vocab) /\ limit \in Nat
          /\ prompt' = prompt /\ limit' = limit /\ text' = text
          /\ computed' = computed
      BY <2>4 DEF IInv, TypeOK, AgendaOK, DecodeLimit, Take, LimitReached,
                  Halt, Derive, Facts
    <3>2. halt = "none" /\ Len(text) = f.n + 1
      BY <3>1 DEF PendingOK
    <3>3. text # <<>> /\ Len(text) >= limit
      BY <3>1, <3>2
    <3>4. (halt' # "none") = TRUE /\ ~(halt # "none")
      BY <3>1, <3>2
    <3>5. QED
      BY <3>1, <3>3, <3>4 DEF Promise!Limit
  <2>5. CASE \A f \in agenda : /\ ~PrefillBatchReadyRule(f)
                               /\ ~PrefillCompleteRule(f)
                               /\ ~DecodeLimit(f) /\ ~DecodeForward(f)
    BY <2>5, OtherSteps DEF Promise!vars
  <2>6. QED
    BY <2>1, <2>2, <2>3, <2>4, <2>5 DEF Promise!Next
<1>3. QED
  BY <1>1, <1>2, Invariance, PTL DEF Spec, GenerationSpec, Promise!Spec

-----------------------------------------------------------------------------
(* The run budget *)

Position(n) == n = 0 \/ n >= Len(prompt)

\* What identifies a derived fact among the facts of its kind.
CountedOK(f) ==
  /\ f.kind = "TensorFact" => f \in TensorFacts
  /\ f.kind = "DispatchFact" =>
       \E g \in TensorFacts : f = DispatchFact(g.at, SlotForType[g.n])
  /\ f.kind = "PromptToken" =>
       f.at < Len(prompt) /\ f = PromptToken(f.at, prompt[f.at + 1])
  /\ f.kind = "EmbeddingReady" => f = EmbeddingReady(f.tok)
  /\ f.kind = "LayerOutput" => f = LayerOutput(Len(prompt))
  /\ f.kind = "FinalLogits" =>
       /\ f.n <= Len(text)
       /\ f = FinalLogits(IF f.n = 0 THEN Len(prompt)
                          ELSE Len(prompt) + f.n - 1, f.n)
  /\ f.kind = "KvAdvance" => f = KvAdvance(f.at) /\ f.at < Len(computed)
  /\ f.kind = "KvWritten" => f = KvWritten
  /\ f.kind = "DispatchCompleted" => Position(f.at)
  /\ f.kind = "TdrRiskHigh" => f = TdrRiskHigh(f.at) /\ Position(f.at)
  /\ f.kind = "YieldNow" =>
       /\ f = YieldNow(f.at)
       /\ Position(f.at) /\ f.at < Len(computed)
  /\ f.kind \in HaltReason => f = GenerationHalt(f.kind)

BudgetInv ==
  /\ \A f \in store : CountedOK(f)
  /\ Len(computed) <= Len(prompt) + Len(text)
  /\ status = "running" =>
       budget = RequestRunBudget(Len(prompt), limit, Cardinality(TensorFacts))

LEMMA BudgetKept ==
  ASSUME IInv, IInv', BudgetInv, NEW f \in agenda, NEW C \in SUBSET Facts,
         Derive(f, C), Len(text') >= Len(text),
         Len(computed') >= Len(computed),
         Len(computed') <= Len(prompt) + Len(text'),
         \A c \in C : CountedOK(c)'
  PROVE  BudgetInv'
<1>1. /\ store' = store \cup C /\ prompt' = prompt /\ limit' = limit
      /\ status' = status /\ budget' = budget
  BY DEF Derive
<1>2. /\ Len(text) \in Nat /\ Len(text') \in Nat
      /\ Len(computed) \in Nat /\ Len(computed') \in Nat
  <2>1. /\ text \in Seq(Vocab) /\ computed \in Seq(Nat)
        /\ text' \in Seq(Vocab) /\ computed' \in Seq(Nat)
    BY DEF IInv, TypeOK
  <2>2. QED
    BY <2>1
<1>3. ASSUME NEW g \in store PROVE CountedOK(g)'
  <2>1. CountedOK(g) /\ g.n \in Nat /\ g.at \in Nat
    BY DEF BudgetInv, IInv, TypeOK, Facts
  <2>2. Position(g.at) => Position(g.at)'
    BY <1>1 DEF Position
  <2>3. /\ g.n <= Len(text) => g.n <= Len(text')
        /\ g.at < Len(computed) => g.at < Len(computed')
    BY <1>2, <2>1
  <2>4. QED
    BY <1>1, <2>1, <2>2, <2>3 DEF CountedOK
<1>4. QED
  BY <1>1, <1>3 DEF BudgetInv, RequestRunBudget

\* A halt fact, and a rule that derives facts nothing is said about.
LEMMA CountedHalt ==
  ASSUME NEW reason \in HaltReason PROVE CountedOK(GenerationHalt(reason))'
<1>1. GenerationHalt(reason).kind = reason
  BY FactFields DEF GenerationHalt
<1>2. QED
  BY <1>1 DEF CountedOK, HaltReason

LEMMA HaltBudget ==
  ASSUME IInv, IInv', BudgetInv, NEW f \in agenda,
         NEW reason \in HaltReason, Halt(f, reason), text' = text,
         Len(computed') >= Len(computed),
         Len(computed') <= Len(prompt) + Len(text)
  PROVE  BudgetInv'
<1> DEFINE C == {GenerationHalt(reason)}
<1>1. Derive(f, C)
  BY DEF Halt
<1>2. C \in SUBSET Facts
  BY FactType DEF GenerationHalt, Kinds
<1>3. \A c \in C : CountedOK(c)'
  BY CountedHalt
<1>4. Len(text') >= Len(text)
  BY DEF IInv, TypeOK
<1> HIDE DEF C
<1>5. QED
  BY <1>1, <1>2, <1>3, <1>4, BudgetKept

\* The rules that leave the answer alone.
LEMMA QuietBudget ==
  ASSUME IInv, IInv', BudgetInv, NEW f \in agenda, NEW C \in SUBSET Facts,
         Derive(f, C), text' = text, computed' = computed,
         \A c \in C : CountedOK(c)'
  PROVE  BudgetInv'
<1>1. Len(text') >= Len(text) /\ Len(computed') >= Len(computed)
  BY DEF IInv, TypeOK
<1>2. Len(computed') <= Len(prompt) + Len(text')
  BY DEF BudgetInv
<1>3. QED
  BY <1>1, <1>2, BudgetKept

LEMMA PromptRulesBudget ==
  ASSUME IInv, IInv', BudgetInv, NEW f \in agenda,
         \/ PromptTokenRule(f) \/ EmbeddingRequestRule(f)
         \/ EmbeddingReadyRule(f) \/ KvAdvanceRule(f)
  PROVE  BudgetInv'
<1>1. PICK C : /\ Derive(f, C) /\ text' = text /\ computed' = computed
               /\ \/ C = {EmbeddingRequest(f.tok)}
                  \/ C = {EmbeddingReady(f.tok)}
                  \/ C \subseteq {PrefillBatchReady(Len(prompt))}
                  \/ C = {KvWritten}
  <2>1. CASE PromptTokenRule(f)
    BY <2>1 DEF PromptTokenRule, stateVars
  <2>2. CASE EmbeddingRequestRule(f)
    BY <2>2 DEF EmbeddingRequestRule
  <2>3. CASE EmbeddingReadyRule(f)
    <3> DEFINE S == {c \in {PrefillBatchReady(Len(prompt))} :
                       AllEmbeddingsCached}
    <3>1. Derive(f, S) /\ text' = text /\ computed' = computed
      BY <2>3 DEF EmbeddingReadyRule, stateVars
    <3>2. S \subseteq {PrefillBatchReady(Len(prompt))}
      OBVIOUS
    <3> HIDE DEF S
    <3>3. QED
      BY <3>1, <3>2
  <2>4. CASE KvAdvanceRule(f)
    BY <2>4 DEF KvAdvanceRule, stateVars
  <2>5. QED
    BY <2>1, <2>2, <2>3, <2>4
<1>2. f.tok \in Vocab \cup {NoToken} /\ Len(prompt) \in Nat
  <2>1. f \in Facts /\ prompt \in Seq(Vocab)
    BY DEF IInv, TypeOK
  <2>2. QED
    BY <2>1 DEF Facts
<1>3. ASSUME NEW c \in C
      PROVE  /\ c \in Facts
             /\ \/ c.kind = "EmbeddingRequest"
                \/ c.kind = "EmbeddingReady" /\ c = EmbeddingReady(c.tok)
                \/ c.kind = "PrefillBatchReady"
                \/ c.kind = "KvWritten" /\ c = KvWritten
  <2> USE <1>2, FactFields, FactType DEF Kinds, Reactive, HaltReason
  <2>1. CASE c = EmbeddingRequest(f.tok)
    BY <2>1 DEF EmbeddingRequest
  <2>2. CASE c = EmbeddingReady(f.tok)
    <3>1. c.kind = "EmbeddingReady" /\ c.tok = f.tok
      BY <2>2 DEF EmbeddingReady
    <3>2. c \in Facts
      BY <2>2 DEF EmbeddingReady
    <3>3. QED
      BY <2>2, <3>1, <3>2
  <2>3. CASE c = PrefillBatchReady(Len(prompt))
    BY <2>3 DEF PrefillBatchReady
  <2>4. CASE c = KvWritten
    BY <2>4 DEF KvWritten
  <2>5. QED
    BY <1>1, <2>1, <2>2, <2>3, <2>4
<1>4. \A c \in C : CountedOK(c)'
  BY <1>3 DEF CountedOK, HaltReason
<1>5. C \in SUBSET Facts
  BY <1>3
<1>6. QED
  BY <1>1, <1>4, <1>5, QuietBudget

LEMMA TensorFactBudget ==
  ASSUME IInv, IInv', BudgetInv, NEW f \in agenda, TensorFactRule(f)
  PROVE  BudgetInv'
<1> DEFINE C == {DispatchFact(f.at, SlotForType[q]) :
                   q \in {f.n} \cap DOMAIN SlotForType}
<1>1. /\ f.kind = "TensorFact" /\ Derive(f, C) /\ text' = text
      /\ computed' = computed
  BY DEF TensorFactRule, Take, stateVars
<1>2. f \in store /\ f.at \in Nat /\ f \in TensorFacts
  BY <1>1 DEF IInv, TypeOK, Facts, BudgetInv, CountedOK
<1>3. ASSUME NEW c \in C
      PROVE  /\ c \in Facts /\ c.kind = "DispatchFact"
             /\ c = DispatchFact(f.at, SlotForType[f.n])
  <2>1. /\ f.n \in DOMAIN SlotForType
        /\ c = DispatchFact(f.at, SlotForType[f.n])
    OBVIOUS
  <2>2. SlotForType[f.n] \in Nat
    BY <2>1, SlotsNat
  <2>3. "DispatchFact" \in Kinds /\ NoToken \in Vocab \cup {NoToken}
    BY DEF Kinds
  <2>4. Fact("DispatchFact", f.at, NoToken, SlotForType[f.n]) \in Facts
    BY <1>2, <2>2, <2>3, FactType
  <2>5. QED
    BY <2>1, <2>4, FactFields DEF DispatchFact
<1> HIDE DEF C
<1>4. \A c \in C : CountedOK(c)'
  BY <1>2, <1>3 DEF CountedOK, HaltReason, TensorFacts
<1>5. C \in SUBSET Facts
  BY <1>3
<1>6. QED
  BY <1>1, <1>4, <1>5, QuietBudget

LEMMA TdrRulesBudget ==
  ASSUME IInv, IInv', BudgetInv, NEW f \in agenda,
         DispatchCompletedRule(f) \/ TdrRiskHighRule(f)
  PROVE  BudgetInv'
<1>1. /\ f \in store /\ f.at \in Nat /\ f.at < Len(computed)
      /\ Position(f.at) /\ prompt' = prompt
      /\ text' = text /\ computed' = computed
  BY DEF IInv, TypeOK, Facts, BudgetInv, CountedOK, StoreOK, FactOK, Derive,
         DispatchCompletedRule, TdrRiskHighRule, Take
<1>2. PICK C : /\ Derive(f, C)
               /\ \/ C \subseteq {TdrRiskHigh(f.at)} \/ C = {YieldNow(f.at)}
  BY DEF DispatchCompletedRule, TdrRiskHighRule
<1>3. ASSUME NEW c \in C
      PROVE  /\ c \in Facts /\ c.at = f.at
             /\ \/ c.kind = "TdrRiskHigh" /\ c = TdrRiskHigh(c.at)
                \/ c.kind = "YieldNow" /\ c = YieldNow(c.at)
  <2> USE <1>1, FactFields, FactType DEF Kinds, Reactive, HaltReason
  <2>1. CASE c = TdrRiskHigh(f.at)
    BY <2>1 DEF TdrRiskHigh
  <2>2. CASE c = YieldNow(f.at)
    BY <2>2 DEF YieldNow
  <2>3. QED
    BY <1>2, <2>1, <2>2
<1>4. Position(f.at)'
  BY <1>1 DEF Position
<1>5. \A c \in C : CountedOK(c)'
  <2> SUFFICES ASSUME NEW c \in C PROVE CountedOK(c)'
    OBVIOUS
  <2>1. Position(c.at)' /\ c.at < Len(computed')
    BY <1>1, <1>3, <1>4
  <2>2. QED
    BY <1>3, <2>1 DEF CountedOK, HaltReason
<1>6. C \in SUBSET Facts
  BY <1>3
<1>7. QED
  BY <1>1, <1>2, <1>5, <1>6, QuietBudget

LEMMA PrefillBudget ==
  ASSUME IInv, IInv', BudgetInv, NEW f \in agenda, PrefillBatchReadyRule(f)
  PROVE  BudgetInv'
<1> DEFINE N == Len(prompt)
<1>1. /\ f.kind = "PrefillBatchReady" /\ FactOK(f) /\ PendingOK(f)
      /\ prompt \in Seq(Vocab) /\ text \in Seq(Vocab) /\ prompt' = prompt
      /\ computed' = computed \o [i \in 1 .. f.at |-> i - 1] /\ text' = text
  BY DEF IInv, TypeOK, StoreOK, AgendaOK, PrefillBatchReadyRule, Take, Derive
<1>2. /\ f.at = N /\ N \in Nat /\ computed = <<>> /\ Len(text) \in Nat
  BY <1>1, FactFields DEF FactOK, PendingOK, PrefillBatchReady
<1>3. Len(computed') = N /\ Len(computed) = 0
  BY <1>1, <1>2, PositionsSeq
<1> HIDE DEF N
<1>4. PICK elapsed \in Times : Derive(f, PrefillFacts(f.at, elapsed))
  BY DEF PrefillBatchReadyRule
<1> DEFINE C == PrefillFacts(f.at, elapsed)
<1>5. ASSUME NEW c \in C
      PROVE  /\ c \in Facts
             /\ \/ /\ c.kind = "KvAdvance" /\ c = KvAdvance(c.at)
                   /\ c.at < N
                \/ c.kind = "PrefillComplete"
                \/ c.kind = "LayerOutput" /\ c = LayerOutput(N)
                \/ /\ c.kind = "FinalLogits" /\ c.n = 0
                   /\ c = FinalLogits(N, 0)
                \/ c.kind = "DispatchCompleted" /\ c.at = 0
  <2> USE <1>2, FactFields, FactType DEF Kinds, Reactive, HaltReason
  <2>1. ASSUME NEW pos \in 0 .. f.at - 1, c = KvAdvance(pos)
        PROVE  /\ c.kind = "KvAdvance" /\ c = KvAdvance(c.at)
               /\ c.at < N /\ c \in Facts
    <3>1. pos \in Nat /\ pos < N
      OBVIOUS
    <3>2. c.kind = "KvAdvance" /\ c.at = pos /\ c \in Facts
      BY <2>1, <3>1 DEF KvAdvance
    <3>3. QED
      BY <2>1, <3>1, <3>2
  <2>2. CASE c = PrefillComplete(f.at)
    BY <2>2 DEF PrefillComplete
  <2>3. CASE c = LayerOutput(f.at)
    <3>1. c.kind = "LayerOutput" /\ c \in Facts
      BY <2>3 DEF LayerOutput
    <3>2. QED
      BY <2>3, <3>1
  <2>4. CASE c = FinalLogits(f.at, 0)
    <3>1. c.kind = "FinalLogits" /\ c.n = 0 /\ c \in Facts
      BY <2>4 DEF FinalLogits
    <3>2. QED
      BY <2>4, <3>1
  <2>5. CASE c = DispatchCompleted(0, elapsed)
    <3>1. elapsed \in Nat
      BY NumbersOK
    <3>2. QED
      BY <2>5, <3>1 DEF DispatchCompleted
  <2>6. QED
    BY <2>1, <2>2, <2>3, <2>4, <2>5 DEF PrefillFacts
<1> HIDE DEF C
<1>6. ASSUME NEW c \in C PROVE CountedOK(c)'
  <2>1. c.kind = "KvAdvance" => c = KvAdvance(c.at) /\ c.at < Len(computed')
    BY <1>3, <1>5
  <2>2. c.kind = "LayerOutput" => c = LayerOutput(Len(prompt'))
    BY <1>1, <1>5 DEF N
  <2>3. c.kind = "FinalLogits" =>
          /\ c.n <= Len(text') /\ c.n = 0
          /\ c = FinalLogits(Len(prompt'), c.n)
    BY <1>1, <1>2, <1>5 DEF N
  <2>4. c.kind = "DispatchCompleted" => Position(c.at)'
    BY <1>5 DEF Position
  <2>5. c.kind \in {"KvAdvance", "PrefillComplete", "LayerOutput",
                    "FinalLogits", "DispatchCompleted"}
    BY <1>5
  <2>6. QED
    BY <2>1, <2>2, <2>3, <2>4, <2>5 DEF CountedOK, HaltReason
<1>7. C \in SUBSET Facts
  BY <1>5
<1>8. /\ Len(text') >= Len(text) /\ Len(computed') >= Len(computed)
      /\ Len(computed') <= Len(prompt) + Len(text')
  BY <1>1, <1>2, <1>3 DEF N
<1>9. QED
  BY <1>4, <1>6, <1>7, <1>8, BudgetKept DEF C

LEMMA FirstBudget ==
  ASSUME IInv, IInv', BudgetInv, NEW f \in agenda, PrefillCompleteRule(f)
  PROVE  BudgetInv'
<1>1. /\ Len(prompt) \in Nat /\ Len(computed) = Len(prompt)
      /\ computed' = computed /\ prompt' = prompt
  BY FirstAnswer
<1>2. Len(text) \in Nat /\ Len(text') \in Nat /\ text \in Seq(Vocab)
  <2>1. text \in Seq(Vocab) /\ text' \in Seq(Vocab)
    BY DEF IInv, TypeOK
  <2>2. QED
    BY <2>1
<1>3. \/ \E reason \in HaltReason : Halt(f, reason) /\ text' = text
      \/ \E tok \in Vocab : /\ text' = Append(text, tok)
                            /\ Derive(f, {DecodeStep(0, tok, Len(prompt))})
  BY DEF PrefillCompleteRule, ControlStops, Stream, ReasonOf, HaltReason
<1>4. CASE \E reason \in HaltReason : Halt(f, reason) /\ text' = text
  <2>1. /\ Len(computed') >= Len(computed)
        /\ Len(computed') <= Len(prompt) + Len(text)
    BY <1>1, <1>2
  <2>2. QED
    BY <1>4, <2>1, HaltBudget
<1>5. ASSUME NEW tok \in Vocab, text' = Append(text, tok),
             Derive(f, {DecodeStep(0, tok, Len(prompt))})
      PROVE  BudgetInv'
  <2> DEFINE C == {DecodeStep(0, tok, Len(prompt))}
  <2>1. \A c \in C : c.kind = "DecodeStep" /\ c \in Facts
    BY <1>1, FactFields, FactType DEF DecodeStep, Kinds, Reactive
  <2>2. Derive(f, C)
    BY <1>5
  <2> HIDE DEF C
  <2>3. C \in SUBSET Facts
    BY <2>1
  <2>4. \A c \in C : CountedOK(c)'
    BY <2>1 DEF CountedOK, HaltReason
  <2>5. Len(text') = Len(text) + 1
    BY <1>2, <1>5, AppendSeq
  <2>6. /\ Len(text') >= Len(text) /\ Len(computed') >= Len(computed)
        /\ Len(computed') <= Len(prompt) + Len(text')
    BY <1>1, <1>2, <2>5
  <2>7. QED
    BY <2>2, <2>3, <2>4, <2>6, BudgetKept
<1>6. QED
  BY <1>3, <1>4, <1>5

LEMMA StepBudget ==
  ASSUME IInv, IInv', BudgetInv, NEW f \in agenda, DecodeForward(f)
  PROVE  BudgetInv'
<1> DEFINE P == Len(prompt)
           m == Len(text)
           m1 == Len(text')
           k1 == Len(computed')
<1>1. /\ P \in Nat /\ m \in Nat /\ Len(computed) = P + m - 1 /\ k1 = P + m
      /\ prompt' = prompt
  BY NextAnswer
<1>2. text \in Seq(Vocab) /\ text' \in Seq(Vocab)
  BY DEF IInv, TypeOK
<1>3. /\ m1 \in Nat /\ m = f.n + 1 /\ f.at = P + f.n /\ m > 0
      /\ f.at = P + m - 1
  <2>1. f.kind = "DecodeStep" /\ PendingOK(f) /\ FactOK(f) /\ f \in Facts
    BY DEF IInv, TypeOK, StoreOK, AgendaOK, DecodeForward, Take
  <2>2. QED
    BY <1>1, <1>2, <2>1 DEF FactOK, PendingOK, Facts
<1>3b. m \in Nat /\ m > 0
  BY <1>1, <1>3
<1>3a. f.n \in Nat /\ f.at \in Nat
  BY DEF IInv, TypeOK, Facts
<1>4. \/ \E reason \in HaltReason : Halt(f, reason) /\ text' = text
      \/ \E tok \in Vocab, t \in Times :
           text' = Append(text, tok) /\ Derive(f, StepFacts(f, tok, t))
  BY DEF DecodeForward, ControlStops, Stream, ReasonOf, HaltReason
<1> HIDE DEF P, m, m1, k1
<1>5. CASE \E reason \in HaltReason : Halt(f, reason) /\ text' = text
  <2>1. /\ Len(computed') >= Len(computed)
        /\ Len(computed') <= Len(prompt) + Len(text)
    BY <1>1 DEF P, m, k1
  <2>2. QED
    BY <1>5, <2>1, HaltBudget
<1>6. ASSUME NEW tok \in Vocab, NEW t \in Times, text' = Append(text, tok),
             Derive(f, StepFacts(f, tok, t))
      PROVE  BudgetInv'
  <2> DEFINE C == StepFacts(f, tok, t)
  <2>1. m1 = m + 1
    BY <1>2, <1>6, AppendSeq DEF m, m1
  <2>2. ASSUME NEW c \in C
        PROVE  /\ c \in Facts
               /\ \/ /\ c.kind = "KvAdvance" /\ c = KvAdvance(c.at)
                     /\ c.at = f.at
                  \/ c.kind = "DecodeStep"
                  \/ /\ c.kind = "FinalLogits" /\ c.n = m
                     /\ c = FinalLogits(f.at, m)
                  \/ c.kind = "DispatchCompleted" /\ c.at = f.at
    <3>1. CASE c = KvAdvance(f.at)
      <4>1. c.kind = "KvAdvance" /\ c.at = f.at /\ c \in Facts
        BY <1>3a, <3>1, FactFields, FactType DEF KvAdvance, Kinds, Reactive
      <4>2. QED
        BY <3>1, <4>1
    <3>2. CASE c = DecodeStep(f.n + 1, tok, f.at + 1)
      <4>1. f.n + 1 \in Nat /\ f.at + 1 \in Nat
        BY <1>3a
      <4>2. "DecodeStep" \in Kinds /\ tok \in Vocab \cup {NoToken}
        BY DEF Kinds, Reactive
      <4>3. Fact("DecodeStep", f.at + 1, tok, f.n + 1) \in Facts
        BY <4>1, <4>2, FactType
      <4>4. QED
        BY <3>2, <4>3, FactFields DEF DecodeStep
    <3>3. CASE c = FinalLogits(f.at, f.n + 1)
      <4>1. c = Fact("FinalLogits", f.at, NoToken, m)
        BY <1>3, <3>3 DEF FinalLogits
      <4>2. "FinalLogits" \in Kinds /\ NoToken \in Vocab \cup {NoToken}
        BY DEF Kinds
      <4>3. Fact("FinalLogits", f.at, NoToken, m) \in Facts
        BY <1>1, <1>3a, <4>2, FactType
      <4>4. c.kind = "FinalLogits" /\ c.n = m
        BY <4>1, FactFields
      <4>5. QED
        BY <4>1, <4>3, <4>4 DEF FinalLogits
    <3>4. CASE c = DispatchCompleted(f.at, t)
      <4>1. t \in Nat
        BY NumbersOK
      <4>2. QED
        BY <1>3a, <3>4, <4>1, FactFields, FactType
           DEF DispatchCompleted, Kinds, Reactive
    <3>5. QED
      BY <3>1, <3>2, <3>3, <3>4 DEF StepFacts
  <2>3. Derive(f, C)
    BY <1>6
  <2> HIDE DEF C
  <2>4. C \in SUBSET Facts
    BY <2>2
  <2>5. ASSUME NEW c \in C PROVE CountedOK(c)'
    <3>1. c.kind = "KvAdvance" => c = KvAdvance(c.at) /\ c.at < Len(computed')
      BY SMTT(30), <1>1, <1>3, <1>3a, <2>2 DEF k1
    <3>2. c.kind = "FinalLogits" =>
            /\ c.n <= Len(text') /\ c.n # 0
            /\ c = FinalLogits(Len(prompt') + c.n - 1, c.n)
      <4> SUFFICES ASSUME c.kind = "FinalLogits"
                   PROVE  /\ c.n <= Len(text') /\ c.n # 0
                          /\ c = FinalLogits(Len(prompt') + c.n - 1, c.n)
        OBVIOUS
      <4>1. c.n = m /\ c = FinalLogits(f.at, m)
        BY <2>2
      <4>2. m <= m1 /\ m # 0
        BY <1>3b, <2>1
      <4>3. f.at = Len(prompt') + c.n - 1
        BY <1>1, <1>3, <4>1 DEF P
      <4>4. QED
        BY <4>1, <4>2, <4>3 DEF m1
    <3>3. c.kind = "DispatchCompleted" => Position(c.at)'
      <4>1. f.at >= P
        BY <1>1, <1>3, <1>3a
      <4>2. QED
        BY <1>1, <2>2, <4>1 DEF Position, P
    <3>4. c.kind \in {"KvAdvance", "DecodeStep", "FinalLogits",
                      "DispatchCompleted"}
      BY <2>2
    <3>5. QED
      BY <3>1, <3>2, <3>3, <3>4 DEF CountedOK, HaltReason
  <2>6. /\ Len(text') >= Len(text) /\ Len(computed') >= Len(computed)
        /\ Len(computed') <= Len(prompt) + Len(text')
    BY <1>1, <1>3, <2>1 DEF P, m, m1, k1
  <2>7. QED
    BY <2>3, <2>4, <2>5, <2>6, BudgetKept
<1>7. QED
  BY <1>4, <1>5, <1>6

LEMMA GenerateBudget ==
  ASSUME IInv, IInv', BudgetInv, Generate PROVE BudgetInv'
<1>1. /\ prompt' = prompt /\ limit' = limit /\ computed' = computed
      /\ text' = text
  BY DEF Generate, stateVars
<1>2. prompt \in Seq(Vocab)
  BY DEF IInv, TypeOK
<1>3. \A f : CountedOK(f) => CountedOK(f)'
  BY <1>1 DEF CountedOK, Position
<1>4. ASSUME NEW i \in 1 .. Len(prompt)
      PROVE  CountedOK(PromptToken(i - 1, prompt[i]))
  <2> DEFINE f == PromptToken(i - 1, prompt[i])
  <2>1. f.kind = "PromptToken" /\ f.at = i - 1
    BY FactFields DEF PromptToken
  <2>2. f.at < Len(prompt) /\ f.at + 1 = i
    BY <1>2, <2>1
  <2>3. f = PromptToken(f.at, prompt[f.at + 1])
    BY <2>1, <2>2
  <2> HIDE DEF f
  <2>4. CountedOK(f)
    BY <2>1, <2>2, <2>3 DEF CountedOK, HaltReason
  <2>5. QED
    BY <2>4 DEF f
<1>5. \A f \in store' :
        \/ f \in store
        \/ \E i \in 1 .. Len(prompt) : f = PromptToken(i - 1, prompt[i])
  BY DEF Generate
<1>6. \A f \in store' : CountedOK(f)'
  BY <1>3, <1>4, <1>5 DEF BudgetInv
<1>7. status' = "running" =>
        budget' = RequestRunBudget(Len(prompt), limit, Cardinality(store))
  BY DEF Generate
<1>8. store = TensorFacts
  BY DEF Generate, IInv, RecordOK
<1>9. QED
  BY <1>1, <1>6, <1>7, <1>8 DEF BudgetInv, RequestRunBudget

LEMMA ReturnBudget ==
  ASSUME BudgetInv,
         UNCHANGED <<prompt, limit, budget, store, agenda, stateVars>>,
         status' = "running" => status = "running"
  PROVE  BudgetInv'
<1>1. /\ prompt' = prompt /\ limit' = limit /\ computed' = computed
      /\ text' = text /\ store' = store /\ budget' = budget
  BY DEF stateVars
<1>2. \A f : CountedOK(f) => CountedOK(f)'
  BY <1>1 DEF CountedOK, Position
<1>3. QED
  BY <1>1, <1>2 DEF BudgetInv, RequestRunBudget

LEMMA BudgetNext == IInv /\ IInv' /\ BudgetInv /\ [Next]_vars => BudgetInv'
<1> SUFFICES ASSUME IInv, IInv', BudgetInv, [Next]_vars PROVE BudgetInv'
  OBVIOUS
<1>1. CASE Generate
  BY <1>1, GenerateBudget
<1>2. CASE Exhaust \/ Saturate
  BY <1>2, ReturnBudget DEF Exhaust, Saturate
<1>3. CASE UNCHANGED vars
  BY <1>3, ReturnBudget DEF vars
<1>4. ASSUME NEW f \in agenda, Rule(f) PROVE BudgetInv'
  <2>1. CASE DecodeLimit(f)
    <3>1. /\ Halt(f, "MaxTokensReached") /\ text' = text
          /\ computed' = computed
      BY <2>1 DEF DecodeLimit
    <3>2. "MaxTokensReached" \in HaltReason /\ Len(computed') >= Len(computed)
      <4>1. computed \in Seq(Nat)
        BY DEF IInv, TypeOK
      <4>2. QED
        BY <3>1, <4>1 DEF HaltReason
    <3>3. Len(computed') <= Len(prompt) + Len(text)
      BY <3>1 DEF BudgetInv
    <3>4. QED
      BY <3>1, <3>2, <3>3, HaltBudget
  <2>2. QED
    BY <1>4, <2>1, PromptRulesBudget, PrefillBudget, FirstBudget, StepBudget,
       TdrRulesBudget, TensorFactBudget DEF Rule
<1>5. QED
  BY <1>1, <1>2, <1>3, <1>4 DEF Next

LEMMA BudgetInit == Init => BudgetInv
<1> SUFFICES ASSUME Init PROVE BudgetInv
  OBVIOUS
<1>1. \A f \in TensorFacts : f.kind = "TensorFact"
  BY FactFields DEF TensorFacts, TensorFact
<1>2. /\ store = TensorFacts /\ computed = <<>> /\ text = <<>>
      /\ prompt \in Seq(Vocab) /\ status # "running"
  BY PromptsOK DEF Init
<1>3. \A f \in store : CountedOK(f)
  BY <1>1, <1>2 DEF CountedOK, HaltReason
<1>4. Len(computed) <= Len(prompt) + Len(text)
  BY <1>2
<1>5. QED
  BY <1>2, <1>3, <1>4 DEF BudgetInv

-----------------------------------------------------------------------------
(* Counting: a fact is named by its kind and the field that tells it apart *)

LEMMA UnionBound ==
  ASSUME NEW S, IsFiniteSet(S), NEW T, IsFiniteSet(T)
  PROVE  /\ IsFiniteSet(S \cup T)
         /\ Cardinality(S) \in Nat /\ Cardinality(T) \in Nat
         /\ Cardinality(S \cup T) \in Nat
         /\ Cardinality(S \cup T) <= Cardinality(S) + Cardinality(T)
<1>1. /\ IsFiniteSet(S \cup T)
      /\ Cardinality(S \cup T) =
           Cardinality(S) + Cardinality(T) - Cardinality(S \cap T)
  BY FS_Union
<1>2. IsFiniteSet(S \cap T)
  BY FS_Intersection
<1>3. /\ Cardinality(S) \in Nat /\ Cardinality(T) \in Nat
      /\ Cardinality(S \cup T) \in Nat /\ Cardinality(S \cap T) \in Nat
  BY <1>1, <1>2, FS_CardinalityType
<1>4. QED
  BY <1>1, <1>3

LEMMA PairBound ==
  ASSUME NEW x, NEW y
  PROVE  /\ IsFiniteSet({x, y}) /\ Cardinality({x, y}) \in Nat
         /\ Cardinality({x, y}) <= 2
<1>1. /\ IsFiniteSet({x}) /\ Cardinality({x}) = 1
      /\ IsFiniteSet({y}) /\ Cardinality({y}) = 1
  BY FS_Singleton
<1>2. {x, y} = {x} \cup {y}
  OBVIOUS
<1>3. /\ IsFiniteSet({x} \cup {y}) /\ Cardinality({x} \cup {y}) \in Nat
      /\ Cardinality({x} \cup {y}) <= Cardinality({x}) + Cardinality({y})
  BY <1>1, UnionBound
<1>4. QED
  BY <1>1, <1>2, <1>3

LEMMA Tagged ==
  ASSUME NEW k, NEW S, IsFiniteSet(S)
  PROVE  /\ IsFiniteSet({k} \X S)
         /\ Cardinality({k} \X S) = Cardinality(S)
<1>1. IsFiniteSet({k}) /\ Cardinality({k}) = 1
  BY FS_Singleton
<1>2. /\ IsFiniteSet({k} \X S)
      /\ Cardinality({k} \X S) = Cardinality({k}) * Cardinality(S)
  BY <1>1, FS_Product
<1>3. Cardinality(S) \in Nat
  BY FS_CardinalityType
<1>4. QED
  BY <1>1, <1>2, <1>3

Key(f) ==
  IF f.kind \in {"EmbeddingRequest", "EmbeddingReady"} THEN f.tok
  ELSE IF f.kind \in {"PromptToken", "KvAdvance", "DispatchCompleted",
                      "TdrRiskHigh", "YieldNow"} THEN f.at
  ELSE IF f.kind \in {"DecodeStep", "FinalLogits"} THEN f.n ELSE 0

PromptTokens == {prompt[i] : i \in 1 .. Len(prompt)}
KvPositions  == 0 .. Len(prompt) + limit - 1
GpuLayers    == {0} \cup (Len(prompt) .. Len(prompt) + limit - 1)
DecodeSteps  == 0 .. limit
Once         == {"PrefillBatchReady", "PrefillComplete", "LayerOutput",
                 "KvWritten", halt}

PromptNames ==
  ({"PromptToken"} \X (0 .. Len(prompt) - 1))
    \cup (({"EmbeddingRequest"} \X PromptTokens)
           \cup ({"EmbeddingReady"} \X PromptTokens))
LayerNames ==
  ({"DispatchCompleted"} \X GpuLayers)
    \cup (({"TdrRiskHigh"} \X GpuLayers) \cup ({"YieldNow"} \X GpuLayers))
StepNames ==
  ({"KvAdvance"} \X KvPositions)
    \cup (({"DecodeStep"} \X DecodeSteps)
           \cup ({"FinalLogits"} \X DecodeSteps))
Names == (PromptNames \cup LayerNames) \cup (StepNames \cup ({"Once"} \X Once))

LEMMA NamesCount ==
  ASSUME prompt \in Seq(Vocab), limit \in Nat \ {0}
  PROVE  /\ IsFiniteSet(Names) /\ Cardinality(Names) \in Nat
         /\ Cardinality(Names) <= 4 * Len(prompt) + 6 * limit + 10
<1> DEFINE P == Len(prompt)
<1>1. P \in Nat /\ limit \in Nat /\ limit > 0
  OBVIOUS
<1>2. /\ IsFiniteSet(PromptTokens) /\ Cardinality(PromptTokens) \in Nat
      /\ Cardinality(PromptTokens) <= P
  <2> DEFINE g == [i \in 1 .. P |-> prompt[i]]
  <2>1. g \in Surjection(1 .. P, PromptTokens)
    BY DEF Surjection, PromptTokens
  <2>2. IsFiniteSet(1 .. P) /\ Cardinality(1 .. P) = P
    BY <1>1, FS_Interval
  <2> HIDE DEF g, P
  <2>3. QED
    BY <2>1, <2>2, FS_Surjection, FS_CardinalityType
<1> HIDE DEF P
<1>3. /\ IsFiniteSet(0 .. P - 1) /\ Cardinality(0 .. P - 1) = P
  BY <1>1, FS_Interval
<1>4. /\ IsFiniteSet(KvPositions) /\ Cardinality(KvPositions) = P + limit
  BY <1>1, FS_Interval DEF KvPositions, P
<1>5. /\ IsFiniteSet(DecodeSteps) /\ Cardinality(DecodeSteps) = limit + 1
  BY <1>1, FS_Interval DEF DecodeSteps
<1>6. /\ IsFiniteSet(GpuLayers) /\ Cardinality(GpuLayers) \in Nat
      /\ Cardinality(GpuLayers) <= limit + 1
  <2> DEFINE S == P .. P + limit - 1
  <2>1. IsFiniteSet(S) /\ Cardinality(S) = limit
    BY <1>1, FS_Interval
  <2>2. IsFiniteSet({0}) /\ Cardinality({0}) = 1
    BY FS_Singleton
  <2> HIDE DEF S
  <2>3. /\ IsFiniteSet({0} \cup S) /\ Cardinality({0} \cup S) \in Nat
        /\ Cardinality({0} \cup S) <= limit + 1
    BY <1>1, <2>1, <2>2, UnionBound
  <2>4. QED
    BY <2>3 DEF GpuLayers, S, P
<1>7. /\ IsFiniteSet(Once) /\ Cardinality(Once) \in Nat
      /\ Cardinality(Once) <= 5
  <2> DEFINE A == {"PrefillBatchReady", "PrefillComplete"}
             B == {"LayerOutput", "KvWritten"}
  <2>1. /\ IsFiniteSet(A) /\ Cardinality(A) \in Nat /\ Cardinality(A) <= 2
    BY PairBound
  <2>2. /\ IsFiniteSet(B) /\ Cardinality(B) \in Nat /\ Cardinality(B) <= 2
    BY PairBound
  <2>3. IsFiniteSet({halt}) /\ Cardinality({halt}) = 1
    BY FS_Singleton
  <2>4. Once = (A \cup B) \cup {halt}
    BY DEF Once
  <2> HIDE DEF A, B
  <2>5. /\ IsFiniteSet(A \cup B) /\ Cardinality(A \cup B) \in Nat
        /\ Cardinality(A \cup B) <= Cardinality(A) + Cardinality(B)
    BY <2>1, <2>2, UnionBound
  <2>6. /\ IsFiniteSet((A \cup B) \cup {halt})
        /\ Cardinality((A \cup B) \cup {halt}) \in Nat
        /\ Cardinality((A \cup B) \cup {halt}) <=
             Cardinality(A \cup B) + Cardinality({halt})
    BY <2>3, <2>5, UnionBound
  <2>7. QED
    BY <2>1, <2>2, <2>3, <2>4, <2>5, <2>6
<1>8. /\ IsFiniteSet(PromptNames) /\ Cardinality(PromptNames) \in Nat
      /\ Cardinality(PromptNames) <= 3 * P
  <2> DEFINE A == {"PromptToken"} \X (0 .. P - 1)
             B == {"EmbeddingRequest"} \X PromptTokens
             D == {"EmbeddingReady"} \X PromptTokens
  <2>1. /\ IsFiniteSet(A) /\ IsFiniteSet(B) /\ IsFiniteSet(D)
        /\ Cardinality(A) = P /\ Cardinality(B) <= P /\ Cardinality(D) <= P
    BY <1>2, <1>3, Tagged
  <2>2. PromptNames = A \cup (B \cup D)
    BY DEF PromptNames, P
  <2> HIDE DEF A, B, D
  <2>3. /\ IsFiniteSet(B \cup D) /\ Cardinality(B \cup D) \in Nat
        /\ Cardinality(B \cup D) <= Cardinality(B) + Cardinality(D)
        /\ Cardinality(B) \in Nat /\ Cardinality(D) \in Nat
    BY <2>1, UnionBound
  <2>4. /\ IsFiniteSet(A \cup (B \cup D))
        /\ Cardinality(A \cup (B \cup D)) \in Nat
        /\ Cardinality(A \cup (B \cup D)) <=
             Cardinality(A) + Cardinality(B \cup D)
    BY <2>1, <2>3, UnionBound
  <2>5. QED
    BY <1>1, <2>1, <2>2, <2>3, <2>4
<1>9. /\ IsFiniteSet(LayerNames) /\ Cardinality(LayerNames) \in Nat
      /\ Cardinality(LayerNames) <= 3 * limit + 3
  <2> DEFINE A == {"DispatchCompleted"} \X GpuLayers
             B == {"TdrRiskHigh"} \X GpuLayers
             D == {"YieldNow"} \X GpuLayers
             n == Cardinality(GpuLayers)
  <2>1. /\ IsFiniteSet(A) /\ IsFiniteSet(B) /\ IsFiniteSet(D)
        /\ Cardinality(A) = n /\ Cardinality(B) = n /\ Cardinality(D) = n
    BY <1>6, Tagged
  <2>2. LayerNames = A \cup (B \cup D)
    BY DEF LayerNames
  <2> HIDE DEF A, B, D
  <2>3. /\ IsFiniteSet(B \cup D) /\ Cardinality(B \cup D) \in Nat
        /\ Cardinality(B \cup D) <= Cardinality(B) + Cardinality(D)
    BY <2>1, UnionBound
  <2>4. /\ IsFiniteSet(A \cup (B \cup D))
        /\ Cardinality(A \cup (B \cup D)) \in Nat
        /\ Cardinality(A \cup (B \cup D)) <=
             Cardinality(A) + Cardinality(B \cup D)
    BY <2>1, <2>3, UnionBound
  <2>5. n \in Nat /\ n <= limit + 1
    BY <1>6
  <2> HIDE DEF n
  <2>6. QED
    BY <1>1, <2>1, <2>2, <2>3, <2>4, <2>5
<1>10. /\ IsFiniteSet(StepNames) /\ Cardinality(StepNames) \in Nat
       /\ Cardinality(StepNames) <= P + 3 * limit + 2
  <2> DEFINE A == {"KvAdvance"} \X KvPositions
             B == {"DecodeStep"} \X DecodeSteps
             D == {"FinalLogits"} \X DecodeSteps
  <2>1. /\ IsFiniteSet(A) /\ IsFiniteSet(B) /\ IsFiniteSet(D)
        /\ Cardinality(A) = P + limit /\ Cardinality(B) = limit + 1
        /\ Cardinality(D) = limit + 1
    BY <1>4, <1>5, Tagged
  <2>2. StepNames = A \cup (B \cup D)
    BY DEF StepNames
  <2> HIDE DEF A, B, D
  <2>3. /\ IsFiniteSet(B \cup D) /\ Cardinality(B \cup D) \in Nat
        /\ Cardinality(B \cup D) <= Cardinality(B) + Cardinality(D)
    BY <2>1, UnionBound
  <2>4. /\ IsFiniteSet(A \cup (B \cup D))
        /\ Cardinality(A \cup (B \cup D)) \in Nat
        /\ Cardinality(A \cup (B \cup D)) <=
             Cardinality(A) + Cardinality(B \cup D)
    BY <2>1, <2>3, UnionBound
  <2>5. QED
    BY <1>1, <2>1, <2>2, <2>3, <2>4
<1>11. /\ IsFiniteSet({"Once"} \X Once)
       /\ Cardinality({"Once"} \X Once) \in Nat
       /\ Cardinality({"Once"} \X Once) <= 5
  BY <1>7, Tagged
<1>12. /\ IsFiniteSet(PromptNames \cup LayerNames)
       /\ Cardinality(PromptNames \cup LayerNames) \in Nat
       /\ Cardinality(PromptNames \cup LayerNames) <= 3 * P + 3 * limit + 3
  <2>1. /\ IsFiniteSet(PromptNames \cup LayerNames)
        /\ Cardinality(PromptNames \cup LayerNames) \in Nat
        /\ Cardinality(PromptNames \cup LayerNames) <=
             Cardinality(PromptNames) + Cardinality(LayerNames)
    BY <1>8, <1>9, UnionBound
  <2>2. QED
    BY <1>1, <1>8, <1>9, <2>1
<1>13. /\ IsFiniteSet(StepNames \cup ({"Once"} \X Once))
       /\ Cardinality(StepNames \cup ({"Once"} \X Once)) \in Nat
       /\ Cardinality(StepNames \cup ({"Once"} \X Once)) <= P + 3 * limit + 7
  <2>1. /\ IsFiniteSet(StepNames \cup ({"Once"} \X Once))
        /\ Cardinality(StepNames \cup ({"Once"} \X Once)) \in Nat
        /\ Cardinality(StepNames \cup ({"Once"} \X Once)) <=
             Cardinality(StepNames) + Cardinality({"Once"} \X Once)
    BY <1>10, <1>11, UnionBound
  <2>2. QED
    BY <1>1, <1>10, <1>11, <2>1
<1>14. /\ IsFiniteSet(Names) /\ Cardinality(Names) \in Nat
       /\ Cardinality(Names) <=
            Cardinality(PromptNames \cup LayerNames)
              + Cardinality(StepNames \cup ({"Once"} \X Once))
  BY <1>12, <1>13, UnionBound DEF Names
<1>15. QED
  BY <1>1, <1>12, <1>13, <1>14 DEF P

OnceKinds == {"PrefillBatchReady", "PrefillComplete", "LayerOutput",
              "KvWritten"} \cup HaltReason

Name(f) == IF f.kind \in OnceKinds THEN <<"Once", f.kind>>
                                   ELSE <<f.kind, Key(f)>>

Derived == {f \in store : f.kind \notin {"TensorFact", "DispatchFact"}}

LEMMA AnswerBound ==
  ASSUME IInv, BudgetInv, limit # 0
  PROVE  /\ prompt \in Seq(Vocab) /\ limit \in Nat \ {0}
         /\ Len(prompt) \in Nat /\ Len(text) \in Nat /\ Len(computed) \in Nat
         /\ Len(text) <= limit /\ Len(computed) <= Len(prompt) + limit
<1>1. /\ prompt \in Seq(Vocab) /\ limit \in Nat \ {0} /\ ids \in Seq(Vocab)
      /\ text \in Seq(Vocab) /\ computed \in Seq(Nat)
  BY DEF IInv, TypeOK
<1>2. /\ Len(prompt) \in Nat /\ Len(text) \in Nat /\ Len(computed) \in Nat
      /\ Len(ids) \in Nat
  BY <1>1
<1>3. Len(text) <= Len(ids) /\ Len(ids) <= limit
  BY <1>1, <1>2 DEF IInv, AnswerMatchesIds
<1>4. Len(computed) <= Len(prompt) + Len(text)
  BY DEF BudgetInv
<1>5. QED
  BY <1>1, <1>2, <1>3, <1>4

LEMMA NameIsAName ==
  ASSUME IInv, BudgetInv, limit # 0, NEW f \in Derived
  PROVE  Name(f) \in Names
<1>1. /\ f \in store /\ FactOK(f) /\ CountedOK(f)
      /\ f.kind \in Kinds \ {"TensorFact", "DispatchFact"}
      /\ f.at \in Nat /\ f.n \in Nat
  BY DEF Derived, IInv, TypeOK, StoreOK, BudgetInv, Facts
<1>2. /\ Len(prompt) \in Nat /\ Len(text) \in Nat /\ Len(computed) \in Nat
      /\ Len(text) <= limit /\ Len(computed) <= Len(prompt) + limit
      /\ limit \in Nat \ {0}
  BY AnswerBound
<1>3. CASE f.kind \in OnceKinds
  <2>1. Name(f) = <<"Once", f.kind>>
    BY <1>3 DEF Name
  <2>2. f.kind \in Once
    BY <1>1, <1>3 DEF OnceKinds, Once, FactOK
  <2>3. QED
    BY <2>1, <2>2 DEF Names
<1>4. CASE f.kind \notin OnceKinds
  <2>1. Name(f) = <<f.kind, Key(f)>>
    BY <1>4 DEF Name
  <2>2. CASE f.kind = "PromptToken"
    <3>1. Key(f) = f.at /\ f.at \in 0 .. Len(prompt) - 1
      BY <1>1, <1>2, <2>2 DEF Key, CountedOK
    <3>2. QED
      BY <2>1, <2>2, <3>1 DEF Names, PromptNames
  <2>3. CASE f.kind \in {"EmbeddingRequest", "EmbeddingReady"}
    <3>1. Key(f) = f.tok /\ f.tok \in PromptTokens
      BY <1>1, <2>3 DEF Key, FactOK, InPrompt, PromptTokens
    <3>2. QED
      BY <2>1, <2>3, <3>1 DEF Names, PromptNames
  <2>4. CASE f.kind = "KvAdvance"
    <3>1. Key(f) = f.at /\ f.at \in KvPositions
      BY <1>1, <1>2, <2>4 DEF Key, CountedOK, KvPositions
    <3>2. QED
      BY <2>1, <2>4, <3>1 DEF Names, StepNames
  <2>5. CASE f.kind \in {"DispatchCompleted", "TdrRiskHigh", "YieldNow"}
    <3>1. f.at < Len(computed) /\ Position(f.at)
      BY <1>1, <2>5 DEF CountedOK, FactOK
    <3>2. f.at \in GpuLayers
      BY <1>1, <1>2, <3>1 DEF Position, GpuLayers
    <3>3. Key(f) = f.at
      BY <2>5 DEF Key
    <3>4. QED
      BY <2>1, <2>5, <3>2, <3>3 DEF Names, LayerNames
  <2>6. CASE f.kind \in {"DecodeStep", "FinalLogits"}
    <3>1. f.n <= Len(text)
      BY <1>1, <1>2, <2>6 DEF CountedOK, FactOK
    <3>2. Key(f) = f.n /\ f.n \in DecodeSteps
      BY <1>1, <1>2, <2>6, <3>1 DEF Key, DecodeSteps
    <3>3. QED
      BY <2>1, <2>6, <3>2 DEF Names, StepNames
  <2>7. QED
    BY <1>1, <1>4, <2>2, <2>3, <2>4, <2>5, <2>6
       DEF Kinds, Reactive, OnceKinds
<1>5. QED
  BY <1>3, <1>4

LEMMA NamesDiffer ==
  ASSUME IInv, BudgetInv, NEW f \in Derived, NEW g \in Derived,
         Name(f) = Name(g)
  PROVE  f = g
<1>1. /\ f \in store /\ FactOK(f) /\ CountedOK(f)
      /\ g \in store /\ FactOK(g) /\ CountedOK(g)
      /\ f.kind \in Kinds \ {"TensorFact", "DispatchFact"}
      /\ g.kind \in Kinds \ {"TensorFact", "DispatchFact"}
      /\ SameFact(f, g)
  BY DEF Derived, IInv, TypeOK, StoreOK, BudgetInv, Facts
<1>2. "Once" \notin Kinds
  BY DEF Kinds, Reactive, HaltReason
<1>3. /\ f.kind = g.kind
      /\ f.kind \notin OnceKinds => Key(f) = Key(g)
  BY <1>1, <1>2 DEF Name
<1>4. CASE f.kind \in {"PrefillBatchReady", "PrefillComplete"}
  BY <1>1, <1>3, <1>4 DEF FactOK
<1>5. CASE f.kind \in {"LayerOutput", "KvWritten"} \cup HaltReason
  BY <1>1, <1>3, <1>5 DEF CountedOK
<1>6. CASE f.kind \in {"PromptToken", "KvAdvance", "TdrRiskHigh", "YieldNow"}
  <2>1. f.kind \notin OnceKinds
    BY <1>6 DEF OnceKinds, HaltReason
  <2>2. f.at = g.at
    BY <1>3, <1>6, <2>1 DEF Key
  <2>3. QED
    BY <1>1, <1>3, <1>6, <2>2 DEF CountedOK
<1>7. CASE f.kind \in {"EmbeddingRequest", "EmbeddingReady"}
  <2>1. f.kind \notin OnceKinds
    BY <1>7 DEF OnceKinds, HaltReason
  <2>2. f.tok = g.tok
    BY <1>3, <1>7, <2>1 DEF Key
  <2>3. QED
    BY <1>1, <1>3, <1>7, <2>2 DEF CountedOK, FactOK
<1>8. CASE f.kind \in {"DecodeStep", "FinalLogits"}
  <2>1. f.kind \notin OnceKinds
    BY <1>8 DEF OnceKinds, HaltReason
  <2>2. f.n = g.n
    BY <1>3, <1>8, <2>1 DEF Key
  <2>3. QED
    BY <1>1, <1>3, <1>8, <2>2 DEF CountedOK, SameFact
<1>9. CASE f.kind = "DispatchCompleted"
  <2>1. f.kind \notin OnceKinds
    BY <1>9 DEF OnceKinds, HaltReason
  <2>2. f.at = g.at
    BY <1>3, <1>9, <2>1 DEF Key
  <2>3. QED
    BY <1>1, <1>3, <1>9, <2>2 DEF SameFact
<1>10. QED
  BY <1>1, <1>4, <1>5, <1>6, <1>7, <1>8, <1>9 DEF Kinds, Reactive

LEMMA StoreCount ==
  ASSUME IInv, BudgetInv, limit # 0
  PROVE  /\ Cardinality(store) \in Nat
         /\ Cardinality(store) <= 2 * Cardinality(TensorFacts)
                                    + 4 * Len(prompt) + 6 * limit + 10
<1> DEFINE dispatch == [g \in TensorFacts |->
                          DispatchFact(g.at, SlotForType[g.n])]
           Dispatches == {dispatch[g] : g \in TensorFacts}
           name == [f \in Derived |-> Name(f)]
<1>1. /\ IsFiniteSet(TensorFacts) /\ Cardinality(TensorFacts) \in Nat
  BY TensorFactsFinite
<1>2. /\ IsFiniteSet(Dispatches)
      /\ Cardinality(Dispatches) <= Cardinality(TensorFacts)
  <2>1. dispatch \in Surjection(TensorFacts, Dispatches)
    BY DEF Surjection
  <2> HIDE DEF dispatch, Dispatches
  <2>2. QED
    BY <1>1, <2>1, FS_Surjection
<1>3. /\ IsFiniteSet(Names) /\ Cardinality(Names) \in Nat
      /\ Cardinality(Names) <= 4 * Len(prompt) + 6 * limit + 10
  BY AnswerBound, NamesCount
<1>4. IsFiniteSet(Derived) /\ Cardinality(Derived) <= Cardinality(Names)
  <2>1. name \in Injection(Derived, Names)
    BY NameIsAName, NamesDiffer DEF Injection, IsInjective
  <2> HIDE DEF name
  <2>2. QED
    BY <1>3, <2>1, FS_Injection
<1>5. store \subseteq (TensorFacts \cup Dispatches) \cup Derived
  <2> SUFFICES ASSUME NEW f \in store,
                      f.kind \in {"TensorFact", "DispatchFact"}
               PROVE  f \in TensorFacts \cup Dispatches
    BY DEF Derived
  <2>1. CountedOK(f)
    BY DEF BudgetInv
  <2>2. QED
    BY <2>1 DEF CountedOK
<1> HIDE DEF Dispatches
<1>6. /\ IsFiniteSet(TensorFacts \cup Dispatches)
      /\ Cardinality(TensorFacts \cup Dispatches) \in Nat
      /\ Cardinality(Dispatches) \in Nat
      /\ Cardinality(TensorFacts \cup Dispatches) <=
           Cardinality(TensorFacts) + Cardinality(Dispatches)
  BY <1>1, <1>2, UnionBound
<1>7. /\ IsFiniteSet((TensorFacts \cup Dispatches) \cup Derived)
      /\ Cardinality((TensorFacts \cup Dispatches) \cup Derived) \in Nat
      /\ Cardinality(Derived) \in Nat
      /\ Cardinality((TensorFacts \cup Dispatches) \cup Derived) <=
           Cardinality(TensorFacts \cup Dispatches) + Cardinality(Derived)
  BY <1>4, <1>6, UnionBound
<1>8. /\ IsFiniteSet(store)
      /\ Cardinality(store) <=
           Cardinality((TensorFacts \cup Dispatches) \cup Derived)
  BY <1>5, <1>7, FS_Subset
<1>9. Cardinality(store) \in Nat
  BY <1>8, FS_CardinalityType
<1>10. /\ Len(prompt) \in Nat /\ limit \in Nat
  BY AnswerBound
<1>11. QED
  BY <1>1, <1>2, <1>3, <1>4, <1>6, <1>7, <1>8, <1>9, <1>10

\* The run budget covers what the rules can derive, for every prompt, limit
\* and set of tensors: a call that may emit a token is never cut short.
THEOREM BudgetIsEnough == Spec => []BudgetSuffices
<1>1. Init => BudgetSuffices
  BY DEF Init, BudgetSuffices
<1>2. IInv /\ BudgetInv /\ BudgetSuffices /\ [Next]_vars => BudgetSuffices'
  <2> SUFFICES ASSUME IInv, BudgetInv, BudgetSuffices, [Next]_vars
               PROVE  BudgetSuffices'
    OBVIOUS
  <2>1. limit' = limit
    BY DEF Next, Generate, Exhaust, Saturate, Rule, PromptTokenRule,
           EmbeddingRequestRule, EmbeddingReadyRule, PrefillBatchReadyRule,
           KvAdvanceRule, PrefillCompleteRule, DecodeLimit, DecodeForward,
           DispatchCompletedRule, TdrRiskHighRule, TensorFactRule, Derive,
           Halt, ControlStops, vars
  <2>2. CASE status' = status
    BY <2>1, <2>2 DEF BudgetSuffices
  <2>3. CASE Exhaust
    <3> SUFFICES ASSUME limit # 0 PROVE FALSE
      BY <2>1 DEF BudgetSuffices
    <3>1. /\ Cardinality(store) > budget
          /\ budget = RequestRunBudget(Len(prompt), limit,
                                       Cardinality(TensorFacts))
      BY <2>3 DEF Exhaust, Exhausted, BudgetInv
    <3>2. /\ Cardinality(store) \in Nat
          /\ Cardinality(store) <= 2 * Cardinality(TensorFacts)
                                     + 4 * Len(prompt) + 6 * limit + 10
      BY StoreCount
    <3>3. /\ Len(prompt) \in Nat /\ limit \in Nat \ {0} /\ Slack \in Nat
          /\ Cardinality(TensorFacts) \in Nat
      BY AnswerBound, TensorFactsFinite, NumbersOK
    <3>4. QED
      BY <3>1, <3>2, <3>3 DEF RequestRunBudget
  <2>4. CASE Generate \/ Saturate
    BY <2>4 DEF Generate, Saturate, BudgetSuffices
  <2>5. ASSUME NEW f \in agenda, Rule(f) PROVE status' = status
    BY <2>5 DEF Rule, PromptTokenRule,
           EmbeddingRequestRule, EmbeddingReadyRule, PrefillBatchReadyRule,
           KvAdvanceRule, PrefillCompleteRule, DecodeLimit, DecodeForward,
           DispatchCompletedRule, TdrRiskHighRule, TensorFactRule, Derive,
           Halt, ControlStops
  <2>6. QED
    BY <2>2, <2>3, <2>4, <2>5 DEF Next, vars
<1>3. IInv /\ IInv' /\ BudgetInv /\ [Next]_vars => BudgetInv'
  BY BudgetNext
<1>4. Init => BudgetInv
  BY BudgetInit
<1>5. QED
  BY <1>1, <1>2, <1>3, <1>4, Invariance, PTL DEF Spec
=============================================================================
