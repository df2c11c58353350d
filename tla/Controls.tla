------------------------------ MODULE Controls ------------------------------
(***************************************************************************)
(* The control hooks of one generation: control.rs (ChainControl),         *)
(* fse_control.rs, schoolmarm_control.rs with the mask of grammar.rs, and  *)
(* math_bypass_control.rs, driven the way rules 4 and 5 of isf.rs and the  *)
(* hook of gpu.rs drive them.                                              *)
(*                                                                         *)
(* Each control keeps its own state and sees every candidate only if no    *)
(* control before it in the chain has already decided, so what matters is  *)
(* how these states stay in step with the text that was really streamed.   *)
(*                                                                         *)
(* Text is a sequence of characters and a token stands for its piece.      *)
(* External: the schoolmarm grammar (a set of sentences here: a piece is   *)
(* accepted when some sentence continues it), the Aho-Corasick automaton   *)
(* (its state is the longest suffix that begins a pattern), the sampler.   *)
(***************************************************************************)
EXTENDS Naturals, SequencesExt

CONSTANTS Chars,     \* characters of a text
          Tokens,    \* token ids with a visible piece
          Eos,       \* the stop token; its piece is empty
          Piece,     \* decode_single, as a function of the token
          Language,  \* sentences of the grammar
          Rejects,   \* patterns of the Reject rules
          Answers,   \* token queues MathBypassControl::new may compute
          Chains,    \* chains the caller builds: sequences of control names
          Limits     \* max_tokens

ASSUME TextTypes ==
  /\ Piece \in [Tokens \cup {Eos} -> Seq(Chars)]
  /\ Language \subseteq Seq(Chars) /\ Rejects \subseteq Seq(Chars)
  /\ Answers \subseteq Seq(Tokens)
ASSUME EosHidden == Eos \notin Tokens /\ Piece[Eos] = <<>>
ASSUME SentencesVisible ==
  Language # {} /\ <<>> \notin Language /\ <<>> \notin Rejects
ASSUME LimitsPos == Limits \subseteq Nat \ {0}

VARIABLES chain,     \* ChainControl.0
          limit,     \* max_tokens
          masked,    \* the grammar control came with its mask (grammar_hooks)
          tokens,    \* streamed tokens
          candidate, \* what the sampler chose
          asked,     \* controls of the chain that have been asked about it
          grammar,   \* GrammarState: the characters accepted so far
          sid,       \* ScanCursor.sid
          consumed,  \* bytes_consumed
          queue,     \* BypassState.queue
          armed,     \* BypassState.armed
          status     \* "sample", "hook", or how the generation ended

controlVars == <<grammar, sid, consumed, queue, armed>>
vars == <<chain, limit, masked, tokens, candidate, asked, controlVars, status>>

Control == {"fse", "grammar", "math"}

\* A control has one state here, so a chain names it at most once.
ASSUME ChainsDistinct ==
  \A c \in Chains : c \in Seq(Control) /\ \A i, j \in DOMAIN c : c[i] = c[j] => i = j

TextOf(toks) == FoldLeft(LAMBDA text, t : text \o Piece[t], <<>>, toks)

\* generated_text, and event.text: the candidate is not in it.
Text == TextOf(tokens)

Prefixed(s) == \E sentence \in Language : IsPrefix(s, sentence)

Accepting == grammar \in Language

In(control) == \E i \in DOMAIN chain : chain[i] = control

Init ==
  /\ chain \in Chains
  /\ limit \in Limits
  /\ masked \in {m \in BOOLEAN : m => In("grammar")}
  /\ tokens = <<>>
  /\ candidate = Eos
  /\ asked = 0
  /\ grammar = <<>>
  /\ sid = <<>>
  /\ consumed = 0
  /\ queue \in IF In("math") THEN Answers ELSE {<<>>}
  /\ armed = (queue # <<>>)
  /\ status = "sample"

-----------------------------------------------------------------------------
(* The mask of grammar_hooks, and the sampler *)

\* Mutant: the mask walks a state of its own, which nothing advances.
BugPermitted ==
  IF masked THEN {t \in Tokens : Prefixed(Piece[t])} ELSE Tokens \cup {Eos}

\* grammar_hooks builds mask and control over one state; a SchoolmarmControl
\* of its own has no mask, and every token may be sampled.  Eos is unmasked
\* once the grammar accepts.
Permitted ==
  IF masked
    THEN {t \in Tokens : Prefixed(grammar \o Piece[t])}
           \cup {t \in {Eos} : Accepting}
    ELSE Tokens \cup {Eos}

Sample ==
  /\ status = "sample"
  /\ \/ /\ candidate' \in Permitted
        /\ status' = "hook"
     \/ /\ Permitted = {}
        /\ status' = "NoToken"   \* invalid_logit_mask
        /\ UNCHANGED candidate
  /\ asked' = 0
  /\ UNCHANGED <<chain, limit, masked, tokens, controlVars>>

-----------------------------------------------------------------------------
(* What the fabric makes of a decision *)

\* Token t is streamed unless it is the stop token; then the limit is looked
\* at before the next pass.
Accept(t) ==
  IF t = Eos
    THEN /\ status' = "Stop"
         /\ UNCHANGED tokens
    ELSE /\ tokens' = Append(tokens, t)
         /\ status' = IF Len(tokens) + 1 >= limit THEN "Length" ELSE "sample"

\* EarlyExit and Block end the generation without the candidate.
End(how) ==
  /\ status' = how
  /\ UNCHANGED tokens

\* The next control of the chain is `name`, and it is asked now.
Ask(name) ==
  /\ status = "hook"
  /\ asked < Len(chain)
  /\ chain[asked + 1] = name
  /\ asked' = asked + 1
  /\ UNCHANGED <<chain, limit, masked, candidate>>

\* Allow: the chain goes on.
Allow == UNCHANGED <<tokens, status>>

\* Every control allowed the candidate.
AllAllowed ==
  /\ status = "hook"
  /\ asked = Len(chain)
  /\ Accept(candidate)
  /\ UNCHANGED <<chain, limit, masked, candidate, asked, controlVars>>

-----------------------------------------------------------------------------
(* FseControl and the scanner of libfse *)

\* aho-corasick: the longest suffix of what was read that begins a pattern.
NextSid(s, char) ==
  LET read == Append(s, char)
      tails == {SubSeq(read, i, Len(read)) : i \in 1 .. Len(read) + 1}
      live == {x \in tails : x = <<>> \/ \E p \in Rejects : IsPrefix(x, p)}
  IN  CHOOSE x \in live : \A y \in live : Len(y) <= Len(x)

\* Some Reject pattern ends in this state.
Hit(s) == \E p \in Rejects : IsSuffix(p, s)

\* Mutant: the cursor starts again for every delta.
BugScan(s, delta) ==
  FoldLeft(LAMBDA acc, char : IF Hit(acc) THEN acc ELSE NextSid(acc, char),
           <<>>, delta)

\* scan_with_cursor: byte by byte, returning at the first Reject.
Scan(s, delta) ==
  FoldLeft(LAMBDA acc, char : IF Hit(acc) THEN acc ELSE NextSid(acc, char),
           s, delta)

Delta == SubSeq(Text, consumed + 1, Len(Text))

\* bytes_consumed only moves when the scan was clean.
AskFse ==
  /\ Ask("fse")
  /\ sid' = Scan(sid, Delta)
  /\ IF Hit(sid')
       THEN End("Blocked") /\ UNCHANGED consumed
       ELSE Allow /\ consumed' = Len(Text)
  /\ UNCHANGED <<grammar, queue, armed>>

-----------------------------------------------------------------------------
(* SchoolmarmControl *)

\* Mutant: a rejected piece is let through.
BugAskGrammar ==
  LET accepted == grammar \o Piece[candidate] IN
  /\ Ask("grammar")
  /\ grammar' = IF Prefixed(accepted) THEN accepted ELSE grammar
  /\ IF accepted \in Language THEN End("EarlyExit") ELSE Allow
  /\ UNCHANGED <<sid, consumed, queue, armed>>

AskGrammar ==
  LET accepted == grammar \o Piece[candidate] IN
  /\ Ask("grammar")
  /\ IF ~Prefixed(accepted)
       THEN End("Blocked") /\ UNCHANGED grammar
       ELSE /\ grammar' = accepted
            /\ IF accepted \in Language THEN End("EarlyExit") ELSE Allow
  /\ UNCHANGED <<sid, consumed, queue, armed>>

-----------------------------------------------------------------------------
(* MathBypassControl *)

\* Mutant: the call ends as soon as the last answer token was taken.
BugAskMath ==
  /\ Ask("math")
  /\ IF Len(queue) > 1
       THEN /\ queue' = Tail(queue)
            /\ Accept(Head(queue))
       ELSE /\ IF armed THEN End("EarlyExit") ELSE Allow
            /\ UNCHANGED queue
  /\ UNCHANGED <<grammar, sid, consumed, armed>>

AskMath ==
  /\ Ask("math")
  /\ IF queue # <<>>
       THEN /\ queue' = Tail(queue)
            /\ Accept(Head(queue))
       ELSE /\ IF armed THEN End("EarlyExit") ELSE Allow
            /\ UNCHANGED queue
  /\ UNCHANGED <<grammar, sid, consumed, armed>>

-----------------------------------------------------------------------------
Next == Sample \/ AskFse \/ AskGrammar \/ AskMath \/ AllAllowed

Spec == Init /\ [][Next]_vars

-----------------------------------------------------------------------------
(* Properties *)

Occurs(s, p) == \E i \in 0 .. Len(s) - Len(p) : SubSeq(s, i + 1, i + Len(p)) = p

Before(a, b) == \E i, j \in DOMAIN chain : i < j /\ chain[i] = a /\ chain[j] = b

\* Scanning only what was added since the last call, with the automaton's
\* state kept in between, sees every pattern that crosses tokens: as long as
\* no forcing control comes before it, the scanner lets the generation go on
\* only if no Reject pattern ends before the newest streamed token.
ScanLagsOneToken ==
  In("fse") /\ ~Before("math", "fse") /\ tokens # <<>> /\ status # "Blocked"
    => \A p \in Rejects : ~Occurs(TextOf(Front(tokens)), p)

\* A generation is blocked only over a text that contains a Reject pattern: the
\* mask and the grammar control share one state, so a masked candidate is never
\* rejected by the grammar, whatever the other controls of the chain force.
BlockIsJustified ==
  status = "Blocked" /\ (masked \/ ~In("grammar"))
    => \E p \in Rejects : Occurs(Text, p)

\* Without forced tokens the shared GrammarState stays in step with the
\* streamed text, wherever the grammar control stands in the chain: between
\* tokens it has accepted exactly that text, so the mask and the control
\* judge the next token by what the reader has seen.
GrammarInStep ==
  In("grammar") /\ ~In("math") /\ status \in {"sample", "Length"}
    => grammar = Text /\ Prefixed(Text)

\* A first-in-chain math bypass streams its answer and nothing else: all of it
\* unless max_tokens cuts it short.
AnswerIsExact ==
  armed /\ chain[1] = "math" =>
    /\ \E a \in Answers : IsPrefix(tokens, a) /\ tokens \o queue = a
    /\ status = "EarlyExit" => queue = <<>>
    /\ status \notin {"Blocked", "Stop"}

\* Grammar-constrained output: a text that a lone grammar control ended cleanly
\* is a sentence of the grammar.
CleanExitIsSentence ==
  chain = <<"grammar">> /\ status = "EarlyExit" => Text \in Language
=============================================================================
