----------------------------- MODULE Generation -----------------------------
(***************************************************************************)
(* What one generate call promises, without facts, rules or hooks: the     *)
(* prompt is computed once, then positions are computed one after another; *)
(* every computed position is followed by one streamed token or by the end *)
(* of the call, and after the end nothing is computed or streamed.         *)
(***************************************************************************)
EXTENDS Naturals, Sequences

CONSTANTS Tokens  \* what may be streamed: stop tokens are not

VARIABLES prompt,    \* positions the prompt takes
          limit,     \* tokens the caller allows
          positions, \* positions computed so far
          text,      \* tokens streamed so far
          ended      \* the call will produce nothing more

vars == <<prompt, limit, positions, text, ended>>

Init ==
  /\ prompt \in Nat
  /\ limit \in Nat
  /\ positions = 0
  /\ text = <<>>
  /\ ended = FALSE

\* The answer to the newest position: one more token, or the end.
Answer ==
  \/ /\ \E t \in Tokens : text' = Append(text, t)
     /\ UNCHANGED ended
  \/ /\ ended' = TRUE
     /\ UNCHANGED text

Prefill ==
  /\ ~ended
  /\ positions = 0
  /\ positions' = prompt
  /\ UNCHANGED <<prompt, limit, text, ended>>

\* The first answer, from the logits of the prompt's last position.
First ==
  /\ ~ended
  /\ positions = prompt
  /\ text = <<>>
  /\ Answer
  /\ UNCHANGED <<prompt, limit, positions>>

Step ==
  /\ ~ended
  /\ Len(text) \in 1 .. limit - 1
  /\ positions = prompt + Len(text) - 1
  /\ positions' = positions + 1
  /\ Answer
  /\ UNCHANGED <<prompt, limit>>

Limit ==
  /\ ~ended
  /\ text # <<>>
  /\ Len(text) >= limit
  /\ ended' = TRUE
  /\ UNCHANGED <<prompt, limit, positions, text>>

Next == Prefill \/ First \/ Step \/ Limit

Spec == Init /\ [][Next]_vars
=============================================================================
