------------------------- MODULE MCInferenceFabric -------------------------
(* Instances of InferenceFabric for TLC. *)
EXTENDS InferenceFabric, TLC

CONSTANTS a, eos, stop

MCVocab == {a, eos, stop}
\* eos is also in the extra list, as tokenizers often have it.
MCStops == {eos, stop}

\* No prompt, a repeated token, two tokens.
MCPrompts == {<<>>, <<a, a>>, <<a, stop>>}
OnePrompt == {<<a>>, <<a, stop>>}

\* Q4_K (slot 5), and a type no formula knows.
MCTensors == {[offset |-> 0, quant |-> 12], [offset |-> 7, quant |-> 99]}
OneTensor == {[offset |-> 0, quant |-> 12]}
=============================================================================
