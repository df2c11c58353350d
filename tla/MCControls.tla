----------------------------- MODULE MCControls -----------------------------
(* Instances of Controls for TLC. *)
EXTENDS Controls, TLC

CONSTANTS a, b, ab, eos

\* Characters; no piece holds the third. Token ab is one piece of two.
MCChars == 1 .. 3
MCTokens == {a, b, ab}
MCPiece == a :> <<1>> @@ b :> <<2>> @@ ab :> <<1, 2>> @@ eos :> <<>>

\* Sentences that several tokenisations reach, and one that no token finishes.
MCLanguage == {<<1, 2, 2, 1>>, <<1, 1, 2>>, <<2, 3>>}

\* Patterns that cross tokens and overlap themselves and each other.
MCRejects == {<<1, 1, 2>>, <<2, 1, 2>>}

MCAnswers == {<<>>, <<a>>, <<b, ab>>}

\* Every order of every choice of controls.
MCChains ==
  {<<>>, <<"fse">>, <<"grammar">>, <<"math">>}
    \cup {<<x, y>> : x, y \in Control} \cup {<<x, y, z>> : x, y, z \in Control}

DistinctChains ==
  {c \in MCChains : \A i, j \in DOMAIN c : c[i] = c[j] => i = j}
=============================================================================
