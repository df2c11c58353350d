---------------------------- MODULE MCForwardPass ----------------------------
(* Instances of ForwardPass for TLC. *)
EXTENDS ForwardPass

\* Every switch off, a model with QK norm, one tiled head in reach.
Plain == [stages |-> FALSE, trace |-> FALSE, dump |-> FALSE, sink |-> FALSE,
          inv |-> FALSE, qkNorm |-> TRUE, postNorm |-> FALSE,
          ffnNorm |-> Layers, head |-> "blob", window |-> HeadWorkgroups]

\* All diagnostics, with both kinds of models.
Diagnostics ==
  {[Plain EXCEPT !.stages = a, !.trace = b, !.dump = c, !.sink = d,
                 !.inv = e, !.qkNorm = f, !.postNorm = g, !.ffnNorm = h] :
     a, b, c, d, e, f, g \in BOOLEAN, h \in {Layers, {2}}}

\* The two kinds of heads, with windows that are too small, exact, larger.
Heads ==
  {[Plain EXCEPT !.head = h, !.window = w, !.trace = t] :
     h \in {"blob", "f32"}, w \in HeadWorkgroups - 1 .. HeadWorkgroups + 1,
     t \in BOOLEAN}

AllOptions == Diagnostics \cup Heads
OnlyPlain == {Plain}
WithDump == {[Plain EXCEPT !.dump = TRUE]}
WithStages == {[Plain EXCEPT !.stages = TRUE, !.ffnNorm = {2}]}

SomePrompts == {1, 2, 4, 6}
OneRow == {1}
ThreeRows == {3}
=============================================================================
