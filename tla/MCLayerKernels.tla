--------------------------- MODULE MCLayerKernels ---------------------------
(* Layers with every relation between the widths of the queries and the    *)
(* residual stream, with and without gate, norms and experimental kernels. *)
EXTENDS LayerKernels

Base == [dim |-> 2, heads |-> 2, kvHeads |-> 1, headDim |-> 1, ffn |-> 2,
         gated |-> TRUE, postNorm |-> FALSE, qkNorm |-> FALSE, batch |-> 1,
         start |-> 0, q4kDown |-> FALSE, coop |-> {}, chunks |-> 2]

All == {"qkv", "attn_proj", "staged", "down"}

MCGeometries ==
  { Base,
    [Base EXCEPT !.batch = 2, !.start = 1, !.chunks = 8],
    [Base EXCEPT !.heads = 1, !.batch = 2, !.postNorm = TRUE],        \* narrow
    [Base EXCEPT !.headDim = 2, !.qkNorm = TRUE, !.start = 2],        \* wide
    [Base EXCEPT !.headDim = 2, !.qkNorm = TRUE, !.batch = 2, !.start = 1,
                 !.kvHeads = 2, !.coop = All, !.q4kDown = TRUE],
    [Base EXCEPT !.heads = 1, !.headDim = 2, !.coop = {"staged"}, !.batch = 2,
                 !.q4kDown = TRUE],
    [Base EXCEPT !.dim = 3, !.batch = 2, !.q4kDown = TRUE, !.coop = {"down"}],
    [Base EXCEPT !.gated = FALSE, !.ffn = 3, !.batch = 2, !.start = 1, !.coop = All],
    [Base EXCEPT !.headDim = 4, !.heads = 2, !.kvHeads = 2, !.coop = {"staged"}],
    [Base EXCEPT !.postNorm = TRUE, !.start = 1, !.chunks = 1] }
=============================================================================
