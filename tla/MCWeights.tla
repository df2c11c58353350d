------------------------------ MODULE MCWeights ------------------------------
(* Instances of Weights for TLC: the files are the corners of what GGUF    *)
(* writers produce, the adapters those of what drivers report.             *)
EXTENDS Weights

Uniform(f) == [ name \in Matrices \cup {"token_embd", "output"} |-> f ]

(* A llama of two layers, 32 wide: one block a row for the 32-formats.     *)
Base ==
  [arch |-> "llama", wide |-> {}, strays |-> {}, eps |-> 1, ropeBase |-> 10000,
   hidden |-> 32, heads |-> 2, kvHeads |-> 1, keyLength |-> 0, valueLength |-> 0,
   ropeDim |-> 0, ffn |-> 32, layers |-> 2, vocab |-> 24, tokens |-> 24, context |-> 8, requested |-> 0,
   format |-> Uniform("Q8_0"), tied |-> FALSE, ropeFreqs |-> FALSE, extra |-> <<>>,
   missing |-> {}, order |-> "layers", padding |-> 0, needs |-> {}]

Q80      == Base
Q40Tied  == [Base EXCEPT !.format = Uniform("Q4_0"), !.tied = TRUE, !.order = "embd_last",
                         !.ropeFreqs = TRUE]
(* Three blocks a row: every other row starts between two words.           *)
ThreeBlocks == [Base EXCEPT !.hidden = 96, !.heads = 3, !.kvHeads = 3, !.ffn = 64,
                            !.format = Uniform("Q8_0"), !.tied = TRUE, !.layers = 1]
(* Keys in another format than queries, values and the rest mixed too.     *)
Mixed ==
  [Base EXCEPT !.order = "classes",
     !.format = [Uniform("Q8_0") EXCEPT !["attn_k"] = "Q5_0", !["attn_v"] = "F16",
                   !["ffn_gate"] = "Q4_0", !["ffn_up"] = "F32", !["ffn_down"] = "Q5_0"]]
F16Model == [Base EXCEPT !.format = [Uniform("F16") EXCEPT !["output"] = "F32"], !.layers = 1]
F16Head  == [F16Model EXCEPT !.format = Uniform("F16")]
(* A qwen3 of one layer with K-quants: heads wider than hidden / heads.    *)
KQuants ==
  [Base EXCEPT !.arch = "qwen3", !.hidden = 256, !.heads = 4, !.kvHeads = 1,
     !.keyLength = 128, !.valueLength = 128, !.ffn = 256, !.layers = 1, !.vocab = 50, !.tokens = 50,
     !.context = 4,
     !.format = [Uniform("Q4_K") EXCEPT !["attn_v"] = "Q6_K", !["ffn_down"] = "Q6_K",
                   !["attn_output"] = "Q5_K", !["output"] = "Q6_K"]]
KQuants5 == [KQuants EXCEPT !.vocab = 10, !.tokens = 10,
               !.format = [Uniform("Q5_K") EXCEPT !["output"] = "Q4_K"]]

(* Every 32-format with every order of the tensors.                        *)
Orders == {"layers", "classes", "embd_last"}
Grid == { [m EXCEPT !.format = Uniform(f), !.order = o] :
            m \in {Q40Tied, ThreeBlocks}, f \in {"Q4_0", "Q5_0", "Q8_0"}, o \in Orders }

MCAdmitted == Grid \cup {Q80, Mixed, F16Model, F16Head, KQuants, KQuants5}

(* Files each check of the descriptor and of the loader is there for.      *)
MCRefused ==
  {[Q80 EXCEPT !.arch = "gpt2"], [Q80 EXCEPT !.needs = {"expert"}],
   [Q80 EXCEPT !.kvHeads = 3, !.heads = 4], [KQuants EXCEPT !.keyLength = 0],
   [Q80 EXCEPT !.heads = 5, !.kvHeads = 5], [Q80 EXCEPT !.valueLength = 8],
   [Q80 EXCEPT !.ropeDim = 10], [Q80 EXCEPT !.ropeDim = 20], [Q80 EXCEPT !.tokens = 20],
   [Q80 EXCEPT !.missing = {<<1, "attn_v">>}], [Q80 EXCEPT !.extra = << <<0, "attn_q.bias">> >>],
   [Q80 EXCEPT !.needs = {"scaling"}], [Q80 EXCEPT !.needs = {"softcap"}],
   [Q80 EXCEPT !.needs = {"kernel_flag"}], [Q80 EXCEPT !.needs = {"bad_special_token"}],
   [Q80 EXCEPT !.needs = {"bad_factor"}], [Q80 EXCEPT !.requested = 9],
   [Q80 EXCEPT !.context = 0], [Q80 EXCEPT !.padding = 6],
   [KQuants EXCEPT !.vocab = 6000, !.tokens = 6000]}

(* Metadata the specification reads otherwise than the descriptor: 64-bit  *)
(* integers (a required one, the KV heads of grouped and of other queries, *)
(* the key length, the context), keys under another prefix that agree or   *)
(* not, a second epsilon, no epsilon of an RMSNorm.                        *)
Wide(m, keys) == [m EXCEPT !.wide = keys]
Stray(m, key, v) == [m EXCEPT !.strays = {<<key, v>>}]
MCReadTwice ==
  { Wide(Q80, {"block_count"}), Wide(Q80, {"attention.head_count_kv"}),
    Wide([Q80 EXCEPT !.kvHeads = 2], {"attention.head_count_kv", "context_length"}),
    Wide(KQuants, {"attention.key_length"}),
    Wide([Q80 EXCEPT !.context = 2000000, !.requested = 1048576], {"context_length"}),
    Stray(Wide(Q80, {"block_count"}), "block_count", 2), Stray(Q80, "attention.head_count_kv", 0),
    Stray(Q80, "attention.head_count", 4),
    Stray([KQuants EXCEPT !.ropeDim = 128], "attention.head_count", 0),
    Stray(Q80, "context_length", 4096), Stray(Q80, "rope.freq_base", 500000),
    Stray(Q80, "rms_epsilon", 2),
    Stray(Q80, "layer_epsilon", 1), [Stray(Q80, "layer_epsilon", 1) EXCEPT !.eps = 0] }

MCFiles == MCAdmitted \cup MCRefused \cup MCReadTwice

Limits(binding, buffer, storage, invocations) ==
  [binding |-> binding, buffer |-> buffer, storage |-> storage, invocations |-> invocations]
Gpu(kind, l) == [kind |-> kind, limits |-> l]

Small  == Limits(1100, 8192, 16, 256)      \* four granules and a bit
Middle == Limits(3000, 8192, 14, 1024)
Large  == Limits(50000, 65536, 16, 512)
MCAdapters ==
  { <<>>,
    << Gpu("cpu", Large), Gpu("integrated", Small) >>,
    << Gpu("integrated", Large), Gpu("discrete", Middle) >>,
    << Gpu("cpu", Large) >>,
    << Gpu("discrete", Limits(7200, 65536, 16, 256)) >>,   \* eight chunks end inside a layer
    << Gpu("discrete", Limits(3000, 2048, 16, 256)) >>,
    << Gpu("discrete", Limits(40000, 65536, 8, 256)) >> }
=============================================================================
