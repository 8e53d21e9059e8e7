---------------------------- MODULE MCWeightLoading ----------------------------
(***************************************************************************)
(* PackedReads for TLC: every architecture in every mode, two or three     *)
(* layers, with each choice of what its file may lack or add, and one      *)
(* tensor without a kernel.                                                *)
(***************************************************************************)
EXTENDS PackedReads

Plain == [tied |-> FALSE, moe |-> FALSE, scored |-> FALSE, per_layer |-> FALSE, rope_freqs |-> FALSE,
          kinds |-> <<"attention", "attention">>]
Tied(files) == files \cup {[f EXCEPT !.tied = TRUE] : f \in files}
Moe(files) == files \cup {[f EXCEPT !.moe = TRUE] : f \in files}
Layers(ks) == {[Plain EXCEPT !.kinds = ks]}

Files(arch) ==
  CASE arch = "llama" -> Tied(Moe({Plain}))
    [] arch = "gemma4" ->
         Moe({[Plain EXCEPT !.per_layer = p, !.rope_freqs = f, !.kinds = <<"own", "own_no_v", "shared">>]
                : p, f \in BOOLEAN})
    [] arch = "nemotron_h" -> Tied(Layers(<<"mamba", "mlp", "attention">>))
    [] arch = "qwen35" -> Tied(Layers(<<"mamba", "attention">>))
    [] arch = "qwen3" -> Tied({Plain, [Plain EXCEPT !.scored = TRUE]})
    [] arch \in {"starcoder2", "granite", "granitemoe", "qwen2", "command-r", "falcon"} -> Tied({Plain})
    [] OTHER -> {Plain}

ModelOf(arch, mode, file, unpackable) ==
  [arch |-> arch, mode |-> mode, unpackable |-> unpackable, tied |-> file.tied, moe |-> file.moe,
   scored |-> file.scored, per_layer |-> file.per_layer, rope_freqs |-> file.rope_freqs,
   kinds |-> file.kinds]
Unpackable(mode) ==
  IF mode \in {"cpu", "gpu"} THEN {{}}
  ELSE {{}, {"attn_v"}, {"token_embd"}, {"ffn_down", "attn_output"}, {"ffn_down_exps", "output"}}
MCModels ==
  UNION {{ModelOf(arch, mode, file, unpackable) : file \in Files(arch), unpackable \in Unpackable(mode)} :
           arch \in Architectures, mode \in {"cpu", "gpu"}}
  \cup
  UNION {{ModelOf(arch, mode, file, unpackable) : file \in Files(arch), unpackable \in Unpackable(mode)} :
           arch \in QUANTIZED_NATIVE_WIRED_ARCHITECTURES, mode \in {"cpu packed", "gpu packed"}}
=============================================================================
