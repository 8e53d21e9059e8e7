----------------------------- MODULE WeightLoading -----------------------------
(***************************************************************************)
(* The weights of one loaded model, from ModelManager._load to close():    *)
(* built with uninitialised memory, placed on a device, filled from the    *)
(* mapped GGUF file by the first forward, layer by layer, and given back.  *)
(* A first forward that is stopped leaves the model half filled, and the   *)
(* next one starts over.                                                   *)
(*                                                                         *)
(* A parameter is a pair of the GGUF tensor it holds and its part: for     *)
(* <<"attn_q", "bias">>, the tensor attn_q.bias.  (Where the file fuses q, *)
(* k and v, the parts cut from the fused tensor keep these three names.)   *)
(* Layer 0 is what lies outside the layers.  Shapes, numbers and the rows' *)
(* order are left out; a parameter's value says how it was filled.         *)
(***************************************************************************)
EXTENDS Naturals, Sequences, FiniteSets

CONSTANTS
  Models,     \* the models that may be loaded: architecture, layers, what the file holds, how
  MaxStops    \* bound: forwards stopped while they load

ASSUME StopsAssumption == MaxStops \in Nat

VARIABLES
  model,      \* the model being loaded
  phase,      \* "opened", "built", "placed", "ready"; "dropped" or "closed"
  at,         \* one past the layer the running load fills next; Idle when none runs
  value,      \* by layer and parameter
  mapping,    \* the file is mapped (GGUFMemoryMap)
  pending,    \* _pending_loader is set
  marked,     \* _quantized_loader is set
  stops,      \* loads stopped so far
  raised      \* a load ended in an error other than the stop

vars == <<model, phase, at, value, mapping, pending, marked, stops, raised>>
Idle == 0

W(S) == S \X {"weight"}
WB(S) == S \X {"weight", "bias"}
-----------------------------------------------------------------------------
(* What the constructors allocate: blocks shared by several architectures. *)

SwiGLUMLP == W({"ffn_gate", "ffn_up", "ffn_down"})
QuantizedMoEExperts == W({"ffn_gate_exps", "ffn_up_exps", "ffn_down_exps"})
GraniteMoeFFN == W({"ffn_gate_inp"}) \cup QuantizedMoEExperts
build_ffn(moe) == IF moe THEN GraniteMoeFFN ELSE SwiGLUMLP
GroupedQueryAttention == W({"attn_q", "attn_k", "attn_v", "attn_output"})
Mistral3DecoderLayer(mlp) == W({"attn_norm", "ffn_norm"}) \cup GroupedQueryAttention \cup mlp
GraniteAttention == W({"attn_q", "attn_k", "attn_v", "attn_output"})
GraniteDecoderLayer(mlp) == W({"attn_norm", "ffn_norm"}) \cup GraniteAttention \cup mlp
QwenAttention(qkv_bias, qk_norm, o_proj_bias) ==
       (IF qkv_bias THEN WB({"attn_q", "attn_k", "attn_v"}) ELSE W({"attn_q", "attn_k", "attn_v"}))
  \cup (IF o_proj_bias THEN WB({"attn_output"}) ELSE W({"attn_output"}))
  \cup (IF qk_norm THEN W({"attn_q_norm", "attn_k_norm"}) ELSE {})
QwenDecoderLayer(qkv_bias, qk_norm) ==
  W({"attn_norm", "ffn_norm"}) \cup QwenAttention(qkv_bias, qk_norm, FALSE) \cup SwiGLUMLP
Rope == {<<"rope", "inv_freq">>}

(* ... and those of one architecture. *)
Gemma4MLP == W({"ffn_gate", "ffn_up", "ffn_down"})
Gemma4Attention(has_own_kv, use_v_from_k) ==
  W({"attn_q", "attn_q_norm", "attn_output"}
      \cup (IF has_own_kv THEN {"attn_k", "attn_k_norm"} ELSE {})
      \cup (IF has_own_kv /\ ~use_v_from_k THEN {"attn_v"} ELSE {}))
Gemma4Router == W({"ffn_gate_inp"}) \cup {<<"ffn_gate_inp", "scale">>, <<"ffn_down_exps", "scale">>}
Gemma4MoEBlock ==
  Gemma4Router \cup QuantizedMoEExperts
  \cup W({"ffn_post_norm_1", "ffn_pre_norm_2", "ffn_post_norm_2"})
Gemma4PerLayerEmbedding == W({"per_layer_token_embd", "per_layer_model_proj", "per_layer_proj_norm"})
Gemma4DecoderLayer(has_own_kv, use_v_from_k, per_layer, moe) ==
       W({"attn_norm", "post_attention_norm", "ffn_norm", "post_ffw_norm", "layer_output_scale"})
  \cup Gemma4Attention(has_own_kv, use_v_from_k) \cup Gemma4MLP
  \cup (IF moe THEN Gemma4MoEBlock ELSE {})
  \cup (IF per_layer THEN W({"inp_gate", "proj", "post_norm"}) ELSE {})
Phi2Attention == WB({"attn_q", "attn_k", "attn_v", "attn_output"})
Phi2MLP == WB({"ffn_up", "ffn_down"})
Phi2DecoderLayer == WB({"attn_norm"}) \cup Phi2Attention \cup Phi2MLP
Starcoder2MLP == WB({"ffn_up", "ffn_down"})
Starcoder2DecoderLayer ==
  WB({"attn_norm", "ffn_norm"}) \cup QwenAttention(TRUE, FALSE, TRUE) \cup Starcoder2MLP
CommandRDecoderLayer == W({"attn_norm"}) \cup QwenAttention(FALSE, FALSE, FALSE) \cup SwiGLUMLP
FalconMLP == W({"ffn_up", "ffn_down"})
FalconDecoderLayer == WB({"attn_norm"}) \cup QwenAttention(FALSE, FALSE, FALSE) \cup FalconMLP
Qwen35Attention == W({"attn_q", "attn_k", "attn_v", "attn_output", "attn_q_norm", "attn_k_norm"})
Qwen35GatedDeltaNet ==
  W({"attn_qkv", "attn_gate", "ssm_beta", "ssm_alpha", "ssm_out", "ssm_conv1d", "ssm_a", "ssm_norm"})
  \cup {<<"ssm_dt", "bias">>}
Qwen35DecoderLayer(kind) ==
  W({"attn_norm", "post_attention_norm"}) \cup SwiGLUMLP
  \cup (IF kind = "attention" THEN Qwen35Attention ELSE Qwen35GatedDeltaNet)
NemotronHAttention == W({"attn_q", "attn_k", "attn_v", "attn_output"})
NemotronHMLP == W({"ffn_up", "ffn_down"})
NemotronHMamba2Mixer ==
  W({"ssm_in", "ssm_out", "ssm_conv1d", "ssm_a", "ssm_d", "ssm_norm"})
  \cup {<<"ssm_conv1d", "bias">>, <<"ssm_dt", "bias">>}
build_nemotron_h_layer(kind) ==
  W({"attn_norm"}) \cup CASE kind = "mamba" -> NemotronHMamba2Mixer
                          [] kind = "attention" -> NemotronHAttention
                          [] kind = "mlp" -> NemotronHMLP
NomicBertSelfAttention == W({"attn_qkv", "attn_output"})
NomicBertEncoderLayer ==
  NomicBertSelfAttention \cup WB({"attn_output_norm", "layer_output_norm"}) \cup SwiGLUMLP
BertSelfAttention == WB({"attn_q", "attn_k", "attn_v", "attn_output"})
BertFFN == WB({"ffn_up", "ffn_down"})
BertEncoderLayer == BertSelfAttention \cup BertFFN \cup WB({"attn_output_norm", "layer_output_norm"})
-----------------------------------------------------------------------------
(***************************************************************************)
(* Each architecture: what its __init__ allocates (from_gguf decides what  *)
(* the file adds) and what its _materialize_weights does with it, outside  *)
(* the layers ("top") and in a layer of some kind.                         *)
(***************************************************************************)
LmHead(m) == IF m.tied THEN {} ELSE {"output"}      \* lm_head, when the file holds one

(* How the weights of a layer arrive: copied, or handed to _load_projection *)
(* (with its bias, or reordered for the rope), _load_token_embedding or the *)
(* experts' loader; "scaled" are the buffers changed in place, "typed" the  *)
(* embeddings whose own weight is asked for its dtype first.                *)
NoLoad == [copied |-> {}, projected |-> {}, biased |-> {}, roped |-> {}, embedded |-> {},
           experts |-> {}, scaled |-> {}, typed |-> {}]
Experts == {"ffn_gate_exps", "ffn_up_exps", "ffn_down_exps"}
GatedFFN == {"ffn_gate", "ffn_up", "ffn_down"}
materialize_moe_ffn(l) == [l EXCEPT !.copied = @ \cup W({"ffn_gate_inp"}), !.experts = Experts]

(* What most decoders read outside their layers. *)
PlainTop(m) == [NoLoad EXCEPT !.copied = W({"token_embd", "output_norm"}), !.projected = LmHead(m)]

LlamaBuilt(m, kind) ==
  IF kind = "top" THEN W({"token_embd", "output_norm"} \cup LmHead(m)) \cup Rope
  ELSE Mistral3DecoderLayer(build_ffn(m.moe))
LlamaLoadsTyped(m, kind) ==                              (* Mutant of LlamaLoads *)
  IF kind = "top"
  THEN [NoLoad EXCEPT !.typed = {"token_embd"}, !.embedded = {"token_embd"},
                      !.copied = W({"output_norm"}), !.projected = LmHead(m)]
  ELSE [NoLoad EXCEPT !.copied = W({"attn_norm", "ffn_norm"}),
                      !.projected = {"attn_q", "attn_k", "attn_v", "attn_output"} \cup GatedFFN,
                      !.roped = {"attn_q", "attn_k"}]
LlamaLoads(m, kind) ==
  IF kind = "top"
  THEN [NoLoad EXCEPT !.embedded = {"token_embd"}, !.copied = W({"output_norm"}),
                      !.projected = LmHead(m)]
  ELSE LET l == [NoLoad EXCEPT !.copied = W({"attn_norm", "ffn_norm"}),
                               !.projected = {"attn_q", "attn_k", "attn_v", "attn_output"},
                               !.roped = {"attn_q", "attn_k"}]
       IN IF m.moe THEN materialize_moe_ffn(l) ELSE [l EXCEPT !.projected = @ \cup GatedFFN]

Mistral3Built(m, kind) ==
  IF kind = "top" THEN W({"token_embd", "output_norm"}) \cup Rope ELSE Mistral3DecoderLayer(SwiGLUMLP)
Mistral3Loads(m, kind) ==
  IF kind = "top"
  THEN [NoLoad EXCEPT !.typed = {"token_embd"}, !.embedded = {"token_embd"},
                      !.copied = W({"output_norm"})]
  ELSE [NoLoad EXCEPT !.copied = W({"attn_norm", "ffn_norm"}),
                      !.projected = {"attn_q", "attn_k", "attn_v", "attn_output"} \cup GatedFFN,
                      !.roped = {"attn_q", "attn_k"}]

(* A layer keeps its own keys and values ("own"), takes the values from the *)
(* keys ("own_no_v") or borrows both from an earlier layer ("shared").      *)
Gemma4Built(m, kind) ==
  IF kind = "top"
  THEN W({"token_embd", "output_norm"}) \cup {<<"rope_local", "inv_freq">>, <<"rope_global", "inv_freq">>}
       \cup (IF m.per_layer THEN Gemma4PerLayerEmbedding ELSE {})
  ELSE Gemma4DecoderLayer(kind # "shared", kind = "own_no_v", m.per_layer, m.moe)
materialize_moe(l) ==
  [l EXCEPT !.copied = @ \cup Gemma4Router
                         \cup W({"ffn_post_norm_1", "ffn_pre_norm_2", "ffn_post_norm_2"}),
            !.experts = Experts]
Gemma4Loads(m, kind) ==
  IF kind = "top"
  THEN [NoLoad EXCEPT
          !.embedded = {"token_embd"} \cup (IF m.per_layer THEN {"per_layer_token_embd"} ELSE {}),
          !.copied = W({"output_norm"} \cup
                       IF m.per_layer THEN {"per_layer_model_proj", "per_layer_proj_norm"} ELSE {}),
          !.scaled = IF m.rope_freqs THEN {<<"rope_global", "inv_freq">>} ELSE {}]
  ELSE LET own == IF kind # "shared" THEN {"attn_k"} ELSE {}
           l == [NoLoad EXCEPT
                   !.copied = W({"attn_norm", "attn_q_norm", "post_attention_norm", "ffn_norm",
                                 "post_ffw_norm", "layer_output_scale"}
                                 \cup (IF kind # "shared" THEN {"attn_k_norm"} ELSE {})
                                 \cup IF m.per_layer THEN {"inp_gate", "proj", "post_norm"} ELSE {}),
                   !.projected = {"attn_q", "attn_output"} \cup own \cup GatedFFN
                                 \cup IF kind = "own" THEN {"attn_v"} ELSE {}]
       IN IF m.moe THEN materialize_moe(l) ELSE l

Phi2Built(m, kind) ==
  IF kind = "top" THEN W({"token_embd"}) \cup WB({"output_norm", "output"}) \cup Rope
  ELSE Phi2DecoderLayer
Phi2Loads(m, kind) ==
  IF kind = "top"
  THEN [NoLoad EXCEPT !.copied = W({"token_embd"}) \cup WB({"output_norm"}),
                      !.projected = {"output"}, !.biased = {"output"}]
  ELSE [NoLoad EXCEPT !.copied = WB({"attn_norm", "attn_q", "attn_k", "attn_v"}),
                      !.projected = {"attn_output", "ffn_up", "ffn_down"},
                      !.biased = {"attn_output", "ffn_up", "ffn_down"}]

materialize_mamba_layer ==
  [NoLoad EXCEPT !.copied = W({"attn_norm", "ssm_conv1d", "ssm_a", "ssm_d", "ssm_norm"})
                            \cup {<<"ssm_conv1d", "bias">>, <<"ssm_dt", "bias">>},
                 !.projected = {"ssm_in", "ssm_out"}]
materialize_attention_layer ==
  [NoLoad EXCEPT !.copied = W({"attn_norm", "attn_q", "attn_k"}),
                 !.projected = {"attn_v", "attn_output"}]
materialize_mlp_layer ==
  [NoLoad EXCEPT !.copied = W({"attn_norm"}), !.projected = {"ffn_up", "ffn_down"}]
NemotronHBuilt(m, kind) ==
  IF kind = "top" THEN W({"token_embd", "output_norm"} \cup LmHead(m)) ELSE build_nemotron_h_layer(kind)
NemotronHLoads(m, kind) ==
  CASE kind = "top" -> PlainTop(m)
    [] kind = "mamba" -> materialize_mamba_layer
    [] kind = "attention" -> materialize_attention_layer
    [] kind = "mlp" -> materialize_mlp_layer

Starcoder2Built(m, kind) ==
  IF kind = "top" THEN W({"token_embd"} \cup LmHead(m)) \cup WB({"output_norm"}) \cup Rope
  ELSE Starcoder2DecoderLayer
Starcoder2LoadsUnbiased(m, kind) ==                      (* Mutant of Starcoder2Loads *)
  IF kind = "top" THEN [PlainTop(m) EXCEPT !.copied = @ \cup WB({"output_norm"})]
  ELSE [NoLoad EXCEPT !.copied = WB({"attn_norm", "ffn_norm", "attn_q", "attn_k"}),
                      !.projected = {"attn_v", "attn_output", "ffn_up", "ffn_down"},
                      !.biased = {"attn_output", "ffn_up", "ffn_down"}]
Starcoder2Loads(m, kind) ==
  IF kind = "top" THEN [PlainTop(m) EXCEPT !.copied = @ \cup WB({"output_norm"})]
  ELSE [NoLoad EXCEPT !.copied = WB({"attn_norm", "ffn_norm", "attn_q", "attn_k"}),
                      !.projected = {"attn_v", "attn_output", "ffn_up", "ffn_down"},
                      !.biased = {"attn_v", "attn_output", "ffn_up", "ffn_down"}]

GraniteBuilt(m, kind) ==
  IF kind = "top" THEN W({"token_embd", "output_norm"} \cup LmHead(m)) \cup Rope
  ELSE GraniteDecoderLayer(SwiGLUMLP)
GraniteLoads(m, kind) ==
  IF kind = "top" THEN PlainTop(m)
  ELSE [NoLoad EXCEPT !.copied = W({"attn_norm", "ffn_norm", "attn_q", "attn_k"}),
                      !.projected = {"attn_v", "attn_output"} \cup GatedFFN]

GraniteMoeBuilt(m, kind) ==
  IF kind = "top" THEN W({"token_embd", "output_norm"} \cup LmHead(m)) \cup Rope
  ELSE GraniteDecoderLayer(GraniteMoeFFN)
GraniteMoeLoads(m, kind) ==
  IF kind = "top" THEN PlainTop(m)
  ELSE [NoLoad EXCEPT !.copied = W({"attn_norm", "ffn_norm", "attn_q", "attn_k", "ffn_gate_inp"}),
                      !.projected = {"attn_v", "attn_output"}, !.experts = Experts]

(* A reranker's file has a scoring head (ScoreHead) in place of lm_head. *)
Qwen3Head(m) == IF m.scored THEN {"cls.output"} ELSE LmHead(m)
Qwen3Built(m, kind) ==
  IF kind = "top" THEN W({"token_embd", "output_norm"} \cup Qwen3Head(m)) \cup Rope
  ELSE QwenDecoderLayer(FALSE, TRUE)
Qwen3Loads(m, kind) ==
  IF kind = "top" THEN [PlainTop(m) EXCEPT !.projected = Qwen3Head(m)]
  ELSE [NoLoad EXCEPT !.copied = W({"attn_norm", "ffn_norm", "attn_q", "attn_k",
                                    "attn_q_norm", "attn_k_norm"}),
                      !.projected = {"attn_v", "attn_output"} \cup GatedFFN]

(* The bias of v is copied into the layer that _load_projection replaces. *)
Qwen2Built(m, kind) ==
  IF kind = "top" THEN W({"token_embd", "output_norm"} \cup LmHead(m)) \cup Rope
  ELSE QwenDecoderLayer(TRUE, FALSE)
Qwen2Loads(m, kind) ==
  IF kind = "top" THEN PlainTop(m)
  ELSE [NoLoad EXCEPT !.copied = W({"attn_norm", "ffn_norm"}) \cup WB({"attn_q", "attn_k"})
                                 \cup {<<"attn_v", "bias">>},
                      !.projected = {"attn_v", "attn_output"} \cup GatedFFN]

CommandRBuilt(m, kind) ==
  IF kind = "top" THEN W({"token_embd", "output_norm"} \cup LmHead(m)) \cup Rope ELSE CommandRDecoderLayer
CommandRLoads(m, kind) ==
  IF kind = "top" THEN PlainTop(m)
  ELSE [NoLoad EXCEPT !.copied = W({"attn_norm", "attn_q", "attn_k"}),
                      !.projected = {"attn_v", "attn_output"} \cup GatedFFN]

FalconBuilt(m, kind) ==
  IF kind = "top" THEN W({"token_embd"} \cup LmHead(m)) \cup WB({"output_norm"}) \cup Rope
  ELSE FalconDecoderLayer
FalconLoads(m, kind) ==
  IF kind = "top" THEN [PlainTop(m) EXCEPT !.copied = @ \cup WB({"output_norm"})]
  ELSE [NoLoad EXCEPT !.copied = WB({"attn_norm"}) \cup W({"attn_q", "attn_k", "attn_v"}),
                      !.projected = {"attn_output", "ffn_up", "ffn_down"}]

Qwen35Built(m, kind) ==
  IF kind = "top" THEN W({"token_embd", "output_norm"} \cup LmHead(m)) \cup Rope
  ELSE Qwen35DecoderLayer(kind)
materialize_decoder_layer(kind) ==
  LET norms == {"attn_norm", "post_attention_norm"}
  IN IF kind = "attention"
     THEN [NoLoad EXCEPT !.copied = W(norms \cup {"attn_q_norm", "attn_k_norm"}),
                         !.projected = {"attn_q", "attn_k", "attn_v", "attn_output"} \cup GatedFFN]
     ELSE [NoLoad EXCEPT !.copied = W(norms \cup {"ssm_conv1d", "ssm_a", "ssm_norm"})
                                    \cup {<<"ssm_dt", "bias">>},
                         !.projected = {"attn_qkv", "attn_gate", "ssm_beta", "ssm_alpha", "ssm_out"}
                                       \cup GatedFFN]
Qwen35Loads(m, kind) == IF kind = "top" THEN PlainTop(m) ELSE materialize_decoder_layer(kind)

NomicBertBuilt(m, kind) ==
  IF kind = "top" THEN W({"token_embd", "token_types"}) \cup WB({"token_embd_norm"}) \cup Rope
  ELSE NomicBertEncoderLayer
NomicBertLoads(m, kind) ==
  [NoLoad EXCEPT !.copied =
     IF kind = "top" THEN W({"token_embd", "token_types"}) \cup WB({"token_embd_norm"})
     ELSE W({"attn_qkv", "attn_output"} \cup GatedFFN)
          \cup WB({"attn_output_norm", "layer_output_norm"})]

BertBuilt(m, kind) ==
  IF kind = "top"
  THEN W({"token_embd", "position_embd", "token_types"}) \cup WB({"token_embd_norm"})
  ELSE BertEncoderLayer
BertLoads(m, kind) ==
  [NoLoad EXCEPT !.copied =
     IF kind = "top"
     THEN W({"token_embd", "position_embd", "token_types"}) \cup WB({"token_embd_norm"})
     ELSE WB({"attn_q", "attn_k", "attn_v", "attn_output", "attn_output_norm", "ffn_up", "ffn_down",
              "layer_output_norm"})]
-----------------------------------------------------------------------------
Built(m, kind) ==
  CASE m.arch = "llama" -> LlamaBuilt(m, kind)
    [] m.arch = "mistral3" -> Mistral3Built(m, kind)
    [] m.arch = "gemma4" -> Gemma4Built(m, kind)
    [] m.arch = "phi2" -> Phi2Built(m, kind)
    [] m.arch = "nemotron_h" -> NemotronHBuilt(m, kind)
    [] m.arch = "starcoder2" -> Starcoder2Built(m, kind)
    [] m.arch = "granite" -> GraniteBuilt(m, kind)
    [] m.arch = "granitemoe" -> GraniteMoeBuilt(m, kind)
    [] m.arch = "qwen3" -> Qwen3Built(m, kind)
    [] m.arch = "qwen2" -> Qwen2Built(m, kind)
    [] m.arch = "command-r" -> CommandRBuilt(m, kind)
    [] m.arch = "falcon" -> FalconBuilt(m, kind)
    [] m.arch = "qwen35" -> Qwen35Built(m, kind)
    [] m.arch = "nomic-bert" -> NomicBertBuilt(m, kind)
    [] m.arch = "bert" -> BertBuilt(m, kind)
Loads(m, kind) ==
  CASE m.arch = "llama" -> LlamaLoads(m, kind)
    [] m.arch = "mistral3" -> Mistral3Loads(m, kind)
    [] m.arch = "gemma4" -> Gemma4Loads(m, kind)
    [] m.arch = "phi2" -> Phi2Loads(m, kind)
    [] m.arch = "nemotron_h" -> NemotronHLoads(m, kind)
    [] m.arch = "starcoder2" -> Starcoder2Loads(m, kind)
    [] m.arch = "granite" -> GraniteLoads(m, kind)
    [] m.arch = "granitemoe" -> GraniteMoeLoads(m, kind)
    [] m.arch = "qwen3" -> Qwen3Loads(m, kind)
    [] m.arch = "qwen2" -> Qwen2Loads(m, kind)
    [] m.arch = "command-r" -> CommandRLoads(m, kind)
    [] m.arch = "falcon" -> FalconLoads(m, kind)
    [] m.arch = "qwen35" -> Qwen35Loads(m, kind)
    [] m.arch = "nomic-bert" -> NomicBertLoads(m, kind)
    [] m.arch = "bert" -> BertLoads(m, kind)

KindOf(m, i) == IF i = 0 THEN "top" ELSE m.kinds[i]
Params(m) == UNION {{i} \X Built(m, KindOf(m, i)) : i \in 0..Len(m.kinds)}

(* Weights may stay packed for these architectures only, on either device. *)
QUANTIZED_NATIVE_WIRED_ARCHITECTURES ==
  {"mistral3", "llama", "gemma4", "phi2", "granite", "granitemoe", "qwen2", "qwen3", "qwen35",
   "command-r", "starcoder2", "nemotron_h"}
Modes(arch) ==
  {"cpu", "gpu"} \cup IF arch \in QUANTIZED_NATIVE_WIRED_ARCHITECTURES THEN {"cpu packed", "gpu packed"}
                      ELSE {}
Architectures == QUANTIZED_NATIVE_WIRED_ARCHITECTURES \cup {"falcon", "nomic-bert", "bert"}
LayerKinds(arch) ==
  CASE arch = "gemma4" -> {"own", "own_no_v", "shared"}
    [] arch = "nemotron_h" -> {"mamba", "attention", "mlp"}
    [] arch = "qwen35" -> {"mamba", "attention"}
    [] OTHER -> {"attention"}
ASSUME ModelsAssumption ==
  \A m \in Models : /\ m.arch \in Architectures
                    /\ m.mode \in Modes(m.arch)
                    /\ m.kinds \in Seq(LayerKinds(m.arch))
OnGpu(m) == m.mode \in {"gpu", "gpu packed"}

(* A tensor stays packed if its quantization has a kernel where it is used. *)
Packs(m, t) == m.mode \in {"cpu packed", "gpu packed"} /\ t \notin m.unpackable
Packed(m, roped) ==
  CASE m.mode = "gpu packed" -> "moved"     \* DevicePackedLinear: a copy on the device
    [] m.mode = "cpu packed" /\ roped -> "rows"   \* QuantizedLinear: reordered rows, a copy
    [] m.mode = "cpu packed" /\ ~roped -> "view"  \* QuantizedLinear: the mapped bytes themselves

(* What parameter p of a layer read as l holds after it, having held old. *)
Loaded(m, l, p, old) ==
  LET t == p[1]
      handed == t \in l.projected \cup l.embedded \cup l.experts
      replaced == handed /\ Packs(m, t)
  IN IF replaced /\ p[2] = "weight" THEN Packed(m, t \in l.roped)
     ELSE IF replaced /\ t \in l.projected /\ p[2] = "bias" /\ t \notin l.biased THEN "dropped"
     ELSE IF p \in l.scaled THEN (IF old = "derived" THEN "scaled" ELSE "rescaled")
     ELSE IF p \in l.copied \/ (p[2] = "bias" /\ t \in l.biased) \/ (p[2] = "weight" /\ handed)
          THEN "loaded"
     ELSE old
Fill(m, i, v) ==
  LET l == Loads(m, KindOf(m, i))
  IN [q \in DOMAIN v |-> IF q[1] = i THEN Loaded(m, l, q[2], v[q]) ELSE v[q]]
Marks(m, v) == \E q \in DOMAIN v : v[q] \in {"view", "rows"}

(* What filling layer i stumbles over: the dtype of an embedding that is    *)
(* packed by now, a bias its layer has lost, factors that are on the CPU    *)
(* beside a buffer that is on the GPU.                                      *)
Stumbles(m, i) ==
  LET l == Loads(m, KindOf(m, i))
  IN \/ \E t \in l.typed : value[<<i, <<t, "weight">>>>] \in {"view", "rows", "moved"}
     \/ \E p \in l.copied : value[<<i, p>>] = "dropped"
     \/ l.scaled # {} /\ OnGpu(m)

rebuild_derived_buffers(v) ==
  [q \in DOMAIN v |-> IF q[2][2] = "inv_freq" THEN "derived" ELSE v[q]]
-----------------------------------------------------------------------------
Init ==
  /\ model \in Models
  /\ phase = "opened"
  /\ at = Idle
  /\ value = [q \in Params(model) |-> "unset"]
  /\ mapping = TRUE
  /\ pending = FALSE
  /\ marked = FALSE
  /\ stops = 0
  /\ raised = FALSE

(* from_gguf: built on "meta", given memory nobody wrote to. *)
FromGguf ==
  /\ phase = "opened"
  /\ phase' = "built"
  /\ value' = rebuild_derived_buffers(value)
  /\ pending' = TRUE
  /\ UNCHANGED <<model, at, mapping, marked, stops, raised>>

(* _load: the model, its tokenizer or its prompt builder cannot be built. *)
BuildFails ==
  /\ phase \in {"opened", "built"}
  /\ phase' = "dropped"
  /\ mapping' = FALSE
  /\ pending' = FALSE
  /\ UNCHANGED <<model, at, value, marked, stops, raised>>

(* place_on: memory of the device's instead, for the placeholders of the    *)
(* matrices too, which line 55 moves there after all.  So settle_on_device  *)
(* finds nothing left to move.                                              *)
PlaceOn ==
  /\ phase = "built"
  /\ phase' = "placed"
  /\ value' = IF OnGpu(model) THEN rebuild_derived_buffers([q \in DOMAIN value |-> "unset"])
              ELSE value
  /\ UNCHANGED <<model, at, mapping, pending, marked, stops, raised>>

(* _ensure_materialized: a forward takes the lock. *)
StartLoad ==
  /\ phase = "placed"
  /\ at = Idle
  /\ at' = 1
  /\ UNCHANGED <<model, phase, value, mapping, pending, marked, stops, raised>>

(* _materialize_weights: what lies outside the layers, then a layer at a    *)
(* time.  After a layer the request may turn out to be stopped; the encoder *)
(* models' forwards are called without a way to stop them.                  *)
Stoppable(m) == m.arch \notin {"bert", "nomic-bert"}
LoadPart(i) ==
  /\ at = i + 1
  /\ ~Stumbles(model, i)
  /\ value' = Fill(model, i, value)
  /\ marked' = (marked \/ Marks(model, value'))
  /\ \/ /\ at' = i + 2
        /\ UNCHANGED stops
     \/ /\ i > 0
        /\ Stoppable(model)
        /\ stops < MaxStops
        /\ stops' = stops + 1
        /\ at' = Idle
  /\ UNCHANGED <<model, phase, mapping, pending, raised>>

(* The error ends the load like a stop does.  (What the part had filled by  *)
(* then, the next load fills again.)                                        *)
LoadRaises(i) ==
  /\ at = i + 1
  /\ Stumbles(model, i)
  /\ at' = Idle
  /\ raised' = TRUE
  /\ UNCHANGED <<model, phase, value, mapping, pending, marked, stops>>

(* _ensure_materialized, after _materialize_weights. *)
Finish ==
  /\ at = Len(model.kinds) + 2
  /\ at' = Idle
  /\ phase' = "ready"
  /\ mapping' = marked
  /\ pending' = FALSE
  /\ UNCHANGED <<model, value, marked, stops, raised>>

(* close: on unload, or when place_on failed; takes the lock too. *)
CloseUnreleased ==                                       (* Mutant of Close *)
  /\ phase \in {"built", "placed", "ready"}
  /\ at = Idle
  /\ phase' = "closed"
  /\ pending' = FALSE
  /\ marked' = FALSE
  /\ mapping' = (mapping /\ ~(pending \/ marked))
  /\ UNCHANGED <<model, at, value, stops, raised>>
Close ==
  /\ phase \in {"built", "placed", "ready"}
  /\ at = Idle
  /\ phase' = "closed"
  /\ pending' = FALSE
  /\ marked' = FALSE
  /\ IF pending \/ marked
     THEN /\ value' = [q \in DOMAIN value |->
                         IF value[q] \in {"view", "rows"} THEN "released" ELSE value[q]]
          /\ mapping' = FALSE
     ELSE UNCHANGED <<value, mapping>>
  /\ UNCHANGED <<model, at, stops, raised>>

Next ==
  \/ FromGguf \/ BuildFails \/ PlaceOn \/ StartLoad \/ Finish \/ Close
  \/ \E i \in 0..Len(model.kinds) : LoadPart(i) \/ LoadRaises(i)

Spec == Init /\ [][Next]_vars
-----------------------------------------------------------------------------
(* The memory guard's list of what is loaded packed, kept by hand: suffixes *)
(* of tensor names.                                                         *)
Common == {"attn_v", "attn_output"} \cup GatedFFN
PackedQKAndEmbedding == {"attn_q", "attn_k", "token_embd"}
SuffixesAlsoQK(arch) ==                                  (* Mutant of Suffixes *)
  Common \cup PackedQKAndEmbedding \cup Experts \cup {"output"}
Suffixes(arch) ==
  CASE arch = "mistral3" -> Common \cup PackedQKAndEmbedding
    [] arch = "llama" -> Common \cup PackedQKAndEmbedding \cup Experts \cup {"output"}
    [] arch = "gemma4" -> Common \cup PackedQKAndEmbedding \cup Experts \cup {"per_layer_token_embd"}
    [] arch = "phi2" -> {"attn_output", "ffn_up", "ffn_down", "output"}
    [] arch \in {"granite", "qwen2", "qwen3", "command-r"} -> Common \cup {"output"}
    [] arch = "qwen35" -> Common \cup {"attn_q", "attn_k", "attn_qkv", "attn_gate", "ssm_out",
                                       "ssm_alpha", "ssm_beta", "output"}
    [] arch = "starcoder2" -> {"attn_v", "attn_output", "ffn_up", "ffn_down", "output"}
    [] arch = "nemotron_h" -> {"attn_v", "attn_output", "ffn_up", "ffn_down", "output",
                               "ssm_in", "ssm_out"}
    [] arch = "granitemoe" -> {"attn_v", "attn_output", "output"} \cup Experts
    [] OTHER -> {}
EndsWith(t, s) ==
  t = s \/ <<t, s>> \in {<<"attn_output", "output">>, <<"cls.output", "output">>,
                         <<"per_layer_token_embd", "token_embd">>}
CountedPacked(m, t) == Packs(m, t) /\ \E s \in Suffixes(m.arch) : EndsWith(t, s)
-----------------------------------------------------------------------------
Kept == {"view", "rows", "moved"}      \* packed

(***************************************************************************)
(* Once a forward may compute, every parameter the constructors allocated  *)
(* holds what the file, or the rope's formula, says: no architecture's     *)
(* loader leaves one out, and a packed load loses none on the way.  Two    *)
(* are wrong in the code and left out here: qwen2's bias of a packed v is  *)
(* lost, and gemma4's global rope is divided again by a load that follows  *)
(* a stopped one.                                                          *)
(***************************************************************************)
LostBias(m, q) == m.arch = "qwen2" /\ q[2] = <<"attn_v", "bias">> /\ Packs(m, "attn_v")
WeightsAreTheFiles ==
  phase = "ready" =>
    \A q \in DOMAIN value :
      LET p == q[2]
      IN /\ p[2] # "inv_freq" => LostBias(model, q) \/ value[q] \in Kept \cup {"loaded"}
         /\ p[2] = "inv_freq" /\ p[1] # "rope_global" => value[q] = "derived"
         /\ p = <<"rope_global", "inv_freq">> =>
              stops > 0 \/ value[q] = IF model.rope_freqs THEN "scaled" ELSE "derived"

(***************************************************************************)
(* The memory guard counts a tensor at its packed size exactly if the      *)
(* model keeps it packed, whichever tensors have no kernel: the hand-made  *)
(* lists follow the loaders (load_dtype.py).                               *)
(***************************************************************************)
EstimateMatchesLoad ==
  phase = "ready" =>
    \A q \in DOMAIN value :
      q[2][2] = "weight" => (value[q] \in Kept <=> CountedPacked(model, q[2][1]))

(***************************************************************************)
(* The file stays mapped while a load is still to come or a module looks   *)
(* into it, and no longer: not beyond a failed build, an unload, or a load *)
(* that kept nothing packed.                                               *)
(***************************************************************************)
MappedWhileNeeded ==
  LET needed == pending \/ \E q \in DOMAIN value : value[q] = "view"
  IN /\ needed => mapping
     /\ phase \in {"dropped", "closed"} => ~mapping
     /\ mapping /\ phase = "ready" => Marks(model, value)

(***************************************************************************)
(* _ensure_materialized promises that the load after a stopped one is the  *)
(* same as any other, "wasting progress, never crashing".  The models it   *)
(* fails for are exactly these: a mistral3 whose embedding is packed, a    *)
(* qwen2 whose v is, and a gemma4 whose file has rope factors.             *)
(***************************************************************************)
Mishandled(m) ==
  \/ m.arch = "mistral3" /\ Packs(m, "token_embd")
  \/ m.arch = "qwen2" /\ Packs(m, "attn_v")
  \/ m.arch = "gemma4" /\ m.rope_freqs
OneLoad(m, q) ==
  Loaded(m, Loads(m, KindOf(m, q[1])), q[2], IF q[2][2] = "inv_freq" THEN "derived" ELSE "unset")
StoppedLoadLeavesNoTrace ==
  ~Mishandled(model) =>
    /\ ~raised
    /\ phase = "ready" => \A q \in DOMAIN value : value[q] = OneLoad(model, q)
=============================================================================
