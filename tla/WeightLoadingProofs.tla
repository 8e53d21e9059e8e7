-------------------------- MODULE WeightLoadingProofs --------------------------
(***************************************************************************)
(* Proofs about WeightLoading, for every number and kind of layers, every  *)
(* choice of what a file holds and of which tensors have no kernel.        *)
(***************************************************************************)
EXTENDS WeightLoadingInv, TLAPS

(***************************************************************************)
(* Each architecture's loader keeps its contract with its constructor.     *)
(***************************************************************************)
USE DEF W, WB, NoLoad, Experts, GatedFFN, LmHead, Quantizable, Suffixes, EndsWith, Common,
        PackedQKAndEmbedding

LEMMA LlamaOK ==
  ASSUME NEW m, m.arch = "llama", NEW kind \in {"top"} \cup LayerKinds(m.arch)
  PROVE  LoaderOK(m, kind)
<1>1. Built(m, kind) = LlamaBuilt(m, kind) /\ Loads(m, kind) = LlamaLoads(m, kind)
  BY DEF Built, Loads
<1> USE DEF LlamaBuilt, LlamaLoads,
            Mistral3DecoderLayer, GroupedQueryAttention, build_ffn, GraniteMoeFFN,
            QuantizedMoEExperts, SwiGLUMLP, Rope, materialize_moe_ffn
<1>2. NamesOK(m, kind)
  <2>1. \A p \in Built(m, kind) : p = <<p[1], p[2]>>
    BY <1>1
  <2>2. Loads(m, kind).copied \subseteq Built(m, kind)
    BY <1>1
  <2>3. \A t \in Loads(m, kind).typed : m.arch = "mistral3" /\ t = "token_embd"
                                        /\ <<t, "weight">> \in Built(m, kind)
    BY <1>1
  <2> QED BY <2>1, <2>2, <2>3 DEF NamesOK
<1>3. Complete(m, kind)
  BY <1>1 DEF Complete
<1>4. KeepsBiases(m, kind)
  BY <1>1 DEF KeepsBiases
<1>5. RopeOK(m, kind)
  BY <1>1 DEF RopeOK
<1>6. Listed(m, kind)
  BY <1>1 DEF Listed
<1> QED BY <1>2, <1>3, <1>4, <1>5, <1>6 DEF LoaderOK

LEMMA Mistral3OK ==
  ASSUME NEW m, m.arch = "mistral3", NEW kind \in {"top"} \cup LayerKinds(m.arch)
  PROVE  LoaderOK(m, kind)
<1>1. Built(m, kind) = Mistral3Built(m, kind) /\ Loads(m, kind) = Mistral3Loads(m, kind)
  BY DEF Built, Loads
<1> USE DEF Mistral3Built, Mistral3Loads,
            Mistral3DecoderLayer, GroupedQueryAttention, SwiGLUMLP, Rope
<1>2. NamesOK(m, kind)
  <2>1. \A p \in Built(m, kind) : p = <<p[1], p[2]>>
    BY <1>1
  <2>2. Loads(m, kind).copied \subseteq Built(m, kind)
    BY <1>1
  <2>3. \A t \in Loads(m, kind).typed : m.arch = "mistral3" /\ t = "token_embd"
                                        /\ <<t, "weight">> \in Built(m, kind)
    BY <1>1
  <2> QED BY <2>1, <2>2, <2>3 DEF NamesOK
<1>3. Complete(m, kind)
  BY <1>1 DEF Complete
<1>4. KeepsBiases(m, kind)
  BY <1>1 DEF KeepsBiases
<1>5. RopeOK(m, kind)
  BY <1>1 DEF RopeOK
<1>6. Listed(m, kind)
  BY <1>1 DEF Listed
<1> QED BY <1>2, <1>3, <1>4, <1>5, <1>6 DEF LoaderOK

LEMMA Gemma4OK ==
  ASSUME NEW m, m.arch = "gemma4", NEW kind \in {"top"} \cup LayerKinds(m.arch)
  PROVE  LoaderOK(m, kind)
<1>1. Built(m, kind) = Gemma4Built(m, kind) /\ Loads(m, kind) = Gemma4Loads(m, kind)
  BY DEF Built, Loads
<1> USE DEF Gemma4Built, Gemma4Loads,
            Gemma4DecoderLayer, Gemma4Attention, Gemma4MLP, Gemma4MoEBlock, Gemma4Router,
            QuantizedMoEExperts, Gemma4PerLayerEmbedding, materialize_moe, LayerKinds
<1>2. NamesOK(m, kind)
  <2>1. \A p \in Built(m, kind) : p = <<p[1], p[2]>>
    BY <1>1
  <2>2. Loads(m, kind).copied \subseteq Built(m, kind)
    BY <1>1
  <2>3. \A t \in Loads(m, kind).typed : m.arch = "mistral3" /\ t = "token_embd"
                                        /\ <<t, "weight">> \in Built(m, kind)
    BY <1>1
  <2> QED BY <2>1, <2>2, <2>3 DEF NamesOK
<1>3. Complete(m, kind)
  BY <1>1 DEF Complete
<1>4. KeepsBiases(m, kind)
  BY <1>1 DEF KeepsBiases
<1>5. RopeOK(m, kind)
  BY <1>1 DEF RopeOK
<1>6. Listed(m, kind)
  BY <1>1 DEF Listed
<1> QED BY <1>2, <1>3, <1>4, <1>5, <1>6 DEF LoaderOK

LEMMA Phi2OK ==
  ASSUME NEW m, m.arch = "phi2", NEW kind \in {"top"} \cup LayerKinds(m.arch)
  PROVE  LoaderOK(m, kind)
<1>1. Built(m, kind) = Phi2Built(m, kind) /\ Loads(m, kind) = Phi2Loads(m, kind)
  BY DEF Built, Loads
<1> USE DEF Phi2Built, Phi2Loads,
            Phi2DecoderLayer, Phi2Attention, Phi2MLP, Rope
<1>2. NamesOK(m, kind)
  <2>1. \A p \in Built(m, kind) : p = <<p[1], p[2]>>
    BY <1>1
  <2>2. Loads(m, kind).copied \subseteq Built(m, kind)
    BY <1>1
  <2>3. \A t \in Loads(m, kind).typed : m.arch = "mistral3" /\ t = "token_embd"
                                        /\ <<t, "weight">> \in Built(m, kind)
    BY <1>1
  <2> QED BY <2>1, <2>2, <2>3 DEF NamesOK
<1>3. Complete(m, kind)
  BY <1>1 DEF Complete
<1>4. KeepsBiases(m, kind)
  BY <1>1 DEF KeepsBiases
<1>5. RopeOK(m, kind)
  BY <1>1 DEF RopeOK
<1>6. Listed(m, kind)
  BY <1>1 DEF Listed
<1> QED BY <1>2, <1>3, <1>4, <1>5, <1>6 DEF LoaderOK

LEMMA NemotronHOK ==
  ASSUME NEW m, m.arch = "nemotron_h", NEW kind \in {"top"} \cup LayerKinds(m.arch)
  PROVE  LoaderOK(m, kind)
<1>1. Built(m, kind) = NemotronHBuilt(m, kind) /\ Loads(m, kind) = NemotronHLoads(m, kind)
  BY DEF Built, Loads
<1> USE DEF NemotronHBuilt, NemotronHLoads,
            build_nemotron_h_layer, NemotronHAttention, NemotronHMLP, NemotronHMamba2Mixer,
            materialize_mamba_layer, materialize_attention_layer, materialize_mlp_layer, PlainTop,
            LayerKinds
<1>2. NamesOK(m, kind)
  <2>1. \A p \in Built(m, kind) : p = <<p[1], p[2]>>
    BY <1>1
  <2>2. Loads(m, kind).copied \subseteq Built(m, kind)
    BY <1>1
  <2>3. \A t \in Loads(m, kind).typed : m.arch = "mistral3" /\ t = "token_embd"
                                        /\ <<t, "weight">> \in Built(m, kind)
    BY <1>1
  <2> QED BY <2>1, <2>2, <2>3 DEF NamesOK
<1>3. Complete(m, kind)
  BY <1>1 DEF Complete
<1>4. KeepsBiases(m, kind)
  BY <1>1 DEF KeepsBiases
<1>5. RopeOK(m, kind)
  BY <1>1 DEF RopeOK
<1>6. Listed(m, kind)
  BY <1>1 DEF Listed
<1> QED BY <1>2, <1>3, <1>4, <1>5, <1>6 DEF LoaderOK

LEMMA Starcoder2OK ==
  ASSUME NEW m, m.arch = "starcoder2", NEW kind \in {"top"} \cup LayerKinds(m.arch)
  PROVE  LoaderOK(m, kind)
<1>1. Built(m, kind) = Starcoder2Built(m, kind) /\ Loads(m, kind) = Starcoder2Loads(m, kind)
  BY DEF Built, Loads
<1> USE DEF Starcoder2Built, Starcoder2Loads,
            Starcoder2DecoderLayer, QwenAttention, Starcoder2MLP, Rope, PlainTop
<1>2. NamesOK(m, kind)
  <2>1. \A p \in Built(m, kind) : p = <<p[1], p[2]>>
    BY <1>1
  <2>2. Loads(m, kind).copied \subseteq Built(m, kind)
    BY <1>1
  <2>3. \A t \in Loads(m, kind).typed : m.arch = "mistral3" /\ t = "token_embd"
                                        /\ <<t, "weight">> \in Built(m, kind)
    BY <1>1
  <2> QED BY <2>1, <2>2, <2>3 DEF NamesOK
<1>3. Complete(m, kind)
  BY <1>1 DEF Complete
<1>4. KeepsBiases(m, kind)
  BY <1>1 DEF KeepsBiases
<1>5. RopeOK(m, kind)
  BY <1>1 DEF RopeOK
<1>6. Listed(m, kind)
  BY <1>1 DEF Listed
<1> QED BY <1>2, <1>3, <1>4, <1>5, <1>6 DEF LoaderOK

LEMMA GraniteOK ==
  ASSUME NEW m, m.arch = "granite", NEW kind \in {"top"} \cup LayerKinds(m.arch)
  PROVE  LoaderOK(m, kind)
<1>1. Built(m, kind) = GraniteBuilt(m, kind) /\ Loads(m, kind) = GraniteLoads(m, kind)
  BY DEF Built, Loads
<1> USE DEF GraniteBuilt, GraniteLoads,
            GraniteDecoderLayer, GraniteAttention, SwiGLUMLP, Rope, PlainTop
<1>2. NamesOK(m, kind)
  <2>1. \A p \in Built(m, kind) : p = <<p[1], p[2]>>
    BY <1>1
  <2>2. Loads(m, kind).copied \subseteq Built(m, kind)
    BY <1>1
  <2>3. \A t \in Loads(m, kind).typed : m.arch = "mistral3" /\ t = "token_embd"
                                        /\ <<t, "weight">> \in Built(m, kind)
    BY <1>1
  <2> QED BY <2>1, <2>2, <2>3 DEF NamesOK
<1>3. Complete(m, kind)
  BY <1>1 DEF Complete
<1>4. KeepsBiases(m, kind)
  BY <1>1 DEF KeepsBiases
<1>5. RopeOK(m, kind)
  BY <1>1 DEF RopeOK
<1>6. Listed(m, kind)
  BY <1>1 DEF Listed
<1> QED BY <1>2, <1>3, <1>4, <1>5, <1>6 DEF LoaderOK

LEMMA GraniteMoeOK ==
  ASSUME NEW m, m.arch = "granitemoe", NEW kind \in {"top"} \cup LayerKinds(m.arch)
  PROVE  LoaderOK(m, kind)
<1>1. Built(m, kind) = GraniteMoeBuilt(m, kind) /\ Loads(m, kind) = GraniteMoeLoads(m, kind)
  BY DEF Built, Loads
<1> USE DEF GraniteMoeBuilt, GraniteMoeLoads,
            GraniteDecoderLayer, GraniteAttention, GraniteMoeFFN, QuantizedMoEExperts, Rope,
            PlainTop
<1>2. NamesOK(m, kind)
  <2>1. \A p \in Built(m, kind) : p = <<p[1], p[2]>>
    BY <1>1
  <2>2. Loads(m, kind).copied \subseteq Built(m, kind)
    BY <1>1
  <2>3. \A t \in Loads(m, kind).typed : m.arch = "mistral3" /\ t = "token_embd"
                                        /\ <<t, "weight">> \in Built(m, kind)
    BY <1>1
  <2> QED BY <2>1, <2>2, <2>3 DEF NamesOK
<1>3. Complete(m, kind)
  BY <1>1 DEF Complete
<1>4. KeepsBiases(m, kind)
  BY <1>1 DEF KeepsBiases
<1>5. RopeOK(m, kind)
  BY <1>1 DEF RopeOK
<1>6. Listed(m, kind)
  BY <1>1 DEF Listed
<1> QED BY <1>2, <1>3, <1>4, <1>5, <1>6 DEF LoaderOK

LEMMA Qwen3OK ==
  ASSUME NEW m, m.arch = "qwen3", NEW kind \in {"top"} \cup LayerKinds(m.arch)
  PROVE  LoaderOK(m, kind)
<1>1. Built(m, kind) = Qwen3Built(m, kind) /\ Loads(m, kind) = Qwen3Loads(m, kind)
  BY DEF Built, Loads
<1> USE DEF Qwen3Built, Qwen3Loads,
            Qwen3Head, QwenDecoderLayer, QwenAttention, SwiGLUMLP, Rope, PlainTop
<1>2. NamesOK(m, kind)
  <2>1. \A p \in Built(m, kind) : p = <<p[1], p[2]>>
    BY <1>1
  <2>2. Loads(m, kind).copied \subseteq Built(m, kind)
    BY <1>1
  <2>3. \A t \in Loads(m, kind).typed : m.arch = "mistral3" /\ t = "token_embd"
                                        /\ <<t, "weight">> \in Built(m, kind)
    BY <1>1
  <2> QED BY <2>1, <2>2, <2>3 DEF NamesOK
<1>3. Complete(m, kind)
  BY <1>1 DEF Complete
<1>4. KeepsBiases(m, kind)
  BY <1>1 DEF KeepsBiases
<1>5. RopeOK(m, kind)
  BY <1>1 DEF RopeOK
<1>6. Listed(m, kind)
  BY <1>1 DEF Listed
<1> QED BY <1>2, <1>3, <1>4, <1>5, <1>6 DEF LoaderOK

LEMMA Qwen2OK ==
  ASSUME NEW m, m.arch = "qwen2", NEW kind \in {"top"} \cup LayerKinds(m.arch)
  PROVE  LoaderOK(m, kind)
<1>1. Built(m, kind) = Qwen2Built(m, kind) /\ Loads(m, kind) = Qwen2Loads(m, kind)
  BY DEF Built, Loads
<1> USE DEF Qwen2Built, Qwen2Loads,
            QwenDecoderLayer, QwenAttention, SwiGLUMLP, Rope, PlainTop
<1>2. NamesOK(m, kind)
  <2>1. \A p \in Built(m, kind) : p = <<p[1], p[2]>>
    BY <1>1
  <2>2. Loads(m, kind).copied \subseteq Built(m, kind)
    BY <1>1
  <2>3. \A t \in Loads(m, kind).typed : m.arch = "mistral3" /\ t = "token_embd"
                                        /\ <<t, "weight">> \in Built(m, kind)
    BY <1>1
  <2> QED BY <2>1, <2>2, <2>3 DEF NamesOK
<1>3. Complete(m, kind)
  BY <1>1 DEF Complete
<1>4. KeepsBiases(m, kind)
  BY <1>1 DEF KeepsBiases
<1>5. RopeOK(m, kind)
  BY <1>1 DEF RopeOK
<1>6. Listed(m, kind)
  BY <1>1 DEF Listed
<1> QED BY <1>2, <1>3, <1>4, <1>5, <1>6 DEF LoaderOK

LEMMA CommandROK ==
  ASSUME NEW m, m.arch = "command-r", NEW kind \in {"top"} \cup LayerKinds(m.arch)
  PROVE  LoaderOK(m, kind)
<1>1. Built(m, kind) = CommandRBuilt(m, kind) /\ Loads(m, kind) = CommandRLoads(m, kind)
  BY DEF Built, Loads
<1> USE DEF CommandRBuilt, CommandRLoads,
            CommandRDecoderLayer, QwenAttention, SwiGLUMLP, Rope, PlainTop
<1>2. NamesOK(m, kind)
  <2>1. \A p \in Built(m, kind) : p = <<p[1], p[2]>>
    BY <1>1
  <2>2. Loads(m, kind).copied \subseteq Built(m, kind)
    BY <1>1
  <2>3. \A t \in Loads(m, kind).typed : m.arch = "mistral3" /\ t = "token_embd"
                                        /\ <<t, "weight">> \in Built(m, kind)
    BY <1>1
  <2> QED BY <2>1, <2>2, <2>3 DEF NamesOK
<1>3. Complete(m, kind)
  BY <1>1 DEF Complete
<1>4. KeepsBiases(m, kind)
  BY <1>1 DEF KeepsBiases
<1>5. RopeOK(m, kind)
  BY <1>1 DEF RopeOK
<1>6. Listed(m, kind)
  BY <1>1 DEF Listed
<1> QED BY <1>2, <1>3, <1>4, <1>5, <1>6 DEF LoaderOK

LEMMA FalconOK ==
  ASSUME NEW m, m.arch = "falcon", NEW kind \in {"top"} \cup LayerKinds(m.arch)
  PROVE  LoaderOK(m, kind)
<1>1. Built(m, kind) = FalconBuilt(m, kind) /\ Loads(m, kind) = FalconLoads(m, kind)
  BY DEF Built, Loads
<1> USE DEF FalconBuilt, FalconLoads,
            FalconDecoderLayer, QwenAttention, FalconMLP, Rope, PlainTop
<1>2. NamesOK(m, kind)
  <2>1. \A p \in Built(m, kind) : p = <<p[1], p[2]>>
    BY <1>1
  <2>2. Loads(m, kind).copied \subseteq Built(m, kind)
    BY <1>1
  <2>3. \A t \in Loads(m, kind).typed : m.arch = "mistral3" /\ t = "token_embd"
                                        /\ <<t, "weight">> \in Built(m, kind)
    BY <1>1
  <2> QED BY <2>1, <2>2, <2>3 DEF NamesOK
<1>3. Complete(m, kind)
  BY <1>1 DEF Complete
<1>4. KeepsBiases(m, kind)
  BY <1>1 DEF KeepsBiases
<1>5. RopeOK(m, kind)
  BY <1>1 DEF RopeOK
<1>6. Listed(m, kind)
  BY <1>1 DEF Listed, QUANTIZED_NATIVE_WIRED_ARCHITECTURES
<1> QED BY <1>2, <1>3, <1>4, <1>5, <1>6 DEF LoaderOK

LEMMA Qwen35OK ==
  ASSUME NEW m, m.arch = "qwen35", NEW kind \in {"top"} \cup LayerKinds(m.arch)
  PROVE  LoaderOK(m, kind)
<1>1. Built(m, kind) = Qwen35Built(m, kind) /\ Loads(m, kind) = Qwen35Loads(m, kind)
  BY DEF Built, Loads
<1> USE DEF Qwen35Built, Qwen35Loads,
            Qwen35DecoderLayer, Qwen35Attention, Qwen35GatedDeltaNet, SwiGLUMLP, Rope, PlainTop,
            materialize_decoder_layer
<1>2. NamesOK(m, kind)
  <2>1. \A p \in Built(m, kind) : p = <<p[1], p[2]>>
    BY <1>1
  <2>2. Loads(m, kind).copied \subseteq Built(m, kind)
    BY <1>1
  <2>3. \A t \in Loads(m, kind).typed : m.arch = "mistral3" /\ t = "token_embd"
                                        /\ <<t, "weight">> \in Built(m, kind)
    BY <1>1
  <2> QED BY <2>1, <2>2, <2>3 DEF NamesOK
<1>3. Complete(m, kind)
  BY <1>1 DEF Complete
<1>4. KeepsBiases(m, kind)
  BY <1>1 DEF KeepsBiases
<1>5. RopeOK(m, kind)
  BY <1>1 DEF RopeOK
<1>6. Listed(m, kind)
  BY <1>1 DEF Listed
<1> QED BY <1>2, <1>3, <1>4, <1>5, <1>6 DEF LoaderOK

LEMMA NomicBertOK ==
  ASSUME NEW m, m.arch = "nomic-bert", NEW kind \in {"top"} \cup LayerKinds(m.arch)
  PROVE  LoaderOK(m, kind)
<1>1. Built(m, kind) = NomicBertBuilt(m, kind) /\ Loads(m, kind) = NomicBertLoads(m, kind)
  BY DEF Built, Loads
<1> USE DEF NomicBertBuilt, NomicBertLoads,
            NomicBertEncoderLayer, NomicBertSelfAttention, SwiGLUMLP, Rope
<1>2. NamesOK(m, kind)
  <2>1. \A p \in Built(m, kind) : p = <<p[1], p[2]>>
    BY <1>1
  <2>2. Loads(m, kind).copied \subseteq Built(m, kind)
    BY <1>1
  <2>3. \A t \in Loads(m, kind).typed : m.arch = "mistral3" /\ t = "token_embd"
                                        /\ <<t, "weight">> \in Built(m, kind)
    BY <1>1
  <2> QED BY <2>1, <2>2, <2>3 DEF NamesOK
<1>3. Complete(m, kind)
  BY <1>1 DEF Complete
<1>4. KeepsBiases(m, kind)
  BY <1>1 DEF KeepsBiases
<1>5. RopeOK(m, kind)
  BY <1>1 DEF RopeOK
<1>6. Listed(m, kind)
  BY <1>1 DEF Listed
<1> QED BY <1>2, <1>3, <1>4, <1>5, <1>6 DEF LoaderOK

LEMMA BertOK ==
  ASSUME NEW m, m.arch = "bert", NEW kind \in {"top"} \cup LayerKinds(m.arch)
  PROVE  LoaderOK(m, kind)
<1>1. Built(m, kind) = BertBuilt(m, kind) /\ Loads(m, kind) = BertLoads(m, kind)
  BY DEF Built, Loads
<1> USE DEF BertBuilt, BertLoads,
            BertEncoderLayer, BertSelfAttention, BertFFN
<1>2. NamesOK(m, kind)
  <2>1. \A p \in Built(m, kind) : p = <<p[1], p[2]>>
    BY <1>1
  <2>2. Loads(m, kind).copied \subseteq Built(m, kind)
    BY <1>1
  <2>3. \A t \in Loads(m, kind).typed : m.arch = "mistral3" /\ t = "token_embd"
                                        /\ <<t, "weight">> \in Built(m, kind)
    BY <1>1
  <2> QED BY <2>1, <2>2, <2>3 DEF NamesOK
<1>3. Complete(m, kind)
  BY <1>1 DEF Complete
<1>4. KeepsBiases(m, kind)
  BY <1>1 DEF KeepsBiases
<1>5. RopeOK(m, kind)
  BY <1>1 DEF RopeOK
<1>6. Listed(m, kind)
  BY <1>1 DEF Listed
<1> QED BY <1>2, <1>3, <1>4, <1>5, <1>6 DEF LoaderOK

HIDE DEF W, WB, NoLoad, Experts, GatedFFN, LmHead, Quantizable, Suffixes, EndsWith, Common,
         PackedQKAndEmbedding

(* Every part of every model that may be loaded keeps the contract. *)
LEMMA Contract ==
  ASSUME NEW m \in Models, NEW i \in 0..Len(m.kinds)
  PROVE  LoaderOK(m, KindOf(m, i)) /\ (KindOf(m, i) = "top" => i = 0)
<1>1. m.arch \in Architectures /\ m.kinds \in Seq(LayerKinds(m.arch))
  BY ModelsAssumption
<1>2. /\ KindOf(m, i) \in {"top"} \cup LayerKinds(m.arch)
      /\ KindOf(m, i) = "top" => i = 0
  <2>1. CASE i = 0
    BY <2>1 DEF KindOf
  <2>2. CASE i # 0
    <3>1. m.kinds[i] \in LayerKinds(m.arch)
      BY <1>1, <2>2
    <3>2. "top" \notin LayerKinds(m.arch)
      BY DEF LayerKinds
    <3> QED BY <2>2, <3>1, <3>2 DEF KindOf
  <2> QED BY <2>1, <2>2
<1> DEFINE kind == KindOf(m, i)
<1> HIDE DEF kind
<1>3. kind \in {"top"} \cup LayerKinds(m.arch)
  BY <1>2 DEF kind
<1>4. LoaderOK(m, kind)
  BY <1>1, <1>3, LlamaOK, Mistral3OK, Gemma4OK, Phi2OK, NemotronHOK, Starcoder2OK, GraniteOK,
     GraniteMoeOK, Qwen3OK, Qwen2OK, CommandROK, FalconOK, Qwen35OK, NomicBertOK, BertOK
     DEF Architectures, QUANTIZED_NATIVE_WIRED_ARCHITECTURES
<1> QED BY <1>2, <1>4 DEF kind

(* A parameter is a layer and a tensor's part that its constructor allocates. *)
LEMMA ParamOf ==
  ASSUME NEW m \in Models, NEW q \in Params(m)
  PROVE  /\ q[1] \in 0..Len(m.kinds) /\ q[1] \in Nat
         /\ q[2] \in Built(m, KindOf(m, q[1])) /\ q[2] = <<q[2][1], q[2][2]>>
         /\ q = <<q[1], q[2]>>
<1>1. PICK i \in 0..Len(m.kinds) : q \in {i} \X Built(m, KindOf(m, i))
  BY DEF Params
<1>2. q[1] = i /\ q[2] \in Built(m, KindOf(m, i)) /\ q = <<q[1], q[2]>>
  BY <1>1
<1>3. NamesOK(m, KindOf(m, i))
  BY Contract DEF LoaderOK
<1>4. q[2] = <<q[2][1], q[2][2]>>
  BY <1>2, <1>3 DEF NamesOK
<1> QED BY <1>2, <1>4

LEMMA ParamAt ==
  ASSUME NEW m, NEW i \in 0..Len(m.kinds), NEW p \in Built(m, KindOf(m, i))
  PROVE  <<i, p>> \in Params(m)
  BY DEF Params

(* What a load makes of a parameter, by how its layer's loader names it. *)
LEMMA ScaledOf ==
  ASSUME NEW m \in Models, NEW q \in Params(m)
  PROVE  ScaledInPlace(m, q) <=> /\ q[2] = <<"rope_global", "inv_freq">> /\ m.arch = "gemma4"
                                 /\ m.rope_freqs /\ KindOf(m, q[1]) = "top"
<1>1. RopeOK(m, KindOf(m, q[1])) /\ q[2] = <<q[2][1], q[2][2]>>
  BY ParamOf, Contract DEF LoaderOK
<1> DEFINE t == q[2][1]
           x == q[2][2]
<1>2. <<t, x>> \in Loads(m, KindOf(m, q[1])).scaled
        <=> /\ <<t, x>> = <<"rope_global", "inv_freq">>
            /\ m.arch = "gemma4" /\ m.rope_freqs /\ KindOf(m, q[1]) = "top"
  BY <1>1 DEF RopeOK
<1> QED BY <1>1, <1>2 DEF ScaledInPlace

LEMMA PackedOf ==
  ASSUME NEW m, NEW t, Packs(m, t), NEW roped
  PROVE  Packed(m, roped) \in Kept
  BY DEF Packs, Packed, Kept

LEMMA OneLoadOf ==
  ASSUME NEW m \in Models, NEW q \in Params(m), ~ScaledInPlace(m, q)
  PROVE  LET l == Loads(m, KindOf(m, q[1]))
             t == q[2][1]
             x == q[2][2]
         IN /\ OneLoad(m, q) \in Kept <=> x = "weight" /\ t \in Quantizable(l) /\ Packs(m, t)
            /\ OneLoad(m, q) = "dropped" => x = "bias" /\ t \in l.projected /\ t \notin l.biased
                                            /\ Packs(m, t)
            /\ x = "weight" /\ t \in Quantizable(l) => OneLoad(m, q) \in Kept \cup {"loaded"}
            /\ q[2] \in l.copied \/ (x = "bias" /\ t \in l.biased)
                 => OneLoad(m, q) \in Kept \cup {"loaded", "dropped"}
            /\ x = "inv_freq" /\ q[2] \notin l.copied => OneLoad(m, q) = "derived"
            /\ OneLoad(m, q) \in Kept \cup {"loaded", "dropped", Base(q)}
            /\ \A old \in {Base(q), OneLoad(m, q)} : Loaded(m, l, q[2], old) = OneLoad(m, q)
<1> DEFINE l == Loads(m, KindOf(m, q[1]))
           p == q[2]
           old == Base(q)
<1>1. OneLoad(m, q) = Loaded(m, l, p, old)
  BY DEF OneLoad, Base
<1>2. p \notin l.scaled /\ old \in {"derived", "unset"} /\ (p[2] = "inv_freq" => old = "derived")
  BY DEF ScaledInPlace, Base
<1>3. \A t, r : Packs(m, t) => Packed(m, r) \in Kept
  BY PackedOf
<1> HIDE DEF l, p, old
<1>4. \A o : Loaded(m, l, p, o) =
        IF p[2] = "weight" /\ p[1] \in Quantizable(l) /\ Packs(m, p[1]) THEN Packed(m, p[1] \in l.roped)
        ELSE IF p[2] = "bias" /\ p[1] \in l.projected /\ p[1] \notin l.biased /\ Packs(m, p[1])
        THEN "dropped"
        ELSE IF p \in l.copied \/ (p[2] = "bias" /\ p[1] \in l.biased)
                \/ (p[2] = "weight" /\ p[1] \in Quantizable(l)) THEN "loaded"
        ELSE o
  BY <1>2 DEF Loaded, Quantizable
<1> DEFINE v == OneLoad(m, q)
<1> HIDE DEF v
<1>5. v = Loaded(m, l, p, old)
  BY <1>1 DEF v
<1>6. /\ v \in Kept <=> p[2] = "weight" /\ p[1] \in Quantizable(l) /\ Packs(m, p[1])
      /\ v = "dropped" => p[2] = "bias" /\ p[1] \in l.projected /\ p[1] \notin l.biased
                          /\ Packs(m, p[1])
      /\ p[2] = "weight" /\ p[1] \in Quantizable(l) => v \in Kept \cup {"loaded"}
      /\ p \in l.copied \/ (p[2] = "bias" /\ p[1] \in l.biased) => v \in Kept \cup {"loaded", "dropped"}
      /\ p[2] = "inv_freq" /\ p \notin l.copied => v = "derived"
      /\ v \in Kept \cup {"loaded", "dropped", old}
  BY <1>2, <1>3, <1>4, <1>5 DEF Kept
<1>7. \A o \in {old, v} : Loaded(m, l, p, o) = v
  BY <1>4, <1>5
<1> QED BY <1>6, <1>7 DEF l, p, old, v
-----------------------------------------------------------------------------
LEMMA LayersOf ==
  ASSUME NEW m \in Models
  PROVE  Len(m.kinds) \in Nat
<1>1. m.kinds \in Seq(LayerKinds(m.arch))
  BY ModelsAssumption
<1> QED BY <1>1

LEMMA InitOK == Init => LoadInv
<1> SUFFICES ASSUME Init PROVE LoadInv
  OBVIOUS
<1>0. Len(model.kinds) \in Nat
  BY LayersOf DEF Init
<1>1. TypeOK
  <2>1. at \in 0..(Len(model.kinds) + 2) /\ stops \in 0..MaxStops
    BY <1>0, StopsAssumption DEF Init, Idle
  <2>2. value \in [Params(model) -> Value]
    BY DEF Init, Value
  <2> QED BY <2>1, <2>2 DEF Init, TypeOK, Phase
<1>2. PhaseInv
  BY DEF Init, PhaseInv
<1>3. ValueInv
  BY DEF Init, ValueInv
<1> QED BY <1>1, <1>2, <1>3 DEF LoadInv, Init

LEMMA FromGgufOK == LoadInv /\ FromGguf => LoadInv'
<1> SUFFICES ASSUME LoadInv, FromGguf PROVE LoadInv'
  OBVIOUS
<1>1. TypeOK /\ PhaseInv /\ ValueInv
  BY DEF LoadInv
<1>2. /\ phase = "opened" /\ phase' = "built" /\ pending' = TRUE
      /\ model' = model /\ at' = at /\ mapping' = mapping /\ marked' = marked
      /\ stops' = stops /\ raised' = raised
  BY DEF FromGguf
<1>3. DOMAIN value = Params(model) /\ \A q \in Params(model) : value[q] = "unset"
  BY <1>1, <1>2 DEF TypeOK, ValueInv
<1>4. value' = [q \in Params(model) |-> Base(q)]
  BY <1>3 DEF FromGguf, rebuild_derived_buffers, Base
<1>5. Params(model)' = Params(model)
  BY <1>2 DEF Params
<1>6. TypeOK'
  BY <1>1, <1>2, <1>4, <1>5 DEF TypeOK, Phase, Value, Base
<1>7. PhaseInv'
  BY <1>1, <1>2 DEF PhaseInv
<1>8. ValueInv'
  BY <1>2, <1>4, <1>5 DEF ValueInv, Base
<1> QED BY <1>1, <1>2, <1>6, <1>7, <1>8 DEF LoadInv, PhaseInv

LEMMA BuildFailsOK == LoadInv /\ BuildFails => LoadInv'
<1> SUFFICES ASSUME LoadInv, BuildFails PROVE LoadInv'
  OBVIOUS
<1>1. TypeOK /\ PhaseInv /\ ValueInv
  BY DEF LoadInv
<1>2. /\ phase \in {"opened", "built"} /\ phase' = "dropped" /\ mapping' = FALSE /\ pending' = FALSE
      /\ model' = model /\ at' = at /\ value' = value /\ marked' = marked
      /\ stops' = stops /\ raised' = raised
  BY DEF BuildFails
<1>3. Params(model)' = Params(model)
  BY <1>2 DEF Params
<1>4. TypeOK'
  BY <1>1, <1>2, <1>3 DEF TypeOK, Phase
<1>5. PhaseInv'
  BY <1>1, <1>2 DEF PhaseInv
<1>6. \A q \in Params(model) : value[q] # "view"
  BY <1>1, <1>2 DEF ValueInv, Base
<1>7. ValueInv'
  BY <1>2, <1>3, <1>6 DEF ValueInv
<1> QED BY <1>1, <1>2, <1>4, <1>5, <1>7 DEF LoadInv, PhaseInv

LEMMA PlaceOnOK == LoadInv /\ PlaceOn => LoadInv'
<1> SUFFICES ASSUME LoadInv, PlaceOn PROVE LoadInv'
  OBVIOUS
<1>1. TypeOK /\ PhaseInv /\ ValueInv
  BY DEF LoadInv
<1>2. /\ phase = "built" /\ phase' = "placed"
      /\ model' = model /\ at' = at /\ mapping' = mapping /\ pending' = pending /\ marked' = marked
      /\ stops' = stops /\ raised' = raised
  BY DEF PlaceOn
<1>3. Params(model)' = Params(model) /\ DOMAIN value = Params(model)
  BY <1>1, <1>2 DEF Params, TypeOK
<1>4. at = Idle /\ ~marked /\ stops = 0 /\ ~raised
  BY <1>1, <1>2 DEF PhaseInv
<1>5. value' = [q \in Params(model) |-> Base(q)]
  <2>1. CASE OnGpu(model)
    <3> DEFINE v == [q \in DOMAIN value |-> "unset"]
    <3>1. value' = rebuild_derived_buffers(v)
      BY <2>1 DEF PlaceOn
    <3> QED BY <1>3, <3>1 DEF rebuild_derived_buffers, Base
  <2>2. CASE ~OnGpu(model)
    BY <1>1, <1>2, <1>3, <2>2 DEF PlaceOn, ValueInv, TypeOK
  <2> QED BY <2>1, <2>2
<1>7. TypeOK'
  BY <1>1, <1>2, <1>3, <1>5 DEF TypeOK, Phase, Value, Base
<1>8. PhaseInv'
  BY <1>1, <1>2, <1>4 DEF PhaseInv
<1>9. ASSUME NEW q \in Params(model)
      PROVE  ~Filled(q)' /\ value'[q] = Base(q) /\ (ScaledInPlace(model, q) => Base(q) = "derived")
  <2>0. q[1] \in Nat
    BY <1>1, ParamOf DEF TypeOK
  <2>1. ~(q[1] + 1 < at') /\ phase' # "ready"
    BY <1>2, <1>4, <2>0 DEF Idle
  <2>2. ScaledInPlace(model, q) => Base(q) = "derived"
    BY <1>1, ScaledOf DEF TypeOK, Base
  <2>3. value'[q] = Base(q)
    BY <1>5
  <2> QED BY <2>1, <2>2, <2>3 DEF Filled
<1>10. ~Marks(model, value')
  BY <1>3, <1>5 DEF Marks, Base
<1>11. ValueInv'
  BY <1>2, <1>3, <1>4, <1>9, <1>10 DEF ValueInv
<1> QED BY <1>1, <1>2, <1>4, <1>7, <1>8, <1>11 DEF LoadInv

LEMMA StartLoadOK == LoadInv /\ StartLoad => LoadInv'
<1> SUFFICES ASSUME LoadInv, StartLoad PROVE LoadInv'
  OBVIOUS
<1>1. TypeOK /\ PhaseInv /\ ValueInv
  BY DEF LoadInv
<1>2. /\ phase = "placed" /\ at = 0 /\ at' = 1 /\ phase' = phase
      /\ model' = model /\ value' = value /\ mapping' = mapping /\ pending' = pending
      /\ marked' = marked /\ stops' = stops /\ raised' = raised
  BY DEF StartLoad, Idle
<1>3. Params(model)' = Params(model) /\ Len(model.kinds) \in Nat
  BY <1>1, <1>2, LayersOf DEF Params, TypeOK
<1>4. TypeOK'
  BY <1>1, <1>2, <1>3 DEF TypeOK
<1>5. PhaseInv'
  BY <1>1, <1>2 DEF PhaseInv, Idle
<1>6. ASSUME NEW q \in Params(model) PROVE ~Filled(q) /\ ~Filled(q)'
  <2>1. q[1] \in Nat
    BY <1>1, ParamOf DEF TypeOK
  <2> QED BY <1>2, <2>1 DEF Filled
<1>7. ValueInv'
  BY <1>1, <1>2, <1>3, <1>6 DEF ValueInv
<1> QED BY <1>1, <1>2, <1>4, <1>5, <1>7 DEF LoadInv

(* What each parameter of a model that is being loaded holds. *)
LEMMA Holding ==
  ASSUME LoadInv, phase \in {"placed", "ready"}, NEW q \in Params(model)
  PROVE  /\ ~ScaledInPlace(model, q) =>
              value[q] \in {OneLoad(model, q)} \cup IF Filled(q) THEN {} ELSE {Base(q)}
         /\ ScaledInPlace(model, q) => value[q] \in {"derived", "scaled", "rescaled"}
         /\ ScaledInPlace(model, q) /\ stops = 0 => value[q] = IF Filled(q) THEN "scaled" ELSE "derived"
  BY DEF LoadInv, ValueInv

(* What was packed stays packed when it is filled again. *)
LEMMA StillPacked ==
  ASSUME LoadInv, phase = "placed", NEW i \in 0..Len(model.kinds), NEW q \in Params(model),
         value[q] \in {"view", "rows"}
  PROVE  Fill(model, i, value)[q] = value[q]
<1>1. model \in Models /\ DOMAIN value = Params(model)
  BY DEF LoadInv, TypeOK
<1>2. ~ScaledInPlace(model, q) /\ value[q] = OneLoad(model, q)
  BY Holding DEF Base
<1>3. Loaded(model, Loads(model, KindOf(model, q[1])), q[2], value[q]) = value[q]
  BY <1>1, <1>2, OneLoadOf
<1> QED BY <1>1, <1>3 DEF Fill

LEMMA LoadPartOK ==
  ASSUME LoadInv, NEW i \in 0..Len(model.kinds), LoadPart(i)
  PROVE  LoadInv'
<1>1. TypeOK /\ PhaseInv /\ ValueInv
  BY DEF LoadInv
<1>2. /\ at = i + 1 /\ value' = Fill(model, i, value)
      /\ marked' = (marked \/ Marks(model, value'))
      /\ \/ at' = i + 2 /\ stops' = stops
         \/ at' = 0 /\ stops < MaxStops /\ stops' = stops + 1
      /\ model' = model /\ phase' = phase /\ mapping' = mapping /\ pending' = pending /\ raised' = raised
  BY DEF LoadPart, Idle
<1>3. /\ i \in Nat /\ model \in Models /\ Params(model)' = Params(model) /\ DOMAIN value = Params(model)
      /\ Len(model.kinds) \in Nat
  BY <1>1, <1>2, LayersOf DEF Params, TypeOK
<1>4. phase = "placed"
  <2>1. at # Idle
    BY <1>2, <1>3 DEF Idle
  <2> QED BY <1>1, <2>1 DEF PhaseInv
<1>5. DOMAIN value' = Params(model) /\ value' = [q \in Params(model) |-> value'[q]]
  BY <1>2, <1>3 DEF Fill
<1>6. ASSUME NEW q \in Params(model), q[1] # i
      PROVE  value'[q] = value[q] /\ (Filled(q)' => Filled(q)) /\ (stops' = 0 => (Filled(q)' <=> Filled(q)))
  <2>1. q[1] \in Nat
    BY <1>3, ParamOf
  <2>2. value'[q] = value[q]
    BY <1>2, <1>3, <1>6 DEF Fill
  <2>3. Filled(q) <=> q[1] + 1 < i + 1
    BY <1>2, <1>4 DEF Filled
  <2>4. Filled(q)' <=> q[1] + 1 < at'
    BY <1>2, <1>4 DEF Filled
  <2>5. (Filled(q)' => Filled(q)) /\ (stops' = 0 => (Filled(q)' <=> Filled(q)))
    BY <1>1, <1>2, <1>3, <1>6, <2>1, <2>3, <2>4 DEF TypeOK
  <2> QED BY <2>2, <2>5
<1>7. ASSUME NEW q \in Params(model), q[1] = i
      PROVE  /\ ~ScaledInPlace(model, q) => value'[q] = OneLoad(model, q)
             /\ ScaledInPlace(model, q) => value'[q] \in {"scaled", "rescaled"}
             /\ ScaledInPlace(model, q) /\ stops' = 0 => value'[q] = "scaled" /\ Filled(q)'
  <2> DEFINE l == Loads(model, KindOf(model, i))
  <2>1. value'[q] = Loaded(model, l, q[2], value[q])
    BY <1>2, <1>3, <1>7 DEF Fill
  <2>2. CASE ~ScaledInPlace(model, q)
    <3>1. value[q] \in {Base(q), OneLoad(model, q)}
      BY <1>4, <2>2, Holding
    <3>2. Loaded(model, l, q[2], value[q]) = OneLoad(model, q)
      BY <1>3, <1>7, <2>2, <3>1, OneLoadOf
    <3> QED BY <2>1, <2>2, <3>2
  <2>3. CASE ScaledInPlace(model, q)
    <3>1. q[2] = <<"rope_global", "inv_freq">> /\ q[2] \in l.scaled
      BY <1>3, <1>7, <2>3, ScaledOf DEF ScaledInPlace
    <3> HIDE DEF l
    <3>2. value'[q] = IF value[q] = "derived" THEN "scaled" ELSE "rescaled"
      BY <2>1, <3>1 DEF Loaded
    <3>3. ASSUME stops' = 0 PROVE value'[q] = "scaled" /\ Filled(q)'
      <4>1. stops = 0 /\ at' = i + 2
        BY <1>1, <1>2, <3>3 DEF TypeOK
      <4>2. ~Filled(q) /\ Filled(q)'
        BY <1>2, <1>3, <1>4, <1>7, <4>1 DEF Filled
      <4> QED BY <1>4, <2>3, <3>2, <4>1, <4>2, Holding
    <3> QED BY <2>3, <3>2, <3>3
  <2> QED BY <2>2, <2>3
<1>8. TypeOK'
  <2>1. ASSUME NEW q \in Params(model) PROVE value'[q] \in Value
    <3>1. CASE q[1] # i
      BY <1>1, <1>6, <3>1 DEF TypeOK
    <3>2. CASE q[1] = i /\ ScaledInPlace(model, q)
      BY <1>7, <3>2 DEF Value
    <3>3. CASE q[1] = i /\ ~ScaledInPlace(model, q)
      <4>1. OneLoad(model, q) \in Kept \cup {"loaded", "dropped", Base(q)}
        BY <1>3, <3>3, OneLoadOf
      <4> QED BY <1>7, <3>3, <4>1 DEF Kept, Base, Value
    <3> QED BY <3>1, <3>2, <3>3
  <2>2. value' \in [Params(model) -> Value]
    BY <1>5, <2>1
  <2>3. at' \in 0..(Len(model.kinds) + 2) /\ stops' \in 0..MaxStops
    BY <1>1, <1>2, <1>3, StopsAssumption DEF TypeOK
  <2> QED BY <1>1, <1>2, <1>3, <2>2, <2>3 DEF TypeOK
<1>9. PhaseInv'
  BY <1>1, <1>2, <1>4 DEF PhaseInv
<1>10. marked' <=> Marks(model, value')
  <2>1. ASSUME Marks(model, value) PROVE Marks(model, value')
    <3>1. PICK q \in Params(model) : value[q] \in {"view", "rows"}
      BY <1>3, <2>1 DEF Marks
    <3>2. value'[q] = value[q]
      BY <1>2, <1>4, <3>1, StillPacked
    <3> QED BY <1>5, <3>1, <3>2 DEF Marks
  <2>2. marked <=> Marks(model, value)
    BY <1>1, <1>4 DEF ValueInv
  <2> QED BY <1>2, <2>1, <2>2
<1>11. ASSUME NEW q \in Params(model)
       PROVE  /\ ~ScaledInPlace(model, q) =>
                   value'[q] \in {OneLoad(model, q)} \cup IF Filled(q)' THEN {} ELSE {Base(q)}
              /\ ScaledInPlace(model, q) => value'[q] \in {"derived", "scaled", "rescaled"}
              /\ ScaledInPlace(model, q) /\ stops' = 0 =>
                   value'[q] = IF Filled(q)' THEN "scaled" ELSE "derived"
  <2>1. CASE q[1] = i
    BY <1>7, <2>1
  <2>2. CASE q[1] # i
    <3>1. stops' = 0 => stops = 0
      BY <1>1, <1>2 DEF TypeOK
    <3> QED BY <1>4, <1>6, <2>2, <3>1, Holding
  <2> QED BY <2>1, <2>2
<1>12. ValueInv'
  BY <1>2, <1>3, <1>4, <1>10, <1>11 DEF ValueInv, ScaledInPlace, OneLoad, Base
<1> QED BY <1>2, <1>8, <1>9, <1>12 DEF LoadInv

(* A load stumbles only over the three faults that Mishandled names. *)
LEMMA StumblesOnly ==
  ASSUME LoadInv, phase = "placed", NEW i \in 0..Len(model.kinds), Stumbles(model, i)
  PROVE  Mishandled(model) /\ (model.arch = "gemma4" => i = 0)
<1> DEFINE kind == KindOf(model, i)
           l == Loads(model, kind)
<1>1. model \in Models
  BY DEF LoadInv, TypeOK
<1>2. /\ NamesOK(model, kind) /\ KeepsBiases(model, kind) /\ RopeOK(model, kind)
      /\ kind = "top" => i = 0
  BY <1>1, Contract DEF LoaderOK
<1>3. CASE \E t \in l.typed : value[<<i, <<t, "weight">>>>] \in {"view", "rows", "moved"}
  <2>1. PICK t \in l.typed : value[<<i, <<t, "weight">>>>] \in {"view", "rows", "moved"}
    BY <1>3
  <2>2. model.arch = "mistral3" /\ t = "token_embd" /\ <<t, "weight">> \in Built(model, kind)
    BY <1>2 DEF NamesOK
  <2> DEFINE q == <<i, <<t, "weight">>>>
  <2>3. q \in Params(model)
    BY <2>2, ParamAt
  <2>4. q[1] = i /\ q[2] = <<t, "weight">> /\ q[2][1] = t /\ q[2][2] = "weight"
    OBVIOUS
  <2> HIDE DEF q, kind
  <2>5. ~ScaledInPlace(model, q)
    BY <1>1, <2>3, <2>4, ScaledOf
  <2>6. value[q] \in Kept
    BY <2>1 DEF q, Kept
  <2>7. OneLoad(model, q) \in Kept
    BY <2>3, <2>5, <2>6, Holding DEF Base, Kept
  <2>8. Packs(model, t)
    BY <1>1, <2>3, <2>4, <2>5, <2>7, OneLoadOf
  <2> QED BY <2>2, <2>8 DEF Mishandled
<1>4. CASE \E p \in l.copied : value[<<i, p>>] = "dropped"
  <2>1. PICK p \in l.copied : value[<<i, p>>] = "dropped"
    BY <1>4
  <2> DEFINE q == <<i, p>>
  <2>2. p \in Built(model, kind) /\ p = <<p[1], p[2]>>
    BY <1>2 DEF NamesOK
  <2>3. q \in Params(model) /\ q[1] = i /\ q[2] = p
    BY <2>2, ParamAt
  <2> HIDE DEF q
  <2>4. ~ScaledInPlace(model, q) /\ OneLoad(model, q) = "dropped"
    BY <2>1, <2>3, Holding DEF q, Base
  <2>5. p[2] = "bias" /\ p[1] \in l.projected /\ p[1] \notin l.biased /\ Packs(model, p[1])
    BY <1>1, <2>3, <2>4, OneLoadOf
  <2>6. model.arch = "qwen2" /\ p[1] = "attn_v"
    <3> DEFINE t == p[1]
    <3>1. <<t, "bias">> \in Built(model, kind)
      BY <2>2, <2>5
    <3> HIDE DEF kind
    <3>2. t \in l.projected => t \in l.biased \/ (model.arch = "qwen2" /\ t = "attn_v")
      BY <1>2, <3>1 DEF KeepsBiases
    <3> QED BY <2>5, <3>2
  <2> QED BY <2>5, <2>6 DEF Mishandled
<1>5. CASE l.scaled # {}
  BY <1>2, <1>5 DEF RopeOK, Mishandled
<1> QED BY <1>3, <1>4, <1>5 DEF Stumbles

LEMMA LoadRaisesOK ==
  ASSUME LoadInv, NEW i \in 0..Len(model.kinds), LoadRaises(i)
  PROVE  LoadInv'
<1>1. TypeOK /\ PhaseInv /\ ValueInv
  BY DEF LoadInv
<1>2. /\ at = i + 1 /\ at' = 0 /\ raised' = TRUE /\ Stumbles(model, i)
      /\ model' = model /\ phase' = phase /\ value' = value /\ mapping' = mapping
      /\ pending' = pending /\ marked' = marked /\ stops' = stops
  BY DEF LoadRaises, Idle
<1>3. /\ i \in Nat /\ model \in Models /\ Params(model)' = Params(model)
      /\ Len(model.kinds) \in Nat
  BY <1>1, <1>2, LayersOf DEF Params, TypeOK
<1>4. phase = "placed"
  <2>1. at # Idle
    BY <1>2, <1>3 DEF Idle
  <2> QED BY <1>1, <2>1 DEF PhaseInv
<1>5. Mishandled(model) /\ (model.arch = "gemma4" => i = 0)
  BY <1>2, <1>4, StumblesOnly
<1>6. ASSUME NEW q \in Params(model)
      PROVE  ~Filled(q)' /\ (ScaledInPlace(model, q) => ~Filled(q))
  <2>1. q[1] \in 0..Len(model.kinds) /\ q[1] \in Nat
    BY <1>3, ParamOf
  <2>2. ~Filled(q)'
    BY <1>2, <1>4, <2>1 DEF Filled
  <2>3. ASSUME ScaledInPlace(model, q) PROVE ~Filled(q)
    <3>1. i = 0
      BY <1>3, <1>5, <2>3, ScaledOf
    <3> QED BY <1>2, <1>4, <2>1, <3>1 DEF Filled
  <2> QED BY <2>2, <2>3
<1>7. TypeOK'
  BY <1>1, <1>2, <1>3 DEF TypeOK
<1>8. PhaseInv'
  BY <1>1, <1>2, <1>4 DEF PhaseInv, Idle
<1>9. ASSUME NEW q \in Params(model)
      PROVE  /\ ~ScaledInPlace(model, q) => value[q] \in {OneLoad(model, q)} \cup {Base(q)}
             /\ ScaledInPlace(model, q) => value[q] \in {"derived", "scaled", "rescaled"}
             /\ ScaledInPlace(model, q) /\ stops = 0 => value[q] = "derived"
  BY <1>4, <1>6, Holding
<1>10. ValueInv'
  BY <1>1, <1>2, <1>3, <1>4, <1>6, <1>9 DEF ValueInv, ScaledInPlace, OneLoad, Base
<1> QED BY <1>2, <1>5, <1>7, <1>8, <1>10 DEF LoadInv, Mishandled, Packs

LEMMA FinishOK == LoadInv /\ Finish => LoadInv'
<1> SUFFICES ASSUME LoadInv, Finish PROVE LoadInv'
  OBVIOUS
<1>1. TypeOK /\ PhaseInv /\ ValueInv
  BY DEF LoadInv
<1>2. /\ at = Len(model.kinds) + 2 /\ at' = 0 /\ phase' = "ready" /\ mapping' = marked /\ pending' = FALSE
      /\ model' = model /\ value' = value /\ marked' = marked /\ stops' = stops /\ raised' = raised
  BY DEF Finish, Idle
<1>3. model \in Models /\ Params(model)' = Params(model) /\ Len(model.kinds) \in Nat
  BY <1>1, <1>2, LayersOf DEF Params, TypeOK
<1> DEFINE layers == Len(model.kinds)
<1>4. layers \in Nat /\ at = layers + 2
  BY <1>2, <1>3
<1> HIDE DEF layers
<1>5. at # 0 /\ 0 \in 0..(layers + 2)
  BY <1>4
<1>6. phase = "placed"
  BY <1>1, <1>5 DEF PhaseInv, Idle
<1>7. TypeOK'
  <2>1. at' \in 0..(layers + 2)
    BY <1>2, <1>5
  <2> QED BY <1>1, <1>2, <1>3, <2>1 DEF TypeOK, Phase, layers
<1>8. PhaseInv'
  BY <1>1, <1>2, <1>6 DEF PhaseInv, Idle
<1>9. ASSUME NEW q \in Params(model) PROVE Filled(q) /\ Filled(q)'
  <2>1. q[1] \in 0..layers /\ q[1] \in Nat
    BY <1>3, ParamOf DEF layers
  <2>2. q[1] + 1 < at
    BY <1>4, <2>1
  <2> QED BY <1>2, <2>2 DEF Filled
<1>10. ValueInv'
  BY <1>1, <1>2, <1>3, <1>6, <1>9 DEF ValueInv
<1> QED BY <1>2, <1>7, <1>8, <1>10 DEF LoadInv

LEMMA CloseOK == LoadInv /\ Close => LoadInv'
<1> SUFFICES ASSUME LoadInv, Close PROVE LoadInv'
  OBVIOUS
<1>1. TypeOK /\ PhaseInv /\ ValueInv
  BY DEF LoadInv
<1>2. /\ phase \in {"built", "placed", "ready"} /\ phase' = "closed" /\ at = Idle
      /\ pending' = FALSE /\ marked' = FALSE
      /\ model' = model /\ at' = at /\ stops' = stops /\ raised' = raised
  BY DEF Close
<1>3. Params(model)' = Params(model) /\ DOMAIN value = Params(model)
  BY <1>1, <1>2 DEF Params, TypeOK
<1>4. /\ value' \in [Params(model) -> Value]
      /\ \A q \in Params(model) : value'[q] # "view"
      /\ mapping' = FALSE
  <2>1. CASE pending \/ marked
    BY <1>1, <1>3, <2>1 DEF Close, TypeOK, Value
  <2>2. CASE ~(pending \/ marked)
    <3>1. value' = value /\ mapping' = mapping
      BY <2>2 DEF Close
    <3>2. phase = "ready"
      BY <1>1, <1>2, <2>2 DEF PhaseInv
    <3>3. marked = FALSE
      BY <1>1, <2>2 DEF TypeOK
    <3>4. mapping = FALSE
      BY <1>1, <3>2, <3>3 DEF PhaseInv
    <3>5. ~Marks(model, value)
      BY <1>1, <2>2, <3>2 DEF ValueInv
    <3>6. \A q \in Params(model) : value'[q] # "view"
      BY <1>3, <3>1, <3>5 DEF Marks
    <3> QED BY <1>1, <3>1, <3>4, <3>6 DEF TypeOK
  <2> QED BY <2>1, <2>2
<1>5. TypeOK'
  BY <1>1, <1>2, <1>3, <1>4 DEF TypeOK, Phase
<1>6. PhaseInv'
  BY <1>1, <1>2, <1>4 DEF PhaseInv
<1>7. ValueInv'
  BY <1>2, <1>3, <1>4 DEF ValueInv
<1> QED BY <1>2, <1>5, <1>6, <1>7 DEF LoadInv

LEMMA NextOK == LoadInv /\ [Next]_vars => LoadInv'
<1> SUFFICES ASSUME LoadInv, [Next]_vars PROVE LoadInv'
  OBVIOUS
<1>1. CASE FromGguf
  BY <1>1, FromGgufOK
<1>2. CASE BuildFails
  BY <1>2, BuildFailsOK
<1>3. CASE PlaceOn
  BY <1>3, PlaceOnOK
<1>4. CASE StartLoad
  BY <1>4, StartLoadOK
<1>5. CASE \E i \in 0..Len(model.kinds) : LoadPart(i) \/ LoadRaises(i)
  BY <1>5, LoadPartOK, LoadRaisesOK
<1>6. CASE Finish
  BY <1>6, FinishOK
<1>7. CASE Close
  BY <1>7, CloseOK
<1>8. CASE UNCHANGED vars
  <2>1. /\ model' = model /\ phase' = phase /\ at' = at /\ value' = value
        /\ mapping' = mapping /\ pending' = pending /\ marked' = marked /\ stops' = stops
        /\ raised' = raised
    BY <1>8 DEF vars
  <2>2. Params(model)' = Params(model)
    BY <2>1 DEF Params
  <2>3. TypeOK'
    BY <2>1, <2>2 DEF LoadInv, TypeOK
  <2>4. PhaseInv'
    BY <2>1 DEF LoadInv, PhaseInv
  <2>5. \A q : Filled(q)' <=> Filled(q)
    BY <2>1 DEF Filled
  <2>6. ValueInv'
    BY <2>1, <2>2, <2>5 DEF LoadInv, ValueInv
  <2> QED BY <2>1, <2>3, <2>4, <2>6 DEF LoadInv
<1> QED BY <1>1, <1>2, <1>3, <1>4, <1>5, <1>6, <1>7, <1>8 DEF Next

(* The inductive invariant. *)
THEOREM LoadInvariant == Spec => []LoadInv
<1> QED BY InitOK, NextOK, PTL DEF Spec
-----------------------------------------------------------------------------
(* When a forward may compute, a parameter that a load does not change in   *)
(* place holds what one load leaves in it.                                  *)
LEMMA ReadyHolds ==
  ASSUME LoadInv, phase = "ready", NEW q \in Params(model), ~ScaledInPlace(model, q)
  PROVE  value[q] = OneLoad(model, q)
<1>1. Filled(q)
  BY DEF Filled
<1> QED BY <1>1, Holding

(***************************************************************************)
(* Whatever the architecture, the mode, the number and the kinds of its    *)
(* layers, and however often a load was stopped before: once a forward may *)
(* compute, every parameter that a constructor allocated has been filled   *)
(* by its _materialize_weights, and no bias but qwen2's is lost            *)
(* (packed_weights.py, the fifteen architectures).                         *)
(***************************************************************************)
THEOREM WeightsAreTheFilesHolds == Spec => []WeightsAreTheFiles
<1>1. ASSUME LoadInv PROVE WeightsAreTheFiles
  <2> SUFFICES ASSUME phase = "ready"
               PROVE  \A q \in DOMAIN value :
                        LET p == q[2]
                        IN /\ p[2] # "inv_freq" =>
                                LostBias(model, q) \/ value[q] \in Kept \cup {"loaded"}
                           /\ p[2] = "inv_freq" /\ p[1] # "rope_global" => value[q] = "derived"
                           /\ p = <<"rope_global", "inv_freq">> =>
                                stops > 0 \/ value[q] = IF model.rope_freqs THEN "scaled" ELSE "derived"
    BY DEF WeightsAreTheFiles
  <2>1. model \in Models /\ DOMAIN value = Params(model) /\ stops \in Nat
    BY <1>1 DEF LoadInv, PhaseInv, TypeOK
  <2>2. ASSUME NEW q \in Params(model)
        PROVE  LET p == q[2]
               IN /\ p[2] # "inv_freq" => LostBias(model, q) \/ value[q] \in Kept \cup {"loaded"}
                  /\ p[2] = "inv_freq" /\ p[1] # "rope_global" => value[q] = "derived"
                  /\ p = <<"rope_global", "inv_freq">> =>
                       stops > 0 \/ value[q] = IF model.rope_freqs THEN "scaled" ELSE "derived"
    <3> DEFINE kind == KindOf(model, q[1])
               l == Loads(model, kind)
               t == q[2][1]
               x == q[2][2]
    <3>1. q[1] \in 0..Len(model.kinds) /\ q[2] \in Built(model, kind) /\ q[2] = <<t, x>>
      BY <2>1, ParamOf
    <3>2. Complete(model, kind) /\ KeepsBiases(model, kind) /\ RopeOK(model, kind)
      BY <2>1, <3>1, Contract DEF LoaderOK
    <3>3. ScaledInPlace(model, q) <=> /\ q[2] = <<"rope_global", "inv_freq">> /\ model.arch = "gemma4"
                                      /\ model.rope_freqs /\ kind = "top"
      BY <2>1, ScaledOf
    <3>4. ~ScaledInPlace(model, q) => value[q] = OneLoad(model, q)
      BY <1>1, ReadyHolds
    <3> HIDE DEF kind
    <3>5. CASE x # "inv_freq"
      <4>1. ~ScaledInPlace(model, q)
        BY <3>3, <3>5
      <4>2. q[2] \in l.copied \/ (x = "weight" /\ t \in Quantizable(l)) \/ (x = "bias" /\ t \in l.biased)
        BY <3>1, <3>2, <3>5 DEF Complete
      <4>3. value[q] \in Kept \cup {"loaded", "dropped"}
        BY <2>1, <3>4, <4>1, <4>2, OneLoadOf DEF kind
      <4>4. ASSUME value[q] = "dropped" PROVE LostBias(model, q)
        <5>1. x = "bias" /\ t \in l.projected /\ t \notin l.biased /\ Packs(model, t)
          BY <2>1, <3>4, <4>1, <4>4, OneLoadOf DEF kind
        <5>2. model.arch = "qwen2" /\ t = "attn_v"
          BY <3>1, <3>2, <5>1 DEF KeepsBiases
        <5> QED BY <3>1, <5>1, <5>2 DEF LostBias
      <4> QED BY <3>5, <4>3, <4>4
    <3>6. CASE x = "inv_freq"
      <4>1. q[2] \notin l.copied
        BY <3>1, <3>2, <3>6 DEF RopeOK
      <4>2. ~ScaledInPlace(model, q) => value[q] = "derived"
        BY <2>1, <3>4, <3>6, <4>1, OneLoadOf DEF kind
      <4>3. ScaledInPlace(model, q) /\ stops = 0 => value[q] = "scaled"
        BY <1>1, Holding DEF Filled
      <4>4. q[2] = <<"rope_global", "inv_freq">> => model.arch = "gemma4" /\ kind = "top"
        BY <3>1, <3>2 DEF RopeOK
      <4> QED BY <2>1, <3>1, <3>3, <3>6, <4>2, <4>3, <4>4
    <3> QED BY <3>5, <3>6
  <2> QED BY <2>1, <2>2
<1> QED BY <1>1, LoadInvariant, PTL

(***************************************************************************)
(* The memory guard's hand-made lists of suffixes (load_dtype.py) count a  *)
(* tensor at its packed size exactly if the model keeps it packed, for     *)
(* every set of tensors that have no kernel.                               *)
(***************************************************************************)
THEOREM EstimateMatchesLoadHolds == Spec => []EstimateMatchesLoad
<1>1. ASSUME LoadInv PROVE EstimateMatchesLoad
  <2> SUFFICES ASSUME phase = "ready", NEW q \in DOMAIN value, q[2][2] = "weight"
               PROVE  value[q] \in Kept <=> CountedPacked(model, q[2][1])
    BY DEF EstimateMatchesLoad
  <2>1. model \in Models /\ q \in Params(model)
    BY <1>1 DEF LoadInv, TypeOK
  <2> DEFINE kind == KindOf(model, q[1])
             t == q[2][1]
  <2>2. q[1] \in 0..Len(model.kinds) /\ q[2] \in Built(model, kind) /\ q[2] = <<t, "weight">>
    BY <2>1, ParamOf
  <2>3. ~ScaledInPlace(model, q)
    BY <2>1, <2>2, ScaledOf
  <2>4. Listed(model, kind)
    BY <2>1, <2>2, Contract DEF LoaderOK
  <2>5. value[q] \in Kept <=> t \in Quantizable(Loads(model, kind)) /\ Packs(model, t)
    BY <1>1, <2>1, <2>3, ReadyHolds, OneLoadOf
  <2>6. Packs(model, t) => model.arch \in QUANTIZED_NATIVE_WIRED_ARCHITECTURES
    BY <2>1, ModelsAssumption DEF Packs, Modes
  <2> HIDE DEF kind
  <2> QED BY <2>2, <2>4, <2>5, <2>6 DEF Listed, CountedPacked
<1> QED BY <1>1, LoadInvariant, PTL

(***************************************************************************)
(* The GGUF file stays mapped while a load is to come or a module looks    *)
(* into it, and no longer (base.py: close, _ensure_materialized).          *)
(***************************************************************************)
THEOREM MappedWhileNeededHolds == Spec => []MappedWhileNeeded
<1>1. ASSUME LoadInv PROVE MappedWhileNeeded
  <2>1. PhaseInv /\ ValueInv /\ phase \in Phase /\ DOMAIN value = Params(model)
    BY <1>1 DEF LoadInv, TypeOK
  <2>2. ASSUME NEW q \in DOMAIN value, value[q] = "view" PROVE mapping
    <3>1. CASE phase = "ready"
      <4>1. Marks(model, value)
        BY <2>2 DEF Marks
      <4> QED BY <2>1, <3>1, <4>1 DEF PhaseInv, ValueInv
    <3>2. CASE phase # "ready"
      BY <2>1, <2>2, <3>2 DEF PhaseInv, ValueInv, Phase
    <3> QED BY <3>1, <3>2
  <2> QED BY <2>1, <2>2 DEF MappedWhileNeeded, PhaseInv, ValueInv
<1> QED BY <1>1, LoadInvariant, PTL

(***************************************************************************)
(* The load that follows a stopped one leaves what a single load would     *)
(* have left and never fails, for every model but the three that the code  *)
(* mishandles (base.py, _ensure_materialized).                             *)
(***************************************************************************)
THEOREM StoppedLoadLeavesNoTraceHolds == Spec => []StoppedLoadLeavesNoTrace
<1>1. ASSUME LoadInv PROVE StoppedLoadLeavesNoTrace
  <2> SUFFICES ASSUME ~Mishandled(model)
               PROVE  ~raised /\ (phase = "ready" => \A q \in DOMAIN value : value[q] = OneLoad(model, q))
    BY DEF StoppedLoadLeavesNoTrace
  <2>1. model \in Models /\ DOMAIN value = Params(model) /\ ~raised
    BY <1>1 DEF LoadInv, TypeOK
  <2>2. ASSUME phase = "ready", NEW q \in Params(model) PROVE value[q] = OneLoad(model, q)
    <3>1. ~ScaledInPlace(model, q)
      BY <2>1, ScaledOf DEF Mishandled
    <3> QED BY <1>1, <2>2, <3>1, ReadyHolds
  <2> QED BY <2>1, <2>2
<1> QED BY <1>1, LoadInvariant, PTL
=============================================================================
