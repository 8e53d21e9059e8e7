------------------------------- MODULE PackedReads -------------------------------
(***************************************************************************)
(* The packed weights of a loaded model (WeightLoading) as its forwards    *)
(* read them (PackedBlocks): on the CPU a prompt through the strategy and  *)
(* each further token through the fused kernel, an embedding's rows        *)
(* through the strategy; on a device everything through torch.  (Where the *)
(* optional C kernels are in use they take the CPU's part.)                *)
(***************************************************************************)
EXTENDS WeightLoading, PackedBlocks

VARIABLE read       \* who read which format last, if the last step was a forward

(* A forward changes nothing: one is looked at between two other steps. *)
NoRead == [by |-> "nobody", format |-> "none"]
ReadInit == Init /\ read = NoRead
Holds(kinds) == phase = "ready" /\ \E q \in DOMAIN value : value[q] \in kinds

(* QuantizedLinear.forward: more than one token, or one. *)
Prefill(format) ==
  /\ Holds({"view", "rows"})
  /\ read' = [by |-> "strategy", format |-> format]
  /\ UNCHANGED vars
Decode(format) ==
  /\ Holds({"view", "rows"})
  /\ format \in DOMAIN GEMV_KERNELS
  /\ read' = [by |-> "kernel", format |-> format]
  /\ UNCHANGED vars

(* QuantizedEmbedding.forward: rows of a table, which is a view of the file. *)
EmbedRows(format) ==
  /\ phase = "ready"
  /\ \E q \in DOMAIN value : value[q] = "view" /\ q[2][1] \in {"token_embd", "per_layer_token_embd"}
  /\ read' = [by |-> "strategy", format |-> format]
  /\ UNCHANGED vars

(* DevicePackedLinear and DevicePackedEmbedding. *)
DeviceRows(format) ==
  /\ Holds({"moved"})
  /\ format \in DOMAIN TORCH_KERNELS
  /\ read' = [by |-> "torch", format |-> format]
  /\ UNCHANGED vars

ReadNext ==
  \/ Next /\ read' = NoRead
  \/ read = NoRead /\ \E format \in DOMAIN QuantStrategyRegistry :
       Prefill(format) \/ Decode(format) \/ EmbedRows(format) \/ DeviceRows(format)

ReadSpec == ReadInit /\ [][ReadNext]_<<vars, read>>
-----------------------------------------------------------------------------
(***************************************************************************)
(* Whoever reads a packed weight reads the same number: a reply's prompt   *)
(* (strategy) and its further tokens (kernel), and the same model on a     *)
(* device (torch), compute with the same weights.                          *)
(***************************************************************************)
KernelsAgree ==
  /\ read.by = "kernel" => read.format \in KernelAgrees
  /\ read.by = "torch" => read.format \in TorchAgrees

(***************************************************************************)
(* And that number is a whole block's: every output is written once, into  *)
(* memory that was not cleared, and every bit of the block belongs to one  *)
(* field.  The strategies step through a block by offsets of their own     *)
(* (iq2_family.py and iq1_family.py tell of two that were wrong, with the  *)
(* same mistake in the tests' reference).                                  *)
(***************************************************************************)
EveryBitOnce == read.by = "strategy" => read.format \in SoundFormats
=============================================================================
