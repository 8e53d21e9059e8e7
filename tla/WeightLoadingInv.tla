--------------------------- MODULE WeightLoadingInv ---------------------------
(***************************************************************************)
(* What the loads of WeightLoading rely on: what every architecture's      *)
(* loader owes to its constructor and to the memory guard's list, and the  *)
(* inductive invariant behind the properties of that module.               *)
(***************************************************************************)
EXTENDS WeightLoading

Quantizable(l) == l.projected \cup l.embedded \cup l.experts    \* what may stay packed

(***************************************************************************)
(* The contract between an architecture's __init__ and its                 *)
(* _materialize_weights, for the part of a model that is of one kind.      *)
(***************************************************************************)
NamesOK(m, kind) ==
  /\ \A p \in Built(m, kind) : p = <<p[1], p[2]>>
  /\ Loads(m, kind).copied \subseteq Built(m, kind)
  /\ \A t \in Loads(m, kind).typed : m.arch = "mistral3" /\ t = "token_embd"
                                     /\ <<t, "weight">> \in Built(m, kind)

(* Nothing that is allocated is left as it was. *)
Complete(m, kind) ==
  \A t, x : <<t, x>> \in Built(m, kind) /\ x # "inv_freq" =>
    LET l == Loads(m, kind)
    IN \/ <<t, x>> \in l.copied
       \/ x = "weight" /\ t \in Quantizable(l)
       \/ x = "bias" /\ t \in l.biased

(* No bias goes with a projection that is replaced, but qwen2's. *)
KeepsBiases(m, kind) ==
  \A t : LET l == Loads(m, kind)
         IN <<t, "bias">> \in Built(m, kind) /\ t \in l.projected =>
              t \in l.biased \/ (m.arch = "qwen2" /\ t = "attn_v")

(* The rope's frequencies are not in the file; gemma4's factors for them are. *)
RopeOK(m, kind) ==
  LET l == Loads(m, kind)
  IN /\ \A t : <<t, "inv_freq">> \notin l.copied
     /\ \A t, x : <<t, x>> \in l.scaled <=> /\ <<t, x>> = <<"rope_global", "inv_freq">>
                                            /\ m.arch = "gemma4" /\ m.rope_freqs /\ kind = "top"
     /\ l.scaled # {} => m.arch = "gemma4" /\ m.rope_freqs /\ kind = "top"
     /\ <<"rope_global", "inv_freq">> \in Built(m, kind) => m.arch = "gemma4" /\ kind = "top"

(* The memory guard's suffixes name what is loaded packed, and only that. *)
Listed(m, kind) ==
  m.arch \in QUANTIZED_NATIVE_WIRED_ARCHITECTURES =>
    \A t : <<t, "weight">> \in Built(m, kind) =>
      (t \in Quantizable(Loads(m, kind)) <=> \E s \in Suffixes(m.arch) : EndsWith(t, s))

LoaderOK(m, kind) ==
  /\ NamesOK(m, kind) /\ Complete(m, kind) /\ KeepsBiases(m, kind)
  /\ RopeOK(m, kind) /\ Listed(m, kind)
-----------------------------------------------------------------------------
Value == {"unset", "derived", "scaled", "rescaled", "loaded", "view", "rows", "moved", "dropped",
          "released"}
Phase == {"opened", "built", "placed", "ready", "dropped", "closed"}
TypeOK ==
  /\ model \in Models
  /\ phase \in Phase
  /\ at \in 0..(Len(model.kinds) + 2)
  /\ value \in [Params(model) -> Value]
  /\ mapping \in BOOLEAN /\ pending \in BOOLEAN /\ marked \in BOOLEAN /\ raised \in BOOLEAN
  /\ stops \in 0..MaxStops

(* What a parameter holds before a load, and after one; and the buffers     *)
(* that a load changes in place.                                            *)
Base(q) == IF q[2][2] = "inv_freq" THEN "derived" ELSE "unset"
ScaledInPlace(m, q) == q[2] \in Loads(m, KindOf(m, q[1])).scaled
Filled(q) == phase = "ready" \/ q[1] + 1 < at

PhaseInv ==
  /\ at # Idle => phase = "placed"
  /\ pending <=> phase \in {"built", "placed"}
  /\ phase \in {"opened", "built"} => ~marked /\ ~raised /\ stops = 0
  /\ phase \in {"opened", "built", "placed"} => mapping
  /\ phase = "ready" => mapping = marked
  /\ phase \in {"dropped", "closed"} => ~mapping

(* A load leaves in a parameter what one load of an untouched model leaves, *)
(* however often it was stopped and begun again; a buffer scaled in place   *)
(* remembers how often.                                                     *)
ValueInv ==
  /\ phase = "opened" => \A q \in Params(model) : value[q] = "unset"
  /\ phase = "built" => \A q \in Params(model) : value[q] = Base(q)
  /\ phase \in {"placed", "ready"} =>
       \A q \in Params(model) :
         /\ ~ScaledInPlace(model, q) =>
              value[q] \in {OneLoad(model, q)} \cup IF Filled(q) THEN {} ELSE {Base(q)}
         /\ ScaledInPlace(model, q) => value[q] \in {"derived", "scaled", "rescaled"}
         /\ ScaledInPlace(model, q) /\ stops = 0 =>
              value[q] = IF Filled(q) THEN "scaled" ELSE "derived"
  /\ phase \in {"placed", "ready"} => (marked <=> Marks(model, value))
  /\ phase \in {"dropped", "closed"} => \A q \in Params(model) : value[q] # "view"

LoadInv ==
  /\ TypeOK
  /\ PhaseInv
  /\ ValueInv
  /\ ~Mishandled(model) => ~raised
=============================================================================
