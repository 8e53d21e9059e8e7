------------------------------ MODULE MCChatReply ------------------------------
(***************************************************************************)
(* ChatReply for TLC: three stacks of layers with few tokens, and the      *)
(* texts of four tool-call formats with one reply's many.                  *)
(***************************************************************************)
EXTENDS ChatReply, TLC

CONSTANTS r1, r2, r3

Global == [kind |-> "attention", window |-> 0]
Sliding == [kind |-> "attention", window |-> 2]
Mamba == [kind |-> "recurrent", window |-> 0]
MLP == [kind |-> "mlp", window |-> 0]

Prompts(p1, p2, p3) == [r \in Reply |-> CASE r = r1 -> p1 [] r = r2 -> p2 [] r = r3 -> p3]
Stack(layers, own, hybrid, batches, names) ==
  [layers |-> layers, own |-> own, hybrid |-> hybrid, batches |-> batches, faults |-> TRUE, requests |-> Reply,
   prompt |-> Prompts(<<"a", "a", "b">>, <<"a", "b">>, <<"a", "a", "b", "a">>),
   predict |-> 2, tokens |-> names,
   bytes |-> [token \in names |-> <<"t">>], format |-> NoTools]

(* Gemma: keys of the last two of its own layers, borrowed by the rest. *)
(* Qwen3.5, batched, and Nemotron-H, not.                               *)
Stacks == { Stack(<<Sliding, Global, Sliding, Global>>, 2, FALSE, TRUE, {"a"}),
            Stack(<<Mamba, Global>>, 2, TRUE, TRUE, {"a", "b"}),
            Stack(<<Mamba, MLP, Global>>, 3, TRUE, FALSE, {"a"}) }

(* Pieces of text, by name. *)
Pieces == ("<" :> <<"<">>) @@ ("|" :> <<"|">>) @@ ("<|" :> <<"<", "|">>) @@ ("|>" :> <<"|", ">">>) @@ (">" :> <<">">>)
  @@ ("t" :> <<"t">>) @@ (" " :> <<" ">>) @@ ("{}" :> <<"{}">>) @@ ("[" :> <<"[">>)
  @@ ("e1" :> <<Lead>>) @@ ("e2" :> <<Follow>>) @@ ("bad" :> <<Bad>>)
Text(format, names) ==
  [layers |-> <<Global>>, own |-> 1, hybrid |-> FALSE, batches |-> FALSE, faults |-> FALSE, requests |-> {r1},
   prompt |-> Prompts(<<"a">>, <<"a">>, <<"a">>), predict |-> 6, tokens |-> names,
   bytes |-> Pieces, format |-> format]
Texts == { Text(NoTools, {"<|", "|>", "t", "e1", "e2", "bad"}),
           Text(NoTools, {"<", "|", ">", "t", "<|", "|>"}),
           Text(Tagged, {"<", "t", ">", "{}", "|", "|>"}),
           Text(Gemma, {"<", "|", "t", ">", "{}", "|>"}),
           Text(BareJson, {" ", "{}", "[", "<|", "t", "|>"}) }
MCPlans == Stacks \cup Texts
=============================================================================
