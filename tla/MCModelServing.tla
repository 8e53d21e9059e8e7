---------------------------- MODULE MCModelServing ----------------------------
(***************************************************************************)
(* Instances of ModelServing for TLC: two models, a chat and an embedding  *)
(* (of the same or of different models), room for one model.               *)
(***************************************************************************)
EXTENDS ModelServing

CONSTANTS a, b, chat, embed, stop

(* A smaller search: a round that is over ends before anything else moves. *)
(* The step touches only what its own worker reads, so it commutes with    *)
(* the steps of every other thread.                                        *)
RoundOver == {h \in Handle : worker[h].phase = "advance" /\ worker[h].todo = {}}
RoundsFirst == RoundOver # {} => \E h \in RoundOver : worker'[h] # worker[h]

(* The two models are alike: a is the one that the chat asks for. *)
ChatAsksA == call'[chat].tag # b

MCSpec == Init /\ [][Next /\ RoundsFirst /\ ChatAsksA]_vars /\ Fairness
=============================================================================
