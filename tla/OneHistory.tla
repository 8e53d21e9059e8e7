------------------------------ MODULE OneHistory ------------------------------
(***************************************************************************)
(* What the replicated log promises the rest of the server, whoever votes  *)
(* and however often a command is proposed: every command takes effect at  *)
(* most once, with one result, in one order, and each node has gone        *)
(* through a prefix of that order.  Only an operator who forces a new      *)
(* group from one survivor may lose the end of it.                         *)
(***************************************************************************)
EXTENDS Naturals, Sequences

CONSTANTS Node, Effect  \* an effect is a record with the command's id and its result

VARIABLES
  history,  \* the effects so far: a sequence
  passed,   \* [Node -> the effects it has gone through]
  forced    \* a new group has been forced

Init == history = << >> /\ passed = [n \in Node |-> << >>] /\ forced = FALSE

(* The first node to get there extends the history, by a new command. *)
Extend(n) ==
  /\ passed[n] = history
  /\ \E effect \in Effect :
       /\ \A i \in DOMAIN history : history[i].id # effect.id
       /\ history' = Append(history, effect)
       /\ passed' = [passed EXCEPT ![n] = history']
  /\ UNCHANGED forced

Follow(n) ==
  /\ Len(passed[n]) < Len(history)
  /\ passed' = [passed EXCEPT ![n] = SubSeq(history, 1, Len(passed[n]) + 1)]
  /\ UNCHANGED <<history, forced>>

(* The survivor n goes on alone. *)
Force(n) ==
  /\ ~forced /\ forced' = TRUE
  /\ history' = passed[n] /\ passed' = [m \in Node |-> IF m = n THEN passed[n] ELSE << >>]

Next == \E n \in Node : Extend(n) \/ Follow(n) \/ Force(n)
Spec == Init /\ [][Next]_<<history, passed, forced>>
=============================================================================
