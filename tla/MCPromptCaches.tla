---------------------------- MODULE MCPromptCaches ----------------------------
(***************************************************************************)
(* Instances of PromptCaches for TLC: a chat, its continuation, a branch   *)
(* of it and the chat with its oldest message trimmed.                     *)
(***************************************************************************)
EXTENDS PromptCaches, TLC

CONSTANTS n1, n2, r1, r2, r3, chat

Turn == [ids |-> <<1, 2, 3>>, tag |-> chat, ctx |-> 6]
NextTurn == [ids |-> <<1, 2, 3, 4, 5>>, tag |-> chat, ctx |-> 6]
Branch == [ids |-> <<1, 2, 6, 7>>, tag |-> chat, ctx |-> 5]
TrimmedTurn == [ids |-> <<1, 3, 4, 8>>, tag |-> chat, ctx |-> 6]
MCRequest == {Turn, NextTurn, Branch, TrimmedTurn}
MCSaved == {NextTurn}

(* A smaller search: while replies can go on, those of one node do, before *)
(* other nodes, the writers and the forget calls move.  These read the     *)
(* directory and the head of a queue, a reply extends its own pool and the *)
(* end of its queue, so the steps commute.                                 *)
Going == {r \in Reply : reply[r].at = "claimed" \/ (InUse(r) /\ ~Locked(reply[r].node))}
RepliesFirst ==
  Going # {} => LET n == CHOOSE m \in Node : \E r \in Going : reply[r].node = m
                IN \/ pool'[n] # pool[n]
                   \/ \E r \in Reply : reply'[r] # reply[r] /\ reply'[r].node = n

(* Bounds: a cache that cannot be shifted differs from a plain one in what  *)
(* replies do to it only, so no administration call comes between them; and *)
(* to a hybrid one a trimmed prompt is but another branch.                  *)
RigidUndisturbed == kind = "rigid" => history'.admin = 0
HybridUntrimmed == Hybrid => \A r \in Reply : reply'[r].ask # TrimmedTurn
MCSpec == Init /\ [][Next /\ RepliesFirst /\ RigidUndisturbed /\ HybridUntrimmed]_vars
Symmetry == Permutations(Reply)
=============================================================================
