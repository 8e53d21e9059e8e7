---------------------------- MODULE MCModelLibrary ----------------------------
(***************************************************************************)
(* ModelLibrary for TLC: a pull, then another or a copy of the model to    *)
(* the alias x, then a third pull or a request that may remove something.  *)
(***************************************************************************)
EXTENDS ModelLibrary

CONSTANTS A, x, p, q, r, n1, n2

Pull == [kind |-> "pull", tag |-> A]
Delete(name) == [kind |-> "delete", tag |-> name]
Copy(from, name) == [kind |-> "copy", from |-> from, tag |-> name]

MCAsked ==
  [j \in Job |->
     CASE j = p -> {Pull}
       [] j = q -> {Pull, Delete(A), Copy(A, x)}
       [] j = r -> {Pull, Delete(A), Delete(x), Copy(A, x), Copy(x, A)}]

(* Bound: the requests come in this order; they overlap in every way.      *)
InOrder == /\ Begin(q) => req[p].at # "new"
           /\ Begin(r) => req[q].at # "new"
(* A smaller search: resolving touches nothing that others see.            *)
ResolvedFirst ==
  LET resolving == {j \in Job : req[j].at = "resolving"}
  IN resolving # {} => \E j \in resolving : req'[j] # req[j]
(* Bound: of a file only the last chunk is damaged.                        *)
LastDamaged ==
  \A j \in Job, b \in 1..Blocks : data'[j][b] = "bad" => b = Blocks
MCSpec == Init /\ holder = n1 /\ [][Next /\ InOrder /\ LastDamaged /\ ResolvedFirst]_vars /\ Fairness
=============================================================================
