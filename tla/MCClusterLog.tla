----------------------------- MODULE MCClusterLog -----------------------------
(***************************************************************************)
(* ClusterLog for TLC: five settings, with two threads each.               *)
(***************************************************************************)
EXTENDS ClusterLog

CONSTANTS n1, n2, n3, c1, c2

Job(kind, node) == [kind |-> kind, node |-> node, who |-> n3]
Renewals(node) == [Job("lease", node) EXCEPT !.who = node]
MCSkew == [n \in Node |-> IF n = n2 THEN 1 ELSE 0]
MCWork(first, second) == [c \in Call |-> IF c = c1 THEN first ELSE second]

(* The lease: two nodes want it.  A removal on purpose and the keeper.  A  *)
(* voter added while another is removed.  One node taken out twice.  A     *)
(* group forced in the middle.                                             *)
MCPlan(nodes, genesis, work) ==
  [nodes |-> nodes, genesis |-> genesis, work |-> work, skew |-> MCSkew,
   force |-> FALSE, repeats |-> 0, until |-> 0]
MCPlans ==
  { [MCPlan({n1, n2}, {n1, n2}, MCWork(Renewals(n1), Renewals(n2))) EXCEPT !.until = 2],
    [MCPlan({n1, n2, n3}, {n1, n2, n3}, MCWork(Job("leave", n1), Job("keep", n2))) EXCEPT !.repeats = 1],
    [MCPlan({n1, n2, n3}, {n1, n2}, MCWork(Job("add", n1), [Job("remove", n2) EXCEPT !.who = n1]))
       EXCEPT !.repeats = 1],
    MCPlan({n1, n3}, {n1, n3}, MCWork(Job("leave", n1), Job("leave", n3))),
    [MCPlan({n1, n2}, {n1, n2}, MCWork(Renewals(n1), [Job("remove", n1) EXCEPT !.who = n2]))
       EXCEPT !.force = TRUE, !.until = 1] }
=============================================================================
