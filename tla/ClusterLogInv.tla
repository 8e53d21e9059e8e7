----------------------------- MODULE ClusterLogInv -----------------------------
(***************************************************************************)
(* What the control plane of ClusterLog relies on: the type of every       *)
(* variable, and the inductive invariants behind ToldIsTrue,               *)
(* OneLeaseHolder and the refinement of OneHistory.                        *)
(***************************************************************************)
EXTENDS ClusterLog

CommandId == (Call \X (1..MaxTries)) \cup (Node \X {0})
Lease == [holder : Node \cup {None}, expires : Nat]
CommandSet ==
  [id : CommandId, op : {"voters", "lease", "marks"}, epoch : Nat, members : SUBSET Node,
   marks : SUBSET Node, expected : Lease, value : Lease]
Replica ==
  [epoch : Nat, slot : Nat, members : SUBSET Node, lease : Lease, removed : SUBSET Node,
   results : Seq(Effects), passed : Seq(Effects)]
Place == {"new", "waiting", "between", "looking", "marking", "changing", "changed", "added", "ended"}
Thread ==
  [at : Place, then : Place, tries : Nat, id : CommandId \cup {None}, told : Effects \cup {None},
   adds : SUBSET Node, drops : SUBSET Node, replaces : SUBSET Node, before : SUBSET Node,
   marked : BOOLEAN, ok : BOOLEAN, epoch : Nat]

TypeOK ==
  /\ plan \in Plans
  /\ log \in Seq(Seq(CommandSet)) /\ sent \in SUBSET CommandSet
  /\ at \in [Node -> Replica]
  /\ call \in [Call -> Thread]
  /\ now \in Nat /\ lost \in SUBSET Node

(* A lease A that a node saw was given up, by its holder or by the clock,  *)
(* before B took its place; and no lease runs longer than TTL.             *)
Over(A) == \E k \in Node : A.expires <= Clock(k)
Later(A, B) ==
  \/ A = B \/ A.holder = None \/ Over(A)
  \/ A.holder = B.holder /\ A.expires <= B.expires
Timely(A) == A.holder # None => A.expires <= Clock(A.holder) + TTL

(* A lease command is sent by a node whose copy said so; only nodes of the *)
(* setting are ever voters.                                                *)
CommandOK(c) ==
  /\ c.members \subseteq plan.nodes
  /\ c.op = "lease" => Later(c.expected, c.value) /\ Timely(c.value)
CommandInv ==
  /\ \A c \in sent : CommandOK(c)
  /\ \A e \in DOMAIN log : \A i \in DOMAIN log[e] : CommandOK(log[e][i])
MemberInv ==
  /\ \A n \in Node : at[n].members \subseteq plan.nodes
  /\ \A c \in Call : call[c].adds \subseteq plan.nodes

(* What a thread was told, its node has gone through. *)
ToldInv ==
  \A c \in Call : Alive(c) /\ call[c].told # None => call[c].told \in ToSet(View(c).passed)

(* The results a replica remembers are those of commands that took effect: *)
(* of all of them, until there are too many.                               *)
ResultsOK(r) ==
  /\ ToSet(r.results) \subseteq ToSet(r.passed)
  /\ Len(r.passed) <= Remembered => r.results = r.passed

-----------------------------------------------------------------------------
(***************************************************************************)
(* The one way through the logs: a sequence T of replica states, from the  *)
(* first, each with one more chosen command taken in than the one before.  *)
(* Every node that is there is in one of them, one node in the last.       *)
(***************************************************************************)
State(r) == [r EXCEPT !.members = {}]     \* a learner starts out knowing no voters
First == State(NewReplica(None, {}))
At(r) == log[r.epoch + 1]                 \* the commands of the epoch it is in

Before(r, s) == r.epoch < s.epoch \/ (r.epoch = s.epoch /\ r.slot < s.slot)
Prefix(s, t) == Len(s) <= Len(t) /\ \A i \in 1..Len(s) : s[i] = t[i]

WayType(T) == T \in Seq(Replica) /\ T # << >> /\ T[1] = First
WayInLog(T) == \A i \in 1..Len(T) : T[i].epoch < Len(log) /\ T[i].slot <= Len(At(T[i]))
WaySteps(T) ==
  \A i \in 1..Len(T) - 1 :
    /\ T[i].slot < Len(At(T[i]))
    /\ T[i + 1] = State(Advanced(T[i], At(T[i])[T[i].slot + 1]))
WayOrder(T) ==
  \A i, j \in 1..Len(T) : i < j =>
    /\ Before(T[i], T[j]) /\ Prefix(T[i].passed, T[j].passed) /\ Later(T[i].lease, T[j].lease)
WayStates(T) == \A i \in 1..Len(T) : ResultsOK(T[i]) /\ Timely(T[i].lease)
WayNodes(T) ==
  /\ \A n \in Node \ lost : \E i \in 1..Len(T) : State(at[n]) = T[i]
  /\ \E n \in Node \ lost : State(at[n]) = T[Len(T)]
Way(T) ==
  WayType(T) /\ WayInLog(T) /\ WaySteps(T) /\ WayOrder(T) /\ WayStates(T) /\ WayNodes(T)

Inv == TypeOK /\ CommandInv /\ MemberInv /\ ToldInv /\ \E T : Way(T)

(* No replica has gone through more commands than it remembers the results *)
(* of (10,000 in the code).                                                *)
Short == \A n \in Node : Len(at[n].passed) <= Remembered
=============================================================================
