---------------------------- MODULE PaxosEpochInv ----------------------------
(***************************************************************************)
(* The inductive invariant behind PaxosEpoch!Agreement: what every message *)
(* on the wire, every acceptor, every proposer and every queue of messages *)
(* to oneself guarantees.                                                  *)
(***************************************************************************)
EXTENDS PaxosEpoch

Quorum == {Q \in SUBSET Node : IsQuorum(Q)}

(* Voter a accepted b's proposal for slot s, and that was command c. *)
VotedFor(a, s, b, c) == Voted(a, s, b) /\ Proposed(s, b, c)

(* Voter a has not accepted anything for slot s under b, and never will. *)
WontVote(a, s, b) == ~Voted(a, s, b) /\ b \prec promised[a]

(* No command other than c was or will be chosen for s below ballot b. *)
SafeAt(s, b, c) ==
  \A d \in Ballot : d \prec b =>
    \E Q \in Quorum : \A a \in Q : WontVote(a, s, d) \/ VotedFor(a, s, d, c)

(* No command at all was or will be. *)
FreeAt(s, b) ==
  \A d \in Ballot : d \prec b => \E Q \in Quorum : \A a \in Q : WontVote(a, s, d)

(* A promise reports the last vote of its sender for slot s below its ballot. *)
Truthful(p, s) ==
  /\ p.acc[s].bal # ZERO => VotedFor(p.from, s, p.acc[s].bal, p.acc[s].cmd)
  /\ \A d \in Ballot : p.acc[s].bal \prec d /\ d \prec p.bal => ~Voted(p.from, s, d)

(* Node n knows that a command is chosen for s: it has it, or dropped it. *)
Known(n, s) == s < floor[n] \/ chosen[n][s] # None

PrepareInv(m) ==
  /\ m.bal[2] = m.from
  /\ \A s \in Slot : s < m.slot => Known(m.from, s)

(* Slots a campaigner knows to be chosen are not asked for (from_slot). *)
PromiseInv(m) ==
  /\ m.to = m.bal[2]
  /\ m.bal \preceq promised[m.from]
  /\ \A s \in Slot : Known(m.to, s) \/ Truthful(m, s)

AcceptInv(m) ==
  /\ m.bal[2] = m.from
  /\ m.bal \preceq promised[m.from]
  /\ SafeAt(m.slot, m.bal, m.cmd)
  /\ \A k \in msgs : k.type = "Accept" /\ k.bal = m.bal /\ k.slot = m.slot => k.cmd = m.cmd

AcceptedInv(m) ==
  /\ m.to = m.bal[2]
  /\ m.slot < floor[m.from] \/ m.bal \preceq accepted[m.from][m.slot].bal
  /\ \E c \in Cmd : Proposed(m.slot, m.bal, c)

CommitInv(m) == \E b \in Ballot : ChosenIn(m.slot, b, m.cmd)

MsgInv ==
  \A m \in msgs :
    /\ m.type = "Prepare" => PrepareInv(m)
    /\ m.type = "Promise" => PromiseInv(m)
    /\ m.type = "Accept" => AcceptInv(m)
    /\ m.type = "Accepted" => AcceptedInv(m)
    /\ m.type = "Commit" => CommitInv(m)

AcceptorInv ==
  \A a \in Node :
    /\ promised[a][1] <= maxRound[a]
    /\ \A s \in Slot :
         /\ accepted[a][s].bal \preceq promised[a]
         /\ accepted[a][s].bal # ZERO =>
              VotedFor(a, s, accepted[a][s].bal, accepted[a][s].cmd)

ReplicaInv ==
  \A n \in Node :
    /\ floor[n] <= nextSlot[n]
    /\ \A s \in Slot : s < nextSlot[n] => Known(n, s)
    /\ \A s \in Slot : chosen[n][s] # None => \E b \in Ballot : ChosenIn(s, b, chosen[n][s])

(* A candidate's own promise is saved before any answer to it counts. *)
CandidateInv(n) ==
  /\ \A m \in msgs : m.type = "Accept" => m.bal # prop[n].bal
  /\ \A p \in prop[n].promises : p \in msgs /\ p.type = "Promise" /\ p.bal = prop[n].bal
  /\ \/ prop[n].bal \preceq promised[n]
     \/ \E m \in local[n] : m.type = "Prepare" /\ m.bal = prop[n].bal

LeaderInv(n) ==
  /\ prop[n].bal \preceq promised[n]
  /\ \A s \in Slot : s >= prop[n].free =>
       /\ FreeAt(s, prop[n].bal)
       /\ \A m \in msgs : m.type = "Accept" /\ m.slot = s => m.bal # prop[n].bal
  /\ \A s \in Slot : prop[n].inflight[s] # None =>
       /\ Proposed(s, prop[n].bal, prop[n].inflight[s])
       /\ \A a \in prop[n].acks[s] : Voted(a, s, prop[n].bal)

ProposerInvAt(n) ==
  /\ prop[n].role # "follower" => prop[n].bal[2] = n /\ prop[n].bal[1] <= maxRound[n]
  /\ prop[n].role = "candidate" => CandidateInv(n)
  /\ prop[n].role = "leader" => LeaderInv(n)
ProposerInv == \A n \in Node : ProposerInvAt(n)

LocalInv ==
  \A n \in Node :
    /\ \A m \in local[n] : m \in msgs /\ m.from = n /\ m.to = n
    /\ \A m \in local[n] : m.type = "Prepare" => local[n] = {m}

(* Voter a accepted for slot s under a ballot above e and below b. *)
VotedBetween(a, s, e, b) == \E d \in Ballot : e \prec d /\ d \prec b /\ Voted(a, s, d)

(* A promise node n may give for m leaves out no vote, made below m's ballot, *)
(* in a slot that it is asked for and has dropped.  Without compaction every *)
(* floor is 0; with it, Acceptor.prepare makes no check.                     *)
Candid(n, m) ==
  m.type = "Prepare" =>
    \/ m.bal \prec promised[n]
    \/ \A s \in Slot : m.slot <= s /\ s < floor[n] =>
         ~VotedBetween(n, s, accepted[n][s].bal, m.bal)

IInv == TypeOK /\ MsgInv /\ AcceptorInv /\ ReplicaInv /\ ProposerInv /\ LocalInv
=============================================================================
