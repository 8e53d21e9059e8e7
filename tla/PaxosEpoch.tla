------------------------------ MODULE PaxosEpoch ------------------------------
(***************************************************************************)
(* One epoch of the control plane's Multi-Paxos (app/consensus): a fixed   *)
(* set of voters, each at once acceptor (acceptor.py), campaigner and      *)
(* leader (proposer.py, roles.py) and replica of the chosen log            *)
(* (replica.py), exchanging messages through node.py.                      *)
(*                                                                         *)
(* Durable state is what storage.py writes before a reply leaves the node: *)
(* promised, accepted, chosen.  A crash loses everything else, and also    *)
(* `local`, the messages a node has sent to itself and not yet handled     *)
(* (PaxosNode._local): a handler's messages to other nodes are on the wire *)
(* before its messages to itself are drained, and a crash may fall in      *)
(* between.                                                                *)
(*                                                                         *)
(* The network never forgets: `msgs` only grows, and every message in it   *)
(* can be handled at any time, any number of times or never (loss,         *)
(* duplication, delay and reordering).  Sending the same message again is  *)
(* therefore not a step of its own.                                        *)
(***************************************************************************)
EXTENDS Integers, FiniteSets

CONSTANTS
  Node,        \* the voters of the epoch; ids are compared, so they are numbers
  Command,     \* what clients may submit, one value per cmd_id
  NOOP,        \* the command that fills a gap
  None,        \* no command
  LastSlot,    \* bound: slots 0..LastSlot exist
  MaxRound,    \* bound: campaigns use rounds 1..MaxRound
  MaxCrashes,  \* bound: crashes in a behaviour
  Events       \* bound: what may happen at which node: the timers that fire, the calls
               \* that come, the crashes, and the message types that get through

ASSUME NodeAssumption == Node \subseteq Nat \ {0} /\ IsFiniteSet(Node)
ASSUME CommandAssumption == NOOP \notin Command /\ None \notin Command \cup {NOOP}
ASSUME BoundAssumption == LastSlot \in Nat /\ MaxRound \in Nat /\ MaxCrashes \in Nat
ASSUME EventAssumption == Events \subseteq STRING \X Node

Slot == 0..LastSlot
Cmd == Command \cup {NOOP}

(* Ballots: (round, node id) pairs in lexicographic order.  ZERO comes first *)
(* and is no one's; a node campaigns and leads under a Bid.                  *)
ZERO == <<0, 0>>
Bid == (1..MaxRound) \X Node
Ballot == {ZERO} \cup Bid
b1 \prec b2 == b1[1] < b2[1] \/ (b1[1] = b2[1] /\ b1[2] < b2[2])
b1 \preceq b2 == b1 \prec b2 \/ b1 = b2
LaterRound(i, j) == IF i < j THEN j ELSE i

(* Mutant of IsQuorum: half of the voters are taken for a majority. *)
HalfIsQuorum(S) == Cardinality(S) >= Cardinality(Node) \div 2
(* quorum_size: a strict majority. *)
IsQuorum(S) == Cardinality(S) >= Cardinality(Node) \div 2 + 1

(* What an acceptor holds for a slot; bal = ZERO when it accepted nothing. *)
Entry == [bal : Ballot, cmd : Cmd]
NoEntry == [bal |-> ZERO, cmd |-> NOOP]

PromiseMessage ==
  [type : {"Promise"}, from : Node, to : Node, bal : Bid, acc : [Slot -> Entry]]
Message ==
       PromiseMessage
  \cup [type : {"Prepare"}, from : Node, to : Node, bal : Bid, slot : 0..LastSlot + 1]
  \cup [type : {"Accept"}, from : Node, to : Node, bal : Bid, slot : Slot, cmd : Cmd]
  \cup [type : {"Accepted"}, from : Node, to : Node, bal : Bid, slot : Slot]
  \cup [type : {"Nack"}, from : Node, to : Node, bal : Bid, promised : Ballot]
  \cup [type : {"Commit"}, from : Node, to : Node, slot : Slot, cmd : Cmd]
  \cup [type : {"Heartbeat"}, from : Node, to : Node, bal : Bid, slot : 0..LastSlot + 1]
  \cup [type : {"CatchUp"}, from : Node, to : Node, slot : 0..LastSlot + 1]
  \cup [type : {"Forward"}, from : Node, to : Node, cmd : Command]
  \cup [type : {"Snapshot"}, from : Node, to : Node,         \* sent in PaxosCompaction
         slot : 0..LastSlot + 1, results : SUBSET Command]

VARIABLES
  promised, accepted, chosen,         \* durable (storage.py), per node
  nextSlot, results,                  \* Replica.next_slot, the cmd_ids of Replica._results
  floor,                              \* Acceptor.floor: raised by compaction only
  maxRound, prop,                     \* PaxosNode._max_round; role, campaign and leadership
  leader, leaderBallot,               \* whom the node follows
  pending, local,                     \* PendingCommands; PaxosNode._local
  msgs,                               \* every message ever sent, to oneself included
  submitted, crashes                  \* commands clients submitted; crashes so far

durable == <<promised, accepted, chosen>>
replica == <<chosen, nextSlot, results>>
follow == <<leader, leaderBallot>>
env == <<submitted, crashes>>
vars == <<promised, accepted, chosen, nextSlot, results, floor, maxRound, prop,
          leader, leaderBallot, pending, local, msgs, submitted, crashes>>

(***************************************************************************)
(* prop[n] is the proposer half of node n: its role and own ballot, the    *)
(* promises of its campaign (at most one per sender), and of a leadership  *)
(* the next free slot, the commands in flight, who accepted each, and      *)
(* every command proposed.                                                 *)
(***************************************************************************)
Idle == [s \in Slot |-> None]
NoAcks == [s \in Slot |-> {}]
Fresh(role, b) == [role |-> role, bal |-> b, promises |-> {}, free |-> 0,
                   inflight |-> Idle, acks |-> NoAcks, ids |-> {}]
Follower == Fresh("follower", ZERO)
Candidate(b) == Fresh("candidate", b)
Proposer ==
  {Follower} \cup
  [role : {"candidate", "leader"}, bal : Bid, promises : SUBSET PromiseMessage,
   free : 0..LastSlot + 1, inflight : [Slot -> Cmd \cup {None}],
   acks : [Slot -> SUBSET Node], ids : SUBSET Cmd]

Init ==
  /\ promised = [n \in Node |-> ZERO]
  /\ accepted = [n \in Node |-> [s \in Slot |-> NoEntry]]
  /\ chosen = [n \in Node |-> Idle]
  /\ nextSlot = [n \in Node |-> 0]
  /\ results = [n \in Node |-> {}]
  /\ floor = [n \in Node |-> 0]
  /\ maxRound = [n \in Node |-> 0]
  /\ prop = [n \in Node |-> Follower]
  /\ leader = [n \in Node |-> 0]
  /\ leaderBallot = [n \in Node |-> ZERO]
  /\ pending = [n \in Node |-> {}]
  /\ local = [n \in Node |-> {}]
  /\ msgs = {}
  /\ submitted = {}
  /\ crashes = 0

-----------------------------------------------------------------------------
(* Sending and delivery *)

(* Node n is done with the messages `done` of its own queue and sends `out`; *)
(* what it sends to itself joins the queue.                                  *)
Send(n, done, out) ==
  /\ msgs' = msgs \cup out
  /\ local' = [local EXCEPT ![n] = (@ \ done) \cup {m \in out : m.to = n}]

(* An outside event the instance explores hits node n between two handlers. *)
Event(e, n) == <<e, n>> \in Events /\ local[n] = {}

(* m may be the next message node n handles: its queue of messages to itself *)
(* is emptied before a message of another node, or a timer, gets its turn.   *)
Handles(n, m) ==
  \/ m \in local[n]
  \/ m \in msgs /\ m.to = n /\ m.from # n /\ Event(m.type, n)

ToAll(n, m) == {[m EXCEPT !.to = k] : k \in Node}

Prepare(n, b, from) ==
  [type |-> "Prepare", from |-> n, to |-> n, bal |-> b, slot |-> from]
Promise(n, b, acc) ==
  [type |-> "Promise", from |-> n, to |-> b[2], bal |-> b, acc |-> acc]
Accept(n, b, s, c) ==
  [type |-> "Accept", from |-> n, to |-> n, bal |-> b, slot |-> s, cmd |-> c]
Accepted(n, b, s) ==
  [type |-> "Accepted", from |-> n, to |-> b[2], bal |-> b, slot |-> s]
Nack(n, b) ==
  [type |-> "Nack", from |-> n, to |-> b[2], bal |-> b, promised |-> promised[n]]
Commit(n, k, s, c) ==
  [type |-> "Commit", from |-> n, to |-> k, slot |-> s, cmd |-> c]
Heartbeat(n, b, next) ==
  [type |-> "Heartbeat", from |-> n, to |-> n, bal |-> b, slot |-> next]
CatchUp(n, k, from) ==
  [type |-> "CatchUp", from |-> n, to |-> k, slot |-> from]
Forward(n, k, c) ==
  [type |-> "Forward", from |-> n, to |-> k, cmd |-> c]

(* The commands node n keeps retrying (PendingCommands.open). *)
Open(n) == pending[n] \ results[n]

(* Replica._advance: node n applies the known slots from `from` on up to the *)
(* first unknown one, k; a command counts once, the filler not at all.       *)
OneStep(n, from, k) ==                                  (* Mutant of AppliesUpTo *)
  k = IF from \in Slot /\ chosen'[n][from] # None THEN from + 1 ELSE from
AppliesUpTo(n, from, k) ==
  /\ \A t \in from..k - 1 : chosen'[n][t] # None
  /\ k \in Slot => chosen'[n][k] = None
Applied(n, from, k) == {chosen'[n][t] : t \in from..k - 1} \ {NOOP}

(***************************************************************************)
(* Replica.commit: command c is chosen for slot s.  A known slot is left   *)
(* alone (a different command there would raise SafetyViolation);          *)
(* otherwise it is stored, and what has become contiguous is applied.      *)
(***************************************************************************)
Learn(n, s, c) ==
  \/ /\ chosen[n][s] # None \/ s < nextSlot[n]
     /\ UNCHANGED replica
  \/ /\ chosen[n][s] = None /\ s >= nextSlot[n]
     /\ chosen' = [chosen EXCEPT ![n][s] = c]
     /\ \E k \in nextSlot[n]..LastSlot + 1 :
          /\ AppliesUpTo(n, nextSlot[n], k)
          /\ nextSlot' = [nextSlot EXCEPT ![n] = k]
          /\ results' = [results EXCEPT ![n] = @ \cup Applied(n, nextSlot[n], k)]

(* _own_ballot: another node's ballot above n's own ends n's bid. *)
NeverOutranked(n, b, from) == FALSE                       (* Mutant of Outranked *)
Outranked(n, b, from) == from # n /\ prop[n].bal \prec b

(***************************************************************************)
(* LeaderRole._heard_leader: a ballot not below the one followed names the *)
(* leader; hearing another node's higher ballot ends one's own candidacy   *)
(* or leadership; a change of leader forwards it the open commands.        *)
(***************************************************************************)
HeardLeader(n, b, from) ==
  \/ /\ b \prec leaderBallot[n]
     /\ UNCHANGED <<prop, leader, leaderBallot>>
  \/ /\ leaderBallot[n] \preceq b
     /\ leaderBallot' = [leaderBallot EXCEPT ![n] = b]
     /\ leader' = [leader EXCEPT ![n] = from]
     /\ prop' = [prop EXCEPT ![n] = IF Outranked(n, b, from) THEN Follower ELSE @]
HandOver(n, b, from) ==
  {Forward(n, from, c) :
     c \in IF leaderBallot[n] \preceq b /\ from \notin {n, leader[n]} THEN Open(n) ELSE {}}

-----------------------------------------------------------------------------
(* Phase 1: becoming leader *)

(* _start_campaign, from tick() once the election deadline has passed.  The *)
(* deadline itself is not modelled: it may pass at any time.                *)
StartCampaign(n) ==
  LET b == <<maxRound[n] + 1, n>>
  IN /\ Event("campaign", n)
     /\ prop[n].role # "leader"
     /\ maxRound[n] < MaxRound
     /\ maxRound' = [maxRound EXCEPT ![n] = @ + 1]
     /\ prop' = [prop EXCEPT ![n] = Candidate(b)]
     /\ leader' = [leader EXCEPT ![n] = 0]
     /\ Send(n, {}, ToAll(n, Prepare(n, b, nextSlot[n])))
     /\ UNCHANGED <<promised, accepted, replica, floor, leaderBallot, pending, env>>

(* Acceptor.prepare: what node n accepted in the slots from `from` on. *)
EntriesAfter(n, from) ==                               (* Mutant of EntriesFrom *)
  [s \in Slot |-> IF s > from THEN accepted[n][s] ELSE NoEntry]
EntriesFrom(n, from) == [s \in Slot |-> IF s >= from THEN accepted[n][s] ELSE NoEntry]

(* _on_prepare with Acceptor.prepare. *)
OnPrepare(n, m) ==
  /\ m.type = "Prepare"
  /\ \/ /\ m.bal \prec promised[n]
        /\ Send(n, {m}, {Nack(n, m.bal)})
        /\ UNCHANGED <<promised, maxRound, prop>>
     \/ /\ promised[n] \preceq m.bal
        /\ Send(n, {m}, {Promise(n, m.bal, EntriesFrom(n, m.slot))})
        /\ promised' = [promised EXCEPT ![n] = m.bal]
        /\ maxRound' = [maxRound EXCEPT ![n] = LaterRound(@, m.bal[1])]
        /\ prop' = [prop EXCEPT ![n] = IF Outranked(n, m.bal, m.from) THEN Follower ELSE @]
  /\ UNCHANGED <<accepted, replica, floor, follow, pending, env>>

(* Campaign.plan: per slot the entry accepted under the highest ballot among *)
(* the promises P, and the slots to re-propose: those from the first one not *)
(* applied to the last one accepted somewhere, unless known to be chosen.    *)
AnyEntries(P, s) == {p.acc[s] : p \in P}               (* Mutant of BestEntries *)
BestEntries(P, s) ==
  {e \in {p.acc[s] : p \in P} : \A p \in P : p.acc[s].bal \preceq e.bal}
Planned(n, best) ==
  {s \in Slot : /\ s >= nextSlot[n] /\ chosen[n][s] = None
                /\ \E t \in Slot : t >= s /\ best[t].bal # ZERO}

(* Every way to give the commands of S the slots lo..hi-1. *)
Orders(S, lo, hi) ==
  {f \in [lo..hi - 1 -> S] : /\ \A s, t \in lo..hi - 1 : f[s] = f[t] => s = t
                             /\ \A c \in S : \E s \in lo..hi - 1 : f[s] = c}

(* _become_leader with _propose_at and _route_pending: the plan is proposed, *)
(* then the node's own open commands in the first free slots.                *)
BecomeLeader(n, m, P) ==
  \E best \in [Slot -> UNION {BestEntries(P, s) : s \in Slot}],
     free \in nextSlot[n]..LastSlot + 1, end \in 0..LastSlot + 1 :
    LET plan == Planned(n, best)
        known == plan \cup {s \in Slot : chosen[n][s] # None}
        fresh == Open(n) \ {best[s].cmd : s \in plan}
    IN /\ \A s \in Slot : best[s] \in BestEntries(P, s)
       /\ \A s \in known : s < free
       /\ free = nextSlot[n] \/ free - 1 \in known
       /\ free <= end
       /\ \E routed \in Orders(fresh, free, end) :
            LET first == [s \in Slot |-> IF s \in plan THEN best[s].cmd
                                        ELSE IF s \in free..end - 1 THEN routed[s] ELSE None]
                used == plan \cup (free..end - 1)
            IN /\ prop' = [prop EXCEPT ![n] =
                             [role |-> "leader", bal |-> m.bal, promises |-> {}, free |-> end,
                              inflight |-> first, acks |-> NoAcks,
                              ids |-> {first[s] : s \in used}]]
               /\ Send(n, {m}, UNION {ToAll(n, Accept(n, m.bal, s, first[s])) : s \in used})
       /\ leader' = [leader EXCEPT ![n] = n]
       /\ leaderBallot' = [leaderBallot EXCEPT ![n] = m.bal]

(* _on_promise with Campaign.add. *)
OnPromise(n, m) ==
  LET P == {p \in prop[n].promises : p.from # m.from} \cup {m}
  IN /\ m.type = "Promise"
     /\ \/ /\ ~(prop[n].role = "candidate" /\ prop[n].bal = m.bal)
           /\ Send(n, {m}, {})
           /\ UNCHANGED <<prop, follow>>
        \/ /\ prop[n].role = "candidate" /\ prop[n].bal = m.bal
           /\ ~IsQuorum({p.from : p \in P})
           /\ prop' = [prop EXCEPT ![n] = [@ EXCEPT !.promises = P]]
           /\ Send(n, {m}, {})
           /\ UNCHANGED follow
        \/ /\ prop[n].role = "candidate" /\ prop[n].bal = m.bal
           /\ IsQuorum({p.from : p \in P})
           /\ BecomeLeader(n, m, P)
     /\ UNCHANGED <<durable, nextSlot, results, floor, maxRound, pending, env>>

-----------------------------------------------------------------------------
(* Phase 2: choosing commands *)

(* Leadership.propose: command c goes to the free slot s. *)
AddInPlace(p, s, c) ==                                 (* Mutant of AddProposal *)
  [p EXCEPT !.inflight[s] = c, !.acks[s] = {}, !.ids = @ \cup {c}]
AddProposal(p, s, c) ==
  [p EXCEPT !.inflight[s] = c, !.acks[s] = {}, !.free = s + 1, !.ids = @ \cup {c}]

(* _propose: the leader gives command c its next free slot, unless it is    *)
(* applied or was proposed under this leadership.                           *)
Propose(n, done, c) ==
  LET s == prop[n].free
  IN \/ /\ c \in results[n] \cup prop[n].ids
        /\ Send(n, done, {})
        /\ UNCHANGED prop
     \/ /\ c \notin results[n] \cup prop[n].ids
        /\ s \in Slot
        /\ prop' = [prop EXCEPT ![n] = AddProposal(@, s, c)]
        /\ Send(n, done, ToAll(n, Accept(n, prop[n].bal, s, c)))

(* PaxosNode.submit: the command joins the pending ones and goes to the     *)
(* leader: to the node's own leadership, or forwarded.                      *)
Submit(n, c) ==
  /\ Event("submit", n)
  /\ c \notin submitted
  /\ submitted' = submitted \cup {c}
  /\ pending' = [pending EXCEPT ![n] = @ \cup {c}]
  /\ \/ /\ prop[n].role = "leader"
        /\ Propose(n, {}, c)
     \/ /\ prop[n].role # "leader"
        /\ Send(n, {}, IF leader[n] \in {0, n} THEN {} ELSE {Forward(n, leader[n], c)})
        /\ UNCHANGED prop
  /\ UNCHANGED <<promised, accepted, replica, floor, maxRound, follow, crashes>>

(* PaxosNode.abandon: the caller timed out. *)
Abandon(n, c) ==
  /\ Event("abandon", n)
  /\ c \in pending[n]
  /\ pending' = [pending EXCEPT ![n] = @ \ {c}]
  /\ UNCHANGED <<durable, nextSlot, results, floor, maxRound, prop, follow, local, msgs, env>>

(* _on_forward *)
OnForward(n, m) ==
  /\ m.type = "Forward"
  /\ \/ /\ prop[n].role = "leader"
        /\ Propose(n, {m}, m.cmd)
     \/ /\ prop[n].role # "leader"
        /\ Send(n, {m}, {})
        /\ UNCHANGED prop
  /\ UNCHANGED <<durable, nextSlot, results, floor, maxRound, follow, pending, env>>

(* Acceptor.accept refuses slots below the floor and ballots below its       *)
(* promise.                                                                  *)
RefusedByEntry(n, m) ==                                    (* Mutant of Refused *)
  m.slot < floor[n] \/ m.bal \prec accepted[n][m.slot].bal
Refused(n, m) == m.slot < floor[n] \/ m.bal \prec promised[n]

(* _on_accept with Acceptor.accept. *)
OnAccept(n, m) ==
  /\ m.type = "Accept"
  /\ \/ /\ Refused(n, m)
        /\ Send(n, {m}, {Nack(n, m.bal)})
        /\ UNCHANGED <<promised, accepted, maxRound, prop, follow>>
     \/ /\ ~Refused(n, m)
        /\ promised' = [promised EXCEPT ![n] = m.bal]
        /\ accepted' = [accepted EXCEPT ![n][m.slot] = [bal |-> m.bal, cmd |-> m.cmd]]
        /\ maxRound' = [maxRound EXCEPT ![n] = LaterRound(@, m.bal[1])]
        /\ HeardLeader(n, m.bal, m.from)
        /\ Send(n, {m}, {Accepted(n, m.bal, m.slot)} \cup HandOver(n, m.bal, m.from))
  /\ UNCHANGED <<replica, floor, pending, env>>

(* _on_accepted with Leadership.accepted: the answer that completes the     *)
(* majority makes the leader commit and tell the other voters.              *)
OnAccepted(n, m) ==
  LET s == m.slot
      c == prop[n].inflight[s]
      acks == prop[n].acks[s] \cup {m.from}
      counts == prop[n].role = "leader" /\ prop[n].bal = m.bal /\ c # None
  IN /\ m.type = "Accepted"
     /\ \/ /\ ~counts
           /\ Send(n, {m}, {})
           /\ UNCHANGED <<prop, replica>>
        \/ /\ counts /\ ~IsQuorum(acks)
           /\ prop' = [prop EXCEPT ![n] = [@ EXCEPT !.acks[s] = acks]]
           /\ Send(n, {m}, {})
           /\ UNCHANGED replica
        \/ /\ counts /\ IsQuorum(acks)
           /\ prop' = [prop EXCEPT ![n] = [@ EXCEPT !.inflight[s] = None, !.acks[s] = {}]]
           /\ Learn(n, s, c)
           /\ Send(n, {m}, {Commit(n, k, s, c) : k \in Node \ {n}})
     /\ UNCHANGED <<promised, accepted, floor, maxRound, follow, pending, env>>

(* _on_nack: a refusal of the node's own ballot ends its bid. *)
OnNack(n, m) ==
  /\ m.type = "Nack"
  /\ maxRound' = [maxRound EXCEPT ![n] = LaterRound(@, m.promised[1])]
  /\ prop' = [prop EXCEPT ![n] = IF @.bal = m.bal THEN Follower ELSE @]
  /\ Send(n, {m}, {})
  /\ UNCHANGED <<durable, nextSlot, results, floor, follow, pending, env>>

(* _on_commit *)
OnCommit(n, m) ==
  /\ m.type = "Commit"
  /\ Learn(n, m.slot, m.cmd)
  /\ Send(n, {m}, {})
  /\ UNCHANGED <<promised, accepted, floor, maxRound, prop, follow, pending, env>>

-----------------------------------------------------------------------------
(* Following a leader, catching up *)

(* tick(): a leader's heartbeat.  Its copy to itself tells it nothing new   *)
(* and is left out.                                                         *)
SendHeartbeat(n) ==
  /\ Event("heartbeat", n)
  /\ prop[n].role = "leader"
  /\ Send(n, {}, {m \in ToAll(n, Heartbeat(n, prop[n].bal, nextSlot[n])) : m.to # n})
  /\ UNCHANGED <<durable, nextSlot, results, floor, maxRound, prop, follow, pending, env>>

(* tick(): a leader that lost touch with a majority steps down.  Who was    *)
(* heard when (QuorumWatch) is not modelled: it may happen at any time.     *)
QuorumLost(n) ==
  /\ Event("quorum_lost", n)
  /\ prop[n].role = "leader"
  /\ prop' = [prop EXCEPT ![n] = Follower]
  /\ UNCHANGED <<durable, nextSlot, results, floor, maxRound, follow, pending, local, msgs, env>>

(* tick(): every retry interval the open commands go to the leader again,   *)
(* and a candidate asks some peer for the log.  (_resend_unchosen repeats   *)
(* messages that are in msgs already.)                                      *)
Retry(n) ==
  /\ Event("retry", n)
  /\ prop[n].role # "leader"
  /\ \E peers \in {{}} \cup {{k} : k \in Node \ {n}} :
       /\ peers # {} => prop[n].role = "candidate"
       /\ Send(n, {}, {CatchUp(n, k, nextSlot[n]) : k \in peers} \cup
                      {Forward(n, leader[n], c) :
                         c \in IF leader[n] \in {0, n} THEN {} ELSE Open(n)})
  /\ UNCHANGED <<durable, nextSlot, results, floor, maxRound, prop, follow, pending, env>>

(* _on_heartbeat: the answer (HeartbeatAck) only feeds QuorumWatch; a node  *)
(* that sees a longer log than its own asks for the rest.                   *)
OnHeartbeat(n, m) ==
  /\ m.type = "Heartbeat"
  /\ \/ /\ m.bal \prec promised[n]
        /\ Send(n, {m}, {})
        /\ UNCHANGED <<prop, follow>>
     \/ /\ promised[n] \preceq m.bal
        /\ HeardLeader(n, m.bal, m.from)
        /\ Send(n, {m}, HandOver(n, m.bal, m.from) \cup
                        {CatchUp(n, m.from, k) : k \in {nextSlot[n]} \cap (0..m.slot - 1)})
  /\ UNCHANGED <<durable, nextSlot, results, floor, maxRound, pending, env>>

(* Replica.chosen_from: the (slot, command) pairs known from `from` on. *)
AcceptedFrom(n, from) ==                                 (* Mutant of ChosenFrom *)
  {<<s, accepted[n][s].cmd>> : s \in {t \in from..LastSlot : accepted[n][t].bal # ZERO}}
ChosenFrom(n, from) ==
  {<<s, chosen[n][s]>> : s \in {t \in from..LastSlot : chosen[n][t] # None}}

(* _on_catchup *)
OnCatchUp(n, m) ==
  /\ m.type = "CatchUp"
  /\ m.slot >= floor[n]
  /\ Send(n, {m}, {Commit(n, m.from, e[1], e[2]) : e \in ChosenFrom(n, m.slot)})
  /\ UNCHANGED <<durable, nextSlot, results, floor, maxRound, prop, follow, pending, env>>

-----------------------------------------------------------------------------
(* Crash and restart *)

(* Acceptor.max_round: the rounds the store knows of. *)
NoRound(n) == {0}                                       (* Mutant of StoredRounds *)
StoredRounds(n) == {promised[n][1]} \cup {accepted[n][s].bal[1] : s \in Slot}

(* A crash and the restart from the store: PaxosNode.__init__ rebuilds the  *)
(* acceptor from disk and replays the chosen log, which leads back to the   *)
(* same nextSlot and results.                                               *)
Restart(n) ==
  /\ <<"crash", n>> \in Events
  /\ crashes < MaxCrashes
  /\ crashes' = crashes + 1
  /\ \E r \in StoredRounds(n) :
       /\ \A q \in StoredRounds(n) : q <= r
       /\ maxRound' = [maxRound EXCEPT ![n] = r]
  /\ prop' = [prop EXCEPT ![n] = Follower]
  /\ leader' = [leader EXCEPT ![n] = 0]
  /\ leaderBallot' = [leaderBallot EXCEPT ![n] = ZERO]
  /\ pending' = [pending EXCEPT ![n] = {}]
  /\ local' = [local EXCEPT ![n] = {}]
  /\ UNCHANGED <<durable, nextSlot, results, floor, msgs, submitted>>

Handle(n, m) ==
  \/ OnPrepare(n, m) \/ OnPromise(n, m) \/ OnAccept(n, m) \/ OnAccepted(n, m)
  \/ OnNack(n, m) \/ OnCommit(n, m) \/ OnHeartbeat(n, m) \/ OnCatchUp(n, m)
  \/ OnForward(n, m)

(* PaxosNode.receive or one turn of _drain. *)
Receive(n) == \E m \in local[n] \cup msgs : Handles(n, m) /\ Handle(n, m)

(* PaxosNode.tick, one of its independent timers at a time, and the API. *)
Outside(n) ==
  \/ StartCampaign(n) \/ SendHeartbeat(n) \/ QuorumLost(n) \/ Retry(n)
  \/ \E c \in Command : Submit(n, c) \/ Abandon(n, c)

Next == \E n \in Node : Receive(n) \/ Outside(n) \/ Restart(n)

Spec == Init /\ [][Next]_vars

-----------------------------------------------------------------------------
(* Properties *)

(* Every variable holds what the code keeps in it. *)
TypeOK ==
  /\ promised \in [Node -> Ballot]
  /\ accepted \in [Node -> [Slot -> Entry]]
  /\ chosen \in [Node -> [Slot -> Cmd \cup {None}]]
  /\ nextSlot \in [Node -> 0..LastSlot + 1]
  /\ results \in [Node -> SUBSET Command]
  /\ floor \in [Node -> 0..LastSlot + 1]
  /\ maxRound \in [Node -> 0..MaxRound]
  /\ prop \in [Node -> Proposer]
  /\ leader \in [Node -> Node \cup {0}]
  /\ leaderBallot \in [Node -> Ballot]
  /\ pending \in [Node -> SUBSET Command]
  /\ local \in [Node -> SUBSET Message]
  /\ msgs \in SUBSET Message
  /\ submitted \in SUBSET Command
  /\ crashes \in 0..MaxCrashes

(* What the messages on the wire say: ballot b proposed c for slot s; voter a *)
(* accepted b's proposal for s; a majority did, which is what "chosen" means. *)
Proposed(s, b, c) ==
  \E m \in msgs : m.type = "Accept" /\ m.slot = s /\ m.bal = b /\ m.cmd = c
Voted(a, s, b) ==
  \E m \in msgs : m.type = "Accepted" /\ m.slot = s /\ m.bal = b /\ m.from = a
ChosenIn(s, b, c) == Proposed(s, b, c) /\ IsQuorum({a \in Node : Voted(a, s, b)})

(***************************************************************************)
(* Two replicas never hold different commands for a slot, so a commit      *)
(* never raises SafetyViolation (Replica.commit).                          *)
(***************************************************************************)
Agreement ==
  \A n, k \in Node, s \in Slot :
    chosen[n][s] # None /\ chosen[k][s] # None => chosen[n][s] = chosen[k][s]

(***************************************************************************)
(* A ballot proposes one command per slot, although a node that crashed    *)
(* between sending Prepare and saving its own promise campaigns again      *)
(* under the very same ballot (_start_campaign, Acceptor.max_round).       *)
(***************************************************************************)
OneProposalPerBallot ==
  \A m1, m2 \in msgs :
    /\ m1.type = "Accept" /\ m2.type = "Accept"
    /\ m1.bal = m2.bal /\ m1.slot = m2.slot
    => m1.cmd = m2.cmd

(***************************************************************************)
(* What a majority accepted is what every later ballot proposes for that   *)
(* slot (Campaign.plan), noop and client command alike.                    *)
(***************************************************************************)
LaterBallotsKeepChosen ==
  \A m1, m2 \in {m \in msgs : m.type = "Accept"} :
    /\ m1.slot = m2.slot /\ m1.bal \prec m2.bal
    /\ ChosenIn(m1.slot, m1.bal, m1.cmd)
    => m1.cmd = m2.cmd

(***************************************************************************)
(* What a replica records as chosen, from an Accepted majority or from any *)
(* Commit, a majority did accept.                                          *)
(***************************************************************************)
LearnedIsChosen ==
  \A n \in Node, s \in Slot :
    chosen[n][s] # None => \E b \in Ballot : ChosenIn(s, b, chosen[n][s])

(***************************************************************************)
(* A promise once sent binds its acceptor through crashes: it never        *)
(* accepts under a lower ballot afterwards (Acceptor._promise).            *)
(***************************************************************************)
PromisesBind ==
  [][\A m \in msgs' \ msgs : m.type = "Accepted" =>
       \A p \in msgs : p.type = "Promise" /\ p.from = m.from => p.bal \preceq m.bal]_vars

(***************************************************************************)
(* A candidate or leader that promises another's higher ballot, or follows  *)
(* it, gives up its own bid in the same step, whichever message told it    *)
(* (_on_prepare, _on_accept, _on_heartbeat, _heard_leader, _own_ballot).   *)
(* Only a ballot below the one it already follows may leave it standing    *)
(* (_heard_leader returns early): a node that followed a heartbeat keeps   *)
(* its old _max_round and may campaign below its leader.                   *)
(***************************************************************************)
OutrankedGivesUp ==
  [][\A n \in Node, b \in Ballot :
       /\ prop[n].role # "follower" /\ prop[n].bal \prec b
       /\ \/ promised[n] # b /\ promised'[n] = b
          \/ leaderBallot[n] # b /\ leaderBallot'[n] = b
       => prop'[n].role = "follower" \/ b \prec leaderBallot[n]]_vars

(***************************************************************************)
(* nextSlot and results are what a replay of the durable log rebuilds, so  *)
(* a restart (Replica.__init__) resumes exactly where the node was.        *)
(***************************************************************************)
ReplayExact ==
  \A n \in Node :
    /\ \A s \in 0..nextSlot[n] - 1 : chosen[n][s] # None
    /\ nextSlot[n] \in Slot => chosen[n][nextSlot[n]] = None
    /\ results[n] = {chosen[n][s] : s \in 0..nextSlot[n] - 1} \ {NOOP}

(***************************************************************************)
(* The epoch implements the log of ChosenLog: a slot is decided by the     *)
(* acceptance that completes a majority, and never again.                  *)
(***************************************************************************)
DecidedOn(s) ==
  LET accepts == {m \in msgs : m.type = "Accept" /\ m.slot = s}
      winners == {m.cmd : m \in {p \in accepts : ChosenIn(s, p.bal, p.cmd)}}
  IN IF winners = {} THEN None ELSE CHOOSE c \in winners : TRUE

(* What node n has learned: the log it holds and, under its floor, slots     *)
(* that it dropped once the state they led to was in its durable base.       *)
Learned ==
  [n \in Node |-> [s \in Slot |-> IF s < floor[n] THEN DecidedOn(s) ELSE chosen[n][s]]]

Log == INSTANCE ChosenLog WITH decided <- [s \in Slot |-> DecidedOn(s)], learned <- Learned

ImplementsLog == Log!Spec
=============================================================================
