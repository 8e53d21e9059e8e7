--------------------------- MODULE PaxosEpochSafety ---------------------------
(***************************************************************************)
(* Proofs about PaxosEpoch, part 1: the order of ballots, the meeting of   *)
(* majorities, the type of every variable; then the invariant of           *)
(* PaxosEpochInv is inductive, and the agreement of the replicas follows   *)
(* from it.  PaxosEpochLog goes on.                                        *)
(***************************************************************************)
EXTENDS PaxosEpochInv, FiniteSetTheorems, TLAPS

-----------------------------------------------------------------------------
(* Ballots are totally ordered, with ZERO first (ballot.py). *)

LEMMA BidPair ==
  ASSUME NEW b \in Bid
  PROVE  /\ b[1] \in 1..MaxRound /\ b[2] \in Node /\ b = <<b[1], b[2]>>
         /\ b[1] \in Nat \ {0} /\ b[2] \in Nat
<1>1. PICK r \in 1..MaxRound, k \in Node : b = <<r, k>>
  BY DEF Bid
<1>2. b[1] = r /\ b[2] = k
  BY <1>1
<1>3. r \in Nat \ {0} /\ k \in Nat
  BY NodeAssumption, BoundAssumption DEF NodeAssumption, BoundAssumption
<1> QED BY <1>1, <1>2, <1>3

LEMMA BallotOrder ==
  /\ ZERO \in Ballot
  /\ \A b \in Ballot : b[1] \in Nat /\ b[2] \in Nat /\ b = <<b[1], b[2]>>
  /\ \A b \in Ballot : ~(b \prec b)
  /\ \A b \in Bid : ZERO \prec b /\ b # ZERO
  /\ \A b, c \in Ballot : b \prec c \/ b = c \/ c \prec b
  /\ \A b, c, d \in Ballot : b \prec c /\ c \prec d => b \prec d
<1>1. \A b \in Ballot : b[1] \in Nat /\ b[2] \in Nat /\ b = <<b[1], b[2]>>
  <2>1. ZERO[1] \in Nat /\ ZERO[2] \in Nat /\ ZERO = <<ZERO[1], ZERO[2]>>
    BY DEF ZERO
  <2> QED BY <2>1, BidPair DEF Ballot
<1>2. ZERO \in Ballot /\ ZERO[1] = 0
  BY DEF Ballot, ZERO
<1>3. \A b, c \in Ballot : b \prec c \/ b = c \/ c \prec b
  BY <1>1 DEF \prec
<1>4. \A b, c, d \in Ballot : b \prec c /\ c \prec d => b \prec d
  BY <1>1 DEF \prec
<1>5. \A b \in Ballot : ~(b \prec b)
  BY <1>1 DEF \prec
<1>6. \A b \in Bid : ZERO \prec b
  BY BidPair, <1>2 DEF \prec
<1>7. \A b \in Bid : b # ZERO
  BY BidPair, <1>2
<1> QED BY <1>1, <1>2, <1>3, <1>4, <1>5, <1>6, <1>7

(* The forms in which the proofs use the order. *)
LEMMA BallotChain ==
  ASSUME NEW b \in Ballot, NEW c \in Ballot, NEW d \in Ballot
  PROVE  /\ b \preceq b
         /\ b \preceq c /\ c \preceq d => b \preceq d
         /\ b \prec c /\ c \preceq d => b \prec d
         /\ b \preceq c /\ c \prec d => b \prec d
         /\ b \preceq c => ~(c \prec b)
         /\ ~(c \prec b) => b \preceq c
         /\ b \preceq c => b[1] <= c[1]
<1>1. b \preceq c => b[1] <= c[1]
  BY BallotOrder DEF \preceq, \prec
<1> QED BY <1>1, BallotOrder DEF \preceq

(* Two majorities of the voters share one; a superset of one is one. *)
LEMMA QuorumMeet ==
  ASSUME NEW Q \in SUBSET Node, NEW R \in SUBSET Node, IsQuorum(Q), IsQuorum(R)
  PROVE  \E a \in Node : a \in Q /\ a \in R
<1> SUFFICES ASSUME Q \cap R = {} PROVE FALSE
  OBVIOUS
<1>1. IsFiniteSet(Q) /\ IsFiniteSet(R) /\ IsFiniteSet(Q \cup R)
  BY NodeAssumption, FS_Subset
<1>2. Cardinality(Q \cup R) = Cardinality(Q) + Cardinality(R) - Cardinality(Q \cap R)
  BY <1>1, FS_Union
<1>3. Cardinality(Q \cap R) = 0
  BY FS_EmptySet
<1>4. Cardinality(Q \cup R) <= Cardinality(Node)
  BY NodeAssumption, FS_Subset
<1>5. Cardinality(Q) \in Nat /\ Cardinality(R) \in Nat /\ Cardinality(Node) \in Nat
  BY <1>1, NodeAssumption, FS_CardinalityType
<1> QED BY <1>2, <1>3, <1>4, <1>5 DEF IsQuorum

LEMMA QuorumGrows ==
  ASSUME NEW Q \in SUBSET Node, NEW R \in SUBSET Node, Q \subseteq R, IsQuorum(Q)
  PROVE  IsQuorum(R)
<1>1. IsFiniteSet(R) /\ IsFiniteSet(Q)
  BY NodeAssumption, FS_Subset
<1>2. Cardinality(Q) <= Cardinality(R)
  BY <1>1, FS_Subset
<1>3. Cardinality(Q) \in Nat /\ Cardinality(R) \in Nat /\ Cardinality(Node) \in Nat
  BY <1>1, NodeAssumption, FS_CardinalityType
<1> QED BY <1>2, <1>3 DEF IsQuorum

-----------------------------------------------------------------------------
(* Typing: what a message of each type carries, and that sending one makes  *)
(* a message.                                                               *)

LEMMA MessageFields ==
  ASSUME NEW m \in Message
  PROVE  /\ m.from \in Node /\ m.to \in Node
         /\ m.type = "Prepare" => m.bal \in Bid /\ m.slot \in 0..LastSlot + 1
         /\ m.type = "Promise" => m.bal \in Bid /\ m.acc \in [Slot -> Entry]
         /\ m.type = "Accept" => m.bal \in Bid /\ m.slot \in Slot /\ m.cmd \in Cmd
         /\ m.type = "Accepted" => m.bal \in Bid /\ m.slot \in Slot
         /\ m.type = "Nack" => m.bal \in Bid /\ m.promised \in Ballot
         /\ m.type = "Commit" => m.slot \in Slot /\ m.cmd \in Cmd
         /\ m.type = "Heartbeat" => m.bal \in Bid /\ m.slot \in 0..LastSlot + 1
         /\ m.type = "CatchUp" => m.slot \in 0..LastSlot + 1
         /\ m.type = "Forward" => m.cmd \in Command
         /\ m.type = "Snapshot" => m.slot \in 0..LastSlot + 1 /\ m.results \in SUBSET Command
BY DEF Message, PromiseMessage

LEMMA MessageTypes ==
  ASSUME NEW n \in Node, NEW k \in Node, NEW j \in 0..LastSlot + 1
  PROVE  /\ \A b \in Bid : ToAll(n, Prepare(n, b, j)) \subseteq Message
         /\ \A b \in Bid : ToAll(n, Heartbeat(n, b, j)) \subseteq Message
         /\ CatchUp(n, k, j) \in Message
         /\ \A c \in Command : Forward(n, k, c) \in Message
         /\ \A b \in Bid, s \in Slot, c \in Cmd : ToAll(n, Accept(n, b, s, c)) \subseteq Message
         /\ \A s \in Slot, c \in Cmd : Commit(n, k, s, c) \in Message
BY DEF Message, ToAll, Prepare, Heartbeat, CatchUp, Forward, Accept, Commit

LEMMA ReplyTypes ==
  ASSUME NEW n \in Node, NEW b \in Bid, promised \in [Node -> Ballot]
  PROVE  /\ Nack(n, b) \in Message
         /\ \A acc \in [Slot -> Entry] : Promise(n, b, acc) \in Message
         /\ \A s \in Slot : Accepted(n, b, s) \in Message
BY BidPair DEF Message, PromiseMessage, Nack, Promise, Accepted

LEMMA SendType ==
  ASSUME TypeOK, NEW n \in Node, NEW done, NEW out \in SUBSET Message, Send(n, done, out)
  PROVE  msgs' \in SUBSET Message /\ local' \in [Node -> SUBSET Message]
BY DEF TypeOK, Send

LEMMA LearnType ==
  ASSUME TypeOK, NEW n \in Node, NEW s \in Slot, NEW c \in Cmd, Learn(n, s, c)
  PROVE  /\ chosen' \in [Node -> [Slot -> Cmd \cup {None}]]
         /\ nextSlot' \in [Node -> 0..LastSlot + 1]
         /\ results' \in [Node -> SUBSET Command]
<1>1. CASE UNCHANGED replica
  BY <1>1 DEF TypeOK, replica
<1>2. CASE chosen' = [chosen EXCEPT ![n][s] = c]
  <2>1. chosen' \in [Node -> [Slot -> Cmd \cup {None}]]
    BY <1>2 DEF TypeOK
  <2>2. CASE \E k \in nextSlot[n]..LastSlot + 1 :
          /\ \A t \in nextSlot[n]..k - 1 : chosen'[n][t] # None
          /\ nextSlot' = [nextSlot EXCEPT ![n] = k]
          /\ results' = [results EXCEPT ![n] =
                           @ \cup ({chosen'[n][t] : t \in nextSlot[n]..k - 1} \ {NOOP})]
    <3>1. PICK k \in nextSlot[n]..LastSlot + 1 :
          /\ \A t \in nextSlot[n]..k - 1 : chosen'[n][t] # None
          /\ nextSlot' = [nextSlot EXCEPT ![n] = k]
          /\ results' = [results EXCEPT ![n] =
                           @ \cup ({chosen'[n][t] : t \in nextSlot[n]..k - 1} \ {NOOP})]
      BY <2>2
    <3>2. nextSlot[n] \in 0..LastSlot + 1 /\ k \in 0..LastSlot + 1
      BY BoundAssumption DEF TypeOK, BoundAssumption
    <3>3. \A t \in nextSlot[n]..k - 1 : t \in Slot
      BY <3>2, BoundAssumption DEF Slot, BoundAssumption
    <3>4. {chosen'[n][t] : t \in nextSlot[n]..k - 1} \ {NOOP} \subseteq Command
      BY <2>1, <3>1, <3>3 DEF Cmd
    <3> QED BY <2>1, <3>1, <3>2, <3>4 DEF TypeOK
  <2> QED BY <1>1, <1>2, <2>2 DEF Learn, AppliesUpTo, Applied
<1> QED BY <1>1, <1>2 DEF Learn

LEMMA HeardLeaderType ==
  ASSUME TypeOK, NEW n \in Node, NEW b \in Bid, NEW k \in Node, HeardLeader(n, b, k)
  PROVE  /\ prop' \in [Node -> Proposer]
         /\ leader' \in [Node -> Node \cup {0}]
         /\ leaderBallot' \in [Node -> Ballot]
<1>1. leader' \in [Node -> Node \cup {0}]
  BY DEF TypeOK, HeardLeader
<1>2. leaderBallot' \in [Node -> Ballot]
  BY DEF TypeOK, HeardLeader, Ballot
<1>3. prop' \in [Node -> Proposer]
  <2>1. prop \in [Node -> Proposer] /\ Follower \in Proposer
    BY DEF TypeOK, Proposer
  <2>2. prop' = prop \/ prop' = [prop EXCEPT ![n] = IF Outranked(n, b, k) THEN Follower ELSE @]
    BY DEF HeardLeader
  <2> QED BY <2>1, <2>2
<1> QED BY <1>1, <1>2, <1>3

LEMMA HandOverType ==
  ASSUME TypeOK, NEW n \in Node, NEW b, NEW k \in Node
  PROVE  HandOver(n, b, k) \subseteq Message
<1>1. Open(n) \subseteq Command
  BY DEF TypeOK, Open
<1>2. \A c \in Command : Forward(n, k, c) \in Message
  BY DEF Message, Forward
<1> QED BY <1>1, <1>2 DEF HandOver

ActiveProposer ==
  [role : {"candidate", "leader"}, bal : Bid, promises : SUBSET PromiseMessage,
   free : 0..LastSlot + 1, inflight : [Slot -> Cmd \cup {None}],
   acks : [Slot -> SUBSET Node], ids : SUBSET Cmd]

LEMMA ProposerType ==
  ASSUME TypeOK, NEW n \in Node
  PROVE  /\ prop[n].role # "follower" => prop[n] \in ActiveProposer
         /\ prop[n].role = "follower" => prop[n] = Follower
         /\ \A p \in ActiveProposer : [prop EXCEPT ![n] = p] \in [Node -> Proposer]
         /\ [prop EXCEPT ![n] = Follower] \in [Node -> Proposer]
BY DEF TypeOK, Proposer, Follower, Fresh, ActiveProposer

LEMMA CandidateType ==
  ASSUME NEW b \in Bid
  PROVE  /\ Candidate(b) \in ActiveProposer
         /\ Candidate(b) = [role |-> "candidate", bal |-> b, promises |-> {}, free |-> 0,
                            inflight |-> Idle, acks |-> NoAcks, ids |-> {}]
<1>1. Candidate(b) = [role |-> "candidate", bal |-> b, promises |-> {}, free |-> 0,
                      inflight |-> Idle, acks |-> NoAcks, ids |-> {}]
  BY DEF Candidate, Fresh
<1>2. 0 \in 0..LastSlot + 1
  BY BoundAssumption DEF BoundAssumption
<1> QED BY <1>1, <1>2 DEF ActiveProposer, Idle, NoAcks

LEMMA ActiveUpdates ==
  ASSUME NEW p \in ActiveProposer, NEW s \in Slot
  PROVE  /\ \A c \in Cmd : s + 1 \in 0..LastSlot + 1 => AddProposal(p, s, c) \in ActiveProposer
         /\ \A Q \in SUBSET Node : [p EXCEPT !.acks[s] = Q] \in ActiveProposer
         /\ [p EXCEPT !.inflight[s] = None, !.acks[s] = {}] \in ActiveProposer
         /\ \A P \in SUBSET PromiseMessage : [p EXCEPT !.promises = P] \in ActiveProposer
BY DEF ActiveProposer, AddProposal

LEMMA ProposeType ==
  ASSUME TypeOK, NEW n \in Node, NEW done, NEW c \in Command, prop[n].role = "leader",
         Propose(n, done, c)
  PROVE  /\ prop' \in [Node -> Proposer]
         /\ msgs' \in SUBSET Message
         /\ local' \in [Node -> SUBSET Message]
<1> DEFINE s == prop[n].free
<1>0. c \in Cmd /\ prop[n] \in ActiveProposer
  BY ProposerType DEF Cmd
<1>1. CASE Send(n, done, {}) /\ UNCHANGED prop
  BY <1>1, SendType DEF TypeOK
<1>2. CASE /\ s \in Slot
           /\ prop' = [prop EXCEPT ![n] = AddProposal(@, s, c)]
           /\ Send(n, done, ToAll(n, Accept(n, prop[n].bal, s, c)))
  <2>1. prop[n].bal \in Bid /\ s + 1 \in 0..LastSlot + 1 /\ 0 \in 0..LastSlot + 1
    BY <1>0, <1>2, BoundAssumption DEF ActiveProposer, Slot, BoundAssumption
  <2>2. ToAll(n, Accept(n, prop[n].bal, s, c)) \subseteq Message
    BY <1>0, <1>2, <2>1, MessageTypes
  <2>3. prop' \in [Node -> Proposer]
    BY <1>0, <1>2, <2>1, ActiveUpdates, ProposerType DEF TypeOK
  <2> QED BY <1>2, <2>2, <2>3, SendType
<1> QED BY <1>1, <1>2 DEF Propose

LEMMA InitType == Init => TypeOK
<1> SUFFICES ASSUME Init PROVE TypeOK
  OBVIOUS
<1>1. 0 \in 0..LastSlot + 1 /\ 0 \in 0..MaxRound /\ 0 \in 0..MaxCrashes
  BY BoundAssumption DEF BoundAssumption
<1>2. ZERO \in Ballot /\ NoEntry \in Entry /\ Follower \in Proposer
  BY DEF Ballot, NoEntry, Entry, Proposer, Cmd
<1> QED BY <1>1, <1>2 DEF Init, TypeOK, Idle

-----------------------------------------------------------------------------
(* Every action preserves the types. *)

LEMMA StartCampaignType ==
  ASSUME TypeOK, NEW n \in Node, StartCampaign(n)
  PROVE  TypeOK'
<1> DEFINE b == <<maxRound[n] + 1, n>>
<1>1. maxRound[n] + 1 \in 1..MaxRound /\ maxRound[n] + 1 \in 0..MaxRound
  BY BoundAssumption DEF StartCampaign, TypeOK, BoundAssumption
<1>2. b \in Bid
  BY <1>1 DEF Bid
<1>3. ToAll(n, Prepare(n, b, nextSlot[n])) \subseteq Message
  BY <1>2, MessageTypes DEF TypeOK
<1>4. msgs' \in SUBSET Message /\ local' \in [Node -> SUBSET Message]
  BY <1>3, SendType DEF StartCampaign
<1>5. Candidate(b) \in ActiveProposer
  BY <1>2, CandidateType
<1>6. prop' \in [Node -> Proposer]
  BY <1>5, ProposerType DEF StartCampaign
<1> QED BY <1>1, <1>4, <1>6 DEF StartCampaign, TypeOK, replica, env

LEMMA OnPrepareType ==
  ASSUME TypeOK, NEW n \in Node, NEW m \in Message, OnPrepare(n, m)
  PROVE  TypeOK'
<1>1. m.type = "Prepare" /\ m.bal \in Bid /\ m.bal \in Ballot /\ m.from \in Node
  BY MessageFields DEF OnPrepare, Ballot
<1>2. CASE /\ Send(n, {m}, {Nack(n, m.bal)})
           /\ UNCHANGED <<promised, maxRound, prop>>
  BY <1>1, <1>2, SendType, ReplyTypes DEF OnPrepare, TypeOK, replica, follow, env
<1>3. CASE promised[n] \preceq m.bal
  <2> DEFINE acc == EntriesFrom(n, m.slot)
  <2>1. acc \in [Slot -> Entry]
    BY DEF EntriesFrom, TypeOK, Entry, NoEntry, Ballot, Cmd
  <2>2. Promise(n, m.bal, acc) \in Message /\ Nack(n, m.bal) \in Message
    BY <1>1, <2>1, ReplyTypes DEF TypeOK
  <2>3. msgs' \in SUBSET Message /\ local' \in [Node -> SUBSET Message]
    <3>1. Send(n, {m}, {Promise(n, m.bal, acc)}) \/ Send(n, {m}, {Nack(n, m.bal)})
      BY DEF OnPrepare
    <3>2. {Promise(n, m.bal, acc)} \in SUBSET Message /\ {Nack(n, m.bal)} \in SUBSET Message
      BY <2>2
    <3> QED BY <3>1, <3>2, SendType
  <2>4. m.bal[1] \in 0..MaxRound /\ maxRound[n] \in 0..MaxRound
    BY <1>1, BidPair DEF TypeOK
  <2>5. promised' \in [Node -> Ballot] /\ maxRound' \in [Node -> 0..MaxRound]
    BY <1>1, <2>4 DEF OnPrepare, TypeOK, LaterRound
  <2>6. prop' \in [Node -> Proposer]
    <3>1. prop' = prop \/ prop' = [prop EXCEPT ![n] = Follower]
      BY DEF OnPrepare, TypeOK
    <3> QED BY <3>1, ProposerType DEF TypeOK
  <2> QED BY <2>3, <2>5, <2>6 DEF OnPrepare, TypeOK, replica, follow, env
<1> QED BY <1>2, <1>3 DEF OnPrepare

LEMMA BecomeLeaderType ==
  ASSUME TypeOK, NEW n \in Node, NEW m \in Message, m.bal \in Bid,
         NEW P \in SUBSET PromiseMessage,
         BecomeLeader(n, m, P)
  PROVE  /\ prop' \in [Node -> Proposer]
         /\ leader' \in [Node -> Node \cup {0}]
         /\ leaderBallot' \in [Node -> Ballot]
         /\ msgs' \in SUBSET Message
         /\ local' \in [Node -> SUBSET Message]
<1>1. PICK best \in [Slot -> UNION {BestEntries(P, s) : s \in Slot}],
           free \in nextSlot[n]..LastSlot + 1, end \in 0..LastSlot + 1 :
             BecomeLeader(n, m, P)!(best, free, end)
  BY DEF BecomeLeader
<1> DEFINE plan == Planned(n, best)
           fresh == Open(n) \ {best[s].cmd : s \in plan}
<1>2. PICK routed \in Orders(fresh, free, end) :
        LET first == [s \in Slot |-> IF s \in plan THEN best[s].cmd
                                     ELSE IF s \in free..end - 1 THEN routed[s] ELSE None]
            used == plan \cup (free..end - 1)
        IN /\ prop' = [prop EXCEPT ![n] =
                         [role |-> "leader", bal |-> m.bal, promises |-> {}, free |-> end,
                          inflight |-> first, acks |-> NoAcks,
                          ids |-> {first[s] : s \in used}]]
           /\ Send(n, {m}, UNION {ToAll(n, Accept(n, m.bal, s, first[s])) : s \in used})
  BY <1>1
<1> DEFINE first == [s \in Slot |-> IF s \in plan THEN best[s].cmd
                                    ELSE IF s \in free..end - 1 THEN routed[s] ELSE None]
           used == plan \cup (free..end - 1)
           out == UNION {ToAll(n, Accept(n, m.bal, s, first[s])) : s \in used}
<1>3. \A s \in plan : s \in Slot /\ best[s].cmd \in Cmd
  <2>1. \A p \in P : p.acc \in [Slot -> Entry]
    BY DEF PromiseMessage
  <2>2. \A s \in Slot : \A e \in BestEntries(P, s) : e.cmd \in Cmd
    BY <2>1 DEF BestEntries, Entry
  <2> QED BY <1>1, <2>2 DEF Planned
<1>4. \A s \in free..end - 1 : s \in Slot /\ routed[s] \in Cmd
  <2>1. fresh \subseteq Command
    BY DEF Open, TypeOK
  <2>2. nextSlot[n] \in 0..LastSlot + 1
    BY DEF TypeOK
  <2> QED BY <1>2, <2>1, <2>2, BoundAssumption DEF Orders, Cmd, Slot, BoundAssumption
<1>5. used \subseteq Slot /\ \A s \in used : first[s] \in Cmd
  BY <1>3, <1>4
<1>6. [role |-> "leader", bal |-> m.bal, promises |-> {}, free |-> end, inflight |-> first,
       acks |-> NoAcks, ids |-> {first[s] : s \in used}] \in ActiveProposer
  <2>1. first \in [Slot -> Cmd \cup {None}]
    BY <1>3, <1>4
  <2> QED BY <1>5, <2>1 DEF ActiveProposer, NoAcks
<1>7. prop' \in [Node -> Proposer]
  BY <1>2, <1>6, ProposerType
<1>8. out \subseteq Message
  <2>1. 0 \in 0..LastSlot + 1
    BY BoundAssumption DEF BoundAssumption
  <2>2. ASSUME NEW s \in used PROVE ToAll(n, Accept(n, m.bal, s, first[s])) \subseteq Message
    BY <1>5, <2>1, MessageTypes
  <2> QED BY <2>2
<1>9. msgs' \in SUBSET Message /\ local' \in [Node -> SUBSET Message]
  BY <1>2, <1>8, SendType
<1> QED BY <1>1, <1>7, <1>9 DEF TypeOK, Ballot

LEMMA OnPromiseType ==
  ASSUME TypeOK, NEW n \in Node, NEW m \in Message, OnPromise(n, m)
  PROVE  TypeOK'
<1> DEFINE P == {p \in prop[n].promises : p.from # m.from} \cup {m}
<1>1. m.type = "Promise" /\ m.bal \in Bid
  BY MessageFields DEF OnPromise
<1>2. P \in SUBSET PromiseMessage
  <2>1. m \in PromiseMessage
    BY <1>1 DEF Message
  <2>2. prop[n].promises \subseteq PromiseMessage
    BY ProposerType DEF ActiveProposer, Follower, Fresh
  <2> QED BY <2>1, <2>2
<1>3. /\ prop' \in [Node -> Proposer]
      /\ leader' \in [Node -> Node \cup {0}]
      /\ leaderBallot' \in [Node -> Ballot]
      /\ msgs' \in SUBSET Message
      /\ local' \in [Node -> SUBSET Message]
  <2>1. CASE Send(n, {m}, {}) /\ UNCHANGED <<prop, follow>>
    BY <2>1, SendType DEF TypeOK, follow
  <2>2. CASE /\ prop[n].role = "candidate"
             /\ prop' = [prop EXCEPT ![n] = [@ EXCEPT !.promises = P]]
             /\ Send(n, {m}, {})
             /\ UNCHANGED follow
    <3>1. 0 \in Slot
      BY BoundAssumption DEF Slot, BoundAssumption
    <3>2. [prop[n] EXCEPT !.promises = P] \in ActiveProposer
      BY <1>2, <2>2, <3>1, ProposerType, ActiveUpdates
    <3>3. prop' \in [Node -> Proposer]
      BY <2>2, <3>2, ProposerType DEF TypeOK
    <3> QED BY <2>2, <3>3, SendType DEF TypeOK, follow
  <2>3. CASE BecomeLeader(n, m, P)
    BY <1>1, <1>2, <2>3, BecomeLeaderType
  <2> QED BY <2>1, <2>2, <2>3 DEF OnPromise
<1> QED BY <1>3 DEF OnPromise, TypeOK, durable, env

LEMMA SubmitType ==
  ASSUME TypeOK, NEW n \in Node, NEW c \in Command, Submit(n, c)
  PROVE  TypeOK'
<1>1. CASE prop[n].role = "leader" /\ Propose(n, {}, c)
  BY <1>1, ProposeType DEF Submit, TypeOK, replica, follow
<1>2. CASE /\ Send(n, {}, IF leader[n] \in {0, n} THEN {} ELSE {Forward(n, leader[n], c)})
           /\ UNCHANGED prop
  <2> DEFINE out == IF leader[n] \in {0, n} THEN {} ELSE {Forward(n, leader[n], c)}
  <2>1. out \in SUBSET Message
    BY DEF TypeOK, Message, Forward
  <2>2. msgs' \in SUBSET Message /\ local' \in [Node -> SUBSET Message]
    BY <1>2, <2>1, SendType
  <2> QED BY <1>2, <2>2 DEF Submit, TypeOK, replica, follow
<1> QED BY <1>1, <1>2 DEF Submit

LEMMA OnForwardType ==
  ASSUME TypeOK, NEW n \in Node, NEW m \in Message, OnForward(n, m)
  PROVE  TypeOK'
<1>1. CASE prop[n].role = "leader" /\ Propose(n, {m}, m.cmd)
  <2>1. m.cmd \in Command
    BY MessageFields DEF OnForward
  <2> QED BY <1>1, <2>1, ProposeType DEF OnForward, TypeOK, durable, follow, env
<1>2. CASE Send(n, {m}, {}) /\ UNCHANGED prop
  BY <1>2, SendType DEF OnForward, TypeOK, durable, follow, env
<1> QED BY <1>1, <1>2 DEF OnForward

LEMMA OnAcceptType ==
  ASSUME TypeOK, NEW n \in Node, NEW m \in Message, OnAccept(n, m)
  PROVE  TypeOK'
<1>1. m.type = "Accept" /\ m.bal \in Bid /\ m.bal \in Ballot /\ m.from \in Node /\ m.slot \in Slot
      /\ m.cmd \in Cmd
  BY MessageFields DEF OnAccept, Ballot
<1>2. CASE /\ Send(n, {m}, {Nack(n, m.bal)})
           /\ UNCHANGED <<promised, accepted, maxRound, prop, follow>>
  <2>1. {Nack(n, m.bal)} \in SUBSET Message
    BY <1>1, ReplyTypes DEF TypeOK
  <2> QED BY <1>2, <2>1, SendType DEF OnAccept, TypeOK, replica, follow, env
<1>3. CASE /\ promised' = [promised EXCEPT ![n] = m.bal]
           /\ accepted' = [accepted EXCEPT ![n][m.slot] = [bal |-> m.bal, cmd |-> m.cmd]]
           /\ maxRound' = [maxRound EXCEPT ![n] = LaterRound(@, m.bal[1])]
           /\ HeardLeader(n, m.bal, m.from)
           /\ Send(n, {m}, {Accepted(n, m.bal, m.slot)} \cup HandOver(n, m.bal, m.from))
  <2>1. {Accepted(n, m.bal, m.slot)} \cup HandOver(n, m.bal, m.from) \in SUBSET Message
    BY <1>1, ReplyTypes, HandOverType DEF TypeOK
  <2>2. msgs' \in SUBSET Message /\ local' \in [Node -> SUBSET Message]
    BY <1>3, <2>1, SendType
  <2>3. m.bal[1] \in 0..MaxRound /\ maxRound[n] \in 0..MaxRound
    BY <1>1, BidPair DEF TypeOK
  <2>4. promised' \in [Node -> Ballot] /\ maxRound' \in [Node -> 0..MaxRound]
    BY <1>1, <1>3, <2>3 DEF TypeOK, LaterRound
  <2>5. accepted' \in [Node -> [Slot -> Entry]]
    BY <1>1, <1>3 DEF TypeOK, Entry
  <2> QED BY <1>1, <1>3, <2>2, <2>4, <2>5, HeardLeaderType DEF OnAccept, TypeOK, replica, env
<1> QED BY <1>2, <1>3 DEF OnAccept

LEMMA OnAcceptedType ==
  ASSUME TypeOK, NEW n \in Node, NEW m \in Message, OnAccepted(n, m)
  PROVE  TypeOK'
<1> DEFINE s == m.slot
           c == prop[n].inflight[s]
           acks == prop[n].acks[s] \cup {m.from}
<1>1. m.type = "Accepted" /\ s \in Slot /\ m.from \in Node
  BY MessageFields DEF OnAccepted
<1>2. CASE Send(n, {m}, {}) /\ UNCHANGED <<prop, replica>>
  BY <1>2, SendType DEF OnAccepted, TypeOK, replica, follow, env
<1>3. ASSUME prop[n].role = "leader", c # None
      PROVE  /\ prop[n] \in ActiveProposer /\ c \in Cmd /\ acks \in SUBSET Node
             /\ [prop[n] EXCEPT !.acks[s] = acks] \in ActiveProposer
             /\ [prop[n] EXCEPT !.inflight[s] = None, !.acks[s] = {}] \in ActiveProposer
  <2>1. prop[n] \in ActiveProposer
    BY <1>3, ProposerType
  <2>2. c \in Cmd /\ acks \in SUBSET Node
    BY <1>1, <1>3, <2>1 DEF ActiveProposer
  <2> QED BY <1>1, <2>1, <2>2, ActiveUpdates
<1>4. CASE /\ prop[n].role = "leader" /\ c # None
           /\ prop' = [prop EXCEPT ![n] = [@ EXCEPT !.acks[s] = acks]]
           /\ Send(n, {m}, {})
           /\ UNCHANGED replica
  <2>1. prop' \in [Node -> Proposer]
    BY <1>3, <1>4, ProposerType DEF TypeOK
  <2> QED BY <1>4, <2>1, SendType DEF OnAccepted, TypeOK, replica, follow, env
<1>5. CASE /\ prop[n].role = "leader" /\ c # None
           /\ prop' = [prop EXCEPT ![n] = [@ EXCEPT !.inflight[s] = None, !.acks[s] = {}]]
           /\ Learn(n, s, c)
           /\ Send(n, {m}, {Commit(n, k, s, c) : k \in Node \ {n}})
  <2>1. prop' \in [Node -> Proposer]
    BY <1>3, <1>5, ProposerType DEF TypeOK
  <2>2. {Commit(n, k, s, c) : k \in Node \ {n}} \in SUBSET Message
    BY <1>1, <1>3, <1>5 DEF Message, Commit
  <2>3. msgs' \in SUBSET Message /\ local' \in [Node -> SUBSET Message]
    BY <1>5, <2>2, SendType
  <2> QED BY <1>1, <1>3, <1>5, <2>1, <2>3, LearnType DEF OnAccepted, TypeOK, follow, env
<1> QED BY <1>2, <1>4, <1>5 DEF OnAccepted

LEMMA OnNackType ==
  ASSUME TypeOK, NEW n \in Node, NEW m \in Message, OnNack(n, m)
  PROVE  TypeOK'
<1>1. m.promised \in Ballot
  BY MessageFields DEF OnNack
<1>2. m.promised[1] \in 0..MaxRound
  BY <1>1, BidPair, BoundAssumption DEF Ballot, ZERO, BoundAssumption
<1>3. maxRound' \in [Node -> 0..MaxRound]
  BY <1>2 DEF OnNack, TypeOK, LaterRound
<1>4. prop' \in [Node -> Proposer]
  BY ProposerType DEF OnNack, TypeOK
<1> QED BY <1>3, <1>4, SendType DEF OnNack, TypeOK, durable, follow, env

LEMMA OnCommitType ==
  ASSUME TypeOK, NEW n \in Node, NEW m \in Message, OnCommit(n, m)
  PROVE  TypeOK'
<1>1. m.slot \in Slot /\ m.cmd \in Cmd
  BY MessageFields DEF OnCommit
<1> QED BY <1>1, LearnType, SendType DEF OnCommit, TypeOK, follow, env

LEMMA SendHeartbeatType ==
  ASSUME TypeOK, NEW n \in Node, SendHeartbeat(n)
  PROVE  TypeOK'
<1> DEFINE out == {m \in ToAll(n, Heartbeat(n, prop[n].bal, nextSlot[n])) : m.to # n}
<1>1. prop[n].bal \in Bid
  BY ProposerType DEF SendHeartbeat, ActiveProposer
<1>2. out \in SUBSET Message
  BY <1>1, MessageTypes DEF TypeOK
<1>3. Send(n, {}, out)
  BY DEF SendHeartbeat
<1>4. msgs' \in SUBSET Message /\ local' \in [Node -> SUBSET Message]
  BY <1>2, <1>3, SendType
<1> QED BY <1>4 DEF SendHeartbeat, TypeOK, durable, follow, env

LEMMA RetryType ==
  ASSUME TypeOK, NEW n \in Node, Retry(n)
  PROVE  TypeOK'
<1>1. PICK peers \in {{}} \cup {{k} : k \in Node \ {n}} : 
        Send(n, {}, {CatchUp(n, k, nextSlot[n]) : k \in peers} \cup
                      {Forward(n, leader[n], c) :
                         c \in IF leader[n] \in {0, n} THEN {} ELSE Open(n)})
  BY DEF Retry
<1>2. {CatchUp(n, k, nextSlot[n]) : k \in peers} \subseteq Message
  BY <1>1 DEF Message, CatchUp, TypeOK
<1>3. {Forward(n, leader[n], c) : c \in IF leader[n] \in {0, n} THEN {} ELSE Open(n)}
        \subseteq Message
  <2>1. Open(n) \subseteq Command
    BY DEF TypeOK, Open
  <2>2. leader[n] \notin {0, n} => leader[n] \in Node
    BY DEF TypeOK
  <2> QED BY <2>1, <2>2 DEF Message, Forward
<1>4. msgs' \in SUBSET Message /\ local' \in [Node -> SUBSET Message]
  BY <1>1, <1>2, <1>3, SendType
<1> QED BY <1>4 DEF Retry, TypeOK, durable, follow, env

LEMMA OnHeartbeatType ==
  ASSUME TypeOK, NEW n \in Node, NEW m \in Message, OnHeartbeat(n, m)
  PROVE  TypeOK'
<1>1. m.bal \in Bid /\ m.from \in Node
  BY MessageFields DEF OnHeartbeat
<1>2. CASE Send(n, {m}, {}) /\ UNCHANGED <<prop, follow>>
  BY <1>2, SendType DEF OnHeartbeat, TypeOK, durable, follow, env
<1>3. CASE /\ HeardLeader(n, m.bal, m.from)
           /\ Send(n, {m}, HandOver(n, m.bal, m.from) \cup
                        {CatchUp(n, m.from, k) : k \in {nextSlot[n]} \cap (0..m.slot - 1)})
  <2>1. HandOver(n, m.bal, m.from) \subseteq Message
    BY <1>1, HandOverType
  <2>2. {CatchUp(n, m.from, k) : k \in {nextSlot[n]} \cap (0..m.slot - 1)} \subseteq Message
    BY <1>1 DEF Message, CatchUp, TypeOK
  <2>3. msgs' \in SUBSET Message /\ local' \in [Node -> SUBSET Message]
    BY <1>3, <2>1, <2>2, SendType
  <2> QED BY <1>1, <1>3, <2>3, HeardLeaderType DEF OnHeartbeat, TypeOK, durable, env
<1> QED BY <1>2, <1>3 DEF OnHeartbeat

LEMMA OnCatchUpType ==
  ASSUME TypeOK, NEW n \in Node, NEW m \in Message, OnCatchUp(n, m)
  PROVE  TypeOK'
<1> DEFINE out == {Commit(n, m.from, e[1], e[2]) : e \in ChosenFrom(n, m.slot)}
<1>1. m.from \in Node /\ m.slot \in 0..LastSlot + 1
  BY MessageFields DEF OnCatchUp
<1>2. \A s \in m.slot..LastSlot : s \in Slot
  BY <1>1, BoundAssumption DEF Slot, BoundAssumption
<1>3. out \in SUBSET Message
  <2>1. \A e \in ChosenFrom(n, m.slot) : e[1] \in Slot /\ e[2] \in Cmd
    BY <1>2 DEF ChosenFrom, TypeOK
  <2> QED BY <1>1, <2>1 DEF Message, Commit
<1>4. Send(n, {m}, out)
  BY DEF OnCatchUp
<1>5. msgs' \in SUBSET Message /\ local' \in [Node -> SUBSET Message]
  BY <1>3, <1>4, SendType
<1> QED BY <1>5 DEF OnCatchUp, TypeOK, durable, follow, env

LEMMA RestartType ==
  ASSUME TypeOK, NEW n \in Node, Restart(n)
  PROVE  TypeOK'
<1>1. maxRound' \in [Node -> 0..MaxRound]
  <2>1. \A b \in Ballot : b[1] \in 0..MaxRound
    BY BidPair, BoundAssumption DEF Ballot, ZERO, BoundAssumption
  <2>2. StoredRounds(n) \subseteq 0..MaxRound
    BY <2>1 DEF StoredRounds, TypeOK, Entry
  <2> QED BY <2>2 DEF Restart, TypeOK
<1>2. prop' \in [Node -> Proposer]
  BY ProposerType DEF Restart, TypeOK
<1>3. crashes' \in 0..MaxCrashes
  BY BoundAssumption DEF Restart, TypeOK, BoundAssumption
<1> QED BY <1>1, <1>2, <1>3 DEF Restart, TypeOK, durable, Ballot

LEMMA NextType == TypeOK /\ [Next]_vars => TypeOK'
<1> SUFFICES ASSUME TypeOK, Next PROVE TypeOK'
  BY DEF TypeOK, vars
<1>1. PICK n \in Node : Receive(n) \/ Outside(n) \/ Restart(n)
  BY DEF Next
<1>2. CASE Receive(n)
  <2>1. PICK m \in local[n] \cup msgs : Handle(n, m)
    BY <1>2 DEF Receive
  <2>2. m \in Message
    BY <2>1 DEF TypeOK
  <2> QED BY <2>1, <2>2, OnPrepareType, OnPromiseType, OnAcceptType, OnAcceptedType, OnNackType,
             OnCommitType, OnHeartbeatType, OnCatchUpType, OnForwardType DEF Handle
<1>3. CASE Outside(n)
  <2>1. ASSUME QuorumLost(n) PROVE TypeOK'
    BY <2>1, ProposerType DEF QuorumLost, TypeOK, durable, follow, env
  <2>2. ASSUME NEW c \in Command, Abandon(n, c) PROVE TypeOK'
    BY <2>2 DEF Abandon, TypeOK, durable, follow, env
  <2> QED BY <1>3, <2>1, <2>2, StartCampaignType, SendHeartbeatType, RetryType, SubmitType
          DEF Outside
<1> QED BY <1>1, <1>2, <1>3, RestartType

(***************************************************************************)
(* Every reachable state is well typed, for every set of voters, commands  *)
(* and bounds.                                                             *)
(***************************************************************************)
THEOREM TypeCorrect == Spec => []TypeOK
BY InitType, NextType, PTL DEF Spec

-----------------------------------------------------------------------------
(* What every step respects: messages stay on the wire, promises and votes  *)
(* only rise, what is known to be chosen stays, and nobody accepts below    *)
(* the promise it had.                                                      *)
Grows ==
  /\ msgs \subseteq msgs'
  /\ \A a \in Node : promised[a] \preceq promised'[a]
  /\ \A a \in Node : floor[a] <= floor'[a]
  /\ \A a \in Node, s \in Slot : s < floor'[a] \/ accepted[a][s].bal \preceq accepted'[a][s].bal
  /\ \A n \in Node, s \in Slot : Known(n, s) => Known(n, s)'
  /\ \A m \in msgs' \ msgs : m.type = "Accepted" => promised[m.from] \preceq m.bal

LEMMA VotesStay ==
  ASSUME TypeOK, TypeOK', Grows, NEW a \in Node, NEW s \in Slot, NEW b \in Ballot, NEW c
  PROVE  /\ Voted(a, s, b) => Voted(a, s, b)'
         /\ Proposed(s, b, c) => Proposed(s, b, c)'
         /\ VotedFor(a, s, b, c) => VotedFor(a, s, b, c)'
         /\ WontVote(a, s, b) => WontVote(a, s, b)'
<1>1. Voted(a, s, b) => Voted(a, s, b)'
  BY DEF Grows, Voted
<1>2. Proposed(s, b, c) => Proposed(s, b, c)'
  BY DEF Grows, Proposed
<1>3. ASSUME WontVote(a, s, b) PROVE WontVote(a, s, b)'
  <2>1. promised[a] \in Ballot /\ promised'[a] \in Ballot /\ promised[a] \preceq promised'[a]
    BY DEF TypeOK, Grows
  <2>2. b \prec promised[a] /\ b \prec promised'[a]
    BY <1>3, <2>1, BallotChain DEF WontVote
  <2>3. ~Voted(a, s, b)'
    <3>1. SUFFICES ASSUME NEW m \in msgs', m.type = "Accepted", m.slot = s, m.bal = b, m.from = a
                   PROVE FALSE
      BY DEF Voted
    <3>2. m \notin msgs
      BY <1>3, <3>1 DEF WontVote, Voted
    <3>3. promised[a] \preceq b
      BY <3>1, <3>2 DEF Grows
    <3> QED BY <2>1, <2>2, <3>3, BallotChain
  <2> QED BY <2>2, <2>3 DEF WontVote
<1> QED BY <1>1, <1>2, <1>3 DEF VotedFor

LEMMA ChosenStays ==
  ASSUME TypeOK, TypeOK', Grows, NEW s \in Slot, NEW b \in Ballot, NEW c, ChosenIn(s, b, c)
  PROVE  ChosenIn(s, b, c)'
<1> DEFINE Q == {a \in Node : Voted(a, s, b)}
           R == {a \in Node : Voted(a, s, b)'}
<1>1. Q \subseteq R
  BY VotesStay
<1>2. IsQuorum(R)
  BY <1>1, QuorumGrows DEF ChosenIn
<1>3. Proposed(s, b, c)'
  BY DEF ChosenIn, Grows, Proposed
<1> QED BY <1>2, <1>3 DEF ChosenIn, IsQuorum

LEMMA SafetyStays ==
  ASSUME TypeOK, TypeOK', Grows, NEW s \in Slot, NEW b \in Ballot, NEW c
  PROVE  /\ SafeAt(s, b, c) => SafeAt(s, b, c)'
         /\ FreeAt(s, b) => FreeAt(s, b)'
<1>1. \A Q \in Quorum : \A a \in Q : a \in Node
  BY DEF Quorum
<1>2. ASSUME SafeAt(s, b, c) PROVE SafeAt(s, b, c)'
  BY <1>1, <1>2, VotesStay DEF SafeAt, Quorum, IsQuorum
<1>3. ASSUME FreeAt(s, b) PROVE FreeAt(s, b)'
  BY <1>1, <1>3, VotesStay DEF FreeAt, Quorum, IsQuorum
<1> QED BY <1>2, <1>3

(* A message keeps what it guarantees (for Accept, other than its being the *)
(* only proposal of its ballot and slot).                                   *)
LEMMA MessagesStay ==
  ASSUME IInv, TypeOK', Grows, NEW m \in msgs
  PROVE  /\ m.type = "Prepare" => PrepareInv(m)'
         /\ m.type = "Promise" => PromiseInv(m)'
         /\ m.type = "Accept" => /\ m.bal[2] = m.from
                                 /\ m.bal \preceq promised'[m.from]
                                 /\ SafeAt(m.slot, m.bal, m.cmd)'
         /\ m.type = "Accepted" => AcceptedInv(m)'
         /\ m.type = "Commit" => CommitInv(m)'
<1>0. m \in Message /\ m.from \in Node /\ m.to \in Node /\ TypeOK
  BY MessageFields DEF IInv, TypeOK
<1>1. ASSUME m.type = "Prepare" PROVE PrepareInv(m)'
  BY <1>0, <1>1 DEF IInv, MsgInv, PrepareInv, Grows
<1>2. ASSUME m.type = "Promise" PROVE PromiseInv(m)'
  <2>1. PromiseInv(m) /\ m.bal \in Ballot /\ m.acc \in [Slot -> Entry]
    BY <1>0, <1>2, MessageFields DEF IInv, MsgInv, Ballot
  <2>2. m.bal \preceq promised'[m.from]
    BY <1>0, <2>1, BallotChain DEF PromiseInv, Grows, TypeOK
  <2>3. ASSUME NEW s \in Slot, Truthful(m, s) PROVE Truthful(m, s)'
    <3>1. m.acc[s].bal \in Ballot
      BY <2>1 DEF Entry
    <3>2. ASSUME NEW d \in Ballot, m.acc[s].bal \prec d, d \prec m.bal
          PROVE  ~Voted(m.from, s, d)'
      <4>1. WontVote(m.from, s, d)
        BY <1>0, <2>1, <2>3, <3>2, BallotChain DEF Truthful, WontVote, PromiseInv, TypeOK
      <4> QED BY <1>0, <4>1, VotesStay DEF WontVote
    <3> QED BY <1>0, <2>3, <3>1, <3>2, VotesStay DEF Truthful
  <2> QED BY <1>0, <2>1, <2>2, <2>3 DEF PromiseInv, Grows
<1>3. ASSUME m.type = "Accept"
      PROVE  /\ m.bal[2] = m.from
             /\ m.bal \preceq promised'[m.from]
             /\ SafeAt(m.slot, m.bal, m.cmd)'
  <2>1. AcceptInv(m) /\ m.bal \in Ballot /\ m.slot \in Slot
    BY <1>0, <1>3, MessageFields DEF IInv, MsgInv, Ballot
  <2>2. m.bal \preceq promised'[m.from]
    BY <1>0, <2>1, BallotChain DEF AcceptInv, Grows, TypeOK
  <2> QED BY <1>0, <2>1, <2>2, SafetyStays DEF AcceptInv
<1>4. ASSUME m.type = "Accepted" PROVE AcceptedInv(m)'
  <2>1. AcceptedInv(m) /\ m.bal \in Ballot /\ m.slot \in Slot
    BY <1>0, <1>4, MessageFields DEF IInv, MsgInv, Ballot
  <2>2. m.slot < floor'[m.from] \/ m.bal \preceq accepted'[m.from][m.slot].bal
    <3>1. /\ floor[m.from] \in Int /\ floor'[m.from] \in Int /\ m.slot \in Int
          /\ floor[m.from] <= floor'[m.from]
      BY <1>0, <2>1, BoundAssumption DEF TypeOK, Slot, Grows, BoundAssumption
    <3>2. /\ accepted[m.from][m.slot].bal \in Ballot /\ accepted'[m.from][m.slot].bal \in Ballot
          /\ \/ m.slot < floor'[m.from]
             \/ accepted[m.from][m.slot].bal \preceq accepted'[m.from][m.slot].bal
      BY <1>0, <2>1 DEF TypeOK, Entry, Grows
    <3>3. m.slot < floor[m.from] \/ m.bal \preceq accepted[m.from][m.slot].bal
      BY <2>1 DEF AcceptedInv
    <3> QED BY <2>1, <3>1, <3>2, <3>3, BallotChain
  <2> QED BY <1>0, <2>1, <2>2, VotesStay DEF AcceptedInv
<1>5. ASSUME m.type = "Commit" PROVE CommitInv(m)'
  <2>1. CommitInv(m) /\ m.slot \in Slot
    BY <1>0, <1>5, MessageFields DEF IInv, MsgInv
  <2> QED BY <1>0, <2>1, ChosenStays DEF CommitInv
<1> QED BY <1>1, <1>2, <1>3, <1>4, <1>5

(* A step that proposes nothing keeps the uniqueness of proposals too. *)
LEMMA QuietMessages ==
  ASSUME IInv, TypeOK', Grows,
         \A m \in msgs' \ msgs : /\ m.type # "Accept"
                                 /\ m.type = "Prepare" => PrepareInv(m)'
                                 /\ m.type = "Promise" => PromiseInv(m)'
                                 /\ m.type = "Accepted" => AcceptedInv(m)'
                                 /\ m.type = "Commit" => CommitInv(m)'
  PROVE  MsgInv'
<1>1. ASSUME NEW m \in msgs, m.type = "Accept" PROVE AcceptInv(m)'
  <2>1. AcceptInv(m)
    BY <1>1 DEF IInv, MsgInv
  <2> QED BY <1>1, <2>1, MessagesStay DEF AcceptInv
<1> QED BY <1>1, MessagesStay DEF MsgInv, Grows

-----------------------------------------------------------------------------
(* The queue of messages to oneself *)

LEMMA LocalStep ==
  ASSUME IInv, NEW n \in Node, NEW m, NEW out, Handles(n, m), Send(n, {m}, out),
         \A x \in out : x.from = n /\ x.type # "Prepare"
  PROVE  /\ LocalInv'
         /\ \A k \in Node : k # n => local'[k] = local[k]
<1>1. LocalInv /\ local \in [Node -> SUBSET Message]
  BY DEF IInv, TypeOK
<1>2. /\ local' = [local EXCEPT ![n] = (@ \ {m}) \cup {x \in out : x.to = n}]
      /\ msgs' = msgs \cup out
  BY DEF Send
<1>3. \A k \in Node : k # n => local'[k] = local[k]
  BY <1>1, <1>2
<1>4. local'[n] = (local[n] \ {m}) \cup {x \in out : x.to = n}
  BY <1>1, <1>2
<1>5. \A x \in local'[n] : x \in msgs' /\ x.from = n /\ x.to = n
  BY <1>1, <1>2, <1>4 DEF LocalInv
<1>6. \A x \in local'[n] : x.type # "Prepare"
  <2>1. SUFFICES ASSUME NEW x \in local[n] \ {m}, x.type = "Prepare" PROVE FALSE
    BY <1>4
  <2>2. local[n] = {x}
    BY <1>1, <2>1 DEF LocalInv
  <2>3. m \in local[n]
    BY <2>1, <2>2 DEF Handles, Event
  <2> QED BY <2>1, <2>2, <2>3
<1> QED BY <1>1, <1>2, <1>3, <1>5, <1>6 DEF LocalInv

LEMMA LocalEvent ==
  ASSUME IInv, NEW n \in Node, NEW out, local[n] = {}, Send(n, {}, out),
         \A x \in out : x.from = n /\ x.type # "Prepare"
  PROVE  /\ LocalInv'
         /\ \A k \in Node : k # n => local'[k] = local[k]
BY DEF IInv, TypeOK, LocalInv, Send

(* A candidate that handles anything but its own Prepare, or whose queue is *)
(* empty, has saved its own promise.                                        *)
LEMMA CandidateReady ==
  ASSUME IInv, NEW n \in Node, prop[n].role = "candidate",
         \/ local[n] = {}
         \/ \E m : Handles(n, m) /\ (m.type # "Prepare" \/ m.from # n)
  PROVE  prop[n].bal \preceq promised[n]
<1>1. CandidateInv(n) /\ LocalInv
  BY DEF IInv, ProposerInv, ProposerInvAt
<1>2. SUFFICES ASSUME NEW q \in local[n], q.type = "Prepare" PROVE FALSE
  BY <1>1 DEF CandidateInv
<1>3. local[n] = {q} /\ q.from = n
  BY <1>1, <1>2 DEF LocalInv
<1> QED BY <1>2, <1>3 DEF Handles, Event

-----------------------------------------------------------------------------
(* A proposer the step leaves alone *)

LEMMA ProposerStays ==
  ASSUME IInv, TypeOK', Grows, NEW n \in Node, prop'[n] = prop[n],
         prop[n].role # "follower" => maxRound[n] <= maxRound'[n],
         \A m \in msgs' \ msgs : m.type = "Accept" => m.bal # prop[n].bal,
         prop[n].role = "candidate" => prop[n].bal \preceq promised'[n] \/ local'[n] = local[n]
  PROVE  ProposerInvAt(n)'
<1>1. ProposerInvAt(n) /\ TypeOK
  BY DEF IInv, ProposerInv
<1>2. CASE prop[n].role = "follower"
  BY <1>2 DEF ProposerInvAt
<1>3. CASE prop[n].role # "follower"
  <2>1. prop[n] \in ActiveProposer /\ prop[n].bal \in Ballot
    BY <1>1, <1>3, ProposerType DEF ActiveProposer, Ballot
  <2>2. prop[n].bal[2] = n /\ prop'[n].bal[1] <= maxRound'[n]
    BY <1>1, <1>3, <2>1, BallotOrder DEF ProposerInvAt, TypeOK
  <2>3. prop[n].bal \preceq promised[n] => prop[n].bal \preceq promised'[n]
    BY <1>1, <2>1, BallotChain DEF TypeOK, Grows
  <2>4. ASSUME prop[n].role = "candidate" PROVE CandidateInv(n)'
    <3>1. CandidateInv(n)
      BY <1>1, <2>4 DEF ProposerInvAt
    <3> QED BY <2>3, <2>4, <3>1 DEF CandidateInv, Grows
  <2>5. ASSUME prop[n].role = "leader" PROVE LeaderInv(n)'
    <3>1. LeaderInv(n)
      BY <1>1, <2>5 DEF ProposerInvAt
    <3>2. ASSUME NEW s \in Slot, prop[n].inflight[s] # None
          PROVE  /\ Proposed(s, prop[n].bal, prop[n].inflight[s])'
                 /\ \A a \in prop[n].acks[s] : Voted(a, s, prop[n].bal)'
      <4>1. \A a \in prop[n].acks[s] : a \in Node
        BY <2>1, <3>2 DEF ActiveProposer
      <4> QED BY <1>1, <2>1, <3>1, <3>2, <4>1, VotesStay DEF LeaderInv
    <3>3. ASSUME NEW s \in Slot, s >= prop[n].free
          PROVE  /\ FreeAt(s, prop[n].bal)'
                 /\ \A m \in msgs' : m.type = "Accept" /\ m.slot = s => m.bal # prop[n].bal
      BY <1>1, <2>1, <3>1, <3>3, SafetyStays DEF LeaderInv
    <3> QED BY <2>3, <3>1, <3>2, <3>3 DEF LeaderInv
  <2> QED BY <1>3, <2>2, <2>4, <2>5 DEF ProposerInvAt
<1> QED BY <1>2, <1>3

LEMMA FollowerFine ==
  ASSUME NEW n \in Node, prop'[n] = Follower
  PROVE  ProposerInvAt(n)'
BY DEF ProposerInvAt, Follower, Fresh

-----------------------------------------------------------------------------
(* Steps that neither promise, accept, propose nor learn *)

LEMMA QuietGrows ==
  ASSUME TypeOK, UNCHANGED <<promised, accepted, floor>>, msgs \subseteq msgs',
         \A n \in Node, s \in Slot : chosen[n][s] # None => chosen'[n][s] # None,
         \A m \in msgs' \ msgs : m.type # "Accepted"
  PROVE  Grows
BY BallotChain DEF Grows, TypeOK, Entry, Known

LEMMA AcceptorStays ==
  ASSUME IInv, TypeOK', Grows, UNCHANGED <<promised, accepted>>,
         \A a \in Node : promised[a][1] <= maxRound'[a]
  PROVE  AcceptorInv'
<1>1. SUFFICES ASSUME NEW a \in Node, NEW s \in Slot, accepted[a][s].bal # ZERO
               PROVE  VotedFor(a, s, accepted[a][s].bal, accepted[a][s].cmd)'
  BY DEF AcceptorInv, IInv
<1>2. TypeOK /\ accepted[a][s].bal \in Ballot /\ AcceptorInv
  BY DEF IInv, TypeOK, Entry
<1> QED BY <1>1, <1>2, VotesStay DEF AcceptorInv

LEMMA ReplicaStays ==
  ASSUME IInv, TypeOK', Grows, UNCHANGED <<chosen, nextSlot, floor>>
  PROVE  ReplicaInv'
<1>1. TypeOK /\ ReplicaInv
  BY DEF IInv
<1> QED BY <1>1, ChosenStays DEF ReplicaInv, Known

LEMMA QuietStep ==
  ASSUME IInv, TypeOK', msgs \subseteq msgs', LocalInv',
         UNCHANGED <<promised, accepted, chosen, nextSlot, floor>>,
         \A m \in msgs' \ msgs :
           /\ m.type \notin {"Prepare", "Promise", "Accept", "Accepted"}
           /\ m.type = "Commit" => CommitInv(m),
         \A a \in Node : promised[a][1] <= maxRound'[a],
         \A k \in Node :
           \/ prop'[k] = Follower
           \/ /\ prop'[k] = prop[k]
              /\ maxRound[k] <= maxRound'[k]
              /\ prop[k].role = "candidate" =>
                   prop[k].bal \preceq promised[k] \/ local'[k] = local[k]
  PROVE  IInv'
<1>1. TypeOK
  BY DEF IInv
<1>2. Grows
  BY <1>1, QuietGrows
<1>3. ASSUME NEW m \in msgs' \ msgs, m.type = "Commit" PROVE CommitInv(m)'
  <2>1. CommitInv(m) /\ m.slot \in Slot
    BY <1>3, MessageFields DEF TypeOK
  <2> QED BY <1>1, <1>2, <2>1, ChosenStays DEF CommitInv
<1>4. MsgInv'
  BY <1>2, <1>3, QuietMessages
<1>5. ASSUME NEW k \in Node PROVE ProposerInvAt(k)'
  BY <1>2, <1>5, ProposerStays, FollowerFine
<1> QED BY <1>2, <1>4, <1>5, AcceptorStays, ReplicaStays DEF IInv, ProposerInv

(* The two ways a step of node n is quiet for every proposer: its own one    *)
(* resigns or stays, with its promise saved, and the others are not touched. *)
LEMMA QuietHandler ==
  ASSUME IInv, TypeOK', NEW n \in Node, NEW m, NEW out, Handles(n, m), m.type # "Prepare",
         Send(n, {m}, out), \A x \in out : x.from = n,
         \A x \in out : /\ x.type \notin {"Prepare", "Promise", "Accept", "Accepted"}
                        /\ x.type = "Commit" => CommitInv(x),
         UNCHANGED <<promised, accepted, chosen, nextSlot, floor>>,
         \A k \in Node : maxRound[k] <= maxRound'[k],
         prop' = prop \/ prop' = [prop EXCEPT ![n] = Follower]
  PROVE  IInv'
<1>1. LocalInv' /\ \A k \in Node : k # n => local'[k] = local[k]
  BY LocalStep
<1>2. msgs \subseteq msgs' /\ msgs' \ msgs \subseteq out
  BY DEF Send
<1>3. TypeOK /\ AcceptorInv
  BY DEF IInv
<1>4. \A a \in Node : promised[a][1] <= maxRound'[a]
  BY <1>3, BallotOrder DEF AcceptorInv, TypeOK
<1>5. prop[n].role = "candidate" => prop[n].bal \preceq promised[n]
  BY CandidateReady
<1>6. \A k \in Node : k # n => prop'[k] = prop[k]
  BY <1>3 DEF TypeOK
<1>7. prop'[n] = prop[n] \/ prop'[n] = Follower
  BY <1>3 DEF TypeOK
<1> QED BY <1>1, <1>2, <1>4, <1>5, <1>6, <1>7, QuietStep

LEMMA QuietEvent ==
  ASSUME IInv, TypeOK', NEW n \in Node, NEW out, local[n] = {}, Send(n, {}, out),
         \A x \in out : x.from = n /\ x.type \notin {"Prepare", "Promise", "Accept", "Accepted", "Commit"},
         UNCHANGED <<promised, accepted, chosen, nextSlot, floor, maxRound>>,
         prop' = prop \/ prop' = [prop EXCEPT ![n] = Follower]
  PROVE  IInv'
<1>1. LocalInv' /\ \A k \in Node : k # n => local'[k] = local[k]
  BY LocalEvent
<1>2. msgs \subseteq msgs' /\ msgs' \ msgs \subseteq out
  BY DEF Send
<1>3. TypeOK /\ AcceptorInv
  BY DEF IInv
<1>4. \A a \in Node : promised[a][1] <= maxRound'[a] /\ maxRound[a] <= maxRound'[a]
  BY <1>3, BallotOrder DEF AcceptorInv, TypeOK
<1>5. prop[n].role = "candidate" => prop[n].bal \preceq promised[n]
  BY CandidateReady
<1>6. \A k \in Node : k # n => prop'[k] = prop[k]
  BY <1>3 DEF TypeOK
<1>7. prop'[n] = prop[n] \/ prop'[n] = Follower
  BY <1>3 DEF TypeOK
<1> QED BY <1>1, <1>2, <1>4, <1>5, <1>6, <1>7, QuietStep

(* Every handler and event below is of one of these two forms. *)

LEMMA MaxRoundKept ==
  ASSUME TypeOK, UNCHANGED maxRound
  PROVE  \A k \in Node : maxRound[k] <= maxRound'[k]
BY DEF TypeOK

LEMMA OnNackSafe ==
  ASSUME IInv, TypeOK', NEW n \in Node, NEW m \in Message, Handles(n, m), OnNack(n, m)
  PROVE  IInv'
<1>1. TypeOK /\ m.promised[1] \in Nat
  BY MessageFields, BallotOrder DEF IInv, OnNack
<1>2. \A k \in Node : maxRound[k] <= maxRound'[k]
  BY <1>1 DEF OnNack, TypeOK, LaterRound
<1>3. prop' = prop \/ prop' = [prop EXCEPT ![n] = Follower]
  BY <1>1 DEF OnNack, TypeOK
<1>4. Send(n, {m}, {}) /\ m.type # "Prepare" /\ UNCHANGED <<promised, accepted, chosen, nextSlot, floor>>
  BY DEF OnNack, durable
<1>5. \A x \in {} : /\ x.from = n
                   /\ x.type \notin {"Prepare", "Promise", "Accept", "Accepted"}
                   /\ x.type = "Commit" => CommitInv(x)
  OBVIOUS
<1> QED BY <1>2, <1>3, <1>4, <1>5, QuietHandler

LEMMA SendHeartbeatSafe ==
  ASSUME IInv, TypeOK', NEW n \in Node, SendHeartbeat(n)
  PROVE  IInv'
<1> DEFINE out == {m \in ToAll(n, Heartbeat(n, prop[n].bal, nextSlot[n])) : m.to # n}
<1>1. \A x \in out : x.from = n /\ x.type = "Heartbeat"
  BY DEF ToAll, Heartbeat
<1> HIDE DEF out
<1>2. Send(n, {}, out) /\ local[n] = {} /\ UNCHANGED prop
  BY DEF SendHeartbeat, Event, out
<1> QED BY <1>1, <1>2, QuietEvent DEF SendHeartbeat, durable

LEMMA StepDownSafe ==
  ASSUME IInv, TypeOK', NEW n \in Node,
         QuorumLost(n) \/ \E c \in Command : Abandon(n, c)
  PROVE  IInv'
<1>1. Send(n, {}, {}) /\ local[n] = {}
  BY DEF QuorumLost, Abandon, Event, Send, IInv, TypeOK
<1>2. \A x \in {} : x.from = n /\ x.type \notin {"Prepare", "Promise", "Accept", "Accepted", "Commit"}
  OBVIOUS
<1> QED BY <1>1, <1>2, QuietEvent DEF QuorumLost, Abandon, durable

LEMMA RetrySafe ==
  ASSUME IInv, TypeOK', NEW n \in Node, Retry(n)
  PROVE  IInv'
<1>1. PICK peers \in {{}} \cup {{k} : k \in Node \ {n}} :
        Send(n, {}, {CatchUp(n, k, nextSlot[n]) : k \in peers} \cup
                    {Forward(n, leader[n], c) :
                       c \in IF leader[n] \in {0, n} THEN {} ELSE Open(n)})
  BY DEF Retry
<1> DEFINE out == {CatchUp(n, k, nextSlot[n]) : k \in peers} \cup
                  {Forward(n, leader[n], c) :
                     c \in IF leader[n] \in {0, n} THEN {} ELSE Open(n)}
<1>2. \A x \in out : x.from = n /\ x.type \in {"CatchUp", "Forward"}
  BY DEF CatchUp, Forward
<1>3. Send(n, {}, out)
  BY <1>1
<1> HIDE DEF out
<1> QED BY <1>2, <1>3, QuietEvent DEF Retry, durable, Event

LEMMA HandOverFields ==
  ASSUME NEW n \in Node, NEW b, NEW k, NEW x \in HandOver(n, b, k)
  PROVE  x.from = n /\ x.type = "Forward"
BY DEF HandOver, Forward

LEMMA OnHeartbeatSafe ==
  ASSUME IInv, TypeOK', NEW n \in Node, NEW m \in Message, Handles(n, m), OnHeartbeat(n, m)
  PROVE  IInv'
<1>1. TypeOK
  BY DEF IInv
<1>2. prop' = prop \/ prop' = [prop EXCEPT ![n] = Follower]
  BY <1>1 DEF OnHeartbeat, HeardLeader, TypeOK
<1>3. PICK out : /\ Send(n, {m}, out)
                 /\ \A x \in out : x.from = n /\ x.type \in {"CatchUp", "Forward"}
  <2>1. \A x \in {CatchUp(n, m.from, k) : k \in {nextSlot[n]} \cap (0..m.slot - 1)} :
          x.from = n /\ x.type = "CatchUp"
    BY DEF CatchUp
  <2> QED BY <2>1, HandOverFields DEF OnHeartbeat
<1> QED BY <1>1, <1>2, <1>3, QuietHandler, MaxRoundKept DEF OnHeartbeat, durable

LEMMA OnCatchUpSafe ==
  ASSUME IInv, TypeOK', NEW n \in Node, NEW m \in Message, Handles(n, m), OnCatchUp(n, m)
  PROVE  IInv'
<1> DEFINE out == {Commit(n, m.from, e[1], e[2]) : e \in ChosenFrom(n, m.slot)}
<1>1. TypeOK /\ ReplicaInv /\ m.slot \in 0..LastSlot + 1
  BY MessageFields DEF IInv, OnCatchUp
<1>2. ASSUME NEW x \in out
      PROVE  x.from = n /\ x.type = "Commit" /\ CommitInv(x)
  <2>1. PICK s \in m.slot..LastSlot : chosen[n][s] # None /\ x = Commit(n, m.from, s, chosen[n][s])
    BY DEF ChosenFrom
  <2>2. s \in Slot
    BY <1>1, <2>1, BoundAssumption DEF Slot, BoundAssumption
  <2> QED BY <1>1, <2>1, <2>2 DEF ReplicaInv, CommitInv, Commit
<1>3. Send(n, {m}, out)
  BY DEF OnCatchUp
<1> HIDE DEF out
<1> QED BY <1>1, <1>2, <1>3, QuietHandler, MaxRoundKept DEF OnCatchUp, durable

LEMMA RestartSafe ==
  ASSUME IInv, TypeOK', NEW n \in Node, Restart(n)
  PROVE  IInv'
<1>1. TypeOK /\ LocalInv /\ AcceptorInv
  BY DEF IInv
<1>2. /\ UNCHANGED <<promised, accepted, chosen, nextSlot, floor, msgs>>
      /\ prop'[n] = Follower /\ local'[n] = {}
      /\ \A k \in Node : k # n => prop'[k] = prop[k] /\ local'[k] = local[k] /\ maxRound'[k] = maxRound[k]
      /\ promised[n][1] <= maxRound'[n]
  BY <1>1 DEF Restart, StoredRounds, durable, TypeOK
<1>3. LocalInv'
  BY <1>1, <1>2 DEF LocalInv
<1>4. \A a \in Node : promised[a][1] <= maxRound'[a]
  BY <1>1, <1>2 DEF AcceptorInv
<1>5. \A k \in Node : k # n => maxRound[k] <= maxRound'[k]
  BY <1>1, <1>2 DEF TypeOK
<1> QED BY <1>2, <1>3, <1>4, <1>5, QuietStep

-----------------------------------------------------------------------------
(* Phase 1 *)

(* A new candidacy is under a ballot nothing was proposed under: what is     *)
(* proposed under n's ballots, n promised, and maxRound[n] is not below it.  *)
LEMMA StartCampaignSafe ==
  ASSUME IInv, TypeOK', NEW n \in Node, StartCampaign(n)
  PROVE  IInv'
<1> DEFINE b == <<maxRound[n] + 1, n>>
           out == ToAll(n, Prepare(n, b, nextSlot[n]))
<1>1. TypeOK /\ MsgInv /\ ReplicaInv /\ LocalInv /\ AcceptorInv
  BY DEF IInv
<1>2. /\ b \in Bid /\ local[n] = {} /\ maxRound'[n] = maxRound[n] + 1
      /\ b[1] = maxRound[n] + 1 /\ b[2] = n /\ maxRound[n] \in Nat
      /\ \A k \in Node : k # n => maxRound'[k] = maxRound[k] /\ prop'[k] = prop[k]
      /\ prop'[n] = Candidate(b)
      /\ UNCHANGED <<promised, accepted, chosen, nextSlot, floor>>
  BY <1>1, BoundAssumption DEF StartCampaign, TypeOK, Event, Bid, BoundAssumption, durable, replica
<1>3. \A x \in out : /\ x.from = n /\ x.type = "Prepare" /\ x.bal = b /\ x.slot = nextSlot[n]
                     /\ \E k \in Node : x = [Prepare(n, b, nextSlot[n]) EXCEPT !.to = k]
  BY DEF ToAll, Prepare
<1>4. /\ msgs' = msgs \cup out
      /\ local' = [local EXCEPT ![n] = {x \in out : x.to = n}]
  BY <1>2 DEF StartCampaign, Send
<1>5. local'[n] = {Prepare(n, b, nextSlot[n])}
  <2>1. local'[n] = {x \in out : x.to = n}
    BY <1>1, <1>4 DEF TypeOK
  <2>2. {x \in out : x.to = n} = {Prepare(n, b, nextSlot[n])}
    BY DEF ToAll, Prepare
  <2> QED BY <2>1, <2>2
<1> HIDE DEF out, b
<1>6. Grows
  <2>1. \A m \in msgs' \ msgs : m.type = "Prepare"
    BY <1>3, <1>4
  <2> QED BY <1>1, <1>2, <1>4, <2>1, QuietGrows
<1>7. MsgInv'
  <2>1. ASSUME NEW x \in out PROVE PrepareInv(x)'
    BY <1>1, <1>2, <1>3 DEF ReplicaInv, PrepareInv, Known
  <2> QED BY <1>3, <1>4, <1>6, <2>1, QuietMessages
<1>8. \A a \in Node : promised[a][1] <= maxRound'[a] /\ maxRound[a] <= maxRound'[a]
  <2>1. \A a \in Node : promised[a][1] \in Nat /\ maxRound[a] \in Nat
    BY <1>1, BallotOrder, BoundAssumption DEF TypeOK, BoundAssumption
  <2>2. \A a \in Node : maxRound[a] <= maxRound'[a]
    BY <1>2, <2>1
  <2>3. \A a \in Node : promised[a][1] <= maxRound[a]
    BY <1>1 DEF AcceptorInv
  <2> QED BY <1>2, <2>1, <2>2, <2>3
<1>9. ASSUME NEW m \in msgs', m.type = "Accept" PROVE m.bal # b
  <2>1. SUFFICES ASSUME m.bal = b PROVE FALSE
    OBVIOUS
  <2>2. m \in msgs /\ AcceptInv(m)
    BY <1>1, <1>3, <1>4, <1>9 DEF MsgInv
  <2>3. b \preceq promised[n]
    BY <1>2, <2>1, <2>2 DEF AcceptInv
  <2>4. b[1] <= promised[n][1] /\ promised[n][1] <= maxRound[n]
    <3>1. promised[n] \in Ballot /\ b \in Ballot
      BY <1>1, <1>2 DEF TypeOK, Ballot
    <3> QED BY <1>1, <2>3, <3>1, BallotChain DEF AcceptorInv
  <2>5. promised[n][1] \in Nat
    BY <1>1, BallotOrder DEF TypeOK
  <2> QED BY <1>2, <2>4, <2>5
<1>10. ASSUME NEW k \in Node PROVE ProposerInvAt(k)'
  <2>1. CASE k # n
    <3>1. \A m \in msgs' \ msgs : m.type # "Accept"
      BY <1>3, <1>4
    <3>2. local'[k] = local[k]
      BY <1>1, <1>4, <2>1 DEF TypeOK
    <3> QED BY <1>2, <1>6, <1>8, <2>1, <3>1, <3>2, ProposerStays
  <2>2. CASE k = n
    <3>1. /\ prop'[n].role = "candidate" /\ prop'[n].bal = b /\ prop'[n].promises = {}
      BY <1>2, CandidateType
    <3>2. Prepare(n, b, nextSlot[n]).type = "Prepare" /\ Prepare(n, b, nextSlot[n]).bal = b
      BY DEF Prepare
    <3>3. CandidateInv(n)'
      BY <1>5, <1>9, <3>1, <3>2 DEF CandidateInv
    <3>4. prop'[n].bal[1] <= maxRound'[n]
      BY <1>2, <3>1
    <3> QED BY <1>2, <2>2, <3>1, <3>3, <3>4 DEF ProposerInvAt
  <2> QED BY <2>1, <2>2
<1>11. LocalInv'
  <2>1. \A m \in local'[n] : m \in msgs' /\ m.from = n /\ m.to = n
    BY <1>3, <1>4, <1>1 DEF TypeOK
  <2>2. \A k \in Node : k # n => local'[k] = local[k]
    BY <1>1, <1>4 DEF TypeOK
  <2> QED BY <1>1, <1>4, <1>5, <2>1, <2>2 DEF LocalInv
<1> QED BY <1>2, <1>6, <1>7, <1>8, <1>10, <1>11, AcceptorStays, ReplicaStays
        DEF IInv, ProposerInv

(* Answering a Prepare keeps a candidate's promise saved: if it is its own,  *)
(* this is the step that saves it, or a later promise was saved before.      *)
LEMMA PrepareAnswered ==
  ASSUME IInv, NEW n \in Node, NEW m \in Message, Handles(n, m), m.type = "Prepare",
         prop[n].role = "candidate"
  PROVE  prop[n].bal \preceq promised[n] \/ prop[n].bal = m.bal
<1>1. CASE m.from # n
  BY <1>1, CandidateReady
<1>2. CASE m.from = n
  <2>1. LocalInv /\ CandidateInv(n)
    BY DEF IInv, ProposerInv, ProposerInvAt
  <2>2. local[n] = {m}
    BY <1>2, <2>1 DEF LocalInv, Handles
  <2> QED BY <2>1, <2>2 DEF CandidateInv
<1> QED BY <1>1, <1>2

LEMMA OnPrepareSafe ==
  ASSUME IInv, TypeOK', NEW n \in Node, NEW m \in Message, m \in msgs, Handles(n, m), Candid(n, m),
         OnPrepare(n, m)
  PROVE  IInv'
<1>1. TypeOK /\ MsgInv /\ ReplicaInv /\ LocalInv /\ AcceptorInv
  BY DEF IInv
<1>2. /\ m.bal \in Bid /\ m.bal \in Ballot /\ PrepareInv(m) /\ m.from \in Node
      /\ promised[n] \in Ballot /\ promised'[n] \in Ballot
      /\ promised[n][1] \in Nat /\ m.bal[1] \in Nat /\ maxRound[n] \in Nat
      /\ UNCHANGED <<accepted, chosen, nextSlot, floor>>
      /\ m.slot \in Int /\ floor[n] \in Int
  BY <1>1, MessageFields, BallotOrder, BoundAssumption
     DEF OnPrepare, MsgInv, Ballot, TypeOK, replica, BoundAssumption
<1>3. CASE /\ m.bal \prec promised[n]
           /\ Send(n, {m}, {Nack(n, m.bal)})
           /\ UNCHANGED <<promised, maxRound, prop>>
  <2>1. LocalInv' /\ \A k \in Node : k # n => local'[k] = local[k]
    BY <1>3, LocalStep DEF Nack
  <2>2. prop[n].role = "candidate" => prop[n].bal \preceq promised[n]
    BY <1>3, PrepareAnswered DEF OnPrepare, \preceq
  <2>3. \A a \in Node : promised[a][1] <= maxRound'[a] /\ maxRound[a] <= maxRound'[a]
    BY <1>1, <1>3 DEF AcceptorInv, TypeOK
  <2>4. msgs \subseteq msgs' /\ \A x \in msgs' \ msgs : x.type = "Nack"
    BY <1>3 DEF Send, Nack
  <2> QED BY <1>2, <1>3, <2>1, <2>2, <2>3, <2>4, QuietStep
<1>4. ASSUME NEW acc, acc = EntriesFrom(n, m.slot),
             promised[n] \preceq m.bal,
             Send(n, {m}, {Promise(n, m.bal, acc)}),
             promised' = [promised EXCEPT ![n] = m.bal],
             maxRound' = [maxRound EXCEPT ![n] = LaterRound(@, m.bal[1])],
             prop' = [prop EXCEPT ![n] =
                       IF Outranked(n, m.bal, m.from) THEN Follower ELSE @]
      PROVE  IInv'
  <2> DEFINE p == Promise(n, m.bal, acc)
  <2>1. /\ p.type = "Promise" /\ p.from = n /\ p.to = m.bal[2] /\ p.bal = m.bal /\ p.acc = acc
        /\ msgs' = msgs \cup {p}
    BY <1>4 DEF Promise, Send
  <2>2. LocalInv' /\ \A k \in Node : k # n => local'[k] = local[k]
    <3>1. Send(n, {m}, {p}) /\ \A x \in {p} : x.from = n /\ x.type # "Prepare"
      BY <1>4, <2>1
    <3> HIDE DEF p
    <3> QED BY <3>1, LocalStep
  <2> HIDE DEF p
  <2>3. promised'[n] = m.bal /\ \A a \in Node : a # n => promised'[a] = promised[a]
    BY <1>1, <1>4 DEF TypeOK
  <2>4. Grows
    <3>1. \A a \in Node : promised[a] \preceq promised'[a]
      BY <1>4, <2>3 DEF \preceq
    <3>2. \A a \in Node : /\ floor[a] <= floor'[a]
                         /\ \A s \in Slot : accepted[a][s].bal \preceq accepted'[a][s].bal
      BY <1>1, <1>2, BoundAssumption DEF \preceq, TypeOK, BoundAssumption
    <3> QED BY <1>2, <2>1, <3>1, <3>2 DEF Grows, Known
  <2>5. ASSUME NEW s \in Slot, s >= m.slot PROVE Truthful(p, s)'
    <3>1. acc[s] = accepted[n][s] /\ accepted[n][s].bal \in Ballot
      BY <1>1, <1>4, <2>5 DEF TypeOK, Entry, EntriesFrom
    <3>2. acc[s].bal # ZERO => VotedFor(n, s, acc[s].bal, acc[s].cmd)'
      BY <1>1, <2>4, <3>1, VotesStay DEF AcceptorInv
    <3>3. ASSUME NEW d \in Ballot, acc[s].bal \prec d, d \prec m.bal, Voted(n, s, d)' PROVE FALSE
      <4>1. PICK x \in msgs : x.type = "Accepted" /\ x.slot = s /\ x.bal = d /\ x.from = n
        BY <2>1, <3>3 DEF Voted
      <4>2. ~VotedBetween(n, s, accepted[n][s].bal, m.bal) \/ ~(m.slot <= s /\ s < floor[n])
        <5>1. ~(m.bal \prec promised[n])
          BY <1>2, <1>4, BallotChain
        <5> QED BY <5>1 DEF Candid, OnPrepare
      <4>3. VotedBetween(n, s, accepted[n][s].bal, m.bal)
        BY <3>1, <3>3, <4>1 DEF VotedBetween, Voted
      <4>4. d \preceq accepted[n][s].bal
        <5>1. s < floor[n] \/ d \preceq accepted[n][s].bal
          BY <1>1, <4>1 DEF MsgInv, AcceptedInv
        <5>2. s \in Int
          BY BoundAssumption DEF Slot, BoundAssumption
        <5> QED BY <1>2, <2>5, <4>2, <4>3, <5>1, <5>2
      <4> QED BY <3>1, <3>3, <4>4, BallotChain
    <3> QED BY <2>1, <3>2, <3>3 DEF Truthful
  <2>6. PromiseInv(p)'
    <3>1. \A s \in Slot : s >= m.slot \/ Known(p.to, s)'
      <4>1. p.to = m.from
        BY <1>2, <2>1 DEF PrepareInv
      <4>2. \A s \in Slot : s >= m.slot \/ s < m.slot
        BY <1>2, MessageFields, BoundAssumption DEF Slot, BoundAssumption, OnPrepare
      <4> QED BY <1>2, <4>1, <4>2 DEF PrepareInv, Known
    <3> QED BY <1>2, <2>1, <2>3, <2>5, <3>1 DEF PromiseInv, \preceq
  <2>7. MsgInv'
    BY <2>1, <2>4, <2>6, QuietMessages
  <2>8. \A a \in Node : promised'[a][1] <= maxRound'[a] /\ maxRound[a] <= maxRound'[a]
    <3>1. \A a \in Node : promised[a][1] <= maxRound[a] /\ maxRound[a] \in Nat
      BY <1>1, BoundAssumption DEF AcceptorInv, TypeOK, BoundAssumption
    <3>2. \A a \in Node : a # n => maxRound'[a] = maxRound[a]
      BY <1>1, <1>4 DEF TypeOK
    <3>3. maxRound'[n] = LaterRound(maxRound[n], m.bal[1])
      BY <1>1, <1>4 DEF TypeOK
    <3>4. maxRound'[n] >= m.bal[1] /\ maxRound'[n] >= maxRound[n]
      BY <1>2, <3>3 DEF LaterRound
    <3> QED BY <1>2, <2>3, <3>1, <3>2, <3>4
  <2>9. AcceptorInv'
    <3>1. SUFFICES ASSUME NEW a \in Node, NEW s \in Slot
                   PROVE  /\ accepted[a][s].bal \preceq promised'[a]
                          /\ accepted[a][s].bal # ZERO =>
                               VotedFor(a, s, accepted[a][s].bal, accepted[a][s].cmd)'
      BY <1>2, <2>8 DEF AcceptorInv
    <3>2. accepted[a][s].bal \in Ballot /\ promised[a] \in Ballot /\ promised'[a] \in Ballot
      BY <1>1 DEF TypeOK, Entry
    <3>3. accepted[a][s].bal \preceq promised'[a]
      BY <1>1, <2>4, <3>2, BallotChain DEF AcceptorInv, Grows
    <3>4. accepted[a][s].bal # ZERO => VotedFor(a, s, accepted[a][s].bal, accepted[a][s].cmd)
      BY <1>1 DEF AcceptorInv
    <3> QED BY <1>1, <1>2, <2>4, <3>2, <3>3, <3>4, VotesStay
  <2>10. ASSUME NEW k \in Node PROVE ProposerInvAt(k)'
    <3>1. CASE prop'[k] = Follower
      BY <3>1, FollowerFine
    <3>2. CASE prop'[k] = prop[k]
      <4>1. k = n /\ prop[n].role = "candidate" => prop[n].bal \preceq promised'[n]
        <5>1. SUFFICES ASSUME prop[n].role = "candidate" PROVE prop[n].bal \preceq promised'[n]
          OBVIOUS
        <5>2. prop[n].bal \preceq promised[n] \/ prop[n].bal = m.bal
          BY <5>1, PrepareAnswered DEF OnPrepare
        <5>3. prop[n].bal \in Ballot
          BY <1>1, <5>1, ProposerType DEF ActiveProposer, Ballot
        <5> QED BY <1>2, <1>4, <2>3, <5>2, <5>3, BallotChain
      <4>2. \A x \in msgs' \ msgs : x.type # "Accept"
        BY <2>1
      <4> QED BY <2>2, <2>4, <2>8, <3>2, <4>1, <4>2, ProposerStays
    <3> QED BY <1>1, <1>4, <3>1, <3>2 DEF TypeOK
  <2> QED BY <1>2, <2>2, <2>4, <2>7, <2>9, <2>10, ReplicaStays DEF IInv, ProposerInv
<1> QED BY <1>3, <1>4 DEF OnPrepare

-----------------------------------------------------------------------------
(* Proposing *)

(* What a majority of truthful promises for ballot b report of slot s bounds *)
(* what can be chosen below b: nothing but the entry of the highest ballot   *)
(* reported, and nothing at all when none is.                                *)
LEMMA BestEntryIsSafe ==
  ASSUME IInv, NEW b \in Bid, NEW s \in Slot, NEW P \in SUBSET Message,
         IsQuorum({p.from : p \in P}),
         \A p \in P : /\ p.type = "Promise" /\ p.bal = b
                      /\ b \preceq promised[p.from] /\ Truthful(p, s),
         NEW e \in BestEntries(P, s)
  PROVE  /\ e.bal # ZERO => SafeAt(s, b, e.cmd)
         /\ e.bal = ZERO => FreeAt(s, b)
<1> DEFINE Q == {p.from : p \in P}
<1>1. TypeOK /\ MsgInv /\ b \in Ballot /\ ZERO \in Ballot
  BY BallotOrder DEF IInv, Ballot
<1>2. Q \in Quorum
  BY MessageFields DEF Quorum
<1>3. PICK q \in P : e = q.acc[s]
  BY DEF BestEntries
<1>4. /\ \A p \in P : /\ p.from \in Node /\ p.acc[s].bal \in Ballot
                      /\ promised[p.from] \in Ballot
                      /\ p.acc[s].bal \preceq e.bal
      /\ e.bal \in Ballot
  BY <1>1, <1>3, MessageFields DEF BestEntries, Entry, TypeOK
<1>5. ASSUME NEW d \in Ballot, d \prec b, NEW p \in P, p.acc[s].bal \prec d
      PROVE  WontVote(p.from, s, d)
  BY <1>1, <1>4, <1>5, BallotChain DEF Truthful, WontVote
<1>6. ASSUME NEW d \in Ballot, d \prec b, e.bal \prec d
      PROVE  \A a \in Q : WontVote(a, s, d)
  BY <1>4, <1>5, <1>6, BallotChain
<1>7. ASSUME e.bal # ZERO PROVE SafeAt(s, b, e.cmd)
  <2>1. PICK x \in msgs : /\ x.type = "Accept" /\ x.slot = s /\ x.bal = e.bal /\ x.cmd = e.cmd
                          /\ AcceptInv(x)
    BY <1>1, <1>3, <1>7 DEF Truthful, VotedFor, Proposed, MsgInv
  <2>2. ASSUME NEW d \in Ballot, d \prec b
        PROVE  \E R \in Quorum : \A a \in R : WontVote(a, s, d) \/ VotedFor(a, s, d, e.cmd)
    <3>1. CASE d \prec e.bal
      BY <2>1, <3>1 DEF AcceptInv, SafeAt
    <3>2. CASE d = e.bal
      <4>1. ASSUME NEW p \in P, p.acc[s].bal = d PROVE VotedFor(p.from, s, d, e.cmd)
        <5>1. VotedFor(p.from, s, d, p.acc[s].cmd)
          BY <1>7, <3>2, <4>1 DEF Truthful
        <5>2. PICK y \in msgs : y.type = "Accept" /\ y.slot = s /\ y.bal = d /\ y.cmd = p.acc[s].cmd
          BY <5>1 DEF VotedFor, Proposed
        <5>3. y.cmd = e.cmd
          BY <2>1, <3>2, <5>2 DEF AcceptInv
        <5> QED BY <5>1, <5>2, <5>3
      <4>2. \A a \in Q : WontVote(a, s, d) \/ VotedFor(a, s, d, e.cmd)
        BY <1>4, <1>5, <2>2, <3>2, <4>1 DEF \preceq
      <4> QED BY <1>2, <4>2
    <3>3. CASE e.bal \prec d
      BY <1>2, <1>6, <2>2, <3>3
    <3> QED BY <1>4, <3>1, <3>2, <3>3, BallotOrder
  <2> QED BY <2>2 DEF SafeAt
<1>8. ASSUME e.bal = ZERO PROVE FreeAt(s, b)
  <2>1. ASSUME NEW d \in Ballot, d \prec b PROVE \A a \in Q : WontVote(a, s, d)
    <3>1. CASE d = ZERO
      <4>1. \A a \in Node : ~Voted(a, s, ZERO)
        BY <1>1, MessageFields, BallotOrder DEF Voted, TypeOK
      <4>2. \A p \in P : ZERO \prec promised[p.from]
        BY <1>1, <1>4, BallotOrder, BallotChain
      <4> QED BY <1>4, <3>1, <4>1, <4>2 DEF WontVote
    <3>2. CASE d \in Bid
      BY <1>6, <1>8, <2>1, <3>2, BallotOrder
    <3> QED BY <3>1, <3>2 DEF Ballot
  <2> QED BY <1>2, <2>1 DEF FreeAt
<1> QED BY <1>7, <1>8

LEMMA FreeIsSafe ==
  ASSUME NEW s, NEW b, NEW c, FreeAt(s, b)
  PROVE  SafeAt(s, b, c)
BY DEF FreeAt, SafeAt

(* A leader n under ballot b proposes, in slots b was not used for, commands *)
(* that are safe there.                                                      *)
LEMMA ProposingStep ==
  ASSUME IInv, TypeOK', NEW n \in Node, NEW b \in Bid, NEW out,
         b[2] = n, b \preceq promised[n], b[1] <= maxRound[n],
         msgs' = msgs \cup out,
         \A x \in out : /\ x.type = "Accept" /\ x.from = n /\ x.bal = b
                        /\ SafeAt(x.slot, b, x.cmd),
         \A x, y \in out : x.slot = y.slot => x.cmd = y.cmd,
         \A x \in out, y \in msgs : y.type = "Accept" /\ y.bal = b => y.slot # x.slot,
         UNCHANGED <<promised, accepted, chosen, nextSlot, floor, maxRound>>,
         LocalInv',
         \A k \in Node : k # n => local'[k] = local[k] /\ prop'[k] = prop[k],
         prop'[n].role = "leader" /\ prop'[n].bal = b, LeaderInv(n)'
  PROVE  IInv'
<1>1. TypeOK /\ MsgInv /\ AcceptorInv /\ ProposerInv /\ out \subseteq Message
  BY DEF IInv, TypeOK
<1>2. Grows
  BY <1>1, QuietGrows
<1>3. ASSUME NEW x \in msgs', x.type = "Accept" PROVE AcceptInv(x)'
  <2>1. \A y \in msgs' : y.type = "Accept" /\ y.bal = x.bal /\ y.slot = x.slot => y.cmd = x.cmd
    BY <1>1, <1>3 DEF MsgInv, AcceptInv
  <2>2. /\ x.bal[2] = x.from /\ x.bal \preceq promised'[x.from]
        /\ SafeAt(x.slot, x.bal, x.cmd)'
    <3>1. CASE x \in msgs
      BY <1>2, <1>3, <3>1, MessagesStay
    <3>2. CASE x \in out
      <4>1. x.slot \in Slot /\ b \in Ballot
        BY <1>1, <3>2, MessageFields DEF Ballot
      <4> QED BY <1>1, <1>2, <3>2, <4>1, SafetyStays
    <3> QED BY <1>3, <3>1, <3>2
  <2> QED BY <2>1, <2>2 DEF AcceptInv
<1>4. MsgInv'
  BY <1>2, <1>3, MessagesStay DEF MsgInv
<1>5. \A a \in Node : promised[a][1] <= maxRound'[a] /\ maxRound[a] <= maxRound'[a]
  BY <1>1 DEF AcceptorInv, TypeOK
<1>6. ASSUME NEW k \in Node PROVE ProposerInvAt(k)'
  <2>1. CASE k = n
    BY <2>1 DEF ProposerInvAt
  <2>2. CASE k # n
    <3>1. prop[k].bal # b
      <4>1. CASE prop[k].role = "follower"
        BY <1>1, <4>1, ProposerType, BallotOrder DEF Follower, Fresh
      <4>2. CASE prop[k].role # "follower"
        BY <1>1, <2>2, <4>2 DEF ProposerInv, ProposerInvAt
      <4> QED BY <4>1, <4>2
    <3> QED BY <1>2, <1>5, <2>2, <3>1, ProposerStays
  <2> QED BY <2>1, <2>2
<1> QED BY <1>2, <1>4, <1>5, <1>6, AcceptorStays, ReplicaStays DEF IInv, ProposerInv

LEMMA BecomeLeaderSafe ==
  ASSUME IInv, TypeOK', NEW n \in Node, NEW m \in Message, m \in msgs, Handles(n, m),
         OnPromise(n, m), prop[n].role = "candidate", prop[n].bal = m.bal,
         NEW P \in SUBSET Message, P = {p \in prop[n].promises : p.from # m.from} \cup {m},
         IsQuorum({p.from : p \in P}), BecomeLeader(n, m, P)
  PROVE  IInv'
<1>0. PICK b \in Bid : b = m.bal
  BY MessageFields DEF OnPromise
<1>1. /\ TypeOK /\ MsgInv /\ CandidateInv(n) /\ m.type = "Promise"
      /\ b = m.bal /\ b \in Bid /\ b[2] = n /\ b[1] <= maxRound[n]
      /\ UNCHANGED <<promised, accepted, chosen, nextSlot, floor, maxRound>>
  BY <1>0 DEF IInv, ProposerInv, ProposerInvAt, OnPromise, durable
<1>2. b \preceq promised[n]
  BY <1>1, CandidateReady
<1>3. ASSUME NEW p \in P
      PROVE  /\ p.type = "Promise" /\ p.bal = b /\ b \preceq promised[p.from]
             /\ \A s \in Slot : s >= nextSlot[n] /\ chosen[n][s] = None => Truthful(p, s)
  <2>1. p \in msgs /\ p.type = "Promise" /\ p.bal = b
    BY <1>1 DEF CandidateInv
  <2>2. PromiseInv(p) /\ p.to = n
    BY <1>1, <2>1 DEF MsgInv, PromiseInv
  <2>3. \A s \in Slot : s >= nextSlot[n] /\ chosen[n][s] = None => ~Known(n, s)
    <3>1. floor[n] <= nextSlot[n] /\ floor[n] \in Int /\ nextSlot[n] \in Int
      BY <1>1, BoundAssumption DEF IInv, ReplicaInv, TypeOK, BoundAssumption
    <3> QED BY <3>1, BoundAssumption DEF Known, Slot, BoundAssumption
  <2> QED BY <1>1, <2>1, <2>2, <2>3 DEF PromiseInv
<1>4. PICK best \in [Slot -> UNION {BestEntries(P, s) : s \in Slot}],
            free \in nextSlot[n]..LastSlot + 1, end \in 0..LastSlot + 1 :
              BecomeLeader(n, m, P)!(best, free, end)
  BY DEF BecomeLeader
<1>5. PICK routed \in Orders(Open(n) \ {best[s].cmd : s \in Planned(n, best)}, free, end) :
        LET plan == Planned(n, best)
            first == [s \in Slot |-> IF s \in plan THEN best[s].cmd
                                     ELSE IF s \in free..end - 1 THEN routed[s] ELSE None]
            used == plan \cup (free..end - 1)
        IN /\ prop' = [prop EXCEPT ![n] =
                        [role |-> "leader", bal |-> m.bal, promises |-> {}, free |-> end,
                         inflight |-> first, acks |-> NoAcks, ids |-> {first[s] : s \in used}]]
           /\ Send(n, {m}, UNION {ToAll(n, Accept(n, m.bal, s, first[s])) : s \in used})
  BY <1>4
<1> DEFINE plan == Planned(n, best)
           first == [s \in Slot |-> IF s \in plan THEN best[s].cmd
                                    ELSE IF s \in free..end - 1 THEN routed[s] ELSE None]
           used == plan \cup (free..end - 1)
           known == plan \cup {s \in Slot : chosen[n][s] # None}
           out == UNION {ToAll(n, Accept(n, b, s, first[s])) : s \in used}
<1>6. /\ \A s \in Slot : best[s] \in BestEntries(P, s)
      /\ \A s \in known : s < free
      /\ free <= end
      /\ prop' = [prop EXCEPT ![n] =
                   [role |-> "leader", bal |-> b, promises |-> {}, free |-> end,
                    inflight |-> first, acks |-> NoAcks, ids |-> {first[s] : s \in used}]]
      /\ Send(n, {m}, out)
  <2>1. (\A s \in Slot : best[s] \in BestEntries(P, s)) /\ (\A s \in known : s < free) /\ free <= end
    BY <1>4
  <2>2. /\ prop' = [prop EXCEPT ![n] =
                     [role |-> "leader", bal |-> m.bal, promises |-> {}, free |-> end,
                      inflight |-> first, acks |-> NoAcks, ids |-> {first[s] : s \in used}]]
        /\ Send(n, {m}, UNION {ToAll(n, Accept(n, m.bal, s, first[s])) : s \in used})
    BY <1>5
  <2> QED BY <1>1, <2>1, <2>2
<1>7. /\ \A s \in Slot : best[s] \in BestEntries(P, s) /\ best[s].bal \in Ballot
      /\ used \subseteq Slot /\ free \in Nat /\ end \in Nat /\ free <= end
      /\ \A s \in Slot : s \in plan \/ chosen[n][s] # None => s < free
      /\ \A s \in Slot : s \in plan => s >= nextSlot[n] /\ chosen[n][s] = None
      /\ \A s \in Slot : s >= nextSlot[n] /\ chosen[n][s] = None /\ best[s].bal # ZERO
           => s \in plan
      /\ \A s \in Slot : s >= free => s >= nextSlot[n]
  <2>0. LastSlot \in Nat /\ nextSlot[n] \in Nat /\ nextSlot[n] \in 0..LastSlot + 1
    BY <1>1, BoundAssumption DEF BoundAssumption, TypeOK
  <2>1. \A s \in Slot : best[s] \in BestEntries(P, s) /\ best[s].bal \in Ballot
    <3>1. \A p \in P : p.acc \in [Slot -> Entry]
      BY <1>3, MessageFields
    <3> QED BY <1>6, <3>1 DEF BestEntries, Entry
  <2>2. plan \subseteq Slot
    BY DEF Planned
  <2>3. free..end - 1 \subseteq Slot
    BY <2>0, <1>6 DEF Slot
  <2>4. free \in Nat /\ end \in Nat /\ free <= end /\ free >= nextSlot[n]
    BY <2>0, <1>6
  <2>5. \A s \in Slot : s \in plan \/ chosen[n][s] # None => s < free
    BY <1>6
  <2>6. \A s \in Slot : s >= nextSlot[n] /\ chosen[n][s] = None /\ best[s].bal # ZERO => s \in plan
    BY <2>0 DEF Planned, Slot
  <2>7. \A s \in Slot : s >= free => s >= nextSlot[n]
    BY <2>0, <2>4 DEF Slot
  <2> QED BY <2>1, <2>2, <2>3, <2>4, <2>5, <2>6, <2>7 DEF Planned
<1>8. Send(n, {m}, out) /\ msgs' = msgs \cup out
  BY <1>6 DEF Send
<1>9. /\ prop'[n].role = "leader" /\ prop'[n].bal = b /\ prop'[n].free = end
      /\ prop'[n].inflight = first /\ prop'[n].acks = NoAcks
      /\ \A k \in Node : k # n => prop'[k] = prop[k]
  BY <1>1, <1>6 DEF TypeOK
<1>10. \A x \in out : /\ x.type = "Accept" /\ x.from = n /\ x.bal = b
                     /\ x.slot \in used /\ x.cmd = first[x.slot]
  <2> HIDE DEF used, first
  <2>1. SUFFICES ASSUME NEW s \in used, NEW k \in Node,
                        NEW x, x = [Accept(n, b, s, first[s]) EXCEPT !.to = k]
                 PROVE  /\ x.type = "Accept" /\ x.from = n /\ x.bal = b
                        /\ x.slot \in used /\ x.cmd = first[x.slot]
    BY DEF ToAll
  <2> QED BY <2>1 DEF Accept
<1>11. \A s \in used : /\ Accept(n, b, s, first[s]) \in out
                      /\ Accept(n, b, s, first[s]).type = "Accept"
                      /\ Accept(n, b, s, first[s]).slot = s
                      /\ Accept(n, b, s, first[s]).bal = b
                      /\ Accept(n, b, s, first[s]).cmd = first[s]
  BY DEF ToAll, Accept
<1>12. ASSUME NEW s \in Slot, s >= nextSlot[n], chosen[n][s] = None
       PROVE  /\ best[s].bal # ZERO => SafeAt(s, b, best[s].cmd)
              /\ best[s].bal = ZERO => FreeAt(s, b)
  BY <1>1, <1>3, <1>7, <1>12, BestEntryIsSafe
<1>13. ASSUME NEW s \in Slot, s >= free PROVE FreeAt(s, b)
  <2>1. free \in Nat /\ s \in Nat /\ ~(s < free)
    BY <1>7, <1>13 DEF Slot
  <2> QED BY <1>7, <1>12, <1>13, <2>1
<1>14. \A s \in used : SafeAt(s, b, first[s])
  <2>1. SUFFICES ASSUME NEW s \in used PROVE SafeAt(s, b, first[s])
    OBVIOUS
  <2>2. CASE s \in plan
    BY <1>7, <1>12, <2>2, FreeIsSafe
  <2>3. CASE s \in free..end - 1
    BY <1>7, <1>13, <2>3, FreeIsSafe
  <2> QED BY <2>1, <2>2, <2>3
<1>15. ASSUME NEW s \in Slot, first[s] # None PROVE s \in used
  BY <1>15
<1>16. ASSUME NEW s \in Slot, s >= end PROVE s \notin used /\ s >= free
  <2>1. s \in Nat /\ end \in Nat /\ free \in Nat /\ free <= end
    BY <1>7 DEF Slot
  <2>2. s >= free /\ ~(s < free) /\ s \notin free..end - 1
    BY <1>16, <2>1
  <2> QED BY <1>7, <2>2
<1>17. LocalInv' /\ \A k \in Node : k # n => local'[k] = local[k]
  <2> HIDE DEF out
  <2>1. \A x \in out : x.from = n /\ x.type # "Prepare"
    BY <1>10
  <2> QED BY <1>8, <2>1, LocalStep
<1> HIDE DEF out, used, first, plan
<1>18. TypeOK /\ b \in Ballot /\ msgs' \subseteq Message
  BY <1>1 DEF Ballot, TypeOK
<1>19. Grows
  BY <1>1, <1>8, <1>10, QuietGrows
<1>20. LeaderInv(n)'
  <2>1. b \preceq promised'[n]
    BY <1>1, <1>2
  <2>2. ASSUME NEW s \in Slot, s >= end
        PROVE  /\ FreeAt(s, b)'
               /\ \A x \in msgs' : x.type = "Accept" /\ x.slot = s => x.bal # b
    <3>1. FreeAt(s, b)'
      BY <1>13, <1>16, <1>18, <1>19, <2>2, SafetyStays
    <3>2. \A x \in msgs : x.type = "Accept" => x.bal # b
      BY <1>1 DEF CandidateInv
    <3> QED BY <1>8, <1>10, <1>16, <2>2, <3>1, <3>2
  <2>3. ASSUME NEW s \in Slot, first[s] # None
        PROVE  /\ \E x \in msgs' : x.type = "Accept" /\ x.slot = s /\ x.bal = b /\ x.cmd = first[s]
               /\ NoAcks[s] = {}
    BY <1>8, <1>11, <1>15, <2>3 DEF NoAcks
  <2> QED BY <1>9, <2>1, <2>2, <2>3 DEF LeaderInv, Proposed
<1>21. \A x \in out, y \in msgs : y.type = "Accept" /\ y.bal = b => y.slot # x.slot
  BY <1>1 DEF CandidateInv
<1> QED
  <2>1. b \in Bid /\ b[2] = n /\ b \preceq promised[n] /\ b[1] <= maxRound[n]
    BY <1>1, <1>2
  <2>2. \A x \in out : x.type = "Accept" /\ x.from = n /\ x.bal = b /\ SafeAt(x.slot, b, x.cmd)
    BY <1>10, <1>14
  <2>3. \A x, y \in out : x.slot = y.slot => x.cmd = y.cmd
    BY <1>10
  <2>4. msgs' = msgs \cup out
    BY <1>8
  <2>5. UNCHANGED <<promised, accepted, chosen, nextSlot, floor, maxRound>>
    BY <1>1
  <2>6. prop'[n].role = "leader" /\ prop'[n].bal = b
    BY <1>9
  <2>7. \A k \in Node : k # n => local'[k] = local[k] /\ prop'[k] = prop[k]
    BY <1>9, <1>17
  <2> QED BY <1>17, <1>20, <1>21, <2>1, <2>2, <2>3, <2>4, <2>5, <2>6, <2>7, ProposingStep

LEMMA OnPromiseSafe ==
  ASSUME IInv, TypeOK', NEW n \in Node, NEW m \in Message, m \in msgs, Handles(n, m), OnPromise(n, m)
  PROVE  IInv'
<1> DEFINE P == {p \in prop[n].promises : p.from # m.from} \cup {m}
<1>1. /\ TypeOK /\ MsgInv /\ ReplicaInv /\ AcceptorInv
      /\ UNCHANGED <<promised, accepted, chosen, nextSlot, floor, maxRound>>
      /\ m.type = "Promise"
  BY DEF IInv, OnPromise, durable
<1>2. CASE Send(n, {m}, {}) /\ UNCHANGED prop
  <2>1. \A x \in {} : /\ x.from = n
                      /\ x.type \notin {"Prepare", "Promise", "Accept", "Accepted"}
                      /\ x.type = "Commit" => CommitInv(x)
    OBVIOUS
  <2> QED BY <1>1, <1>2, <2>1, QuietHandler, MaxRoundKept
<1>3. CASE /\ prop[n].role = "candidate" /\ prop[n].bal = m.bal
           /\ prop' = [prop EXCEPT ![n] = [@ EXCEPT !.promises = P]]
           /\ Send(n, {m}, {})
  <2>1. LocalInv' /\ \A k \in Node : k # n => local'[k] = local[k]
    <3>1. \A x \in {} : x.from = n /\ x.type # "Prepare"
      OBVIOUS
    <3>2. Send(n, {m}, {})
      BY <1>3
    <3> QED BY <3>1, <3>2, LocalStep
  <2>2. msgs' = msgs
    BY <1>3 DEF Send
  <2>3. Grows
    BY <1>1, <2>2, QuietGrows
  <2>4. \A a \in Node : promised[a][1] <= maxRound'[a] /\ maxRound[a] <= maxRound'[a]
    BY <1>1 DEF AcceptorInv, TypeOK
  <2>5. ASSUME NEW k \in Node PROVE ProposerInvAt(k)'
    <3>1. CASE k # n
      <4>1. prop'[k] = prop[k]
        BY <1>1, <1>3, <3>1 DEF TypeOK
      <4> QED BY <2>1, <2>2, <2>3, <2>4, <3>1, <4>1, ProposerStays
    <3>2. CASE k = n
      <4>1. /\ prop[n] \in ActiveProposer
            /\ ProposerInvAt(n) /\ CandidateInv(n) /\ prop[n].bal \preceq promised[n]
        BY <1>1, <1>3, CandidateReady, ProposerType DEF IInv, ProposerInv, ProposerInvAt
      <4>2. /\ prop'[n].role = "candidate" /\ prop'[n].bal = prop[n].bal
            /\ prop'[n].promises = P
        BY <1>1, <1>3, <4>1 DEF TypeOK, ActiveProposer
      <4>3. \A p \in P : p \in msgs /\ p.type = "Promise" /\ p.bal = prop[n].bal
        BY <1>1, <1>3, <4>1 DEF CandidateInv
      <4>4. CandidateInv(n)'
        BY <1>1, <2>2, <4>1, <4>2, <4>3 DEF CandidateInv
      <4> QED BY <1>1, <1>3, <3>2, <4>1, <4>2, <4>4 DEF ProposerInvAt
    <3> QED BY <3>1, <3>2
  <2>6. MsgInv'
    BY <2>2, <2>3, QuietMessages
  <2> QED BY <1>1, <2>1, <2>3, <2>4, <2>5, <2>6, AcceptorStays, ReplicaStays DEF IInv, ProposerInv
<1>4. CASE /\ prop[n].role = "candidate" /\ prop[n].bal = m.bal
           /\ IsQuorum({p.from : p \in P}) /\ BecomeLeader(n, m, P)
  <2>1. P \in SUBSET Message
    BY <1>1, <1>4, ProposerType DEF ActiveProposer, Message
  <2> QED BY <1>4, <2>1, BecomeLeaderSafe
<1> QED BY <1>2, <1>3, <1>4 DEF OnPromise

LEMMA ProposalFields ==
  ASSUME NEW p \in ActiveProposer, NEW s \in Slot, NEW c
  PROVE  /\ AddProposal(p, s, c).role = p.role /\ AddProposal(p, s, c).bal = p.bal
         /\ AddProposal(p, s, c).free = s + 1
         /\ AddProposal(p, s, c).inflight = [p.inflight EXCEPT ![s] = c]
         /\ AddProposal(p, s, c).acks = [p.acks EXCEPT ![s] = {}]
BY DEF AddProposal, ActiveProposer

(* The leader's next free slot was never used under its ballot, and nothing  *)
(* can be chosen there below it.                                             *)
LEMMA ProposeSafe ==
  ASSUME IInv, TypeOK', NEW n \in Node, NEW done, NEW c \in Command,
         prop[n].role = "leader", Propose(n, done, c),
         UNCHANGED <<promised, accepted, chosen, nextSlot, floor, maxRound>>,
         \A o : Send(n, done, o) /\ (\A x \in o : x.from = n /\ x.type # "Prepare") =>
                    LocalInv' /\ \A k \in Node : k # n => local'[k] = local[k]
  PROVE  IInv'
<1>1. /\ TypeOK /\ MsgInv /\ AcceptorInv /\ LeaderInv(n)
      /\ prop[n] \in ActiveProposer
      /\ prop[n].bal[2] = n /\ prop[n].bal[1] <= maxRound[n]
  BY ProposerType DEF IInv, ProposerInv, ProposerInvAt
<1>2. CASE Send(n, done, {}) /\ UNCHANGED prop
  <2>1. \A x \in {} : x.from = n /\ x.type # "Prepare"
    OBVIOUS
  <2>2. LocalInv' /\ \A k \in Node : k # n => local'[k] = local[k]
    BY <1>2, <2>1
  <2>3. msgs' = msgs
    BY <1>2 DEF Send
  <2>4. \A a \in Node : promised[a][1] <= maxRound'[a] /\ maxRound[a] <= maxRound'[a]
    BY <1>1 DEF AcceptorInv, TypeOK
  <2> QED BY <1>2, <2>2, <2>3, <2>4, QuietStep
<1>3. ASSUME NEW b \in Bid, b = prop[n].bal, NEW s \in Slot, s = prop[n].free,
             NEW out, out = ToAll(n, Accept(n, b, s, c)),
             prop' = [prop EXCEPT ![n] = AddProposal(@, s, c)],
             Send(n, done, out)
      PROVE  IInv'
  <2>1. \A x \in out : /\ x.type = "Accept" /\ x.from = n /\ x.bal = b
                       /\ x.slot = s /\ x.cmd = c
    BY <1>3 DEF ToAll, Accept
  <2>2. \E x \in out : x.type = "Accept" /\ x.slot = s /\ x.bal = b /\ x.cmd = c
    BY <1>3 DEF ToAll, Accept
  <2>3. LocalInv' /\ \A k \in Node : k # n => local'[k] = local[k]
    BY <1>3, <2>1
  <2>4. msgs' = msgs \cup out
    BY <1>3 DEF Send
  <2>5. Grows
    BY <1>1, <2>1, <2>4, QuietGrows
  <2>6. FreeAt(s, b) /\ \A x \in msgs : x.type = "Accept" /\ x.slot = s => x.bal # b
    BY <1>1, <1>3, BoundAssumption DEF LeaderInv, Slot, BoundAssumption
  <2>7. /\ prop'[n] = AddProposal(prop[n], s, c)
        /\ \A k \in Node : k # n => prop'[k] = prop[k]
    BY <1>1, <1>3 DEF TypeOK
  <2>8. /\ prop'[n].role = "leader" /\ prop'[n].bal = b /\ prop'[n].free = s + 1
        /\ prop'[n].inflight = [prop[n].inflight EXCEPT ![s] = c]
        /\ prop'[n].acks = [prop[n].acks EXCEPT ![s] = {}]
    <3>1. prop[n].role = "leader" /\ prop[n].bal = b
      BY <1>3
    <3>2. PICK q : q = AddProposal(prop[n], s, c)
      OBVIOUS
    <3>3. /\ q.role = prop[n].role /\ q.bal = prop[n].bal /\ q.free = s + 1
          /\ q.inflight = [prop[n].inflight EXCEPT ![s] = c]
          /\ q.acks = [prop[n].acks EXCEPT ![s] = {}]
      BY <1>1, <3>2, ProposalFields
    <3> QED BY <2>7, <3>1, <3>2, <3>3
  <2>9. LeaderInv(n)'
    <3>1. b \in Ballot /\ s \in Nat
      BY <1>3 DEF Ballot, Slot
    <3>2. ASSUME NEW t \in Slot, t >= s + 1
          PROVE  /\ FreeAt(t, b)'
                 /\ \A x \in msgs' : x.type = "Accept" /\ x.slot = t => x.bal # b
      <4>1. t >= s /\ t # s
        BY <3>1, <3>2 DEF Slot
      <4>2. FreeAt(t, b) /\ \A x \in msgs : x.type = "Accept" /\ x.slot = t => x.bal # b
        BY <1>1, <1>3, <4>1 DEF LeaderInv
      <4> QED BY <1>1, <2>1, <2>4, <2>5, <3>1, <4>1, <4>2, SafetyStays
    <3>3. ASSUME NEW t \in Slot, prop'[n].inflight[t] # None
          PROVE  /\ \E x \in msgs' : /\ x.type = "Accept" /\ x.slot = t
                                     /\ x.bal = b /\ x.cmd = prop'[n].inflight[t]
                 /\ \A a \in prop'[n].acks[t] : \E x \in msgs' :
                      x.type = "Accepted" /\ x.slot = t /\ x.bal = b /\ x.from = a
      <4>1. CASE t = s
        <5>1. prop'[n].inflight[t] = c /\ prop'[n].acks[t] = {}
          BY <1>1, <2>8, <4>1, <3>3 DEF ActiveProposer
        <5> QED BY <2>2, <2>4, <4>1, <5>1
      <4>2. CASE t # s
        <5>1. prop'[n].inflight[t] = prop[n].inflight[t] /\ prop'[n].acks[t] = prop[n].acks[t]
          BY <1>1, <2>8, <4>2 DEF ActiveProposer
        <5> QED BY <1>1, <1>3, <2>4, <3>3, <5>1 DEF LeaderInv, Proposed, Voted
      <4> QED BY <4>1, <4>2
    <3> QED BY <1>1, <1>3, <2>8, <3>2, <3>3 DEF LeaderInv, Proposed, Voted
  <2>10. /\ b[2] = n /\ b \preceq promised[n] /\ b[1] <= maxRound[n]
         /\ \A x \in out : SafeAt(x.slot, b, x.cmd)
    BY <1>1, <1>3, <2>1, <2>6, FreeIsSafe DEF LeaderInv
  <2>11. /\ \A x, y \in out : x.slot = y.slot => x.cmd = y.cmd
         /\ \A x \in out, y \in msgs : y.type = "Accept" /\ y.bal = b => y.slot # x.slot
    BY <2>1, <2>6
  <2> QED BY <2>1, <2>3, <2>4, <2>6, <2>7, <2>8, <2>9, <2>10, <2>11, ProposingStep
<1> QED BY <1>1, <1>2, <1>3 DEF Propose, ActiveProposer

LEMMA SubmitSafe ==
  ASSUME IInv, TypeOK', NEW n \in Node, NEW c \in Command, Submit(n, c)
  PROVE  IInv'
<1>1. UNCHANGED <<promised, accepted, chosen, nextSlot, floor, maxRound>> /\ local[n] = {}
  BY DEF Submit, replica, Event
<1>2. CASE prop[n].role = "leader" /\ Propose(n, {}, c)
  BY <1>1, <1>2, LocalEvent, ProposeSafe
<1>3. CASE UNCHANGED prop /\ Send(n, {}, IF leader[n] \in {0, n} THEN {} ELSE {Forward(n, leader[n], c)})
  <2>1. PICK out : Send(n, {}, out) /\ \A x \in out : x.from = n /\ x.type = "Forward"
    BY <1>3 DEF Forward
  <2> QED BY <1>1, <1>3, <2>1, QuietEvent
<1> QED BY <1>2, <1>3 DEF Submit

LEMMA OnForwardSafe ==
  ASSUME IInv, TypeOK', NEW n \in Node, NEW m \in Message, Handles(n, m), OnForward(n, m)
  PROVE  IInv'
<1>1. /\ UNCHANGED <<promised, accepted, chosen, nextSlot, floor, maxRound>>
      /\ m.type = "Forward" /\ m.cmd \in Command
  BY MessageFields DEF OnForward, durable
<1>2. CASE prop[n].role = "leader" /\ Propose(n, {m}, m.cmd)
  BY <1>1, <1>2, LocalStep, ProposeSafe
<1>3. CASE UNCHANGED prop /\ Send(n, {m}, {})
  <2>1. \A x \in {} : /\ x.from = n
                      /\ x.type \notin {"Prepare", "Promise", "Accept", "Accepted"}
                      /\ x.type = "Commit" => CommitInv(x)
    OBVIOUS
  <2>2. TypeOK
    BY DEF IInv
  <2> QED BY <1>1, <1>3, <2>1, <2>2, QuietHandler, MaxRoundKept
<1> QED BY <1>2, <1>3 DEF OnForward

-----------------------------------------------------------------------------
(* Accepting and learning *)

LEMMA OnAcceptSafe ==
  ASSUME IInv, TypeOK', NEW n \in Node, NEW m \in Message, m \in msgs, Handles(n, m), OnAccept(n, m)
  PROVE  IInv'
<1>1. TypeOK /\ MsgInv /\ ReplicaInv /\ LocalInv /\ AcceptorInv
  BY DEF IInv
<1>2. PICK b \in Bid, t \in Slot : b = m.bal /\ t = m.slot
  BY MessageFields DEF OnAccept
<1>3. /\ b \in Ballot /\ b[1] \in Nat /\ m.type = "Accept"
      /\ promised[n] \in Ballot /\ promised[n][1] \in Nat /\ maxRound[n] \in Nat
      /\ UNCHANGED <<chosen, nextSlot, floor>>
  BY <1>1, BallotOrder, BoundAssumption DEF Ballot, TypeOK, BoundAssumption, OnAccept, replica
<1>4. CASE Send(n, {m}, {Nack(n, b)}) /\ UNCHANGED <<promised, accepted, maxRound, prop>>
  <2>1. \A x \in {Nack(n, b)} :
           /\ x.from = n
           /\ x.type \notin {"Prepare", "Promise", "Accept", "Accepted"}
           /\ x.type = "Commit" => CommitInv(x)
    BY DEF Nack
  <2> QED BY <1>1, <1>3, <1>4, <2>1, QuietHandler, MaxRoundKept
<1>5. ASSUME promised[n] \preceq b,
             promised' = [promised EXCEPT ![n] = b],
             accepted' = [accepted EXCEPT ![n][t] = [bal |-> b, cmd |-> m.cmd]],
             maxRound' = [maxRound EXCEPT ![n] = LaterRound(@, b[1])],
             HeardLeader(n, b, m.from),
             Send(n, {m}, {Accepted(n, b, t)} \cup HandOver(n, b, m.from))
      PROVE  IInv'
  <2>1. PICK v, out : /\ v = Accepted(n, b, t) /\ out = HandOver(n, b, m.from)
                      /\ Send(n, {m}, {v} \cup out)
    BY <1>5
  <2>2. /\ v.type = "Accepted" /\ v.from = n /\ v.to = b[2] /\ v.bal = b /\ v.slot = t
        /\ \A x \in out : x.from = n /\ x.type = "Forward"
        /\ msgs' = msgs \cup {v} \cup out
    BY <2>1, HandOverFields DEF Accepted, Send
  <2>3. LocalInv' /\ \A k \in Node : k # n => local'[k] = local[k]
    <3>1. \A x \in {v} \cup out : x.from = n /\ x.type # "Prepare"
      BY <2>2
    <3> QED BY <2>1, <3>1, LocalStep
  <2>4. /\ promised'[n] = b /\ \A a \in Node : a # n => promised'[a] = promised[a]
        /\ accepted'[n][t].bal = b /\ accepted'[n][t].cmd = m.cmd
        /\ \A a \in Node, s \in Slot : a # n \/ s # t => accepted'[a][s] = accepted[a][s]
    BY <1>1, <1>5 DEF TypeOK
  <2>5. /\ \A a \in Node : promised[a] \in Ballot /\ promised'[a] \in Ballot
        /\ \A a \in Node, s \in Slot : accepted[a][s].bal \in Ballot /\ accepted'[a][s].bal \in Ballot
    BY <1>1 DEF TypeOK, Entry
  <2>6. Grows
    <3>1. \A a \in Node : promised[a] \preceq promised'[a]
      BY <1>5, <2>4 DEF \preceq
    <3>2. accepted[n][t].bal \preceq b
      BY <1>1, <1>3, <1>5, <2>5, BallotChain DEF AcceptorInv
    <3>3. \A a \in Node, s \in Slot : accepted[a][s].bal \preceq accepted'[a][s].bal
      BY <2>4, <3>2 DEF \preceq
    <3>4. \A a \in Node : floor[a] <= floor'[a]
      BY <1>1, <1>3, BoundAssumption DEF TypeOK, BoundAssumption
    <3> QED BY <1>3, <1>5, <2>2, <3>1, <3>3, <3>4 DEF Grows, Known
  <2>7. /\ \E x \in msgs' : x.type = "Accept" /\ x.slot = t /\ x.bal = b /\ x.cmd = m.cmd
        /\ \E x \in msgs' : x.type = "Accepted" /\ x.slot = t /\ x.bal = b /\ x.from = n
    BY <1>2, <1>3, <2>2
  <2>8. MsgInv'
    <3>1. m.cmd \in Cmd
      BY <1>3, MessageFields
    <3>2. AcceptedInv(v)'
      BY <2>2, <2>4, <2>7, <3>1 DEF AcceptedInv, Proposed, \preceq
    <3> QED BY <2>2, <2>6, <3>2, QuietMessages
  <2>9. \A a \in Node : promised'[a][1] <= maxRound'[a] /\ maxRound[a] <= maxRound'[a]
    <3>1. \A a \in Node : promised[a][1] <= maxRound[a] /\ maxRound[a] \in Nat
      BY <1>1, BoundAssumption DEF AcceptorInv, TypeOK, BoundAssumption
    <3>2. \A a \in Node : a # n => maxRound'[a] = maxRound[a]
      BY <1>1, <1>5 DEF TypeOK
    <3>3. maxRound'[n] = LaterRound(maxRound[n], b[1])
      BY <1>1, <1>5 DEF TypeOK
    <3>4. maxRound'[n] >= b[1] /\ maxRound'[n] >= maxRound[n]
      BY <1>3, <3>3 DEF LaterRound
    <3> QED BY <1>3, <2>4, <3>1, <3>2, <3>4
  <2>10. AcceptorInv'
    <3>1. ASSUME NEW a \in Node, NEW s \in Slot
          PROVE  /\ accepted'[a][s].bal \preceq promised'[a]
                 /\ accepted'[a][s].bal # ZERO =>
                      /\ \E x \in msgs' : /\ x.type = "Accepted" /\ x.slot = s
                                          /\ x.bal = accepted'[a][s].bal /\ x.from = a
                      /\ \E x \in msgs' : /\ x.type = "Accept" /\ x.slot = s
                                          /\ x.bal = accepted'[a][s].bal
                                          /\ x.cmd = accepted'[a][s].cmd
      <4>1. CASE a = n /\ s = t
        BY <2>4, <2>7, <4>1 DEF \preceq
      <4>2. CASE a # n \/ s # t
        <5>1. accepted'[a][s] = accepted[a][s]
          BY <2>4, <4>2
        <5>2. accepted[a][s].bal \preceq promised'[a]
          BY <1>1, <2>5, <2>6, BallotChain DEF AcceptorInv, Grows
        <5>3. accepted[a][s].bal # ZERO =>
                VotedFor(a, s, accepted[a][s].bal, accepted[a][s].cmd)
          BY <1>1 DEF AcceptorInv
        <5> QED BY <2>2, <5>1, <5>2, <5>3 DEF VotedFor, Voted, Proposed
      <4> QED BY <4>1, <4>2
    <3> QED BY <2>9, <3>1 DEF AcceptorInv, VotedFor, Voted, Proposed
  <2>11. ASSUME NEW k \in Node PROVE ProposerInvAt(k)'
    <3>1. CASE prop'[k] = Follower
      BY <3>1, FollowerFine
    <3>2. CASE prop'[k] = prop[k]
      <4>1. k = n /\ prop[n].role = "candidate" => prop[n].bal \preceq promised'[n]
        <5>1. SUFFICES ASSUME prop[n].role = "candidate" PROVE prop[n].bal \preceq promised'[n]
          OBVIOUS
        <5>2. prop[n].bal \preceq promised[n]
          BY <1>3, <5>1, CandidateReady
        <5>3. prop[n].bal \in Ballot
          BY <1>1, <5>1, ProposerType DEF ActiveProposer, Ballot
        <5> QED BY <1>3, <1>5, <2>4, <5>2, <5>3, BallotChain
      <4>2. \A x \in msgs' \ msgs : x.type # "Accept"
        BY <2>2
      <4> QED BY <2>3, <2>6, <2>9, <3>2, <4>1, <4>2, ProposerStays
    <3> QED BY <1>1, <1>5, <3>1, <3>2 DEF HeardLeader, TypeOK
  <2> QED BY <1>3, <2>3, <2>6, <2>8, <2>10, <2>11, ReplicaStays DEF IInv, ProposerInv
<1>6. Refused(n, m) \/ promised[n] \preceq b
  BY <1>2, <1>3, BallotChain DEF Refused
<1> QED BY <1>2, <1>3, <1>4, <1>5, <1>6 DEF OnAccept, follow

(* Learning a command that was chosen. *)
LEMMA LearnInv ==
  ASSUME IInv, TypeOK', Grows, NEW n \in Node, NEW t \in Slot, NEW c \in Cmd, NEW b \in Ballot,
         ChosenIn(t, b, c), Learn(n, t, c), UNCHANGED floor
  PROVE  ReplicaInv'
<1>1. /\ TypeOK /\ ReplicaInv
      /\ \A a \in Node : nextSlot[a] \in Nat /\ floor[a] \in Nat /\ floor[a] <= nextSlot[a]
  BY BoundAssumption DEF IInv, TypeOK, ReplicaInv, BoundAssumption
<1>2. CASE UNCHANGED replica
  BY <1>2, ReplicaStays DEF replica
<1>3. CASE /\ chosen' = [chosen EXCEPT ![n][t] = c]
           /\ \E k \in nextSlot[n]..LastSlot + 1 :
                /\ \A s \in nextSlot[n]..k - 1 : chosen'[n][s] # None
                /\ nextSlot' = [nextSlot EXCEPT ![n] = k]
  <2>1. PICK k \in nextSlot[n]..LastSlot + 1 :
                /\ \A s \in nextSlot[n]..k - 1 : chosen'[n][s] # None
                /\ nextSlot' = [nextSlot EXCEPT ![n] = k]
    BY <1>3
  <2>2. nextSlot[n] \in Nat /\ k \in Nat
    BY <1>1, BoundAssumption DEF TypeOK, BoundAssumption
  <2>3. ASSUME NEW a \in Node, NEW s \in Slot, s < nextSlot'[a] PROVE Known(a, s)'
    <3>1. CASE a # n
      <4>1. s < nextSlot[a]
        BY <1>1, <2>1, <2>3, <3>1 DEF TypeOK
      <4> QED BY <1>1, <4>1 DEF Grows, ReplicaInv
    <3>2. CASE a = n /\ s < nextSlot[n]
      BY <1>1, <3>2 DEF Grows, ReplicaInv
    <3>3. CASE a = n /\ s >= nextSlot[n]
      <4>1. s \in Nat /\ s < k
        BY <1>1, <2>1, <2>3, <3>3 DEF TypeOK, Slot
      <4> QED BY <2>1, <2>2, <3>3, <4>1 DEF Known
    <3> QED BY <2>2, <3>1, <3>2, <3>3 DEF Slot
  <2>4. ASSUME NEW a \in Node, NEW s \in Slot, chosen'[a][s] # None
        PROVE  \E d \in Ballot : ChosenIn(s, d, chosen'[a][s])
    <3>1. CASE a = n /\ s = t
      BY <1>1, <1>3, <3>1 DEF TypeOK
    <3>2. CASE a # n \/ s # t
      <4>1. chosen'[a][s] = chosen[a][s]
        BY <1>1, <1>3, <3>2 DEF TypeOK
      <4> QED BY <1>1, <2>4, <4>1 DEF ReplicaInv
    <3> QED BY <3>1, <3>2
  <2>5. ASSUME NEW a \in Node, NEW s \in Slot, chosen'[a][s] # None
        PROVE  (\E d \in Ballot : ChosenIn(s, d, chosen[a][s]))'
    <3>1. PICK d, v : d \in Ballot /\ v = chosen'[a][s] /\ ChosenIn(s, d, v)
      BY <2>4, <2>5
    <3>2. ChosenIn(s, d, v)'
      BY <1>1, <3>1, ChosenStays
    <3> QED BY <3>1, <3>2
  <2>6. ASSUME NEW a \in Node PROVE floor'[a] <= nextSlot'[a]
    BY <1>1, <2>1, <2>2 DEF TypeOK
  <2> QED BY <2>3, <2>5, <2>6 DEF ReplicaInv
<1> QED BY <1>2, <1>3 DEF Learn, AppliesUpTo

LEMMA LearnStep ==
  ASSUME IInv, TypeOK', NEW n \in Node, NEW m \in Message, NEW out,
         NEW t \in Slot, NEW c \in Cmd, NEW b \in Ballot, ChosenIn(t, b, c), Learn(n, t, c),
         Handles(n, m), m.type # "Prepare", Send(n, {m}, out),
         \A x \in out : x.from = n /\ x.type = "Commit" /\ x.slot = t /\ x.cmd = c,
         UNCHANGED <<promised, accepted, floor, maxRound>>,
         \A k \in Node : k # n => prop'[k] = prop[k],
         Grows => ProposerInvAt(n)'
  PROVE  IInv'
<1>1. TypeOK /\ AcceptorInv
  BY DEF IInv
<1>2. LocalInv' /\ \A k \in Node : k # n => local'[k] = local[k]
  BY LocalStep
<1>3. msgs' = msgs \cup out
  BY DEF Send
<1>4. \A k \in Node, s \in Slot : chosen[k][s] # None => chosen'[k][s] # None
  <2>1. c # None
    BY CommandAssumption DEF CommandAssumption, Cmd
  <2> QED BY <1>1, <2>1 DEF Learn, replica, TypeOK
<1>5. Grows
  BY <1>1, <1>3, <1>4, QuietGrows DEF Known
<1>6. MsgInv'
  <2>1. ChosenIn(t, b, c)'
    BY <1>1, <1>5, ChosenStays
  <2> QED BY <1>3, <1>5, <2>1, QuietMessages DEF CommitInv
<1>7. \A a \in Node : promised[a][1] <= maxRound'[a] /\ maxRound[a] <= maxRound'[a]
  BY <1>1 DEF AcceptorInv, TypeOK
<1>8. ASSUME NEW k \in Node, k # n PROVE ProposerInvAt(k)'
  <2>1. \A x \in msgs' \ msgs : x.type # "Accept"
    BY <1>3
  <2> QED BY <1>2, <1>5, <1>7, <1>8, <2>1, ProposerStays
<1> QED BY <1>2, <1>5, <1>6, <1>7, <1>8, AcceptorStays, LearnInv DEF IInv, ProposerInv

LEMMA OnCommitSafe ==
  ASSUME IInv, TypeOK', NEW n \in Node, NEW m \in Message, m \in msgs, Handles(n, m), OnCommit(n, m)
  PROVE  IInv'
<1>1. /\ TypeOK /\ m.type = "Commit" /\ m.slot \in Slot /\ m.cmd \in Cmd
      /\ UNCHANGED <<promised, accepted, floor, maxRound, prop>>
      /\ Learn(n, m.slot, m.cmd) /\ Send(n, {m}, {})
  BY MessageFields DEF IInv, OnCommit
<1>2. PICK b \in Ballot : ChosenIn(m.slot, b, m.cmd)
  BY <1>1 DEF IInv, MsgInv, CommitInv
<1>3. ASSUME Grows PROVE ProposerInvAt(n)'
  <2>1. prop[n].role = "candidate" => prop[n].bal \preceq promised'[n]
    BY <1>1, CandidateReady
  <2>2. msgs' = msgs /\ maxRound[n] <= maxRound'[n]
    BY <1>1, MaxRoundKept DEF Send
  <2> QED BY <1>1, <1>3, <2>1, <2>2, ProposerStays
<1>4. \A x \in {} : x.from = n /\ x.type = "Commit" /\ x.slot = m.slot /\ x.cmd = m.cmd
  OBVIOUS
<1> QED BY <1>1, <1>2, <1>3, <1>4, LearnStep

(* A leader that counts one more Accepted for the command in flight in slot  *)
(* t, or takes the command out of flight, remains a sound leader.            *)
LEMMA CountingLeader ==
  ASSUME IInv, TypeOK', Grows, NEW n \in Node, NEW t \in Slot, NEW Q \in SUBSET Node,
         prop[n].role = "leader", UNCHANGED maxRound,
         \A m \in msgs' \ msgs : m.type # "Accept",
         \A a \in Q : Voted(a, t, prop[n].bal),
         \/ prop'[n] = [prop[n] EXCEPT !.acks[t] = Q]
         \/ prop'[n] = [prop[n] EXCEPT !.inflight[t] = None, !.acks[t] = {}]
  PROVE  ProposerInvAt(n)'
<1>1. /\ TypeOK /\ ProposerInvAt(n) /\ LeaderInv(n) /\ prop[n] \in ActiveProposer
      /\ prop[n].bal \in Ballot
  BY ProposerType DEF IInv, ProposerInv, ProposerInvAt, ActiveProposer, Ballot
<1>2. /\ prop'[n].role = "leader" /\ prop'[n].bal = prop[n].bal /\ prop'[n].free = prop[n].free
      /\ \A s \in Slot : s # t => /\ prop'[n].inflight[s] = prop[n].inflight[s]
                                  /\ prop'[n].acks[s] = prop[n].acks[s]
      /\ \/ prop'[n].inflight[t] = None
         \/ prop'[n].inflight[t] = prop[n].inflight[t] /\ prop'[n].acks[t] = Q
  <2>1. PICK p, q : p \in ActiveProposer /\ p = prop[n] /\ q = prop'[n]
    BY <1>1
  <2>2. CASE q = [p EXCEPT !.acks[t] = Q]
    BY <1>1, <2>1, <2>2 DEF ActiveProposer
  <2>3. CASE q = [p EXCEPT !.inflight[t] = None, !.acks[t] = {}]
    BY <1>1, <2>1, <2>3 DEF ActiveProposer
  <2> QED BY <2>1, <2>2, <2>3
<1>3. PICK b \in Ballot : b = prop[n].bal
  BY <1>1
<1>4. b \preceq promised'[n]
  BY <1>1, <1>3, BallotChain DEF LeaderInv, Grows, TypeOK
<1>5. ASSUME NEW s \in Slot, s >= prop[n].free
      PROVE  /\ FreeAt(s, b)'
             /\ \A x \in msgs' : x.type = "Accept" /\ x.slot = s => x.bal # b
  BY <1>1, <1>3, <1>5, SafetyStays DEF LeaderInv
<1>6. ASSUME NEW s \in Slot, prop'[n].inflight[s] # None
      PROVE  /\ \E x \in msgs' : /\ x.type = "Accept" /\ x.slot = s /\ x.bal = b
                                 /\ x.cmd = prop'[n].inflight[s]
             /\ \A a \in prop'[n].acks[s] : \E x \in msgs' :
                  x.type = "Accepted" /\ x.slot = s /\ x.bal = b /\ x.from = a
  <2>1. /\ prop'[n].inflight[s] = prop[n].inflight[s]
        /\ \A a \in prop'[n].acks[s] : Voted(a, s, b)
    BY <1>1, <1>2, <1>3, <1>6 DEF LeaderInv
  <2> QED BY <1>1, <1>3, <1>6, <2>1 DEF LeaderInv, Grows, Proposed, Voted
<1>7. LeaderInv(n)'
  BY <1>2, <1>3, <1>4, <1>5, <1>6 DEF LeaderInv, Proposed, Voted
<1>8. prop'[n].bal[2] = n /\ prop'[n].bal[1] <= maxRound'[n]
  BY <1>1, <1>2 DEF ProposerInvAt
<1> QED BY <1>2, <1>7, <1>8 DEF ProposerInvAt

LEMMA OnAcceptedSafe ==
  ASSUME IInv, TypeOK', NEW n \in Node, NEW m \in Message, m \in msgs, Handles(n, m), OnAccepted(n, m)
  PROVE  IInv'
<1>1. /\ TypeOK /\ m.type = "Accepted" /\ AcceptorInv
      /\ UNCHANGED <<promised, accepted, floor, maxRound>>
  BY DEF IInv, OnAccepted
<1>2. PICK t, c, Q : /\ t \in Slot /\ t = m.slot /\ c = prop[n].inflight[t]
                     /\ Q = prop[n].acks[t] \cup {m.from}
  BY <1>1, MessageFields
<1>3. CASE Send(n, {m}, {}) /\ UNCHANGED <<prop, replica>>
  <2>1. \A x \in {} : /\ x.from = n
                      /\ x.type \notin {"Prepare", "Promise", "Accept", "Accepted"}
                      /\ x.type = "Commit" => CommitInv(x)
    OBVIOUS
  <2>2. UNCHANGED <<promised, accepted, chosen, nextSlot, floor>>
    BY <1>1, <1>3 DEF replica
  <2> QED BY <1>1, <1>3, <2>1, <2>2, QuietHandler, MaxRoundKept
<1>4. ASSUME prop[n].role = "leader", prop[n].bal = m.bal, c # None
      PROVE  /\ LeaderInv(n) /\ prop[n] \in ActiveProposer /\ Q \in SUBSET Node /\ c \in Cmd
             /\ Proposed(t, prop[n].bal, c)
             /\ \A a \in Q : Voted(a, t, prop[n].bal)
  <2>1. LeaderInv(n) /\ prop[n] \in ActiveProposer
    BY <1>1, <1>2, <1>4, ProposerType DEF IInv, ProposerInv, ProposerInvAt
  <2>2. Voted(m.from, t, prop[n].bal) /\ m.from \in Node
    BY <1>1, <1>2, <1>2, <1>4, MessageFields DEF Voted
  <2> QED BY <1>2, <1>2, <1>4, <2>1, <2>2 DEF LeaderInv, ActiveProposer
<1>5. CASE /\ prop[n].role = "leader" /\ prop[n].bal = m.bal /\ c # None
           /\ prop' = [prop EXCEPT ![n] = [@ EXCEPT !.acks[t] = Q]]
           /\ Send(n, {m}, {}) /\ UNCHANGED replica
  <2>1. LocalInv' /\ \A k \in Node : k # n => local'[k] = local[k]
    <3>1. \A x \in {} : x.from = n /\ x.type # "Prepare"
      OBVIOUS
    <3>2. Send(n, {m}, {})
      BY <1>5
    <3> QED BY <3>1, <3>2, LocalStep
  <2>2. msgs' = msgs /\ UNCHANGED <<chosen, nextSlot, floor>>
    BY <1>1, <1>5 DEF Send, replica
  <2>3. Grows
    BY <1>1, <2>2, QuietGrows
  <2>4. \A a \in Node : promised[a][1] <= maxRound'[a] /\ maxRound[a] <= maxRound'[a]
    BY <1>1 DEF AcceptorInv, TypeOK
  <2>5. /\ prop'[n] = [prop[n] EXCEPT !.acks[t] = Q]
        /\ \A k \in Node : k # n => prop'[k] = prop[k]
    BY <1>1, <1>5 DEF TypeOK
  <2>6. ASSUME NEW k \in Node PROVE ProposerInvAt(k)'
    <3>1. CASE k # n
      BY <2>1, <2>2, <2>3, <2>4, <2>5, <3>1, ProposerStays
    <3>2. CASE k = n
      BY <1>1, <1>2, <1>4, <1>5, <2>2, <2>3, <2>5, <3>2, CountingLeader
    <3> QED BY <3>1, <3>2
  <2>7. MsgInv'
    BY <2>2, <2>3, QuietMessages
  <2> QED BY <1>1, <2>1, <2>2, <2>3, <2>4, <2>6, <2>7, AcceptorStays, ReplicaStays
          DEF IInv, ProposerInv
<1>6. ASSUME prop[n].role = "leader", prop[n].bal = m.bal, c # None, IsQuorum(Q),
             prop' = [prop EXCEPT ![n] = [@ EXCEPT !.inflight[t] = None, !.acks[t] = {}]],
             Learn(n, t, c),
             NEW out, out = {Commit(n, k, t, c) : k \in Node \ {n}}, Send(n, {m}, out)
      PROVE  IInv'
  <2>1. PICK b \in Ballot : b = prop[n].bal /\ ChosenIn(t, b, c)
    <3>1. Q \subseteq {a \in Node : Voted(a, t, prop[n].bal)}
      BY <1>2, <1>4, <1>6
    <3>2. IsQuorum({a \in Node : Voted(a, t, prop[n].bal)})
      BY <1>2, <1>4, <1>6, <3>1, QuorumGrows
    <3> QED BY <1>2, <1>4, <1>6, <3>2 DEF ChosenIn, ActiveProposer, Ballot
  <2>2. \A x \in out : x.from = n /\ x.type = "Commit" /\ x.slot = t /\ x.cmd = c
    BY <1>6 DEF Commit
  <2>3. \A x \in msgs' \ msgs : x.type = "Commit"
    BY <1>6, <2>2 DEF Send
  <2>4. /\ prop'[n] = [prop[n] EXCEPT !.inflight[t] = None, !.acks[t] = {}]
        /\ \A k \in Node : k # n => prop'[k] = prop[k]
    BY <1>1, <1>6 DEF TypeOK
  <2>5. Grows => ProposerInvAt(n)'
    BY <1>1, <1>2, <1>4, <1>6, <2>3, <2>4, CountingLeader
  <2> QED BY <1>1, <1>2, <1>4, <1>6, <2>1, <2>2, <2>4, <2>5, LearnStep
<1> QED BY <1>2, <1>3, <1>5, <1>6 DEF OnAccepted

-----------------------------------------------------------------------------
(* The invariant *)

LEMMA InitSafe == Init => IInv
<1> SUFFICES ASSUME Init PROVE IInv
  OBVIOUS
<1>1. TypeOK
  BY InitType
<1>2. \A n \in Node : promised[n][1] = 0 /\ maxRound[n] = 0 /\ nextSlot[n] = 0
  BY DEF Init, ZERO
<1>3. AcceptorInv
  BY <1>2 DEF Init, AcceptorInv, NoEntry, \preceq
<1>4. ReplicaInv
  BY <1>2, BoundAssumption DEF Init, ReplicaInv, Known, Idle, Slot, BoundAssumption
<1>5. MsgInv /\ LocalInv
  BY DEF Init, MsgInv, LocalInv
<1>6. ProposerInv
  BY DEF Init, ProposerInv, ProposerInvAt, Follower, Fresh
<1> QED BY <1>1, <1>3, <1>4, <1>5, <1>6 DEF IInv

LEMMA HandleSafe ==
  ASSUME IInv, TypeOK', NEW n \in Node, NEW m \in local[n] \cup msgs, Handles(n, m), Handle(n, m),
         Candid(n, m)
  PROVE  IInv'
<1>1. m \in Message /\ m \in msgs
  BY DEF IInv, LocalInv, TypeOK
<1> QED
  BY <1>1, OnPrepareSafe, OnPromiseSafe, OnAcceptSafe, OnAcceptedSafe, OnNackSafe,
     OnCommitSafe, OnHeartbeatSafe, OnCatchUpSafe, OnForwardSafe DEF Handle

LEMMA OutsideSafe ==
  ASSUME IInv, TypeOK', NEW n \in Node, Outside(n)
  PROVE  IInv'
BY StartCampaignSafe, SendHeartbeatSafe, StepDownSafe, RetrySafe, SubmitSafe DEF Outside

LEMMA StutterSafe ==
  ASSUME IInv, UNCHANGED vars
  PROVE  IInv'
<1>1. TypeOK'
  BY NextType DEF IInv
<1>2. LocalInv' /\ \A a \in Node : promised[a][1] <= maxRound'[a] /\ maxRound[a] <= maxRound'[a]
  BY DEF IInv, LocalInv, AcceptorInv, TypeOK, vars
<1> QED BY <1>1, <1>2, QuietStep DEF vars

(* Without compaction no log is ever cut, and no promise leaves out a vote. *)
FreshInv == IInv /\ floor = [n \in Node |-> 0]

LEMMA FreshCandid ==
  ASSUME FreshInv, NEW n \in Node, NEW m
  PROVE  Candid(n, m)
<1>1. \A s \in Slot : ~(s < floor[n])
  BY BoundAssumption DEF FreshInv, Slot, BoundAssumption
<1> QED BY <1>1 DEF Candid

LEMMA FloorStays == [Next]_vars => floor' = floor
<1>1. ASSUME NEW n, NEW m, Handle(n, m) PROVE floor' = floor
  <2>1. CASE OnPrepare(n, m) \/ OnPromise(n, m) \/ OnNack(n, m)
    BY <2>1 DEF OnPrepare, OnPromise, OnNack
  <2>2. CASE OnAccept(n, m) \/ OnAccepted(n, m) \/ OnCommit(n, m)
    BY <2>2 DEF OnAccept, OnAccepted, OnCommit
  <2>3. CASE OnHeartbeat(n, m) \/ OnCatchUp(n, m) \/ OnForward(n, m)
    BY <2>3 DEF OnHeartbeat, OnCatchUp, OnForward
  <2> QED BY <1>1, <2>1, <2>2, <2>3 DEF Handle
<1>2. ASSUME NEW n, Outside(n) PROVE floor' = floor
  <2>1. CASE StartCampaign(n) \/ SendHeartbeat(n) \/ QuorumLost(n) \/ Retry(n)
    BY <2>1 DEF StartCampaign, SendHeartbeat, QuorumLost, Retry
  <2>2. ASSUME NEW c, Submit(n, c) \/ Abandon(n, c) PROVE floor' = floor
    BY <2>2 DEF Submit, Abandon
  <2> QED BY <1>2, <2>1, <2>2 DEF Outside
<1>3. ASSUME NEW n, Restart(n) PROVE floor' = floor
  BY <1>3 DEF Restart
<1>4. UNCHANGED vars => floor' = floor
  BY DEF vars
<1> QED BY <1>1, <1>2, <1>3, <1>4 DEF Next, Receive

LEMMA NextSafe == FreshInv /\ [Next]_vars => FreshInv'
<1> SUFFICES ASSUME FreshInv, [Next]_vars PROVE IInv'
  BY FloorStays DEF FreshInv
<1>1. IInv /\ TypeOK'
  BY NextType DEF FreshInv, IInv
<1>2. ASSUME NEW n \in Node, Receive(n) PROVE IInv'
  BY <1>1, <1>2, HandleSafe, FreshCandid DEF Receive
<1> QED BY <1>1, <1>2, OutsideSafe, RestartSafe, StutterSafe DEF Next

LEMMA FreshHolds == Spec => []FreshInv
<1>1. Init => FreshInv
  BY InitSafe DEF Init, FreshInv
<1> QED BY <1>1, NextSafe, PTL DEF Spec

(***************************************************************************)
(* The invariant holds in every reachable state: for any number of voters, *)
(* commands, slots, rounds, crashes, and any loss, delay, reordering and   *)
(* duplication of messages.                                                *)
(***************************************************************************)
THEOREM InvariantHolds == Spec => []IInv
<1>1. FreshInv => IInv
  BY DEF FreshInv
<1> QED BY <1>1, FreshHolds, PTL

-----------------------------------------------------------------------------
(* What follows from it *)

LEMMA ProposalsUnique ==
  ASSUME IInv, NEW s \in Slot, NEW b, NEW c, NEW d, Proposed(s, b, c), Proposed(s, b, d)
  PROVE  c = d
BY DEF IInv, MsgInv, AcceptInv, Proposed

(* What is chosen for a slot is what every later ballot proposes there: the  *)
(* majority that makes it safe and the one that chose meet in a voter.       *)
LEMMA ChosenIsProposedLater ==
  ASSUME IInv, NEW s \in Slot, NEW b \in Ballot, NEW c, ChosenIn(s, b, c),
         NEW e \in Ballot, NEW d, Proposed(s, e, d), b \prec e
  PROVE  c = d
<1>1. SafeAt(s, e, d)
  BY DEF IInv, MsgInv, AcceptInv, Proposed
<1>2. PICK Q \in Quorum : \A a \in Q : WontVote(a, s, b) \/ VotedFor(a, s, b, d)
  BY <1>1 DEF SafeAt
<1>3. PICK a \in Node : a \in Q /\ Voted(a, s, b)
  <2> DEFINE R == {a \in Node : Voted(a, s, b)}
  <2>1. Q \in SUBSET Node /\ R \in SUBSET Node /\ IsQuorum(Q) /\ IsQuorum(R)
    BY DEF Quorum, ChosenIn
  <2> QED BY <2>1, QuorumMeet
<1>4. VotedFor(a, s, b, d)
  BY <1>2, <1>3 DEF WontVote
<1> QED BY <1>4, ProposalsUnique DEF VotedFor, ChosenIn

LEMMA OneChosen ==
  ASSUME IInv, NEW s \in Slot, NEW b \in Ballot, NEW c, ChosenIn(s, b, c),
         NEW e \in Ballot, NEW d, ChosenIn(s, e, d)
  PROVE  c = d
<1>1. CASE b = e
  BY <1>1, ProposalsUnique DEF ChosenIn
<1>2. CASE b \prec e
  BY <1>2, ChosenIsProposedLater DEF ChosenIn
<1>3. CASE e \prec b
  BY <1>3, ChosenIsProposedLater DEF ChosenIn
<1> QED BY <1>1, <1>2, <1>3, BallotOrder

(***************************************************************************)
(* No two replicas ever record different commands for a slot: commit never *)
(* raises SafetyViolation while the log is not compacted.                  *)
(***************************************************************************)
THEOREM AgreementHolds == Spec => []Agreement
<1>1. IInv => Agreement
  <2>1. SUFFICES ASSUME IInv, NEW n \in Node, NEW k \in Node, NEW s \in Slot,
                        chosen[n][s] # None, chosen[k][s] # None
                 PROVE  chosen[n][s] = chosen[k][s]
    BY DEF Agreement
  <2>2. PICK b \in Ballot : ChosenIn(s, b, chosen[n][s])
    BY <2>1 DEF IInv, ReplicaInv
  <2>3. PICK e \in Ballot : ChosenIn(s, e, chosen[k][s])
    BY <2>1 DEF IInv, ReplicaInv
  <2> QED BY <2>1, <2>2, <2>3, OneChosen
<1> QED BY <1>1, InvariantHolds, PTL

(***************************************************************************)
(* A ballot proposes at most one command per slot, although its owner may  *)
(* crash and campaign under it a second time.                              *)
(***************************************************************************)
THEOREM OneProposalHolds == Spec => []OneProposalPerBallot
<1>1. IInv => OneProposalPerBallot
  BY DEF IInv, MsgInv, AcceptInv, OneProposalPerBallot
<1> QED BY <1>1, InvariantHolds, PTL

(***************************************************************************)
(* A later ballot proposes what a majority accepted, and nothing else.     *)
(***************************************************************************)
THEOREM LaterBallotsHold == Spec => []LaterBallotsKeepChosen
<1>1. IInv => LaterBallotsKeepChosen
  <2>1. SUFFICES ASSUME IInv, NEW m1 \in msgs, NEW m2 \in msgs,
                        m1.type = "Accept", m2.type = "Accept",
                        m1.slot = m2.slot, m1.bal \prec m2.bal,
                        ChosenIn(m1.slot, m1.bal, m1.cmd)
                 PROVE  m1.cmd = m2.cmd
    BY DEF LaterBallotsKeepChosen
  <2>2. /\ m1.slot \in Slot /\ m1.bal \in Ballot /\ m2.bal \in Ballot
        /\ Proposed(m1.slot, m2.bal, m2.cmd)
    BY <2>1, MessageFields DEF IInv, TypeOK, Ballot, Proposed
  <2> QED BY <2>1, <2>2, ChosenIsProposedLater
<1> QED BY <1>1, InvariantHolds, PTL

(***************************************************************************)
(* A replica records nothing that a majority did not accept.               *)
(***************************************************************************)
THEOREM LearnedIsChosenHolds == Spec => []LearnedIsChosen
<1>1. IInv => LearnedIsChosen
  BY DEF IInv, ReplicaInv, LearnedIsChosen
<1> QED BY <1>1, InvariantHolds, PTL
=============================================================================
