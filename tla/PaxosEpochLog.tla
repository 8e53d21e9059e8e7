---------------------------- MODULE PaxosEpochLog ----------------------------
(***************************************************************************)
(* Proofs about PaxosEpoch, part 2: what a single step may do.  The node's *)
(* applied state is what a replay of its log gives, promises bind, an      *)
(* outranked bid ends, and the epoch implements the log of ChosenLog.      *)
(***************************************************************************)
EXTENDS PaxosEpochSafety

(* A bid a node still has to hear of from itself is the one it makes. *)
OwnBidInv ==
  \A n \in Node : \A m \in local[n] :
    m.type \in {"Prepare", "Accept", "Heartbeat"} =>
      prop[n].role = "follower" \/ m.bal = prop[n].bal

(* Where commands come from: what is proposed, forwarded, accepted or      *)
(* pending was submitted by a client, or is the filler.                    *)
Asked == submitted \cup {NOOP}
OriginInv ==
  /\ \A m \in msgs : m.type \in {"Accept", "Forward"} => m.cmd \in Asked
  /\ \A m \in msgs : m.type = "Promise" => \A s \in Slot : m.acc[s].cmd \in Asked
  /\ \A n \in Node, s \in Slot : accepted[n][s].cmd \in Asked
  /\ \A n \in Node : pending[n] \subseteq submitted

-----------------------------------------------------------------------------
(* The kinds of steps *)

NoVote == msgs \subseteq msgs' /\ \A x \in msgs' \ msgs : x.type # "Accepted"

(* Node n accepts proposal m. *)
VoteStep(n, m) ==
  /\ m \in msgs /\ m.type = "Accept" /\ promised[n] \preceq m.bal
  /\ accepted' = [accepted EXCEPT ![n][m.slot] = [bal |-> m.bal, cmd |-> m.cmd]]
  /\ msgs \subseteq msgs'
  /\ \A x \in msgs' \ msgs : x.type = "Accepted" => x = Accepted(n, m.bal, m.slot)
  /\ \A x \in msgs' \ msgs : x.type # "Accept"
  /\ UNCHANGED <<replica, submitted>>

(* Node n learns command c, which is chosen for slot s. *)
KnowStep(n, s, c) ==
  /\ \E b \in Ballot : ChosenIn(s, b, c)
  /\ Learn(n, s, c)
  /\ UNCHANGED submitted
  /\ NoVote

(* Any other step. *)
PlainStep ==
  /\ UNCHANGED submitted \/ \E c \in Command : submitted' = submitted \cup {c}
  /\ UNCHANGED replica
  /\ NoVote

LEMMA AcceptKind ==
  ASSUME IInv, NEW n \in Node, NEW m \in Message, m \in msgs, OnAccept(n, m)
  PROVE  PlainStep \/ VoteStep(n, m)
<1>1. m.type = "Accept" /\ m.bal \in Ballot /\ m.slot \in Slot /\ promised[n] \in Ballot /\ TypeOK
  BY MessageFields DEF OnAccept, Ballot, IInv, TypeOK
<1>2. UNCHANGED <<replica, submitted>>
  BY DEF OnAccept, env
<1>3. CASE Send(n, {m}, {Nack(n, m.bal)})
  <2>1. msgs \subseteq msgs' /\ msgs' \ msgs \subseteq {Nack(n, m.bal)} /\ Nack(n, m.bal).type = "Nack"
    BY <1>3 DEF Send, Nack
  <2> QED BY <1>2, <2>1 DEF PlainStep, NoVote
<1>4. CASE /\ ~Refused(n, m)
           /\ accepted' = [accepted EXCEPT ![n][m.slot] = [bal |-> m.bal, cmd |-> m.cmd]]
           /\ Send(n, {m}, {Accepted(n, m.bal, m.slot)} \cup HandOver(n, m.bal, m.from))
  <2>1. promised[n] \preceq m.bal
    BY <1>1, <1>4, BallotChain DEF Refused
  <2>2. \A x \in HandOver(n, m.bal, m.from) : x.type = "Forward"
    BY DEF HandOver, Forward
  <2>3. msgs \subseteq msgs' /\ msgs' \ msgs \subseteq {Accepted(n, m.bal, m.slot)} \cup HandOver(n, m.bal, m.from)
    BY <1>4 DEF Send
  <2>4. Accepted(n, m.bal, m.slot).type = "Accepted"
    BY DEF Accepted
  <2> QED BY <1>1, <1>2, <1>4, <2>1, <2>2, <2>3, <2>4 DEF VoteStep
<1> QED BY <1>3, <1>4 DEF OnAccept

LEMMA LearnKinds ==
  ASSUME IInv, NEW n \in Node, NEW m \in Message, m \in msgs, OnAccepted(n, m) \/ OnCommit(n, m)
  PROVE  PlainStep \/ \E s \in Slot, c \in Cmd : KnowStep(n, s, c)
<1>1. CASE OnCommit(n, m)
  <2>1. /\ m.slot \in Slot /\ m.cmd \in Cmd /\ Learn(n, m.slot, m.cmd)
        /\ msgs' = msgs /\ UNCHANGED submitted
    BY <1>1, MessageFields DEF OnCommit, env, Send
  <2>2. \E b \in Ballot : ChosenIn(m.slot, b, m.cmd)
    BY <1>1 DEF OnCommit, IInv, MsgInv, CommitInv
  <2> QED BY <2>1, <2>2 DEF KnowStep, NoVote
<1>2. CASE OnAccepted(n, m)
  <2> DEFINE s == m.slot
             c == prop[n].inflight[s]
             acks == prop[n].acks[s] \cup {m.from}
  <2>1. m.type = "Accepted" /\ s \in Slot /\ m.from \in Node /\ m.bal \in Ballot
    BY <1>2, MessageFields DEF OnAccepted, Ballot
  <2>2. UNCHANGED submitted
    BY <1>2 DEF OnAccepted, env
  <2>3. CASE Send(n, {m}, {}) /\ UNCHANGED replica
    BY <2>2, <2>3 DEF Send, PlainStep, NoVote
  <2>4. CASE /\ prop[n].role = "leader" /\ prop[n].bal = m.bal /\ c # None
             /\ IsQuorum(acks) /\ Learn(n, s, c)
             /\ Send(n, {m}, {Commit(n, k, s, c) : k \in Node \ {n}})
    <3>1. LeaderInv(n) /\ prop[n] \in ActiveProposer
      BY <2>4, ProposerType DEF IInv, ProposerInv, ProposerInvAt
    <3>2. c \in Cmd /\ acks \in SUBSET Node
      BY <2>1, <2>4, <3>1 DEF ActiveProposer
    <3>3. Proposed(s, m.bal, c) /\ \A a \in acks : Voted(a, s, m.bal)
      BY <2>1, <2>4, <3>1 DEF LeaderInv, Voted
    <3>4. ChosenIn(s, m.bal, c)
      <4>1. acks \subseteq {a \in Node : Voted(a, s, m.bal)}
        BY <3>2, <3>3
      <4> QED BY <2>4, <3>2, <3>3, <4>1, QuorumGrows DEF ChosenIn
    <3>5. msgs \subseteq msgs' /\ \A x \in msgs' \ msgs : x.type = "Commit"
      BY <2>4 DEF Send, Commit
    <3> QED BY <2>1, <2>2, <2>4, <3>2, <3>4, <3>5 DEF KnowStep, NoVote
  <2> QED BY <1>2, <2>3, <2>4 DEF OnAccepted
<1> QED BY <1>1, <1>2

LEMMA BecomeLeaderSends ==
  ASSUME NEW n, NEW m, NEW P, BecomeLeader(n, m, P)
  PROVE  msgs \subseteq msgs' /\ \A x \in msgs' \ msgs : x.type = "Accept"
<1>1. PICK best \in [Slot -> UNION {BestEntries(P, s) : s \in Slot}],
           free \in nextSlot[n]..LastSlot + 1, end \in 0..LastSlot + 1 :
             BecomeLeader(n, m, P)!(best, free, end)
  BY DEF BecomeLeader
<1>2. PICK routed \in Orders(Open(n) \ {best[s].cmd : s \in Planned(n, best)}, free, end) :
        LET plan == Planned(n, best)
            first == [s \in Slot |-> IF s \in plan THEN best[s].cmd
                                     ELSE IF s \in free..end - 1 THEN routed[s] ELSE None]
            used == plan \cup (free..end - 1)
        IN Send(n, {m}, UNION {ToAll(n, Accept(n, m.bal, s, first[s])) : s \in used})
  BY <1>1
<1> DEFINE first == [s \in Slot |-> IF s \in Planned(n, best) THEN best[s].cmd
                                    ELSE IF s \in free..end - 1 THEN routed[s] ELSE None]
           used == Planned(n, best) \cup (free..end - 1)
<1>3. Send(n, {m}, UNION {ToAll(n, Accept(n, m.bal, s, first[s])) : s \in used})
  BY <1>2
<1> HIDE DEF first, used
<1>4. ASSUME NEW x \in msgs' \ msgs PROVE \E s \in used : x \in ToAll(n, Accept(n, m.bal, s, first[s]))
  BY <1>3 DEF Send
<1>5. msgs \subseteq msgs'
  BY <1>3 DEF Send
<1> QED BY <1>4, <1>5 DEF ToAll, Accept

LEMMA ProposeSends ==
  ASSUME NEW n, NEW done, NEW c, Propose(n, done, c)
  PROVE  msgs \subseteq msgs' /\ \A x \in msgs' \ msgs : x.type = "Accept"
BY DEF Propose, Send, ToAll, Accept

(* Every step is of one of the three kinds. *)
LEMMA StepKinds ==
  ASSUME IInv, NEW n \in Node, Receive(n) \/ Outside(n) \/ Restart(n)
  PROVE  \/ PlainStep
         \/ \E m \in Message : VoteStep(n, m)
         \/ \E s \in Slot, c \in Cmd : KnowStep(n, s, c)
<1>1. CASE Restart(n)
  BY <1>1 DEF Restart, durable, replica, PlainStep, NoVote
<1>2. CASE Outside(n)
  <2>1. CASE StartCampaign(n)
    BY <2>1 DEF StartCampaign, Send, ToAll, Prepare, env, PlainStep, NoVote
  <2>2. CASE SendHeartbeat(n)
    BY <2>2 DEF SendHeartbeat, Send, ToAll, Heartbeat, durable, replica, env, PlainStep, NoVote
  <2>3. CASE QuorumLost(n)
    BY <2>3 DEF QuorumLost, durable, replica, env, PlainStep, NoVote
  <2>4. CASE Retry(n)
    BY <2>4 DEF Retry, Send, CatchUp, Forward, durable, replica, env, PlainStep, NoVote
  <2>5. ASSUME NEW c \in Command, Submit(n, c) PROVE PlainStep
    <3>1. submitted' = submitted \cup {c} /\ UNCHANGED replica
      BY <2>5 DEF Submit
    <3>2. CASE Propose(n, {}, c)
      BY <3>1, <3>2, ProposeSends DEF PlainStep, NoVote
    <3>3. CASE Send(n, {}, IF leader[n] \in {0, n} THEN {} ELSE {Forward(n, leader[n], c)})
      BY <3>1, <3>3 DEF Send, Forward, PlainStep, NoVote
    <3> QED BY <2>5, <3>2, <3>3 DEF Submit
  <2>6. ASSUME NEW c \in Command, Abandon(n, c) PROVE PlainStep
    BY <2>6 DEF Abandon, durable, replica, env, PlainStep, NoVote
  <2> QED BY <1>2, <2>1, <2>2, <2>3, <2>4, <2>5, <2>6 DEF Outside
<1>3. CASE Receive(n)
  <2>1. PICK m \in Message : m \in msgs /\ Handle(n, m)
    BY <1>3 DEF Receive, IInv, LocalInv, TypeOK
  <2>2. CASE OnPrepare(n, m)
    <3>1. UNCHANGED <<replica, submitted>>
      BY <2>2 DEF OnPrepare, env
    <3> QED BY <2>2, <3>1 DEF OnPrepare, Send, Nack, Promise, PlainStep, NoVote
  <2>3. CASE OnPromise(n, m)
    <3>1. UNCHANGED <<replica, submitted>>
      BY <2>3 DEF OnPromise, durable, replica, env
    <3>2. CASE Send(n, {m}, {})
      BY <3>1, <3>2 DEF Send, PlainStep, NoVote
    <3>3. ASSUME NEW P, BecomeLeader(n, m, P) PROVE PlainStep
      BY <3>1, <3>3, BecomeLeaderSends DEF PlainStep, NoVote
    <3> QED BY <2>3, <3>2, <3>3 DEF OnPromise
  <2>4. CASE OnAccept(n, m)
    BY <2>1, <2>4, AcceptKind
  <2>5. CASE OnAccepted(n, m) \/ OnCommit(n, m)
    BY <2>1, <2>5, LearnKinds
  <2>6. CASE OnNack(n, m)
    BY <2>6 DEF OnNack, Send, durable, replica, env, PlainStep, NoVote
  <2>7. CASE OnHeartbeat(n, m)
    <3>1. UNCHANGED <<replica, submitted>>
      BY <2>7 DEF OnHeartbeat, durable, replica, env
    <3> QED BY <2>7, <3>1 DEF OnHeartbeat, Send, HandOver, Forward, CatchUp, PlainStep, NoVote
  <2>8. CASE OnCatchUp(n, m)
    BY <2>8 DEF OnCatchUp, Send, Commit, durable, replica, env, PlainStep, NoVote
  <2>9. CASE OnForward(n, m)
    <3>1. UNCHANGED <<replica, submitted>>
      BY <2>9 DEF OnForward, durable, replica, env
    <3>2. CASE Send(n, {m}, {})
      BY <3>1, <3>2 DEF Send, PlainStep, NoVote
    <3>3. CASE Propose(n, {m}, m.cmd)
      BY <3>1, <3>3, ProposeSends DEF PlainStep, NoVote
    <3> QED BY <2>9, <3>2, <3>3 DEF OnForward
  <2> QED BY <2>1, <2>2, <2>3, <2>4, <2>5, <2>6, <2>7, <2>8, <2>9 DEF Handle
<1> QED BY <1>1, <1>2, <1>3

-----------------------------------------------------------------------------
(* What the acceptors and replicas keep *)

(***************************************************************************)
(* An acceptor never accepts below a ballot it has promised, however many  *)
(* crashes and repeated messages lie between (Acceptor.prepare, accept).   *)
(***************************************************************************)
THEOREM PromisesBindHolds == Spec => PromisesBind
<1>1. ASSUME IInv, [Next]_vars, NEW m \in msgs' \ msgs, m.type = "Accepted",
             NEW p \in msgs, p.type = "Promise", p.from = m.from
      PROVE  p.bal \preceq m.bal
  <2>1. PICK n \in Node, x \in Message : VoteStep(n, x)
    BY <1>1, StepKinds DEF vars, Next, PlainStep, KnowStep, NoVote
  <2>2. m = Accepted(n, x.bal, x.slot) /\ promised[n] \preceq x.bal /\ x.type = "Accept"
    BY <1>1, <2>1 DEF VoteStep
  <2>3. m.from = n /\ m.bal = x.bal
    BY <2>2 DEF Accepted
  <2>4. p.bal \preceq promised[n]
    BY <1>1, <2>3 DEF IInv, MsgInv, PromiseInv
  <2>5. p.bal \in Ballot /\ promised[n] \in Ballot /\ x.bal \in Ballot
    BY <1>1, <2>2, MessageFields DEF IInv, TypeOK, Ballot
  <2> QED BY <2>2, <2>3, <2>4, <2>5, BallotChain
<1>2. IInv /\ [Next]_vars =>
        [\A m \in msgs' \ msgs : m.type = "Accepted" =>
           \A p \in msgs : p.type = "Promise" /\ p.from = m.from => p.bal \preceq m.bal]_vars
  BY <1>1
<1> QED BY <1>2, InvariantHolds, PTL DEF Spec, PromisesBind

LEMMA InitReplay == Init => ReplayExact
BY BoundAssumption DEF Init, ReplayExact, Idle, Slot, BoundAssumption

(* Learning applies what has become contiguous, and nothing else. *)
LEMMA LearnReplay ==
  ASSUME TypeOK, TypeOK', ReplayExact, NEW n \in Node, NEW s \in Slot, NEW c \in Cmd, Learn(n, s, c)
  PROVE  ReplayExact'
<1>1. CASE UNCHANGED replica
  BY <1>1 DEF ReplayExact, replica
<1>2. CASE /\ chosen[n][s] = None /\ s >= nextSlot[n]
           /\ chosen' = [chosen EXCEPT ![n][s] = c]
           /\ \E k \in nextSlot[n]..LastSlot + 1 :
                /\ AppliesUpTo(n, nextSlot[n], k)
                /\ nextSlot' = [nextSlot EXCEPT ![n] = k]
                /\ results' = [results EXCEPT ![n] = @ \cup Applied(n, nextSlot[n], k)]
  <2>1. PICK k \in nextSlot[n]..LastSlot + 1 :
                /\ AppliesUpTo(n, nextSlot[n], k)
                /\ nextSlot' = [nextSlot EXCEPT ![n] = k]
                /\ results' = [results EXCEPT ![n] = @ \cup Applied(n, nextSlot[n], k)]
    BY <1>2
  <2> DEFINE from == nextSlot[n]
  <2>2. from \in Nat /\ k \in Nat /\ from <= k /\ nextSlot'[n] = k /\ s \in Nat
    BY <2>1, BoundAssumption DEF TypeOK, Slot, BoundAssumption
  <2>3. \A t \in 0..from - 1 : chosen'[n][t] = chosen[n][t] /\ chosen[n][t] # None
    BY <1>2, <2>2 DEF TypeOK, ReplayExact
  <2>4. \A t \in 0..k - 1 : t \in 0..from - 1 \/ t \in from..k - 1
    BY <2>2
  <2>5. \A t \in 0..k - 1 : chosen'[n][t] # None
    BY <2>1, <2>3, <2>4 DEF AppliesUpTo
  <2>6. k \in Slot => chosen'[n][k] = None
    BY <2>1 DEF AppliesUpTo
  <2>7. results'[n] = {chosen'[n][t] : t \in 0..k - 1} \ {NOOP}
    <3>1. results'[n] = results[n] \cup ({chosen'[n][t] : t \in from..k - 1} \ {NOOP})
      BY <2>1 DEF Applied, TypeOK
    <3>2. results[n] = {chosen[n][t] : t \in 0..from - 1} \ {NOOP}
      BY DEF ReplayExact
    <3>3. results[n] = {chosen'[n][t] : t \in 0..from - 1} \ {NOOP}
      BY <2>3, <3>2
    <3>4. 0..k - 1 = (0..from - 1) \cup (from..k - 1)
      BY <2>2
    <3> QED BY <3>1, <3>3, <3>4
  <2>8. ASSUME NEW j \in Node, j # n
        PROVE  chosen'[j] = chosen[j] /\ nextSlot'[j] = nextSlot[j] /\ results'[j] = results[j]
    BY <1>2, <2>1, <2>8 DEF TypeOK
  <2>9. ASSUME NEW j \in Node
        PROVE  /\ \A t \in 0..nextSlot'[j] - 1 : chosen'[j][t] # None
               /\ nextSlot'[j] \in Slot => chosen'[j][nextSlot'[j]] = None
               /\ results'[j] = {chosen'[j][t] : t \in 0..nextSlot'[j] - 1} \ {NOOP}
    <3>1. CASE j = n
      BY <2>2, <2>5, <2>6, <2>7, <3>1
    <3>2. CASE j # n
      BY <2>8, <3>2 DEF ReplayExact
    <3> QED BY <3>1, <3>2
  <2> QED BY <2>9 DEF ReplayExact
<1> QED BY <1>1, <1>2 DEF Learn

LEMMA NextReplay == IInv /\ IInv' /\ ReplayExact /\ [Next]_vars => ReplayExact'
<1> SUFFICES ASSUME IInv, IInv', ReplayExact, [Next]_vars PROVE ReplayExact'
  OBVIOUS
<1>1. CASE UNCHANGED replica
  BY <1>1 DEF ReplayExact, replica
<1>2. ASSUME NEW n \in Node, NEW s \in Slot, NEW c \in Cmd, KnowStep(n, s, c) PROVE ReplayExact'
  BY <1>2, LearnReplay DEF KnowStep, IInv
<1> QED BY <1>1, <1>2, StepKinds DEF vars, Next, PlainStep, VoteStep, replica

(***************************************************************************)
(* What a replica has applied is what replaying its durable log from slot  *)
(* 0 gives, so a restart loses and repeats nothing (Replica.__init__).     *)
(***************************************************************************)
THEOREM ReplayExactHolds == Spec => []ReplayExact
BY InitReplay, NextReplay, InvariantHolds, PTL DEF Spec

-----------------------------------------------------------------------------
(* Giving up *)

LEMMA OwnBidStays ==
  ASSUME IInv, OwnBidInv, NEW n \in Node, NEW done, NEW out, Send(n, done, out),
         \A x \in out : x.type \in {"Prepare", "Accept", "Heartbeat"} /\ x.to = n =>
                          prop'[n].role = "follower" \/ x.bal = prop'[n].bal,
         \/ \A x \in local[n] : x.type \notin {"Prepare", "Accept", "Heartbeat"}
         \/ prop'[n].role = "follower"
         \/ prop[n].role # "follower" /\ prop'[n].bal = prop[n].bal
         \/ prop'[n] = prop[n],
         \A k \in Node : k # n => prop'[k] = prop[k]
  PROVE  OwnBidInv'
<1>1. /\ local'[n] \subseteq local[n] \cup {x \in out : x.to = n}
      /\ \A k \in Node : k # n => local'[k] = local[k]
  BY DEF Send, IInv, TypeOK
<1> QED BY <1>1 DEF OwnBidInv

(* Handling another's ballot b keeps the bid, or ends it. *)
LEMMA HeardLeaderEnds ==
  ASSUME TypeOK, NEW n \in Node, NEW b, NEW k, HeardLeader(n, b, k)
  PROVE  /\ prop'[n] = prop[n] \/ prop'[n].role = "follower"
         /\ \A j \in Node : j # n => prop'[j] = prop[j]
BY DEF HeardLeader, TypeOK, Follower, Fresh

LEMMA ProposeBids ==
  ASSUME TypeOK, NEW n \in Node, NEW done, NEW c, prop[n].role = "leader", Propose(n, done, c)
  PROVE  /\ prop'[n].bal = prop[n].bal
         /\ \A k \in Node : k # n => prop'[k] = prop[k]
         /\ \E out : Send(n, done, out) /\ \A x \in out : x.bal = prop[n].bal
<1>1. prop[n] \in ActiveProposer
  BY ProposerType
<1>2. CASE Send(n, done, {}) /\ UNCHANGED prop
  BY <1>2
<1>3. CASE /\ prop[n].free \in Slot
           /\ prop' = [prop EXCEPT ![n] = AddProposal(@, prop[n].free, c)]
           /\ Send(n, done, ToAll(n, Accept(n, prop[n].bal, prop[n].free, c)))
  <2>1. prop'[n] = AddProposal(prop[n], prop[n].free, c) /\ \A k \in Node : k # n => prop'[k] = prop[k]
    BY <1>3 DEF TypeOK
  <2>2. \A x \in ToAll(n, Accept(n, prop[n].bal, prop[n].free, c)) : x.bal = prop[n].bal
    BY DEF ToAll, Accept
  <2>3. prop'[n].bal = prop[n].bal
    <3>1. AddProposal(prop[n], prop[n].free, c).bal = prop[n].bal
      <4>1. PICK p \in ActiveProposer, t \in Slot : p = prop[n] /\ t = prop[n].free
        BY <1>1, <1>3
      <4>2. AddProposal(p, t, c).bal = p.bal
        BY ProposalFields
      <4> QED BY <4>1, <4>2
    <3> QED BY <2>1, <3>1
  <2> DEFINE out == ToAll(n, Accept(n, prop[n].bal, prop[n].free, c))
  <2>4. Send(n, done, out) /\ \A x \in out : x.bal = prop[n].bal
    BY <1>3, <2>2
  <2> HIDE DEF out
  <2> QED BY <2>1, <2>3, <2>4
<1> QED BY <1>2, <1>3 DEF Propose

LEMMA BecomeLeaderBids ==
  ASSUME TypeOK, NEW n \in Node, NEW m, NEW P, BecomeLeader(n, m, P)
  PROVE  /\ prop'[n].bal = m.bal /\ leaderBallot' = [leaderBallot EXCEPT ![n] = m.bal]
         /\ \A k \in Node : k # n => prop'[k] = prop[k]
         /\ \E out : Send(n, {m}, out) /\ \A x \in out : x.bal = m.bal
<1>1. PICK best \in [Slot -> UNION {BestEntries(P, s) : s \in Slot}],
           free \in nextSlot[n]..LastSlot + 1, end \in 0..LastSlot + 1 :
             BecomeLeader(n, m, P)!(best, free, end)
  BY DEF BecomeLeader
<1>2. PICK routed \in Orders(Open(n) \ {best[s].cmd : s \in Planned(n, best)}, free, end) :
        LET plan == Planned(n, best)
            first == [s \in Slot |-> IF s \in plan THEN best[s].cmd
                                     ELSE IF s \in free..end - 1 THEN routed[s] ELSE None]
            used == plan \cup (free..end - 1)
        IN /\ prop' = [prop EXCEPT ![n] =
                         [role |-> "leader", bal |-> m.bal, promises |-> {}, free |-> end,
                          inflight |-> first, acks |-> NoAcks,
                          ids |-> {first[s] : s \in used}]]
           /\ Send(n, {m}, UNION {ToAll(n, Accept(n, m.bal, s, first[s])) : s \in used})
  BY <1>1
<1> DEFINE first == [s \in Slot |-> IF s \in Planned(n, best) THEN best[s].cmd
                                    ELSE IF s \in free..end - 1 THEN routed[s] ELSE None]
           used == Planned(n, best) \cup (free..end - 1)
           out == UNION {ToAll(n, Accept(n, m.bal, s, first[s])) : s \in used}
<1>3. prop'[n].bal = m.bal /\ \A k \in Node : k # n => prop'[k] = prop[k]
  BY <1>2 DEF TypeOK
<1>4. Send(n, {m}, out)
  BY <1>2
<1>5. \A x \in out : x.bal = m.bal
  <2> HIDE DEF first, used
  <2>1. \A s : \A x \in ToAll(n, Accept(n, m.bal, s, first[s])) : x.bal = m.bal
    BY DEF ToAll, Accept
  <2> QED BY <2>1
<1> HIDE DEF out
<1> QED BY <1>1, <1>3, <1>4, <1>5

LEMMA ReceiveOwnBid ==
  ASSUME IInv, OwnBidInv, NEW n \in Node, NEW m \in Message, Handles(n, m), Handle(n, m)
  PROVE  OwnBidInv'
<1>0. TypeOK
  BY DEF IInv
<1>1. CASE OnPrepare(n, m)
  <2>1. /\ prop'[n] = prop[n] \/ prop'[n].role = "follower"
        /\ \A k \in Node : k # n => prop'[k] = prop[k]
    BY <1>0, <1>1 DEF OnPrepare, TypeOK, Follower, Fresh
  <2>2. \E out : Send(n, {m}, out) /\ \A x \in out : x.type \in {"Nack", "Promise"}
    <3>1. Nack(n, m.bal).type = "Nack" /\ Promise(n, m.bal, EntriesFrom(n, m.slot)).type = "Promise"
      BY DEF Nack, Promise
    <3>2. CASE Send(n, {m}, {Nack(n, m.bal)})
      BY <3>1, <3>2
    <3>3. CASE Send(n, {m}, {Promise(n, m.bal, EntriesFrom(n, m.slot))})
      BY <3>1, <3>3
    <3> QED BY <1>1, <3>2, <3>3 DEF OnPrepare
  <2> QED BY <2>1, <2>2, OwnBidStays
<1>2. CASE OnPromise(n, m)
  <2>1. CASE Send(n, {m}, {}) /\ UNCHANGED <<prop, follow>>
    BY <2>1, OwnBidStays
  <2>2. ASSUME NEW P, Send(n, {m}, {}), prop[n].role = "candidate",
               prop' = [prop EXCEPT ![n] = [@ EXCEPT !.promises = P]]
        PROVE  OwnBidInv'
    <3>1. prop[n] \in ActiveProposer
      BY <1>0, <2>2, ProposerType
    <3>2. prop'[n].bal = prop[n].bal /\ \A k \in Node : k # n => prop'[k] = prop[k]
      BY <1>0, <2>2, <3>1 DEF TypeOK, ActiveProposer
    <3> QED BY <2>2, <3>2, OwnBidStays
  <2>3. ASSUME NEW P, BecomeLeader(n, m, P), prop[n].role = "candidate", prop[n].bal = m.bal
        PROVE  OwnBidInv'
    <3>1. /\ prop'[n].bal = m.bal /\ \A k \in Node : k # n => prop'[k] = prop[k]
          /\ \E out : Send(n, {m}, out) /\ \A x \in out : x.bal = m.bal
      BY <1>0, <2>3, BecomeLeaderBids
    <3>2. PICK out : Send(n, {m}, out) /\ \A x \in out : x.bal = m.bal
      BY <3>1
    <3> QED BY <2>3, <3>1, <3>2, OwnBidStays
  <2> QED BY <1>2, <2>1, <2>2, <2>3 DEF OnPromise
<1>3. CASE OnAccept(n, m)
  <2>1. CASE Send(n, {m}, {Nack(n, m.bal)}) /\ UNCHANGED prop
    BY <2>1, OwnBidStays DEF Nack
  <2>2. CASE /\ HeardLeader(n, m.bal, m.from)
             /\ Send(n, {m}, {Accepted(n, m.bal, m.slot)} \cup HandOver(n, m.bal, m.from))
    <3>1. \A x \in {Accepted(n, m.bal, m.slot)} \cup HandOver(n, m.bal, m.from) :
             x.type \in {"Accepted", "Forward"}
      BY DEF Accepted, HandOver, Forward
    <3> QED BY <1>0, <2>2, <3>1, HeardLeaderEnds, OwnBidStays
  <2> QED BY <1>3, <2>1, <2>2 DEF OnAccept
<1>4. CASE OnAccepted(n, m)
  <2>1. CASE Send(n, {m}, {}) /\ UNCHANGED prop
    BY <2>1, OwnBidStays
  <2>2. /\ prop[n].role = "leader" => prop'[n].bal = prop[n].bal
        /\ \A k \in Node : k # n => prop'[k] = prop[k]
        /\ prop' = prop \/ prop[n].role = "leader"
    <3>1. prop[n].role = "leader" => prop[n] \in ActiveProposer
      BY <1>0, ProposerType
    <3>2. CASE prop' = prop
      BY <3>2
    <3>3. ASSUME NEW Q, prop[n].role = "leader",
                 \/ prop' = [prop EXCEPT ![n] = [@ EXCEPT !.acks[m.slot] = Q]]
                 \/ prop' = [prop EXCEPT ![n] = [@ EXCEPT !.inflight[m.slot] = None, !.acks[m.slot] = {}]]
          PROVE  prop'[n].bal = prop[n].bal /\ \A k \in Node : k # n => prop'[k] = prop[k]
      BY <1>0, <3>1, <3>3 DEF TypeOK, ActiveProposer
    <3> QED BY <1>4, <3>2, <3>3 DEF OnAccepted
  <2>3. \E out : Send(n, {m}, out) /\ \A x \in out : x.type = "Commit"
    <3>1. CASE Send(n, {m}, {})
      BY <3>1
    <3>2. ASSUME NEW c, Send(n, {m}, {Commit(n, k, m.slot, c) : k \in Node \ {n}})
          PROVE  \E out : Send(n, {m}, out) /\ \A x \in out : x.type = "Commit"
      BY <3>2 DEF Commit
    <3> QED BY <1>4, <3>1, <3>2 DEF OnAccepted
  <2> QED BY <2>2, <2>3, OwnBidStays
<1>5. CASE OnNack(n, m)
  BY <1>0, <1>5, OwnBidStays DEF OnNack, TypeOK, Follower, Fresh
<1>6. CASE OnCommit(n, m)
  BY <1>6, OwnBidStays DEF OnCommit
<1>7. CASE OnHeartbeat(n, m)
  <2>1. CASE Send(n, {m}, {}) /\ UNCHANGED prop
    BY <2>1, OwnBidStays
  <2> DEFINE out == HandOver(n, m.bal, m.from) \cup
                    {CatchUp(n, m.from, k) : k \in {nextSlot[n]} \cap (0..m.slot - 1)}
  <2>2. CASE HeardLeader(n, m.bal, m.from) /\ Send(n, {m}, out)
    <3>1. \A x \in out : x.type \in {"Forward", "CatchUp"}
      BY DEF HandOver, Forward, CatchUp
    <3> HIDE DEF out
    <3> QED BY <1>0, <2>2, <3>1, HeardLeaderEnds, OwnBidStays
  <2> QED BY <1>7, <2>1, <2>2 DEF OnHeartbeat
<1>8. CASE OnCatchUp(n, m)
  <2>1. \A x \in {Commit(n, m.from, e[1], e[2]) : e \in ChosenFrom(n, m.slot)} : x.type = "Commit"
    BY DEF Commit
  <2> QED BY <1>8, <2>1, OwnBidStays DEF OnCatchUp
<1>9. CASE OnForward(n, m)
  <2>1. CASE Send(n, {m}, {}) /\ UNCHANGED prop
    BY <2>1, OwnBidStays
  <2>2. CASE prop[n].role = "leader" /\ Propose(n, {m}, m.cmd)
    BY <1>0, <2>2, ProposeBids, OwnBidStays
  <2> QED BY <1>9, <2>1, <2>2 DEF OnForward
<1> QED BY <1>1, <1>2, <1>3, <1>4, <1>5, <1>6, <1>7, <1>8, <1>9 DEF Handle

LEMMA OutsideOwnBid ==
  ASSUME IInv, OwnBidInv, NEW n \in Node, Outside(n) \/ Restart(n)
  PROVE  OwnBidInv'
<1>0. TypeOK
  BY DEF IInv
<1>1. CASE Restart(n)
  BY <1>0, <1>1 DEF Restart, TypeOK, OwnBidInv
<1>2. CASE StartCampaign(n)
  <2> DEFINE b == <<maxRound[n] + 1, n>>
             out == ToAll(n, Prepare(n, b, nextSlot[n]))
  <2>1. prop'[n].bal = b /\ \A k \in Node : k # n => prop'[k] = prop[k]
    BY <1>0, <1>2 DEF StartCampaign, TypeOK, Candidate, Fresh
  <2>2. \A x \in out : x.bal = b
    BY DEF ToAll, Prepare
  <2>3. Send(n, {}, out) /\ local[n] = {}
    BY <1>2 DEF StartCampaign, Event
  <2> HIDE DEF b, out
  <2> QED BY <2>1, <2>2, <2>3, OwnBidStays
<1>3. CASE SendHeartbeat(n)
  <2> DEFINE out == {m \in ToAll(n, Heartbeat(n, prop[n].bal, nextSlot[n])) : m.to # n}
  <2>1. \A x \in out : x.to # n
    OBVIOUS
  <2>2. Send(n, {}, out) /\ UNCHANGED prop
    BY <1>3 DEF SendHeartbeat
  <2> HIDE DEF out
  <2> QED BY <2>1, <2>2, OwnBidStays
<1>4. CASE QuorumLost(n)
  BY <1>0, <1>4 DEF QuorumLost, TypeOK, OwnBidInv, Follower, Fresh
<1>5. CASE Retry(n)
  <2>1. PICK peers : Send(n, {}, {CatchUp(n, k, nextSlot[n]) : k \in peers} \cup
                      {Forward(n, leader[n], c) :
                         c \in IF leader[n] \in {0, n} THEN {} ELSE Open(n)})
    BY <1>5 DEF Retry
  <2> DEFINE out == {CatchUp(n, k, nextSlot[n]) : k \in peers} \cup
                    {Forward(n, leader[n], c) : c \in IF leader[n] \in {0, n} THEN {} ELSE Open(n)}
  <2>2. \A x \in out : x.type \in {"CatchUp", "Forward"}
    BY DEF CatchUp, Forward
  <2>3. Send(n, {}, out) /\ UNCHANGED prop
    BY <1>5, <2>1 DEF Retry
  <2> HIDE DEF out
  <2> QED BY <2>2, <2>3, OwnBidStays
<1>6. ASSUME NEW c \in Command, Submit(n, c) PROVE OwnBidInv'
  <2>1. CASE prop[n].role = "leader" /\ Propose(n, {}, c)
    <3>1. PICK out : Send(n, {}, out) /\ \A x \in out : x.bal = prop[n].bal
      BY <1>0, <2>1, ProposeBids
    <3>2. prop'[n].bal = prop[n].bal /\ \A k \in Node : k # n => prop'[k] = prop[k]
      BY <1>0, <2>1, ProposeBids
    <3> QED BY <2>1, <3>1, <3>2, OwnBidStays
  <2> DEFINE out == IF leader[n] \in {0, n} THEN {} ELSE {Forward(n, leader[n], c)}
  <2>2. CASE Send(n, {}, out) /\ UNCHANGED prop
    <3>1. \A x \in out : x.type = "Forward"
      BY DEF Forward
    <3> HIDE DEF out
    <3> QED BY <2>2, <3>1, OwnBidStays
  <2> QED BY <1>6, <2>1, <2>2 DEF Submit
<1>7. ASSUME NEW c \in Command, Abandon(n, c) PROVE OwnBidInv'
  BY <1>7 DEF Abandon, OwnBidInv
<1> QED BY <1>1, <1>2, <1>3, <1>4, <1>5, <1>6, <1>7 DEF Outside

LEMMA NextOwnBid == IInv /\ OwnBidInv /\ [Next]_vars => OwnBidInv'
<1> SUFFICES ASSUME IInv, OwnBidInv, [Next]_vars PROVE OwnBidInv'
  OBVIOUS
<1>1. CASE UNCHANGED vars
  BY <1>1 DEF vars, OwnBidInv
<1>2. ASSUME NEW n \in Node, Receive(n) PROVE OwnBidInv'
  <2>1. PICK m \in Message : Handles(n, m) /\ Handle(n, m)
    BY <1>2 DEF Receive, IInv, TypeOK
  <2> QED BY <2>1, ReceiveOwnBid
<1> QED BY <1>1, <1>2, OutsideOwnBid DEF Next

(* Node n raises what it promised, or whom it follows, to ballot b. *)
RaisedTo(n, b) ==
  \/ promised[n] # b /\ promised'[n] = b
  \/ leaderBallot[n] # b /\ leaderBallot'[n] = b

(* A higher ballot a node handles comes from another node. *)
LEMMA HigherIsOther ==
  ASSUME IInv, OwnBidInv, NEW n \in Node, NEW m \in Message, Handles(n, m),
         m.type \in {"Prepare", "Accept", "Heartbeat"},
         prop[n].role # "follower", prop[n].bal \prec m.bal
  PROVE  Outranked(n, m.bal, m.from)
<1>1. SUFFICES ASSUME m.from = n PROVE FALSE
  BY DEF Outranked
<1>2. m.bal = prop[n].bal /\ m.bal \in Ballot
  BY <1>1, MessageFields DEF Handles, OwnBidInv, Ballot
<1> QED BY <1>2, BallotOrder

LEMMA HandlerGivesUp ==
  ASSUME IInv, OwnBidInv, NEW n \in Node, NEW m \in Message, Handles(n, m), Handle(n, m),
         NEW j \in Node, NEW b \in Ballot, prop[j].role # "follower", prop[j].bal \prec b,
         RaisedTo(j, b)
  PROVE  prop'[j].role = "follower" \/ b \prec leaderBallot[j]
<1>0. TypeOK /\ Follower.role = "follower"
  BY DEF IInv, Follower, Fresh
<1>1. CASE OnPrepare(n, m)
  <2>1. UNCHANGED leaderBallot /\ m.type = "Prepare"
    BY <1>1 DEF OnPrepare, follow
  <2>2. /\ promised' = [promised EXCEPT ![n] = m.bal]
        /\ prop' = [prop EXCEPT ![n] = IF Outranked(n, m.bal, m.from) THEN Follower ELSE @]
    BY <1>1, <2>1 DEF OnPrepare, RaisedTo
  <2>3. j = n /\ b = m.bal
    BY <1>0, <2>1, <2>2 DEF RaisedTo, TypeOK
  <2> QED BY <1>0, <2>1, <2>2, <2>3, HigherIsOther DEF TypeOK
<1>2. CASE OnPromise(n, m)
  <2>1. UNCHANGED promised
    BY <1>2 DEF OnPromise, durable
  <2>2. PICK P : BecomeLeader(n, m, P) /\ prop[n].bal = m.bal
    BY <1>2, <2>1 DEF OnPromise, follow, RaisedTo
  <2>3. j = n /\ b = prop[n].bal
    BY <1>0, <2>1, <2>2, BecomeLeaderBids DEF RaisedTo, TypeOK
  <2> QED BY <2>3, BallotOrder
<1>3. CASE OnAccept(n, m)
  <2>1. /\ promised' = [promised EXCEPT ![n] = m.bal]
        /\ HeardLeader(n, m.bal, m.from) /\ m.type = "Accept"
    BY <1>3 DEF OnAccept, follow, RaisedTo
  <2>2. j = n /\ b = m.bal
    BY <1>0, <2>1 DEF RaisedTo, HeardLeader, TypeOK
  <2>3. Outranked(n, m.bal, m.from)
    BY <2>1, <2>2, HigherIsOther
  <2> QED BY <1>0, <2>1, <2>2, <2>3 DEF HeardLeader, TypeOK
<1>4. CASE OnHeartbeat(n, m)
  <2>1. UNCHANGED promised /\ m.type = "Heartbeat"
    BY <1>4 DEF OnHeartbeat, durable
  <2>2. HeardLeader(n, m.bal, m.from)
    BY <1>4, <2>1 DEF OnHeartbeat, follow, RaisedTo
  <2>3. j = n /\ b = m.bal
    BY <1>0, <2>1, <2>2 DEF RaisedTo, HeardLeader, TypeOK
  <2>4. Outranked(n, m.bal, m.from)
    BY <2>1, <2>3, HigherIsOther
  <2> QED BY <1>0, <2>2, <2>3, <2>4 DEF HeardLeader, TypeOK
<1>5. CASE OnAccepted(n, m) \/ OnNack(n, m) \/ OnCommit(n, m) \/ OnCatchUp(n, m) \/ OnForward(n, m)
  <2>1. UNCHANGED <<promised, leaderBallot>>
    BY <1>5 DEF OnAccepted, OnNack, OnCommit, OnCatchUp, OnForward, durable, follow
  <2> QED BY <2>1 DEF RaisedTo
<1> QED BY <1>1, <1>2, <1>3, <1>4, <1>5 DEF Handle

(***************************************************************************)
(* A candidate or leader that promises or follows a higher ballot gives up *)
(* in that step, unless it follows a higher one yet (_on_prepare,          *)
(* _on_accept, _on_heartbeat, _heard_leader).                              *)
(***************************************************************************)
THEOREM OutrankedHolds == Spec => OutrankedGivesUp
<1>1. Init => OwnBidInv
  BY DEF Init, OwnBidInv
<1>2. ASSUME IInv, OwnBidInv, [Next]_vars, NEW j \in Node, NEW b \in Ballot,
             prop[j].role # "follower", prop[j].bal \prec b, RaisedTo(j, b)
      PROVE  prop'[j].role = "follower" \/ b \prec leaderBallot[j]
  <2>1. PICK n \in Node : Receive(n) \/ Outside(n) \/ Restart(n)
    BY <1>2 DEF vars, Next, RaisedTo
  <2>2. CASE Receive(n)
    <3>1. PICK m \in Message : Handles(n, m) /\ Handle(n, m)
      BY <1>2, <2>2 DEF Receive, IInv, TypeOK
    <3> QED BY <1>2, <3>1, HandlerGivesUp
  <2>3. CASE Outside(n)
    <3>1. UNCHANGED <<promised, leaderBallot>>
      BY <2>3 DEF Outside, StartCampaign, SendHeartbeat, QuorumLost, Retry, Submit, Abandon, durable,
                  follow
    <3> QED BY <1>2, <3>1 DEF RaisedTo
  <2>4. CASE Restart(n)
    <3>1. prop' = [prop EXCEPT ![n] = Follower] /\ UNCHANGED promised
          /\ leaderBallot' = [leaderBallot EXCEPT ![n] = ZERO]
      BY <2>4 DEF Restart, durable
    <3>2. j = n
      BY <1>2, <3>1 DEF RaisedTo, IInv, TypeOK
    <3> QED BY <1>2, <3>1, <3>2 DEF IInv, TypeOK, Follower, Fresh
  <2> QED BY <2>1, <2>2, <2>3, <2>4
<1>3. IInv /\ OwnBidInv /\ [Next]_vars =>
        [\A n \in Node, b \in Ballot :
           /\ prop[n].role # "follower" /\ prop[n].bal \prec b
           /\ \/ promised[n] # b /\ promised'[n] = b
              \/ leaderBallot[n] # b /\ leaderBallot'[n] = b
           => prop'[n].role = "follower" \/ b \prec leaderBallot[n]]_vars
  BY <1>2 DEF RaisedTo
<1> QED BY <1>1, <1>3, NextOwnBid, InvariantHolds, PTL DEF Spec, OutrankedGivesUp

-----------------------------------------------------------------------------
(* Where commands come from *)

LEMMA OriginStays ==
  ASSUME OriginInv, NEW n \in Node, NEW done, NEW out, Send(n, done, out),
         UNCHANGED accepted, submitted \subseteq submitted',
         \A k \in Node : pending'[k] \subseteq pending[k] \cup submitted',
         \A x \in out : /\ x.type \in {"Accept", "Forward"} => x.cmd \in Asked'
                        /\ x.type # "Promise"
  PROVE  OriginInv'
<1>1. msgs' = msgs \cup out
  BY DEF Send
<1>2. Asked \subseteq Asked'
  BY DEF Asked
<1> QED BY <1>1, <1>2 DEF OriginInv

LEMMA ProposeOrigin ==
  ASSUME NEW n, NEW done, NEW c, Propose(n, done, c)
  PROVE  \E out : Send(n, done, out) /\ \A x \in out : x.type = "Accept" /\ x.cmd = c
<1>1. CASE Send(n, done, {})
  BY <1>1
<1> DEFINE out == ToAll(n, Accept(n, prop[n].bal, prop[n].free, c))
<1>2. CASE Send(n, done, out)
  <2>1. \A x \in out : x.type = "Accept" /\ x.cmd = c
    BY DEF ToAll, Accept
  <2> HIDE DEF out
  <2> QED BY <1>2, <2>1
<1> QED BY <1>1, <1>2 DEF Propose

(* A new leader proposes what the promises report, and open commands. *)
LEMMA BecomeLeaderOrigin ==
  ASSUME OriginInv, TypeOK, NEW n \in Node, NEW m, NEW P, P \subseteq msgs,
         \A p \in P : p.type = "Promise", BecomeLeader(n, m, P)
  PROVE  \E out : Send(n, {m}, out) /\ \A x \in out : x.type = "Accept" /\ x.cmd \in Asked
<1>1. PICK best \in [Slot -> UNION {BestEntries(P, s) : s \in Slot}],
           free \in nextSlot[n]..LastSlot + 1, end \in 0..LastSlot + 1 :
             BecomeLeader(n, m, P)!(best, free, end)
  BY DEF BecomeLeader
<1>2. PICK routed \in Orders(Open(n) \ {best[s].cmd : s \in Planned(n, best)}, free, end) :
        LET plan == Planned(n, best)
            first == [s \in Slot |-> IF s \in plan THEN best[s].cmd
                                     ELSE IF s \in free..end - 1 THEN routed[s] ELSE None]
            used == plan \cup (free..end - 1)
        IN Send(n, {m}, UNION {ToAll(n, Accept(n, m.bal, s, first[s])) : s \in used})
  BY <1>1
<1> DEFINE plan == Planned(n, best)
           first == [s \in Slot |-> IF s \in plan THEN best[s].cmd
                                    ELSE IF s \in free..end - 1 THEN routed[s] ELSE None]
           used == plan \cup (free..end - 1)
           out == UNION {ToAll(n, Accept(n, m.bal, s, first[s])) : s \in used}
<1>3. \A s \in plan : s \in Slot /\ best[s].cmd \in Asked
  <2>1. \A s \in Slot : \A e \in BestEntries(P, s) : e.cmd \in Asked
    BY DEF BestEntries, OriginInv
  <2> QED BY <1>1, <2>1 DEF Planned
<1>4. \A s \in free..end - 1 : s \in Slot /\ routed[s] \in Asked
  <2>1. \A s \in free..end - 1 : routed[s] \in Open(n)
    BY <1>2 DEF Orders
  <2>2. Open(n) \subseteq Asked
    BY DEF Open, OriginInv, Asked
  <2>3. nextSlot[n] \in Nat /\ LastSlot \in Nat
    BY BoundAssumption DEF TypeOK, BoundAssumption
  <2>4. free \in Nat /\ end \in Nat /\ end <= LastSlot + 1
    BY <2>3
  <2>5. \A s \in free..end - 1 : s \in Slot
    BY <2>3, <2>4 DEF Slot
  <2> QED BY <2>1, <2>2, <2>5
<1>5. \A s \in used : first[s] \in Asked
  BY <1>3, <1>4
<1>6. Send(n, {m}, out)
  BY <1>2
<1>7. \A x \in out : x.type = "Accept" /\ x.cmd \in Asked
  <2> HIDE DEF first, used
  <2>1. \A s \in used : \A x \in ToAll(n, Accept(n, m.bal, s, first[s])) :
          x.type = "Accept" /\ x.cmd \in Asked
    BY <1>5 DEF ToAll, Accept
  <2> QED BY <2>1
<1> HIDE DEF out
<1> QED BY <1>6, <1>7

LEMMA HandlerOrigin ==
  ASSUME IInv, OriginInv, NEW n \in Node, NEW m \in Message, m \in msgs, Handle(n, m)
  PROVE  OriginInv'
<1>0. TypeOK /\ Open(n) \subseteq submitted
  BY DEF IInv, OriginInv, Open
<1>1. CASE OnPrepare(n, m)
  <2> DEFINE acc == EntriesFrom(n, m.slot)
  <2>1. UNCHANGED <<accepted, pending, submitted>>
    BY <1>1 DEF OnPrepare, env
  <2>2. CASE Send(n, {m}, {Nack(n, m.bal)})
    BY <2>1, <2>2, OriginStays DEF Nack
  <2>3. CASE Send(n, {m}, {Promise(n, m.bal, acc)})
    <3>1. \A s \in Slot : acc[s].cmd \in Asked
      BY DEF EntriesFrom, NoEntry, OriginInv, Asked
    <3> DEFINE p == Promise(n, m.bal, acc)
    <3>2. p.type = "Promise" /\ p.acc = acc
      BY DEF Promise
    <3>3. msgs' = msgs \cup {p} /\ Asked' = Asked
      BY <2>1, <2>3 DEF Send, Asked
    <3> HIDE DEF p, acc
    <3> QED BY <2>1, <3>1, <3>2, <3>3 DEF OriginInv
  <2> QED BY <1>1, <2>2, <2>3 DEF OnPrepare
<1>2. CASE OnPromise(n, m)
  <2> DEFINE P == {p \in prop[n].promises : p.from # m.from} \cup {m}
  <2>1. UNCHANGED <<accepted, pending, submitted>> /\ m.type = "Promise"
    BY <1>2 DEF OnPromise, durable, env
  <2>2. CASE Send(n, {m}, {})
    BY <2>1, <2>2, OriginStays
  <2>3. CASE prop[n].role = "candidate" /\ BecomeLeader(n, m, P)
    <3>1. P \subseteq msgs /\ \A p \in P : p.type = "Promise"
      BY <2>1, <2>3 DEF IInv, ProposerInv, ProposerInvAt, CandidateInv
    <3> HIDE DEF P
    <3>2. PICK out : Send(n, {m}, out) /\ \A x \in out : x.type = "Accept" /\ x.cmd \in Asked
      BY <1>0, <2>3, <3>1, BecomeLeaderOrigin
    <3> QED BY <2>1, <3>2, OriginStays DEF Asked
  <2> QED BY <1>2, <2>2, <2>3 DEF OnPromise
<1>3. CASE OnAccept(n, m)
  <2>1. UNCHANGED <<pending, submitted>> /\ m.type = "Accept"
    BY <1>3 DEF OnAccept, env
  <2>2. CASE Send(n, {m}, {Nack(n, m.bal)}) /\ UNCHANGED accepted
    BY <2>1, <2>2, OriginStays DEF Nack
  <2> DEFINE out == {Accepted(n, m.bal, m.slot)} \cup HandOver(n, m.bal, m.from)
  <2>3. CASE /\ accepted' = [accepted EXCEPT ![n][m.slot] = [bal |-> m.bal, cmd |-> m.cmd]]
             /\ Send(n, {m}, out)
    <3>1. \A x \in out : x.type # "Promise" /\ (x.type \in {"Accept", "Forward"} => x.cmd \in Asked)
      BY <1>0 DEF Accepted, HandOver, Forward, Asked
    <3>2. msgs' = msgs \cup out /\ Asked' = Asked /\ m.cmd \in Asked
      BY <2>1, <2>3 DEF Send, Asked, OriginInv
    <3>3. \A k \in Node, s \in Slot : accepted'[k][s].cmd \in Asked
      BY <1>0, <2>3, <3>2 DEF OriginInv, TypeOK
    <3> HIDE DEF out
    <3> QED BY <2>1, <3>1, <3>2, <3>3 DEF OriginInv
  <2> QED BY <1>3, <2>2, <2>3 DEF OnAccept
<1>4. CASE OnAccepted(n, m)
  <2>1. UNCHANGED <<accepted, pending, submitted>>
    BY <1>4 DEF OnAccepted, env
  <2>2. ASSUME NEW c, Send(n, {m}, {Commit(n, k, m.slot, c) : k \in Node \ {n}})
        PROVE  OriginInv'
    <3>1. \A x \in {Commit(n, k, m.slot, c) : k \in Node \ {n}} : x.type = "Commit"
      BY DEF Commit
    <3> QED BY <2>1, <2>2, <3>1, OriginStays
  <2>3. CASE Send(n, {m}, {})
    BY <2>1, <2>3, OriginStays
  <2> QED BY <1>4, <2>2, <2>3 DEF OnAccepted
<1>5. CASE OnNack(n, m)
  BY <1>5, OriginStays DEF OnNack, durable, env
<1>6. CASE OnCommit(n, m)
  BY <1>6, OriginStays DEF OnCommit, env
<1>7. CASE OnHeartbeat(n, m)
  <2>1. UNCHANGED <<accepted, pending, submitted>>
    BY <1>7 DEF OnHeartbeat, durable, env
  <2>2. CASE Send(n, {m}, {})
    BY <2>1, <2>2, OriginStays
  <2> DEFINE out == HandOver(n, m.bal, m.from) \cup
                    {CatchUp(n, m.from, k) : k \in {nextSlot[n]} \cap (0..m.slot - 1)}
  <2>3. CASE Send(n, {m}, out)
    <3>1. \A x \in out : x.type # "Promise" /\ (x.type \in {"Accept", "Forward"} => x.cmd \in Asked')
      BY <1>0, <2>1 DEF HandOver, Forward, CatchUp, Asked
    <3> HIDE DEF out
    <3> QED BY <2>1, <2>3, <3>1, OriginStays
  <2> QED BY <1>7, <2>2, <2>3 DEF OnHeartbeat
<1>8. CASE OnCatchUp(n, m)
  <2>1. \A x \in {Commit(n, m.from, e[1], e[2]) : e \in ChosenFrom(n, m.slot)} : x.type = "Commit"
    BY DEF Commit
  <2> QED BY <1>8, <2>1, OriginStays DEF OnCatchUp, durable, env
<1>9. CASE OnForward(n, m)
  <2>1. UNCHANGED <<accepted, pending, submitted>> /\ m.type = "Forward"
    BY <1>9 DEF OnForward, durable, env
  <2>2. m.cmd \in Asked'
    BY <2>1 DEF OriginInv, Asked
  <2>3. CASE Send(n, {m}, {})
    BY <2>1, <2>3, OriginStays
  <2>4. CASE Propose(n, {m}, m.cmd)
    BY <2>1, <2>2, <2>4, ProposeOrigin, OriginStays
  <2> QED BY <1>9, <2>3, <2>4 DEF OnForward
<1> QED BY <1>1, <1>2, <1>3, <1>4, <1>5, <1>6, <1>7, <1>8, <1>9 DEF Handle

LEMMA OutsideOrigin ==
  ASSUME IInv, OriginInv, NEW n \in Node, Outside(n) \/ Restart(n)
  PROVE  OriginInv'
<1>0. TypeOK /\ Open(n) \subseteq submitted
  BY DEF IInv, OriginInv, Open
<1>1. CASE Restart(n)
  <2>1. \A k \in Node : pending'[k] \subseteq pending[k]
    BY <1>0, <1>1 DEF Restart, TypeOK
  <2> QED BY <1>1, <2>1 DEF Restart, durable, OriginInv, Asked
<1>2. CASE StartCampaign(n)
  <2>1. \A b, i : \A x \in ToAll(n, Prepare(n, b, i)) : x.type = "Prepare"
    BY DEF ToAll, Prepare
  <2> QED BY <1>2, <2>1, OriginStays DEF StartCampaign, env
<1>3. CASE SendHeartbeat(n)
  <2>1. \A b, i : \A x \in ToAll(n, Heartbeat(n, b, i)) : x.type = "Heartbeat"
    BY DEF ToAll, Heartbeat
  <2> QED BY <1>3, <2>1, OriginStays DEF SendHeartbeat, durable, env
<1>4. CASE QuorumLost(n)
  BY <1>4 DEF QuorumLost, durable, env, OriginInv, Asked
<1>5. CASE Retry(n)
  <2>1. PICK peers : Send(n, {}, {CatchUp(n, k, nextSlot[n]) : k \in peers} \cup
                      {Forward(n, leader[n], c) :
                         c \in IF leader[n] \in {0, n} THEN {} ELSE Open(n)})
    BY <1>5 DEF Retry
  <2> DEFINE out == {CatchUp(n, k, nextSlot[n]) : k \in peers} \cup
                    {Forward(n, leader[n], c) : c \in IF leader[n] \in {0, n} THEN {} ELSE Open(n)}
  <2>2. UNCHANGED <<accepted, pending, submitted>>
    BY <1>5 DEF Retry, durable, env
  <2>3. \A x \in out : x.type # "Promise" /\ (x.type \in {"Accept", "Forward"} => x.cmd \in Asked')
    BY <1>0, <2>2 DEF CatchUp, Forward, Asked
  <2>4. Send(n, {}, out)
    BY <2>1
  <2> HIDE DEF out
  <2> QED BY <2>2, <2>3, <2>4, OriginStays
<1>6. ASSUME NEW c \in Command, Submit(n, c) PROVE OriginInv'
  <2>1. /\ UNCHANGED accepted /\ submitted \subseteq submitted' /\ c \in Asked'
        /\ \A k \in Node : pending'[k] \subseteq pending[k] \cup submitted'
    BY <1>0, <1>6 DEF Submit, TypeOK, Asked
  <2>2. CASE Propose(n, {}, c)
    BY <2>1, <2>2, ProposeOrigin, OriginStays
  <2> DEFINE out == IF leader[n] \in {0, n} THEN {} ELSE {Forward(n, leader[n], c)}
  <2>3. CASE Send(n, {}, out)
    <3>1. \A x \in out : x.type = "Forward" /\ x.cmd = c
      BY DEF Forward
    <3> HIDE DEF out
    <3> QED BY <2>1, <2>3, <3>1, OriginStays
  <2> QED BY <1>6, <2>2, <2>3 DEF Submit
<1>7. ASSUME NEW c \in Command, Abandon(n, c) PROVE OriginInv'
  <2>1. \A k \in Node : pending'[k] \subseteq pending[k]
    BY <1>0, <1>7 DEF Abandon, TypeOK
  <2> QED BY <1>7, <2>1 DEF Abandon, durable, env, OriginInv, Asked
<1> QED BY <1>1, <1>2, <1>3, <1>4, <1>5, <1>6, <1>7 DEF Outside

LEMMA InitOrigin == Init => OriginInv
BY DEF Init, OriginInv, Asked, NoEntry

LEMMA NextOrigin == IInv /\ OriginInv /\ [Next]_vars => OriginInv'
<1> SUFFICES ASSUME IInv, OriginInv, [Next]_vars PROVE OriginInv'
  OBVIOUS
<1>1. CASE UNCHANGED vars
  BY <1>1 DEF vars, OriginInv, Asked
<1>2. ASSUME NEW n \in Node, Receive(n) PROVE OriginInv'
  <2>1. PICK m \in Message : m \in msgs /\ Handle(n, m)
    BY <1>2 DEF Receive, IInv, LocalInv, TypeOK
  <2> QED BY <2>1, HandlerOrigin
<1> QED BY <1>1, <1>2, OutsideOrigin DEF Next

-----------------------------------------------------------------------------
(* The epoch implements the log *)

(* What is decided for a slot is what is chosen there, and nothing else is. *)
DecidedFits ==
  \A s \in Slot :
    /\ \A b \in Ballot, c \in Cmd : ChosenIn(s, b, c) => DecidedOn(s) = c
    /\ DecidedOn(s) # None => \E b \in Ballot : ChosenIn(s, b, DecidedOn(s))

LEMMA DecidedIsChosen == IInv => DecidedFits
<1> SUFFICES ASSUME IInv, NEW s \in Slot
             PROVE  /\ \A b \in Ballot, c \in Cmd : ChosenIn(s, b, c) => DecidedOn(s) = c
                    /\ DecidedOn(s) # None => \E b \in Ballot : ChosenIn(s, b, DecidedOn(s))
  BY DEF DecidedFits
<1> DEFINE accepts == {m \in msgs : m.type = "Accept" /\ m.slot = s}
           winners == {m.cmd : m \in {p \in accepts : ChosenIn(s, p.bal, p.cmd)}}
<1>1. DecidedOn(s) = IF winners = {} THEN None ELSE CHOOSE c \in winners : TRUE
  BY DEF DecidedOn
<1>2. \A d \in winners : \E b \in Ballot : ChosenIn(s, b, d)
  BY MessageFields DEF IInv, TypeOK, Ballot
<1>3. ASSUME NEW b \in Ballot, NEW c \in Cmd, ChosenIn(s, b, c) PROVE winners = {c}
  <2>1. c \in winners
    <3>1. PICK m \in msgs : m.type = "Accept" /\ m.slot = s /\ m.bal = b /\ m.cmd = c
      BY <1>3 DEF ChosenIn, Proposed
    <3> QED BY <1>3, <3>1
  <2>2. \A d \in winners : d = c
    BY <1>2, <1>3, OneChosen
  <2> QED BY <2>1, <2>2
<1> HIDE DEF winners
<1> QED BY <1>1, <1>2, <1>3

LEMMA DecidedIsChosenNext == IInv' => DecidedFits'
BY DecidedIsChosen, PTL

LEMMA QuorumMember ==
  ASSUME NEW Q \in SUBSET Node, IsQuorum(Q)
  PROVE  \E a \in Node : a \in Q
BY QuorumMeet

LEMMA ChosenOnWire ==
  ASSUME msgs \subseteq msgs', NEW s \in Slot, NEW b \in Ballot, NEW c, ChosenIn(s, b, c)
  PROVE  ChosenIn(s, b, c)'
<1> DEFINE Q == {a \in Node : Voted(a, s, b)}
           R == {a \in Node : Voted(a, s, b)'}
<1>1. Q \subseteq R
  BY DEF Voted
<1>2. IsQuorum(R)
  BY <1>1, QuorumGrows DEF ChosenIn
<1> QED BY <1>2 DEF ChosenIn, IsQuorum, Proposed

(* A decision stands. *)
LEMMA DecisionStands ==
  ASSUME IInv, IInv', msgs \subseteq msgs', NEW s \in Slot, DecidedOn(s) # None
  PROVE  DecidedOn(s)' = DecidedOn(s)
<1>1. PICK b \in Ballot : ChosenIn(s, b, DecidedOn(s))
  BY DecidedIsChosen DEF DecidedFits
<1>2. PICK d : d = DecidedOn(s)
  OBVIOUS
<1>3. d \in Cmd
  BY <1>1, <1>2, MessageFields DEF ChosenIn, Proposed, IInv, TypeOK
<1>4. ChosenIn(s, b, d)'
  BY <1>1, <1>2, ChosenOnWire
<1>5. DecidedOn(s)' = d
  BY <1>3, <1>4, DecidedIsChosenNext DEF DecidedFits
<1> QED BY <1>2, <1>5

(* Only votes for slot s can decide it. *)
LEMMA NoVoteNoDecision ==
  ASSUME IInv, IInv', msgs \subseteq msgs', NEW s \in Slot,
         \A x \in msgs' \ msgs : x.type = "Accepted" => x.slot # s
  PROVE  DecidedOn(s)' = DecidedOn(s)
<1>1. CASE DecidedOn(s) # None
  BY <1>1, DecisionStands
<1>2. CASE DecidedOn(s) = None
  <2>1. SUFFICES ASSUME DecidedOn(s)' # None PROVE FALSE
    BY <1>2
  <2>2. PICK d : d = DecidedOn(s)'
    OBVIOUS
  <2>3. PICK b \in Ballot : ChosenIn(s, b, d)'
    BY <2>1, <2>2, DecidedIsChosenNext DEF DecidedFits
  <2>4. {a \in Node : Voted(a, s, b)'} = {a \in Node : Voted(a, s, b)}
    BY DEF Voted
  <2>5. IsQuorum({a \in Node : Voted(a, s, b)})
    BY <2>3, <2>4 DEF ChosenIn, IsQuorum
  <2>6. PICK a \in Node : Voted(a, s, b)
    BY <2>5, QuorumMember
  <2>7. PICK c \in Cmd : Proposed(s, b, c)
    BY <2>6 DEF Voted, IInv, MsgInv, AcceptedInv
  <2>8. ChosenIn(s, b, c)
    BY <2>5, <2>7 DEF ChosenIn
  <2>9. DecidedOn(s) = c
    BY <2>7, <2>8, DecidedIsChosen DEF DecidedFits
  <2> QED BY <1>2, <2>7, <2>9, CommandAssumption DEF CommandAssumption, Cmd
<1> QED BY <1>1, <1>2

Decided == [s \in Slot |-> DecidedOn(s)]

(* While no log is cut, a replica has learned what its log holds. *)
LearnsItsLog == Learned = chosen
LEMMA LogLearned == FreshInv => LearnsItsLog
BY BoundAssumption DEF FreshInv, IInv, TypeOK, Learned, LearnsItsLog, Slot, BoundAssumption

LEMMA LearnedIsLog == FreshInv => Learned = chosen
BY LogLearned DEF LearnsItsLog

LEMMA LearnedIsLogNext == FreshInv' => Learned' = chosen'
<1>1. FreshInv' => LearnsItsLog'
  BY LogLearned, PTL
<1> QED BY <1>1 DEF LearnsItsLog

LEMMA PlainLog ==
  ASSUME FreshInv, FreshInv', PlainStep
  PROVE  Log!Next \/ UNCHANGED <<submitted, Decided, Learned>>
<1>1. \A s \in Slot : DecidedOn(s)' = DecidedOn(s)
  BY NoVoteNoDecision DEF PlainStep, NoVote, FreshInv
<1>2. Decided' = Decided /\ UNCHANGED Learned
  BY <1>1, LearnedIsLog, LearnedIsLogNext DEF Decided, PlainStep, replica
<1> QED BY <1>2 DEF PlainStep, Log!Next, Log!Submit, Decided

LEMMA KnowLog ==
  ASSUME FreshInv, FreshInv', NEW n \in Node, NEW s \in Slot, NEW c \in Cmd, KnowStep(n, s, c)
  PROVE  Log!Next \/ UNCHANGED <<submitted, Decided, Learned>>
<1>1. \A t \in Slot : DecidedOn(t)' = DecidedOn(t)
  BY NoVoteNoDecision DEF KnowStep, NoVote, FreshInv
<1>2. Decided' = Decided /\ UNCHANGED submitted
  BY <1>1 DEF Decided, KnowStep
<1>3. CASE UNCHANGED replica
  BY <1>2, <1>3, LearnedIsLog, LearnedIsLogNext DEF replica
<1>4. CASE chosen' = [chosen EXCEPT ![n][s] = c]
  <2>1. DecidedOn(s) = c /\ c # None
    BY DecidedIsChosen, CommandAssumption DEF DecidedFits, KnowStep, CommandAssumption, Cmd, FreshInv
  <2>2. chosen \in [Node -> [Slot -> Cmd \cup {None}]] /\ DecidedOn(s) = c
    BY <2>1 DEF FreshInv, IInv, TypeOK
  <2>3. chosen' = [chosen EXCEPT ![n] = [t \in Slot |-> IF t \in {s} THEN Decided[t] ELSE chosen[n][t]]]
    BY <1>4, <2>2 DEF Decided
  <2>4. Log!Learn(n, {s})
    BY <1>2, <2>1, <2>3, LearnedIsLog, LearnedIsLogNext DEF Log!Learn, Decided
  <2> QED BY <2>4 DEF Log!Next
<1> QED BY <1>3, <1>4 DEF KnowStep, Learn

LEMMA VoteLog ==
  ASSUME FreshInv, FreshInv', OriginInv, NEW n \in Node, NEW m \in Message, VoteStep(n, m)
  PROVE  Log!Next \/ UNCHANGED <<submitted, Decided, Learned>>
<1>0. IInv /\ IInv'
  BY DEF FreshInv
<1>1. m.slot \in Slot /\ UNCHANGED <<submitted, Learned>> /\ msgs \subseteq msgs'
  BY MessageFields, LearnedIsLog, LearnedIsLogNext DEF VoteStep, replica
<1> DEFINE s == m.slot
<1>2. ASSUME NEW t \in Slot, t # s PROVE DecidedOn(t)' = DecidedOn(t)
  <2>1. Accepted(n, m.bal, m.slot).slot = m.slot
    BY DEF Accepted
  <2> QED BY <1>0, <1>1, <1>2, <2>1, NoVoteNoDecision DEF VoteStep
<1>3. CASE DecidedOn(s)' = DecidedOn(s)
  BY <1>1, <1>2, <1>3 DEF Decided
<1>4. CASE DecidedOn(s)' # DecidedOn(s)
  <2>1. DecidedOn(s) = None
    BY <1>0, <1>1, <1>4, DecisionStands
  <2>2. PICK d : d = DecidedOn(s)'
    OBVIOUS
  <2>3. PICK b \in Ballot : ChosenIn(s, b, d)'
    BY <1>0, <1>1, <1>4, <2>1, <2>2, DecidedIsChosenNext DEF DecidedFits
  <2>4. PICK x \in msgs' : x.type = "Accept" /\ x.cmd = d
    BY <2>3 DEF ChosenIn, Proposed
  <2>5. d \in submitted \cup {NOOP}
    BY <2>4 DEF VoteStep, OriginInv, Asked
  <2>6. Decided' = [Decided EXCEPT ![s] = d]
    BY <1>1, <1>2, <2>2 DEF Decided
  <2>7. Log!Decide(s, d)
    BY <1>1, <2>1, <2>6 DEF Log!Decide, Decided
  <2> QED BY <1>1, <2>5, <2>7 DEF Log!Next
<1> QED BY <1>3, <1>4

LEMMA NextLog ==
  FreshInv /\ FreshInv' /\ OriginInv /\ [Next]_vars => [Log!Next]_<<submitted, Decided, Learned>>
<1> SUFFICES ASSUME FreshInv, FreshInv', OriginInv, [Next]_vars
             PROVE  Log!Next \/ UNCHANGED <<submitted, Decided, Learned>>
  OBVIOUS
<1>1. CASE UNCHANGED vars
  <2>1. PlainStep
    BY <1>1 DEF vars, replica, PlainStep, NoVote
  <2> QED BY <2>1, PlainLog
<1>2. CASE Next
  BY <1>2, StepKinds, PlainLog, KnowLog, VoteLog DEF Next, FreshInv
<1> QED BY <1>1, <1>2

LEMMA InitLog == Init => Log!Init
<1> SUFFICES ASSUME Init PROVE Log!Init
  OBVIOUS
<1>1. \A s \in Slot : DecidedOn(s) = None
  BY DEF Init, DecidedOn
<1>2. Learned = chosen
  BY BoundAssumption DEF Init, Idle, Learned, Slot, BoundAssumption
<1> QED BY <1>1, <1>2 DEF Init, Idle, Log!Init

(***************************************************************************)
(* The epoch implements the log: a slot is decided once, by the acceptance *)
(* that completes a majority, on a command some client submitted or on the *)
(* filler, and a replica only learns what is decided.                      *)
(***************************************************************************)
THEOREM ImplementsLogHolds == Spec => ImplementsLog
<1>1. Init => Log!Init
  BY InitLog
<1>2. FreshInv /\ FreshInv' /\ OriginInv /\ [Next]_vars
        => [Log!Next]_<<submitted, [s \in Slot |-> DecidedOn(s)], Learned>>
  BY NextLog DEF Decided
<1>3. FreshInv => IInv
  BY DEF FreshInv
<1> QED BY <1>1, <1>2, <1>3, InitOrigin, NextOrigin, FreshHolds, PTL DEF Spec, ImplementsLog, Log!Spec
=============================================================================
