------------------------ MODULE PaxosCompactionProofs ------------------------
(***************************************************************************)
(* Proofs about compaction, for any number of nodes, commands, slots and   *)
(* crashes and any snapshot interval.  First: a replica's base and the log *)
(* it keeps rebuild its state at every moment; nothing is assumed of the   *)
(* commits, so it holds also where replicas disagree.  Then: as long as no *)
(* promise leaves out a vote that its sender compacted away, replicas agree *)
(* and hold the same state at the same slot.                               *)
(***************************************************************************)
EXTENDS PaxosCompactionInv, PaxosEpochSafety, TLAPS

Plain(out) == \A m \in out : m.type # "Snapshot"

LEMMA SendsPlain ==
  ASSUME MessagesOK, NEW n \in Node, NEW done, NEW out, Send(n, done, out), Plain(out)
  PROVE  MessagesOK'
<1>1. /\ msgs' = msgs \cup out
      /\ local' = [local EXCEPT ![n] = (@ \ done) \cup {m \in out : m.to = n}]
  BY DEF Send
<1>2. local' \in [Node -> SUBSET msgs']
  BY <1>1 DEF MessagesOK
<1>3. \A m \in msgs' : m.type = "Snapshot" => m.slot \in 0..LastSlot + 1
  BY <1>1 DEF MessagesOK, Plain
<1> QED BY <1>2, <1>3 DEF MessagesOK

(* Messages go to everyone by a copy that changes the receiver only. *)
LEMMA ToAllPlain ==
  ASSUME NEW n, NEW b, NEW s, NEW c
  PROVE  /\ Plain(ToAll(n, Prepare(n, b, s))) /\ Plain(ToAll(n, Accept(n, b, s, c)))
         /\ Plain(ToAll(n, Heartbeat(n, b, s)))
<1>1. \A k : /\ [Prepare(n, b, s) EXCEPT !.to = k].type = "Prepare"
             /\ [Accept(n, b, s, c) EXCEPT !.to = k].type = "Accept"
             /\ [Heartbeat(n, b, s) EXCEPT !.to = k].type = "Heartbeat"
  BY DEF Prepare, Accept, Heartbeat
<1> QED BY <1>1 DEF Plain, ToAll

-----------------------------------------------------------------------------
(* Most steps leave the log and the snapshots of every node alone. *)
LogKept ==
  /\ chosen' = chosen /\ nextSlot' = nextSlot /\ results' = results /\ floor' = floor
  /\ base' = base /\ waiting' = waiting /\ since' = since
Learns(n) ==
  /\ \E s, c : Learn(n, s, c)
  /\ floor' = floor /\ base' = base /\ waiting' = waiting /\ since' = since

LEMMA KeptOK ==
  ASSUME RebuildInv, LogKept, MessagesOK'
  PROVE  RebuildInv'
<1>1. LogTypeOK'
  BY DEF RebuildInv, LogTypeOK, LogKept
<1>2. ASSUME NEW n \in Node PROVE LogAt(n)' /\ WaitingAt(n)'
  BY DEF RebuildInv, LogAt, WaitingAt, Rebuilt, LogKept
<1> QED BY <1>1, <1>2 DEF RebuildInv

LEMMA LearnOK ==
  ASSUME RebuildInv, NEW n \in Node, Learns(n), MessagesOK'
  PROVE  RebuildInv'
<1>1. PICK s, c : Learn(n, s, c)
  BY DEF Learns
<1>2. floor' = floor /\ base' = base /\ waiting' = waiting /\ since' = since
  BY DEF Learns
<1>3. CASE UNCHANGED replica
  BY <1>2, <1>3, KeptOK DEF LogKept, replica
<1>4. CASE ~UNCHANGED replica
  <2>1. /\ chosen[n][s] = None /\ s >= nextSlot[n]
        /\ chosen' = [chosen EXCEPT ![n][s] = c]
    BY <1>1, <1>4 DEF Learn
  <2>2. PICK k \in nextSlot[n]..LastSlot + 1 :
          /\ AppliesUpTo(n, nextSlot[n], k)
          /\ nextSlot' = [nextSlot EXCEPT ![n] = k]
          /\ results' = [results EXCEPT ![n] = @ \cup Applied(n, nextSlot[n], k)]
    BY <1>1, <1>4 DEF Learn
  <2>3. LogTypeOK /\ LogAt(n) /\ WaitingAt(n)
    BY DEF RebuildInv
  <2> DEFINE b == base[n].slot
             next == nextSlot[n]
  <2>4. b \in Nat /\ next \in Nat /\ b <= next /\ k \in Nat /\ next <= k /\ k <= LastSlot + 1
    BY <2>2, <2>3, BoundAssumption DEF LogTypeOK, LogAt
  <2>5. LogTypeOK'
    BY <1>2, <2>1, <2>2, <2>3, <2>4 DEF LogTypeOK
  <2>6. \A t \in b..next - 1 : chosen'[n][t] = chosen[n][t]
    BY <2>1, <2>3, <2>4 DEF LogTypeOK
  <2>7. b..k - 1 = (b..next - 1) \cup (next..k - 1)
    BY <2>4
  <2>8. nextSlot'[n] = k /\ results'[n] = results[n] \cup Applied(n, next, k)
    BY <2>2, <2>3 DEF LogTypeOK
  <2>9. LogAt(n)'
    <3>1. \A t \in b..k - 1 : chosen'[n][t] # None
      BY <2>2, <2>3, <2>6, <2>7 DEF LogAt, AppliesUpTo
    <3>2. k \in Slot => chosen'[n][k] = None
      BY <2>2 DEF AppliesUpTo
    <3>3. results'[n] = Rebuilt(n, k)'
      <4>1. results[n] = base[n].results \cup ({chosen'[n][t] : t \in b..next - 1} \ {NOOP})
        BY <2>3, <2>6 DEF LogAt, Rebuilt
      <4>2. {chosen'[n][t] : t \in b..k - 1}
              = {chosen'[n][t] : t \in b..next - 1} \cup {chosen'[n][t] : t \in next..k - 1}
        BY <2>7
      <4> QED BY <1>2, <2>2, <2>8, <4>1, <4>2 DEF Applied, Rebuilt
    <3> QED BY <1>2, <2>3, <2>4, <2>8, <3>1, <3>2, <3>3 DEF LogAt
  <2>10. WaitingAt(n)'
    <3> DEFINE w == waiting[n].slot
    <3>1. w \in {0} \cup b..k
      BY <2>3, <2>4 DEF WaitingAt
    <3>2. w > 0 => \A t \in b..w - 1 : chosen'[n][t] = chosen[n][t]
      BY <2>3, <2>4, <2>6, <3>1 DEF WaitingAt, LogTypeOK
    <3>3. Rebuilt(n, w)' = Rebuilt(n, w) \/ ~(w > 0)
      BY <1>2, <3>2 DEF Rebuilt
    <3> QED BY <1>2, <2>3, <2>8, <3>1, <3>3 DEF WaitingAt
  <2>11. ASSUME NEW j \in Node, j # n PROVE LogAt(j)' /\ WaitingAt(j)'
    <3>1. /\ chosen'[j] = chosen[j] /\ nextSlot'[j] = nextSlot[j] /\ results'[j] = results[j]
      BY <2>1, <2>2, <2>3, <2>11 DEF LogTypeOK
    <3>2. LogAt(j) /\ WaitingAt(j)
      BY DEF RebuildInv
    <3> QED BY <1>2, <3>1, <3>2 DEF LogAt, WaitingAt, Rebuilt
  <2> QED BY <2>5, <2>9, <2>10, <2>11 DEF RebuildInv
<1> QED BY <1>3, <1>4

LEMMA BecomeLeaderPlain ==
  ASSUME NEW n, NEW m, NEW P, BecomeLeader(n, m, P)
  PROVE  \E out : Send(n, {m}, out) /\ Plain(out)
<1>1. PICK best \in [Slot -> UNION {BestEntries(P, s) : s \in Slot}],
           free \in nextSlot[n]..LastSlot + 1, end \in 0..LastSlot + 1 :
             BecomeLeader(n, m, P)!(best, free, end)
  BY DEF BecomeLeader
<1>2. PICK routed \in Orders(Open(n) \ {best[s].cmd : s \in Planned(n, best)}, free, end) :
        LET plan == Planned(n, best)
            first == [s \in Slot |-> IF s \in plan THEN best[s].cmd
                                     ELSE IF s \in free..end - 1 THEN routed[s] ELSE None]
            used == plan \cup (free..end - 1)
        IN Send(n, {m}, UNION {ToAll(n, Accept(n, m.bal, s, first[s])) : s \in used})
  BY <1>1
<1> DEFINE plan == Planned(n, best)
           first == [s \in Slot |-> IF s \in plan THEN best[s].cmd
                                    ELSE IF s \in free..end - 1 THEN routed[s] ELSE None]
           used == plan \cup (free..end - 1)
           out == UNION {ToAll(n, Accept(n, m.bal, s, first[s])) : s \in used}
<1>3. Send(n, {m}, out)
  BY <1>2
<1> HIDE DEF first, used
<1>4. \A s \in used : Plain(ToAll(n, Accept(n, m.bal, s, first[s])))
  BY ToAllPlain
<1>5. Plain(out)
  BY <1>4 DEF Plain
<1> QED BY <1>3, <1>5

-----------------------------------------------------------------------------
(* The handlers of one message keep the log or learn one command, and send *)
(* no snapshot.                                                            *)
SendsNoSnapshot(n) == \E done, out : Send(n, done, out) /\ Plain(out)

LEMMA HandleShape ==
  ASSUME NEW n \in Node, NEW m, Handle(n, m), UNCHANGED snapVars
  PROVE  (LogKept \/ Learns(n)) /\ SendsNoSnapshot(n)
<1>1. base' = base /\ waiting' = waiting /\ since' = since
  BY DEF snapVars
<1>2. ASSUME NEW done, NEW out, Send(n, done, out), Plain(out), LogKept \/ Learns(n)
      PROVE  (LogKept \/ Learns(n)) /\ SendsNoSnapshot(n)
  BY <1>2 DEF SendsNoSnapshot
<1>3. CASE OnPrepare(n, m)
  <2>1. LogKept
    BY <1>1, <1>3 DEF OnPrepare, LogKept, replica
  <2>2. Plain({Nack(n, m.bal)}) /\ Plain({Promise(n, m.bal, EntriesFrom(n, m.slot))})
    BY DEF Plain, Nack, Promise
  <2>3. Send(n, {m}, {Nack(n, m.bal)}) \/ Send(n, {m}, {Promise(n, m.bal, EntriesFrom(n, m.slot))})
    BY <1>3 DEF OnPrepare
  <2> QED BY <1>2, <2>1, <2>2, <2>3
<1>4. CASE OnPromise(n, m)
  <2>1. LogKept
    BY <1>1, <1>4 DEF OnPromise, LogKept, durable
  <2>2. \E out : Send(n, {m}, out) /\ Plain(out)
    <3>1. CASE Send(n, {m}, {})
      BY <3>1 DEF Plain
    <3>2. CASE \E P : BecomeLeader(n, m, P)
      BY <3>2, BecomeLeaderPlain
    <3> QED BY <1>4, <3>1, <3>2 DEF OnPromise
  <2> QED BY <1>2, <2>1, <2>2
<1>5. CASE OnAccept(n, m)
  <2>1. LogKept
    BY <1>1, <1>5 DEF OnAccept, LogKept, replica
  <2>2. /\ Plain({Nack(n, m.bal)})
        /\ Plain({Accepted(n, m.bal, m.slot)} \cup HandOver(n, m.bal, m.from))
    BY DEF Plain, Nack, Accepted, HandOver, Forward
  <2>3. \/ Send(n, {m}, {Nack(n, m.bal)})
        \/ Send(n, {m}, {Accepted(n, m.bal, m.slot)} \cup HandOver(n, m.bal, m.from))
    BY <1>5 DEF OnAccept
  <2> QED BY <1>2, <2>1, <2>2, <2>3
<1>6. CASE OnAccepted(n, m)
  <2> DEFINE c == prop[n].inflight[m.slot]
  <2>1. LogKept \/ Learns(n)
    BY <1>1, <1>6 DEF OnAccepted, LogKept, Learns, replica
  <2>2. Plain({}) /\ Plain({Commit(n, k, m.slot, c) : k \in Node \ {n}})
    BY DEF Plain, Commit
  <2>3. Send(n, {m}, {}) \/ Send(n, {m}, {Commit(n, k, m.slot, c) : k \in Node \ {n}})
    BY <1>6 DEF OnAccepted
  <2> QED BY <1>2, <2>1, <2>2, <2>3
<1>7. CASE OnNack(n, m)
  <2>1. LogKept /\ Send(n, {m}, {})
    BY <1>1, <1>7 DEF OnNack, LogKept, durable
  <2> QED BY <1>2, <2>1 DEF Plain
<1>8. CASE OnCommit(n, m)
  <2>1. Learns(n) /\ Send(n, {m}, {})
    BY <1>1, <1>8 DEF OnCommit, Learns
  <2> QED BY <1>2, <2>1 DEF Plain
<1>9. CASE OnHeartbeat(n, m)
  <2>1. LogKept
    BY <1>1, <1>9 DEF OnHeartbeat, LogKept, durable
  <2> DEFINE out == HandOver(n, m.bal, m.from) \cup
                      {CatchUp(n, m.from, k) : k \in {nextSlot[n]} \cap (0..m.slot - 1)}
  <2>2. Plain({}) /\ Plain(out)
    BY DEF Plain, HandOver, Forward, CatchUp
  <2>3. Send(n, {m}, {}) \/ Send(n, {m}, out)
    BY <1>9 DEF OnHeartbeat
  <2> HIDE DEF out
  <2> QED BY <1>2, <2>1, <2>2, <2>3
<1>10. CASE OnCatchUp(n, m)
  <2>1. LogKept
    BY <1>1, <1>10 DEF OnCatchUp, LogKept, durable
  <2> DEFINE out == {Commit(n, m.from, e[1], e[2]) : e \in ChosenFrom(n, m.slot)}
  <2>2. Plain(out)
    BY DEF Plain, Commit
  <2>3. Send(n, {m}, out)
    BY <1>10 DEF OnCatchUp
  <2> HIDE DEF out
  <2> QED BY <1>2, <2>1, <2>2, <2>3
<1>11. CASE OnForward(n, m)
  <2>1. LogKept
    BY <1>1, <1>11 DEF OnForward, LogKept, durable
  <2>2. \/ Send(n, {m}, {})
        \/ Send(n, {m}, ToAll(n, Accept(n, prop[n].bal, prop[n].free, m.cmd)))
    BY <1>11 DEF OnForward, Propose
  <2>3. Plain({}) /\ Plain(ToAll(n, Accept(n, prop[n].bal, prop[n].free, m.cmd)))
    BY ToAllPlain DEF Plain
  <2> QED BY <1>2, <2>1, <2>2, <2>3
<1> QED BY <1>3, <1>4, <1>5, <1>6, <1>7, <1>8, <1>9, <1>10, <1>11 DEF Handle

(* The timers and the calls keep the log and send no snapshot. *)
LEMMA OutsideShape ==
  ASSUME NEW n \in Node, Outside(n), UNCHANGED snapVars
  PROVE  LogKept /\ (SendsNoSnapshot(n) \/ UNCHANGED <<msgs, local>>)
<1> DEFINE Goal == LogKept /\ (SendsNoSnapshot(n) \/ UNCHANGED <<msgs, local>>)
<1>1. base' = base /\ waiting' = waiting /\ since' = since
  BY DEF snapVars
<1>2. ASSUME NEW done, NEW out, Send(n, done, out), Plain(out), LogKept
      PROVE  Goal
  BY <1>2 DEF SendsNoSnapshot
<1>3. CASE StartCampaign(n)
  <2> DEFINE b == <<maxRound[n] + 1, n>>
  <2>1. LogKept /\ Send(n, {}, ToAll(n, Prepare(n, b, nextSlot[n])))
    BY <1>1, <1>3 DEF StartCampaign, LogKept, replica
  <2> HIDE DEF b
  <2>2. Plain(ToAll(n, Prepare(n, b, nextSlot[n])))
    BY ToAllPlain
  <2> QED BY <1>2, <2>1, <2>2
<1>4. CASE SendHeartbeat(n)
  <2> DEFINE all == ToAll(n, Heartbeat(n, prop[n].bal, nextSlot[n]))
  <2>1. LogKept /\ Send(n, {}, {m \in all : m.to # n})
    BY <1>1, <1>4 DEF SendHeartbeat, LogKept, durable
  <2>2. Plain(all)
    BY ToAllPlain
  <2>3. Plain({m \in all : m.to # n})
    BY <2>2 DEF Plain
  <2> HIDE DEF all
  <2> QED BY <1>2, <2>1, <2>3
<1>5. CASE QuorumLost(n)
  BY <1>1, <1>5 DEF QuorumLost, LogKept, durable
<1>6. CASE Retry(n)
  <2>1. LogKept
    BY <1>1, <1>6 DEF Retry, LogKept, durable
  <2>2. PICK peers : Send(n, {}, {CatchUp(n, k, nextSlot[n]) : k \in peers} \cup
                      {Forward(n, leader[n], c) :
                         c \in IF leader[n] \in {0, n} THEN {} ELSE Open(n)})
    BY <1>6 DEF Retry
  <2>3. Plain({CatchUp(n, k, nextSlot[n]) : k \in peers} \cup
                      {Forward(n, leader[n], c) :
                         c \in IF leader[n] \in {0, n} THEN {} ELSE Open(n)})
    BY DEF Plain, CatchUp, Forward
  <2> QED BY <1>2, <2>1, <2>2, <2>3
<1>7. ASSUME NEW c \in Command, Submit(n, c) PROVE Goal
  <2>1. LogKept
    BY <1>1, <1>7 DEF Submit, LogKept, replica
  <2> DEFINE sent == ToAll(n, Accept(n, prop[n].bal, prop[n].free, c))
             on == IF leader[n] \in {0, n} THEN {} ELSE {Forward(n, leader[n], c)}
  <2>2. Send(n, {}, {}) \/ Send(n, {}, sent) \/ Send(n, {}, on)
    BY <1>7 DEF Submit, Propose
  <2>3. Plain({}) /\ Plain(sent) /\ Plain(on)
    BY ToAllPlain DEF Plain, Forward
  <2> HIDE DEF sent, on
  <2> QED BY <1>2, <2>1, <2>2, <2>3
<1>8. ASSUME NEW c \in Command, Abandon(n, c) PROVE Goal
  BY <1>1, <1>8 DEF Abandon, LogKept, durable
<1> QED BY <1>3, <1>4, <1>5, <1>6, <1>7, <1>8 DEF Outside

LEMMA HandleOK ==
  ASSUME RebuildInv, NEW n \in Node, NEW m, Handle(n, m), UNCHANGED snapVars
  PROVE  RebuildInv'
<1>1. MessagesOK /\ (LogKept \/ Learns(n)) /\ SendsNoSnapshot(n)
  BY HandleShape DEF RebuildInv
<1>2. MessagesOK'
  BY <1>1, SendsPlain DEF SendsNoSnapshot
<1> QED BY <1>1, <1>2, KeptOK, LearnOK

LEMMA OutsideOK ==
  ASSUME RebuildInv, NEW n \in Node, Outside(n), UNCHANGED snapVars
  PROVE  RebuildInv'
<1>1. MessagesOK /\ LogKept /\ (SendsNoSnapshot(n) \/ UNCHANGED <<msgs, local>>)
  BY OutsideShape DEF RebuildInv
<1>2. MessagesOK'
  BY <1>1, SendsPlain DEF SendsNoSnapshot, MessagesOK
<1> QED BY <1>1, <1>2, KeptOK

-----------------------------------------------------------------------------
(* A log that starts at a snapshot keeps what it knows from there on. *)
LEMMA StartsAt ==
  ASSUME LogTypeOK, NEW n \in Node, NEW snap, snap.slot \in Nat, StartLogAt(n, snap)
  PROVE  /\ base'[n] = snap /\ floor'[n] = snap.slot
         /\ \A t \in Slot : t >= snap.slot => chosen'[n][t] = chosen[n][t]
         /\ DOMAIN chosen' = Node /\ \A j \in Node : DOMAIN chosen'[j] = Slot
         /\ DOMAIN floor' = Node /\ DOMAIN base' = Node
         /\ \A j \in Node \ {n} : base'[j] = base[j] /\ floor'[j] = floor[j] /\ chosen'[j] = chosen[j]
<1>1. base' = [base EXCEPT ![n] = snap] /\ floor' = [floor EXCEPT ![n] = snap.slot]
  BY DEF StartLogAt
<1>2. chosen' = [chosen EXCEPT ![n] = [s \in Slot |-> IF s < snap.slot THEN None ELSE @[s]]]
  BY DEF StartLogAt
<1>3. chosen'[n] = [s \in Slot |-> IF s < snap.slot THEN None ELSE chosen[n][s]]
  BY <1>2 DEF LogTypeOK
<1>4. ASSUME NEW t \in Slot, t >= snap.slot PROVE chosen'[n][t] = chosen[n][t]
  <2>1. ~(t < snap.slot)
    BY <1>4 DEF Slot
  <2> QED BY <1>3, <2>1
<1>5. base'[n] = snap /\ floor'[n] = snap.slot /\ DOMAIN floor' = Node /\ DOMAIN base' = Node
  BY <1>1 DEF LogTypeOK
<1>6. DOMAIN chosen' = Node /\ \A j \in Node : DOMAIN chosen'[j] = Slot
  BY <1>2, <1>3 DEF LogTypeOK
<1>7. \A j \in Node \ {n} : base'[j] = base[j] /\ floor'[j] = floor[j] /\ chosen'[j] = chosen[j]
  BY <1>1, <1>2 DEF LogTypeOK
<1> QED BY <1>4, <1>5, <1>6, <1>7

(* What happens to one node's log leaves the others' alone. *)
LEMMA OthersKept ==
  ASSUME RebuildInv, NEW j \in Node,
         base'[j] = base[j], floor'[j] = floor[j], chosen'[j] = chosen[j],
         nextSlot'[j] = nextSlot[j], results'[j] = results[j], waiting'[j] = waiting[j]
  PROVE  LogAt(j)' /\ WaitingAt(j)'
BY DEF RebuildInv, LogAt, WaitingAt, Rebuilt

-----------------------------------------------------------------------------
LEMMA ServeOK ==
  ASSUME RebuildInv, NEW n \in Node, NEW m, ServeSnapshot(n, m)
  PROVE  RebuildInv'
<1> DEFINE x == [type |-> "Snapshot", from |-> n, to |-> m.from,
                 slot |-> base[n].slot, results |-> base[n].results]
<1>1. LogKept
  BY DEF ServeSnapshot, LogKept, durable, snapVars
<1>2. msgs' = msgs \cup {x} /\ local' = [local EXCEPT ![n] = (@ \ {m}) \cup {y \in {x} : y.to = n}]
  BY DEF ServeSnapshot, Send
<1>3. x.slot \in 0..LastSlot + 1
  BY DEF RebuildInv, LogTypeOK
<1> HIDE DEF x
<1>4. MessagesOK'
  BY <1>2, <1>3 DEF RebuildInv, MessagesOK
<1> QED BY <1>1, <1>4, KeptOK

LEMMA SnapshotOK ==
  ASSUME RebuildInv, NEW n \in Node, NEW m \in msgs, OnSnapshot(n, m)
  PROVE  RebuildInv'
<1>1. LogTypeOK /\ MessagesOK
  BY DEF RebuildInv
<1>2. CASE m.slot <= nextSlot[n]
  <2>0. ~(m.slot > nextSlot[n])
    BY <1>1, <1>2 DEF LogTypeOK, MessagesOK, OnSnapshot
  <2>1. LogKept /\ Send(n, {m}, {})
    BY <2>0 DEF OnSnapshot, LogKept, replica, snapVars
  <2> QED BY <1>1, <2>1, SendsPlain, KeptOK DEF Plain
<1>3. CASE ~(m.slot <= nextSlot[n])
  <2> DEFINE snap == [slot |-> m.slot, results |-> m.results]
             rest(k) == {CatchUp(n, m.from, k)} \cup
                   {Forward(n, leader[n], c) :
                      c \in IF prop[n].role = "leader" \/ leader[n] \in {0, n} THEN {}
                            ELSE pending[n] \ results'[n]}
  <2>1. m.slot \in 0..LastSlot + 1
    BY <1>1 DEF MessagesOK, OnSnapshot
  <2>2. StartLogAt(n, snap) /\ waiting' = [waiting EXCEPT ![n] = NoSnapshot]
    BY <1>3 DEF OnSnapshot
  <2>3. PICK k \in m.slot..LastSlot + 1 :
          /\ AppliesUpTo(n, m.slot, k)
          /\ nextSlot' = [nextSlot EXCEPT ![n] = k]
          /\ since' = [since EXCEPT ![n] = k]
          /\ results' = [results EXCEPT ![n] = m.results \cup Applied(n, m.slot, k)]
          /\ Send(n, {m}, rest(k))
    BY <1>3 DEF OnSnapshot
  <2>4. Plain(rest(k))
    BY DEF Plain, CatchUp, Forward
  <2>5. MessagesOK'
    BY <1>1, <2>3, <2>4, SendsPlain
  <2>6. snap.slot = m.slot /\ snap.results = m.results /\ m.slot \in Nat /\ k \in 0..LastSlot + 1
    BY <2>1, <2>3, BoundAssumption
  <2> HIDE DEF snap, rest
  <2>7. /\ base'[n] = snap /\ floor'[n] = snap.slot
        /\ DOMAIN chosen' = Node /\ \A j \in Node : DOMAIN chosen'[j] = Slot
        /\ DOMAIN floor' = Node /\ DOMAIN base' = Node
        /\ \A j \in Node \ {n} : base'[j] = base[j] /\ floor'[j] = floor[j] /\ chosen'[j] = chosen[j]
    BY <1>1, <2>2, <2>6, StartsAt
  <2>8. /\ nextSlot'[n] = k /\ waiting'[n].slot = 0
        /\ results'[n] = m.results \cup Applied(n, m.slot, k)
    BY <1>1, <2>2, <2>3 DEF LogTypeOK, NoSnapshot
  <2>9. LogTypeOK'
    <3>1. \A j \in Node : base'[j].slot \in 0..LastSlot + 1
      BY <1>1, <2>1, <2>6, <2>7 DEF LogTypeOK
    <3>2. DOMAIN waiting' = Node /\ \A j \in Node : waiting'[j].slot \in 0..LastSlot + 1
      BY <1>1, <2>2, BoundAssumption DEF LogTypeOK, NoSnapshot
    <3>3. nextSlot' \in [Node -> 0..LastSlot + 1] /\ DOMAIN results' = Node /\ DOMAIN since' = Node
      BY <1>1, <2>3, <2>6 DEF LogTypeOK
    <3> QED BY <2>7, <3>1, <3>2, <3>3 DEF LogTypeOK
  <2>10. LogAt(n)'
    <3>1. base'[n].slot = m.slot /\ base'[n].results = m.results /\ floor'[n] = m.slot
      BY <2>6, <2>7
    <3>2. /\ \A t \in m.slot..k - 1 : chosen'[n][t] # None
          /\ k \in Slot => chosen'[n][k] = None
      BY <2>3 DEF AppliesUpTo
    <3>3. results'[n] = Rebuilt(n, k)'
      BY <2>8, <3>1 DEF Rebuilt, Applied
    <3>4. m.slot <= k
      BY <2>1, <2>3, BoundAssumption
    <3> QED BY <2>8, <3>1, <3>2, <3>3, <3>4 DEF LogAt
  <2>11. WaitingAt(n)'
    BY <2>8 DEF WaitingAt
  <2>12. ASSUME NEW j \in Node, j # n PROVE LogAt(j)' /\ WaitingAt(j)'
    <3>1. nextSlot'[j] = nextSlot[j] /\ results'[j] = results[j] /\ waiting'[j] = waiting[j]
      BY <1>1, <2>2, <2>3, <2>12 DEF LogTypeOK
    <3> QED BY <2>7, <2>12, <3>1, OthersKept
  <2> QED BY <2>5, <2>9, <2>10, <2>11, <2>12 DEF RebuildInv
<1> QED BY <1>2, <1>3

LEMMA RotateOK ==
  ASSUME RebuildInv, NEW n \in Node, Rotate(n)
  PROVE  RebuildInv'
<1>1. LogTypeOK /\ LogAt(n) /\ WaitingAt(n)
  BY DEF RebuildInv
<1>2. /\ waiting' = [waiting EXCEPT ![n] = Capture(n)]
      /\ since' = [since EXCEPT ![n] = nextSlot[n]]
      /\ nextSlot' = nextSlot /\ results' = results
  BY DEF Rotate
<1>3. MessagesOK'
  BY DEF Rotate, RebuildInv, MessagesOK
<1>4. waiting'[n].slot = nextSlot[n] /\ waiting'[n].results = results[n]
  BY <1>1, <1>2 DEF LogTypeOK, Capture
<1>5. ASSUME NEW j \in Node, j # n PROVE waiting'[j] = waiting[j]
  BY <1>1, <1>2, <1>5 DEF LogTypeOK
<1>6. DOMAIN waiting' = Node /\ DOMAIN since' = Node /\ \A j \in Node : waiting'[j].slot \in 0..LastSlot + 1
  BY <1>1, <1>2, <1>4, <1>5 DEF LogTypeOK
<1>7. LogAt(n)' => WaitingAt(n)'
  BY <1>1, <1>2, <1>4 DEF LogAt, WaitingAt, LogTypeOK
<1>8. CASE base' = base /\ floor' = floor /\ chosen' = chosen
  <2>1. LogTypeOK' /\ LogAt(n)'
    BY <1>1, <1>2, <1>6, <1>8 DEF LogTypeOK, LogAt, Rebuilt
  <2>2. ASSUME NEW j \in Node, j # n PROVE LogAt(j)' /\ WaitingAt(j)'
    BY <1>2, <1>5, <1>8, <2>2, OthersKept
  <2> QED BY <1>3, <1>7, <2>1, <2>2 DEF RebuildInv
<1>9. CASE waiting[n].slot > 0 /\ StartLogAt(n, waiting[n])
  <2> DEFINE b == base[n].slot
             w == waiting[n].slot
             k == nextSlot[n]
  <2>1. b \in Nat /\ w \in Nat /\ k \in Nat /\ b <= w /\ w <= k /\ k <= LastSlot + 1
    BY <1>1, <1>9, BoundAssumption DEF LogTypeOK, WaitingAt
  <2>2. /\ base'[n] = waiting[n] /\ floor'[n] = w
        /\ \A t \in Slot : t >= w => chosen'[n][t] = chosen[n][t]
        /\ DOMAIN chosen' = Node /\ \A j \in Node : DOMAIN chosen'[j] = Slot
        /\ DOMAIN floor' = Node /\ DOMAIN base' = Node
        /\ \A j \in Node \ {n} : base'[j] = base[j] /\ floor'[j] = floor[j] /\ chosen'[j] = chosen[j]
    BY <1>1, <1>9, <2>1, StartsAt
  <2>3. LogTypeOK'
    BY <1>1, <1>2, <1>6, <2>2 DEF LogTypeOK
  <2>4. \A t \in w..k - 1 : t \in Slot /\ t >= w /\ t \in b..k - 1
    BY <2>1, BoundAssumption DEF Slot
  <2>5. b..k - 1 = (b..w - 1) \cup (w..k - 1)
    BY <2>1
  <2>6. {chosen[n][t] : t \in b..k - 1}
          = {chosen[n][t] : t \in b..w - 1} \cup {chosen[n][t] : t \in w..k - 1}
    BY <2>5
  <2>7. {chosen'[n][t] : t \in w..k - 1} = {chosen[n][t] : t \in w..k - 1}
    BY <2>2, <2>4
  <2>8. waiting[n].results = base[n].results \cup ({chosen[n][t] : t \in b..w - 1} \ {NOOP})
    BY <1>1, <1>9 DEF WaitingAt, Rebuilt
  <2>9. results[n] = base[n].results \cup ({chosen[n][t] : t \in b..k - 1} \ {NOOP})
    BY <1>1 DEF LogAt, Rebuilt
  <2>10. results[n] = waiting[n].results \cup ({chosen'[n][t] : t \in w..k - 1} \ {NOOP})
    BY <2>6, <2>7, <2>8, <2>9
  <2>11. results'[n] = Rebuilt(n, k)'
    BY <1>2, <2>2, <2>10 DEF Rebuilt
  <2>12. \A t \in w..k - 1 : chosen'[n][t] # None
    BY <1>1, <2>2, <2>4 DEF LogAt
  <2>13. k \in Slot => chosen'[n][k] = None
    BY <1>1, <2>1, <2>2 DEF LogAt
  <2>14. LogAt(n)'
    BY <1>2, <2>1, <2>2, <2>11, <2>12, <2>13 DEF LogAt
  <2>15. ASSUME NEW j \in Node, j # n PROVE LogAt(j)' /\ WaitingAt(j)'
    BY <1>2, <1>5, <2>2, <2>15, OthersKept
  <2> QED BY <1>3, <1>7, <2>3, <2>14, <2>15 DEF RebuildInv
<1> QED BY <1>8, <1>9 DEF Rotate

LEMMA RestartOK ==
  ASSUME RebuildInv, NEW n \in Node, RestartFromBase(n)
  PROVE  RebuildInv'
<1>1. LogTypeOK /\ MessagesOK
  BY DEF RebuildInv
<1>2. /\ chosen' = chosen /\ nextSlot' = nextSlot /\ results' = results
      /\ floor' = floor /\ base' = base /\ msgs' = msgs
      /\ local' = [local EXCEPT ![n] = {}]
      /\ waiting' = [waiting EXCEPT ![n] = NoSnapshot]
      /\ since' = [since EXCEPT ![n] = nextSlot[n]]
  BY DEF RestartFromBase, Restart, durable
<1>3. MessagesOK'
  BY <1>1, <1>2 DEF MessagesOK
<1>4. waiting'[n].slot = 0 /\ \A j \in Node \ {n} : waiting'[j] = waiting[j]
  BY <1>1, <1>2 DEF LogTypeOK, NoSnapshot
<1>5. LogTypeOK'
  BY <1>1, <1>2, <1>4, BoundAssumption DEF LogTypeOK
<1>6. LogAt(n)' /\ WaitingAt(n)'
  BY <1>2, <1>4 DEF RebuildInv, LogAt, WaitingAt, Rebuilt
<1>7. ASSUME NEW j \in Node, j # n PROVE LogAt(j)' /\ WaitingAt(j)'
  BY <1>2, <1>4, <1>7, OthersKept
<1> QED BY <1>3, <1>5, <1>6, <1>7 DEF RebuildInv

-----------------------------------------------------------------------------
LEMMA RebuildInit == CInit => RebuildInv
<1> SUFFICES ASSUME CInit PROVE RebuildInv
  OBVIOUS
<1>1. /\ chosen = [n \in Node |-> Idle] /\ nextSlot = [n \in Node |-> 0]
      /\ results = [n \in Node |-> {}] /\ floor = [n \in Node |-> 0]
      /\ local = [n \in Node |-> {}] /\ msgs = {}
      /\ base = [n \in Node |-> NoSnapshot] /\ waiting = [n \in Node |-> NoSnapshot]
      /\ since = [n \in Node |-> 0]
  BY DEF CInit, Init
<1>2. LogTypeOK
  BY <1>1, BoundAssumption DEF LogTypeOK, Idle, NoSnapshot
<1>3. MessagesOK
  BY <1>1 DEF MessagesOK
<1>4. ASSUME NEW n \in Node PROVE LogAt(n) /\ WaitingAt(n)
  <2>1. /\ base[n].slot = 0 /\ base[n].results = {} /\ waiting[n].slot = 0
        /\ nextSlot[n] = 0 /\ results[n] = {} /\ floor[n] = 0
        /\ \A s \in Slot : chosen[n][s] = None
    BY <1>1 DEF Idle, NoSnapshot
  <2>2. 0..0 - 1 = {}
    OBVIOUS
  <2> QED BY <2>1, <2>2 DEF LogAt, WaitingAt, Rebuilt
<1> QED BY <1>2, <1>3, <1>4 DEF RebuildInv

LEMMA RebuildStep ==
  ASSUME RebuildInv, [CNext]_compactionVars
  PROVE  RebuildInv'
<1>1. CASE UNCHANGED compactionVars
  <2>1. LogKept /\ msgs' = msgs /\ local' = local
    BY <1>1 DEF compactionVars, vars, snapVars, LogKept
  <2> QED BY <2>1, KeptOK DEF RebuildInv, MessagesOK
<1>2. CASE CNext
  <2>1. PICK n \in Node :
          \/ (Receive(n) \/ Outside(n)) /\ UNCHANGED snapVars
          \/ \E m \in msgs : Handles(n, m) /\ (ServeSnapshot(n, m) \/ OnSnapshot(n, m))
          \/ Rotate(n)
          \/ RestartFromBase(n)
    BY <1>2 DEF CNext
  <2>2. CASE Receive(n) /\ UNCHANGED snapVars
    BY <2>2, HandleOK DEF Receive
  <2>3. CASE Outside(n) /\ UNCHANGED snapVars
    BY <2>3, OutsideOK
  <2>4. CASE \E m \in msgs : Handles(n, m) /\ (ServeSnapshot(n, m) \/ OnSnapshot(n, m))
    BY <2>4, ServeOK, SnapshotOK
  <2>5. CASE Rotate(n)
    BY <2>5, RotateOK
  <2>6. CASE RestartFromBase(n)
    BY <2>6, RestartOK
  <2> QED BY <2>1, <2>2, <2>3, <2>4, <2>5, <2>6
<1> QED BY <1>1, <1>2

(***************************************************************************)
(* The base, the snapshot that waits to become it, and the log fit         *)
(* together after every step, crashes and installed snapshots included.    *)
(***************************************************************************)
THEOREM RebuildInvariant == CSpec => []RebuildInv
BY RebuildInit, RebuildStep, PTL DEF CSpec

(***************************************************************************)
(* The base and the log kept after it always rebuild the whole state of a  *)
(* replica, so a crash at any point around a compaction loses nothing      *)
(* (Replica.rotate, Replica.install, DurableState.prune).                  *)
(***************************************************************************)
THEOREM BaseAndLogRebuildHolds == CSpec => []BaseAndLogRebuild
<1>1. ASSUME RebuildInv PROVE BaseAndLogRebuild
  BY <1>1 DEF RebuildInv, LogAt, WaitingAt, Rebuilt, BaseAndLogRebuild
<1> QED BY <1>1, RebuildInvariant, PTL

-----------------------------------------------------------------------------
(* PaxosEpoch's invariant through compaction *)

(* What a log that starts at a snapshot keeps of what was known and accepted. *)
LEMMA CutFields ==
  ASSUME TypeOK, NEW n \in Node, NEW snap, snap.slot \in 0..LastSlot + 1, StartLogAt(n, snap)
  PROVE  /\ floor' \in [Node -> 0..LastSlot + 1] /\ floor'[n] = snap.slot
         /\ chosen' \in [Node -> [Slot -> Cmd \cup {None}]]
         /\ accepted' \in [Node -> [Slot -> Entry]]
         /\ \A a \in Node : a # n => /\ floor'[a] = floor[a] /\ chosen'[a] = chosen[a]
                                     /\ accepted'[a] = accepted[a]
         /\ \A s \in Slot : s < snap.slot => chosen'[n][s] = None /\ accepted'[n][s] = NoEntry
         /\ \A s \in Slot : ~(s < snap.slot) =>
              chosen'[n][s] = chosen[n][s] /\ accepted'[n][s] = accepted[n][s]
<1> DEFINE log == [s \in Slot |-> IF s < snap.slot THEN None ELSE chosen[n][s]]
           votes == [s \in Slot |-> IF s < snap.slot THEN NoEntry ELSE accepted[n][s]]
<1>1. /\ floor' = [floor EXCEPT ![n] = snap.slot]
      /\ chosen' = [chosen EXCEPT ![n] = log] /\ accepted' = [accepted EXCEPT ![n] = votes]
  BY DEF StartLogAt, TypeOK
<1>2. log \in [Slot -> Cmd \cup {None}]
  BY DEF TypeOK
<1>3. votes \in [Slot -> Entry]
  BY DEF TypeOK, Entry, NoEntry, Ballot, Cmd
<1>4. \A s \in Slot :
        /\ s < snap.slot => log[s] = None /\ votes[s] = NoEntry
        /\ ~(s < snap.slot) => log[s] = chosen[n][s] /\ votes[s] = accepted[n][s]
  OBVIOUS
<1> HIDE DEF log, votes
<1>5. chosen'[n] = log /\ accepted'[n] = votes /\ floor'[n] = snap.slot
  BY <1>1 DEF TypeOK
<1>6. \A a \in Node :
        a # n => floor'[a] = floor[a] /\ chosen'[a] = chosen[a] /\ accepted'[a] = accepted[a]
  BY <1>1 DEF TypeOK
<1>7. /\ floor' \in [Node -> 0..LastSlot + 1] /\ chosen' \in [Node -> [Slot -> Cmd \cup {None}]]
      /\ accepted' \in [Node -> [Slot -> Entry]]
  BY <1>1, <1>2, <1>3 DEF TypeOK
<1>8. \A s \in Slot :
        /\ s < snap.slot => chosen'[n][s] = None /\ accepted'[n][s] = NoEntry
        /\ ~(s < snap.slot) => chosen'[n][s] = chosen[n][s] /\ accepted'[n][s] = accepted[n][s]
  BY <1>4, <1>5
<1> QED BY <1>5, <1>6, <1>7, <1>8

(* Starting the log at a snapshot keeps the invariant. *)
LEMMA CutSafe ==
  ASSUME IInv, TypeOK', RebuildInv', NEW n \in Node,
         NEW snap, snap.slot \in 0..LastSlot + 1, StartLogAt(n, snap), floor[n] <= snap.slot,
         \A a \in Node : a # n => nextSlot'[a] = nextSlot[a],
         UNCHANGED <<promised, maxRound, prop>>, LocalInv', msgs \subseteq msgs',
         \A m \in msgs' \ msgs : m.type \in {"CatchUp", "Forward", "Snapshot"},
         \A k \in Node : prop[k].role = "candidate" =>
           prop[k].bal \preceq promised[k] \/ local'[k] = local[k]
  PROVE  IInv'
<1>1. TypeOK /\ MsgInv /\ AcceptorInv /\ ReplicaInv
  BY DEF IInv
<1>2. /\ floor'[n] = snap.slot
      /\ \A a \in Node : a # n => /\ floor'[a] = floor[a] /\ chosen'[a] = chosen[a]
                                  /\ accepted'[a] = accepted[a]
      /\ \A s \in Slot : s < snap.slot => chosen'[n][s] = None /\ accepted'[n][s] = NoEntry
      /\ \A s \in Slot : ~(s < snap.slot) =>
           chosen'[n][s] = chosen[n][s] /\ accepted'[n][s] = accepted[n][s]
  BY <1>1, CutFields
<1>3. /\ \A a \in Node : floor[a] \in Int /\ floor'[a] \in Int /\ floor[a] <= floor'[a]
      /\ \A s \in Slot : s \in Int
  <2>1. floor \in [Node -> 0..LastSlot + 1] /\ floor' \in [Node -> 0..LastSlot + 1]
    BY <1>1 DEF TypeOK
  <2>2. \A a \in Node : floor'[a] = IF a = n THEN snap.slot ELSE floor[a]
    BY <1>2
  <2> HIDE DEF TypeOK
  <2> QED BY <2>1, <2>2, BoundAssumption DEF Slot, BoundAssumption
<1>4. ASSUME NEW a \in Node, NEW s \in Slot
      PROVE  /\ s < floor'[a] \/ accepted[a][s].bal \preceq accepted'[a][s].bal
             /\ Known(a, s) => Known(a, s)'
             /\ accepted'[a][s] = accepted[a][s] \/ accepted'[a][s] = NoEntry
             /\ chosen'[a][s] = chosen[a][s] \/ chosen'[a][s] = None
  BY <1>2, <1>3 DEF Known, \preceq
<1>5. Grows
  <2>1. \A a \in Node : promised[a] \preceq promised'[a]
    BY DEF \preceq
  <2> QED BY <1>3, <1>4, <2>1 DEF Grows
<1>6. MsgInv'
  BY <1>5, QuietMessages
<1>7. \A a \in Node : promised[a][1] <= maxRound'[a] /\ maxRound[a] <= maxRound'[a]
  BY <1>1 DEF AcceptorInv, TypeOK
<1>8. AcceptorInv'
  <2>1. ASSUME NEW a \in Node, NEW s \in Slot
        PROVE  (/\ accepted[a][s].bal \preceq promised[a]
                /\ accepted[a][s].bal # ZERO =>
                     VotedFor(a, s, accepted[a][s].bal, accepted[a][s].cmd))'
    <3>1. CASE accepted'[a][s] = NoEntry
      <4>1. ZERO \preceq promised[a]
        BY <1>1, BallotOrder DEF TypeOK, Ballot, \preceq
      <4>2. accepted'[a][s].bal = ZERO /\ promised'[a] = promised[a]
        BY <3>1 DEF NoEntry
      <4> QED BY <4>1, <4>2
    <3>2. CASE accepted'[a][s] = accepted[a][s]
      <4>1. PICK e \in Entry : e = accepted[a][s]
        BY <1>1 DEF TypeOK
      <4>2. e.bal \preceq promised[a] /\ (e.bal # ZERO => VotedFor(a, s, e.bal, e.cmd))
        BY <1>1, <4>1 DEF AcceptorInv
      <4>3. e.bal # ZERO => VotedFor(a, s, e.bal, e.cmd)'
        BY <1>1, <1>5, <4>2, VotesStay DEF Entry
      <4> QED BY <3>2, <4>1, <4>2, <4>3
    <3> QED BY <1>4, <3>1, <3>2
  <2> QED BY <1>7, <2>1 DEF AcceptorInv
<1>9. ReplicaInv'
  <2>1. ASSUME NEW a \in Node PROVE floor'[a] <= nextSlot'[a]
    BY DEF RebuildInv, LogAt
  <2>2. ASSUME NEW a \in Node, NEW s \in Slot, s < nextSlot'[a] PROVE Known(a, s)'
    <3>1. CASE a = n
      <4>1. /\ floor'[n] = base'[n].slot
            /\ \A t \in base'[n].slot..nextSlot'[n] - 1 : chosen'[n][t] # None
        BY DEF RebuildInv, LogAt
      <4>2. nextSlot'[n] \in Int
        BY BoundAssumption DEF TypeOK, BoundAssumption
      <4> QED BY <1>3, <2>2, <3>1, <4>1, <4>2 DEF Known
    <3>2. CASE a # n
      BY <1>1, <1>4, <2>2, <3>2 DEF ReplicaInv
    <3> QED BY <3>1, <3>2
  <2>3. ASSUME NEW a \in Node, NEW s \in Slot, chosen'[a][s] # None
        PROVE  (\E b \in Ballot : ChosenIn(s, b, chosen[a][s]))'
    <3>1. PICK c : c = chosen[a][s] /\ c = chosen'[a][s]
      BY <1>4, <2>3
    <3>2. PICK b \in Ballot : ChosenIn(s, b, c)
      BY <1>1, <2>3, <3>1 DEF ReplicaInv
    <3>3. ChosenIn(s, b, c)'
      BY <1>1, <1>5, <3>2, ChosenStays
    <3> QED BY <3>1, <3>3
  <2> QED BY <2>1, <2>2, <2>3 DEF ReplicaInv
<1>10. ASSUME NEW k \in Node PROVE ProposerInvAt(k)'
  <2>1. \A m \in msgs' \ msgs : m.type # "Accept"
    OBVIOUS
  <2> QED BY <1>5, <1>7, <2>1, ProposerStays
<1> QED BY <1>6, <1>8, <1>9, <1>10 DEF IInv, ProposerInv

LEMMA ServeCut ==
  ASSUME CutInv, NEW n \in Node, NEW m \in msgs, Handles(n, m), ServeSnapshot(n, m)
  PROVE  IInv' /\ SnapTypeOK'
<1> DEFINE x == [type |-> "Snapshot", from |-> n, to |-> m.from,
                 slot |-> base[n].slot, results |-> base[n].results]
<1>1. IInv /\ TypeOK /\ m \in Message /\ m.type = "CatchUp" /\ base[n] \in SnapshotSet
  BY DEF CutInv, IInv, TypeOK, SnapTypeOK, ServeSnapshot
<1>2. x \in Message /\ x.from = n /\ x.type = "Snapshot"
  BY <1>1, MessageFields DEF Message, SnapshotSet
<1>3. /\ Send(n, {m}, {x}) /\ prop' = prop /\ maxRound' = maxRound
      /\ UNCHANGED <<promised, accepted, chosen, nextSlot, floor>>
      /\ UNCHANGED <<results, leader, leaderBallot, pending, submitted, crashes>>
      /\ UNCHANGED snapVars
  BY DEF ServeSnapshot, durable, follow, env
<1> HIDE DEF x
<1>4. TypeOK'
  <2>1. {x} \in SUBSET Message
    BY <1>2
  <2>2. msgs' \in SUBSET Message /\ local' \in [Node -> SUBSET Message]
    BY <1>1, <1>3, <2>1, SendType
  <2> QED BY <1>1, <1>3, <2>2 DEF TypeOK
<1>5. IInv'
  <2>1. \A y \in {x} : /\ y.from = n
                       /\ y.type \notin {"Prepare", "Promise", "Accept", "Accepted"}
                       /\ y.type = "Commit" => CommitInv(y)
    BY <1>2
  <2>2. \A k \in Node : maxRound[k] <= maxRound'[k]
    BY <1>1, <1>3, MaxRoundKept
  <2>3. m.type # "Prepare"
    BY <1>1
  <2> QED BY <1>1, <1>3, <1>4, <2>1, <2>2, <2>3, QuietHandler
<1> QED BY <1>3, <1>5 DEF CutInv, SnapTypeOK, snapVars

(* What the new state of a node is made of has the right type. *)
LEMMA AppliedType ==
  ASSUME TypeOK, chosen' \in [Node -> [Slot -> Cmd \cup {None}]], NEW n \in Node,
         NEW j \in 0..LastSlot + 1, NEW k \in j..LastSlot + 1, AppliesUpTo(n, j, k)
  PROVE  Applied(n, j, k) \subseteq Command
<1>1. \A t \in j..k - 1 : t \in Slot
  BY BoundAssumption DEF Slot, BoundAssumption
<1>2. \A t \in j..k - 1 : chosen'[n][t] \in Cmd
  BY <1>1 DEF AppliesUpTo
<1> QED BY <1>2 DEF Applied, Cmd

LEMMA SnapshotCut ==
  ASSUME CutInv, RebuildInv', NEW n \in Node, NEW m \in msgs, Handles(n, m), OnSnapshot(n, m)
  PROVE  IInv' /\ SnapTypeOK'
<1>1. /\ IInv /\ TypeOK /\ SnapTypeOK /\ m \in Message /\ m.type = "Snapshot" /\ m.from \in Node
      /\ m.slot \in 0..LastSlot + 1 /\ m.results \in SUBSET Command
      /\ UNCHANGED <<promised, maxRound, prop, leader, leaderBallot, pending, submitted, crashes>>
  BY MessageFields DEF CutInv, IInv, TypeOK, OnSnapshot, follow, env
<1>2. CASE Send(n, {m}, {}) /\ UNCHANGED <<replica, accepted, floor, snapVars>>
  <2>1. UNCHANGED <<promised, accepted, chosen, nextSlot, floor>> /\ UNCHANGED results
    BY <1>1, <1>2 DEF replica
  <2>2. TypeOK'
    <3>1. msgs' \in SUBSET Message /\ local' \in [Node -> SUBSET Message]
      BY <1>1, <1>2, SendType
    <3> QED BY <1>1, <2>1, <3>1 DEF TypeOK
  <2>3. IInv'
    <3>1. \A y \in {} : /\ y.from = n
                        /\ y.type \notin {"Prepare", "Promise", "Accept", "Accepted"}
                        /\ y.type = "Commit" => CommitInv(y)
      OBVIOUS
    <3>2. \A k \in Node : maxRound[k] <= maxRound'[k]
      BY <1>1, MaxRoundKept
    <3>3. m.type # "Prepare" /\ prop' = prop
      BY <1>1
    <3> QED BY <1>1, <1>2, <2>1, <2>2, <3>1, <3>2, <3>3, QuietHandler
  <2> QED BY <1>1, <1>2, <2>3 DEF SnapTypeOK, snapVars
<1>3. CASE ~(m.slot <= nextSlot[n])
  <2> DEFINE snap == [slot |-> m.slot, results |-> m.results]
             out(k) == {CatchUp(n, m.from, k)} \cup
                   {Forward(n, leader[n], c) :
                      c \in IF prop[n].role = "leader" \/ leader[n] \in {0, n} THEN {}
                            ELSE pending[n] \ results'[n]}
  <2>1. PICK k \in m.slot..LastSlot + 1 :
          /\ AppliesUpTo(n, m.slot, k)
          /\ nextSlot' = [nextSlot EXCEPT ![n] = k]
          /\ since' = [since EXCEPT ![n] = k]
          /\ results' = [results EXCEPT ![n] = m.results \cup Applied(n, m.slot, k)]
          /\ Send(n, {m}, out(k))
    BY <1>3 DEF OnSnapshot
  <2>2. /\ StartLogAt(n, snap) /\ base' = [base EXCEPT ![n] = snap]
        /\ waiting' = [waiting EXCEPT ![n] = NoSnapshot]
    BY <1>3 DEF OnSnapshot, StartLogAt
  <2>3. k \in 0..LastSlot + 1 /\ floor[n] <= m.slot
    <3>1. floor[n] <= nextSlot[n] /\ floor[n] \in Int /\ nextSlot[n] \in Int
      BY <1>1, BoundAssumption DEF IInv, ReplicaInv, TypeOK, BoundAssumption
    <3> QED BY <1>1, <1>3, <2>1, <3>1, BoundAssumption DEF BoundAssumption
  <2>4. out(k) \subseteq Message /\ \A x \in out(k) : x.from = n /\ x.type \in {"CatchUp", "Forward"}
    <3>1. CatchUp(n, m.from, k) \in Message
      BY <1>1, <2>3, MessageTypes
    <3>2. ASSUME leader[n] \notin {0, n}
          PROVE  \A c \in pending[n] : Forward(n, leader[n], c) \in Message
      BY <1>1, <3>2 DEF TypeOK, Message, Forward
    <3> QED BY <3>1, <3>2 DEF CatchUp, Forward
  <2>5. snap.slot = m.slot /\ StartLogAt(n, snap) /\ snap \in SnapshotSet
    BY <1>1, <2>2 DEF SnapshotSet
  <2> HIDE DEF snap, out
  <2>6. /\ floor' \in [Node -> 0..LastSlot + 1]
        /\ chosen' \in [Node -> [Slot -> Cmd \cup {None}]]
        /\ accepted' \in [Node -> [Slot -> Entry]]
    BY <1>1, <2>5, CutFields
  <2>7. msgs' \in SUBSET Message /\ local' \in [Node -> SUBSET Message]
    BY <1>1, <2>1, <2>4, SendType
  <2>8. results' \in [Node -> SUBSET Command]
    <3>1. Applied(n, m.slot, k) \subseteq Command
      BY <1>1, <2>1, <2>6, AppliedType
    <3> QED BY <1>1, <2>1, <3>1 DEF TypeOK
  <2>9. TypeOK'
    BY <1>1, <2>1, <2>3, <2>6, <2>7, <2>8 DEF TypeOK
  <2>10. SnapTypeOK'
    BY <1>1, <2>1, <2>2, <2>3, <2>5, BoundAssumption
       DEF SnapTypeOK, SnapshotSet, NoSnapshot, BoundAssumption
  <2>11. IInv'
    <3>1. \A x \in out(k) : x.from = n /\ x.type # "Prepare"
      BY <2>4
    <3>2. LocalInv' /\ \A j \in Node : j # n => local'[j] = local[j]
      BY <1>1, <2>1, <3>1, LocalStep
    <3>3. prop[n].role = "candidate" => prop[n].bal \preceq promised[n]
      BY <1>1, CandidateReady
    <3>4. msgs \subseteq msgs' /\ \A x \in msgs' \ msgs : x.type \in {"CatchUp", "Forward", "Snapshot"}
      BY <2>1, <2>4 DEF Send
    <3>5. \A a \in Node : a # n => nextSlot'[a] = nextSlot[a]
      BY <1>1, <2>1 DEF TypeOK
    <3> QED BY <1>1, <2>3, <2>5, <2>9, <3>2, <3>3, <3>4, <3>5, CutSafe
  <2> QED BY <2>10, <2>11
<1>4. m.slot \in Int /\ nextSlot[n] \in Int
  BY <1>1, BoundAssumption DEF TypeOK, BoundAssumption
<1> QED BY <1>2, <1>3, <1>4 DEF OnSnapshot

LEMMA RotateCut ==
  ASSUME CutInv, RebuildInv', NEW n \in Node, Rotate(n)
  PROVE  IInv' /\ SnapTypeOK'
<1>1. /\ IInv /\ TypeOK /\ SnapTypeOK /\ local[n] = {}
      /\ UNCHANGED <<promised, nextSlot, results, maxRound, prop, leader, leaderBallot, pending>>
      /\ UNCHANGED <<local, msgs, submitted, crashes>>
      /\ waiting' = [waiting EXCEPT ![n] = Capture(n)]
      /\ since' = [since EXCEPT ![n] = nextSlot[n]]
  BY DEF CutInv, IInv, Rotate, Event, follow, env
<1>2. Capture(n) \in SnapshotSet
  BY <1>1 DEF Capture, SnapshotSet, TypeOK
<1>3. base' \in [Node -> SnapshotSet] => SnapTypeOK'
  BY <1>1, <1>2 DEF SnapTypeOK, TypeOK
<1>4. CASE UNCHANGED <<base, floor, chosen, accepted>>
  <2>1. UNCHANGED vars
    BY <1>1, <1>4 DEF vars
  <2> QED BY <1>1, <1>3, <1>4, <2>1, StutterSafe DEF SnapTypeOK
<1>5. CASE waiting[n].slot > 0 /\ StartLogAt(n, waiting[n])
  <2>1. PICK snap \in SnapshotSet : snap = waiting[n]
    BY <1>1 DEF SnapTypeOK
  <2>2. snap.slot \in 0..LastSlot + 1 /\ base' = [base EXCEPT ![n] = snap]
    BY <1>5, <2>1 DEF SnapshotSet, StartLogAt
  <2>3. floor[n] <= snap.slot
    <3>1. waiting[n].slot \in base[n].slot..nextSlot[n] /\ floor[n] = base[n].slot
      BY <1>1, <1>5, <2>1, <2>2, BoundAssumption DEF CutInv, RebuildInv, WaitingAt, LogAt
    <3> QED BY <2>1, <3>1
  <2>4. TypeOK'
    BY <1>1, <1>5, <2>1, <2>2, CutFields DEF TypeOK
  <2>5. SnapTypeOK'
    BY <1>1, <1>3, <2>2 DEF SnapTypeOK
  <2>6. LocalInv'
    BY <1>1 DEF IInv, LocalInv
  <2>7. IInv'
    BY <1>1, <1>5, <2>1, <2>2, <2>3, <2>4, <2>6, CutSafe
  <2> QED BY <2>5, <2>7
<1> QED BY <1>4, <1>5 DEF Rotate

LEMMA RestartCut ==
  ASSUME CutInv, NEW n \in Node, RestartFromBase(n)
  PROVE  IInv' /\ SnapTypeOK'
<1>1. IInv /\ TypeOK /\ SnapTypeOK /\ Restart(n)
  BY DEF CutInv, IInv, RestartFromBase
<1>2. TypeOK'
  BY <1>1, RestartType
<1>3. SnapTypeOK'
  BY <1>1, BoundAssumption
     DEF RestartFromBase, SnapTypeOK, SnapshotSet, NoSnapshot, TypeOK, BoundAssumption
<1> QED BY <1>1, <1>2, <1>3, RestartSafe

LEMMA CutInit == CInit => CutInv
<1>1. CInit => IInv
  BY InitSafe DEF CInit
<1>2. CInit => SnapTypeOK
  BY BoundAssumption DEF CInit, SnapTypeOK, SnapshotSet, NoSnapshot, BoundAssumption
<1> QED BY <1>1, <1>2, RebuildInit DEF CutInv

(* A node that handles a campaign without leaving out a vote was candid. *)
LEMMA AnswerIsCandid ==
  ASSUME IInv, ~ForgottenVote', NEW n \in Node, NEW m \in local[n] \cup msgs,
         Handles(n, m), Handle(n, m)
  PROVE  Candid(n, m)
<1>1. TypeOK /\ m \in msgs /\ m \in Message
  BY DEF IInv, LocalInv, TypeOK
<1>2. SUFFICES ASSUME m.type = "Prepare", ~(m.bal \prec promised[n]),
                      NEW s \in Slot, m.slot <= s, s < floor[n],
                      NEW d \in Ballot, accepted[n][s].bal \prec d, d \prec m.bal, Voted(n, s, d)
               PROVE  FALSE
  BY DEF Candid, VotedBetween
<1>3. OnPrepare(n, m)
  BY <1>2 DEF Handle, OnPromise, OnAccept, OnAccepted, OnNack, OnCommit, OnHeartbeat, OnCatchUp,
              OnForward
<1> DEFINE p == Promise(n, m.bal, EntriesFrom(n, m.slot))
<1>4. msgs' = msgs \cup {p} /\ floor' = floor
  BY <1>2, <1>3 DEF OnPrepare, Send
<1>5. p.type = "Promise" /\ p.from = n /\ p.bal = m.bal /\ p.acc[s] = accepted[n][s]
  BY <1>2 DEF Promise, EntriesFrom
<1>6. m.to = n
  BY <1>1 DEF Handles, IInv, LocalInv
<1>7. Voted(n, s, d)'
  BY <1>2, <1>4 DEF Voted
<1> HIDE DEF p
<1> QED BY <1>1, <1>2, <1>4, <1>5, <1>6, <1>7 DEF ForgottenVote, VotedBetween

LEMMA CutStep ==
  ASSUME CutInv, [CNext]_compactionVars, ~ForgottenVote'
  PROVE  CutInv'
<1>1. IInv /\ TypeOK /\ SnapTypeOK /\ RebuildInv
  BY DEF CutInv, IInv
<1>2. RebuildInv'
  BY <1>1, RebuildStep
<1>3. ASSUME UNCHANGED snapVars PROVE SnapTypeOK'
  BY <1>1, <1>3 DEF SnapTypeOK, snapVars
<1>4. CASE UNCHANGED compactionVars
  BY <1>1, <1>2, <1>3, <1>4, StutterSafe DEF CutInv, compactionVars
<1>5. ASSUME NEW n \in Node, Receive(n), UNCHANGED snapVars PROVE CutInv'
  <2>1. PICK m \in local[n] \cup msgs : Handles(n, m) /\ Handle(n, m)
    BY <1>5 DEF Receive
  <2>3. Candid(n, m)
    BY <1>1, <2>1, AnswerIsCandid
  <2>2. TypeOK'
    BY <1>1, <2>1, NextType DEF Next, Receive
  <2> QED BY <1>1, <1>2, <1>3, <1>5, <2>1, <2>2, <2>3, HandleSafe DEF CutInv
<1>6. ASSUME NEW n \in Node, Outside(n), UNCHANGED snapVars PROVE CutInv'
  <2>1. TypeOK'
    BY <1>1, <1>6, NextType DEF Next
  <2> QED BY <1>1, <1>2, <1>3, <1>6, <2>1, OutsideSafe DEF CutInv
<1>7. ASSUME NEW n \in Node, NEW m \in msgs, Handles(n, m), ServeSnapshot(n, m) \/ OnSnapshot(n, m)
      PROVE  CutInv'
  BY <1>2, <1>7, ServeCut, SnapshotCut DEF CutInv
<1>8. ASSUME NEW n \in Node, Rotate(n) \/ RestartFromBase(n) PROVE CutInv'
  BY <1>2, <1>8, RotateCut, RestartCut DEF CutInv
<1> QED BY <1>4, <1>5, <1>6, <1>7, <1>8 DEF CNext

-----------------------------------------------------------------------------
(* What is decided stays decided, and a slot is decided once. *)

LEMMA DecisionsStay ==
  ASSUME msgs \subseteq msgs', NEW s, NEW b, NEW c, ChosenIn(s, b, c)
  PROVE  ChosenIn(s, b, c)'
<1> DEFINE Q == {a \in Node : Voted(a, s, b)}
           R == {a \in Node : Voted(a, s, b)'}
<1>1. Q \subseteq R
  BY DEF Voted
<1>2. IsQuorum(R)
  BY <1>1, QuorumGrows DEF ChosenIn
<1>3. Proposed(s, b, c)'
  BY DEF ChosenIn, Proposed
<1> QED BY <1>2, <1>3 DEF ChosenIn, IsQuorum

OneDecision ==
  \A s \in Slot, b, e \in Ballot, c, d \in Cmd : ChosenIn(s, b, c) /\ ChosenIn(s, e, d) => c = d

LEMMA OneDecisionHolds == IInv => OneDecision
BY OneChosen DEF OneDecision

LEMMA OneDecisionNext == IInv' => OneDecision'
BY OneDecisionHolds, PTL

LEMMA StateStays ==
  ASSUME IInv', msgs \subseteq msgs', NEW k, NEW R, StateAt(k, R)
  PROVE  StateAt(k, R)'
<1>1. OneDecision'
  BY OneDecisionNext
<1>2. ASSUME NEW s \in Slot, s < k
      PROVE  \E b \in Ballot, c \in Cmd : ChosenIn(s, b, c) /\ ChosenIn(s, b, c)'
  BY <1>2, DecisionsStay DEF StateAt
<1>3. ASSUME NEW c \in R
      PROVE  c \in Cmd /\ c # NOOP /\ \E s \in Slot, b \in Ballot : s < k /\ ChosenIn(s, b, c)'
  BY <1>3, DecisionsStay DEF StateAt, DecidedBelow
<1>4. ASSUME NEW c \in Cmd, c # NOOP, NEW s \in Slot, NEW b \in Ballot, s < k, ChosenIn(s, b, c)'
      PROVE  c \in R
  <2>1. PICK e \in Ballot, d \in Cmd : ChosenIn(s, e, d) /\ ChosenIn(s, e, d)'
    BY <1>2, <1>4
  <2>2. c = d
    BY <1>1, <1>4, <2>1 DEF OneDecision
  <2> QED BY <1>4, <2>1, <2>2 DEF StateAt, DecidedBelow
<1> QED BY <1>2, <1>3, <1>4 DEF StateAt, DecidedBelow

(* Applying slots that are decided leads from one state to the next. *)
LEMMA StateExtends ==
  ASSUME IInv', NEW n \in Node, NEW j \in 0..LastSlot + 1, NEW k \in j..LastSlot + 1, NEW R, NEW Q,
         StateAt(j, R)', AppliesUpTo(n, j, k), Q = Applied(n, j, k)
  PROVE  StateAt(k, R \cup Q)'
<1>1. OneDecision' /\ TypeOK' /\ ReplicaInv'
  BY OneDecisionNext DEF IInv
<1>2. j \in Int /\ k \in Int /\ j <= k /\ \A s \in Slot : s \in Int
  BY BoundAssumption DEF Slot, BoundAssumption
<1>3. ASSUME NEW s \in Slot, s < k, ~(s < j)
      PROVE  \E b \in Ballot, c \in Cmd : ChosenIn(s, b, c)' /\ c = chosen'[n][s] /\ s \in j..k - 1
  <2>1. s \in j..k - 1
    BY <1>2, <1>3
  <2>2. PICK c \in Cmd : c = chosen'[n][s]
    BY <1>1, <2>1 DEF AppliesUpTo, TypeOK
  <2>3. PICK b \in Ballot : ChosenIn(s, b, c)'
    BY <1>1, <2>1, <2>2 DEF ReplicaInv, AppliesUpTo
  <2> QED BY <2>1, <2>2, <2>3
<1>4. ASSUME NEW s \in Slot, s < k PROVE \E b \in Ballot, c \in Cmd : ChosenIn(s, b, c)'
  BY <1>3, <1>4 DEF StateAt
<1>5. ASSUME NEW c \in R \cup Q
      PROVE  c \in Cmd /\ c # NOOP /\ \E s \in Slot, b \in Ballot : s < k /\ ChosenIn(s, b, c)'
  <2>1. CASE c \in R
    BY <1>2, <2>1 DEF StateAt, DecidedBelow
  <2>2. CASE c \in Q
    <3>1. PICK t \in j..k - 1 : c = chosen'[n][t] /\ c # NOOP
      BY <2>2 DEF Applied
    <3>2. t \in Slot /\ t < k /\ ~(t < j)
      BY <1>2, BoundAssumption DEF Slot, BoundAssumption
    <3> QED BY <1>3, <3>1, <3>2
  <2> QED BY <1>5, <2>1, <2>2
<1>6. ASSUME NEW c \in Cmd, c # NOOP, NEW s \in Slot, NEW b \in Ballot, s < k, ChosenIn(s, b, c)'
      PROVE  c \in R \cup Q
  <2>1. CASE s < j
    BY <1>6, <2>1 DEF StateAt, DecidedBelow
  <2>2. CASE ~(s < j)
    <3>1. PICK e \in Ballot, d \in Cmd : ChosenIn(s, e, d)' /\ d = chosen'[n][s] /\ s \in j..k - 1
      BY <1>3, <1>6, <2>2
    <3>2. c = d
      BY <1>1, <1>6, <3>1 DEF OneDecision
    <3> QED BY <1>6, <3>1, <3>2 DEF Applied
  <2> QED BY <2>1, <2>2
<1> QED BY <1>4, <1>5, <1>6 DEF StateAt, DecidedBelow

(* Every state held somewhere stays right if what is new is. *)
LEMMA StatesBy ==
  ASSUME StatesInv, IInv', msgs \subseteq msgs',
         \A j \in Node :
           \/ nextSlot'[j] = nextSlot[j] /\ results'[j] = results[j]
           \/ StateAt(nextSlot[j], results[j])',
         \A j \in Node : base'[j] = base[j] \/ StateAt(base[j].slot, base[j].results)',
         \A j \in Node : waiting'[j] = waiting[j] \/ StateAt(waiting[j].slot, waiting[j].results)',
         \A m \in msgs' \ msgs : m.type = "Snapshot" => StateAt(m.slot, m.results)'
  PROVE  StatesInv'
<1>1. ASSUME NEW j \in Node PROVE StateAt(nextSlot[j], results[j])'
  <2>1. StateAt(nextSlot[j], results[j])
    BY DEF StatesInv
  <2>2. PICK k, R : k = nextSlot[j] /\ R = results[j]
    OBVIOUS
  <2>3. StateAt(k, R)'
    BY <2>1, <2>2, StateStays
  <2> QED BY <2>2, <2>3
<1>2. ASSUME NEW j \in Node PROVE StateAt(base[j].slot, base[j].results)'
  <2>1. PICK snap : snap = base[j] /\ StateAt(snap.slot, snap.results)
    BY DEF StatesInv
  <2>2. StateAt(snap.slot, snap.results)'
    BY <2>1, StateStays
  <2> QED BY <2>1, <2>2
<1>3. ASSUME NEW j \in Node PROVE StateAt(waiting[j].slot, waiting[j].results)'
  <2>1. PICK snap : snap = waiting[j] /\ StateAt(snap.slot, snap.results)
    BY DEF StatesInv
  <2>2. StateAt(snap.slot, snap.results)'
    BY <2>1, StateStays
  <2> QED BY <2>1, <2>2
<1>4. ASSUME NEW m \in msgs', m.type = "Snapshot" PROVE StateAt(m.slot, m.results)'
  BY <1>4, StateStays DEF StatesInv
<1> QED BY <1>1, <1>2, <1>3, <1>4 DEF StatesInv

LEMMA StateZero == StateAt(0, {})
<1>1. \A s \in Slot : ~(s < 0)
  BY BoundAssumption DEF Slot
<1> QED BY <1>1 DEF StateAt, DecidedBelow

LEMMA NoSnapshotState == StateAt(NoSnapshot.slot, NoSnapshot.results)
BY StateZero DEF NoSnapshot

LEMMA StatesInit == CInit => StatesInv
<1> SUFFICES ASSUME CInit PROVE StatesInv
  OBVIOUS
<1>1. /\ nextSlot = [n \in Node |-> 0] /\ results = [n \in Node |-> {}] /\ msgs = {}
      /\ base = [n \in Node |-> NoSnapshot] /\ waiting = [n \in Node |-> NoSnapshot]
  BY DEF CInit, Init
<1>2. ASSUME NEW n \in Node
      PROVE  /\ nextSlot[n] = 0 /\ results[n] = {}
             /\ base[n] = NoSnapshot /\ waiting[n] = NoSnapshot
  BY <1>1
<1> QED BY <1>1, <1>2, StateZero, NoSnapshotState DEF StatesInv

(* A handler or a timer: at most one node learns a command. *)
LEMMA LearnStates ==
  ASSUME CompactionInv, IInv', NEW n \in Node, LogKept \/ Learns(n),
         SendsNoSnapshot(n) \/ UNCHANGED <<msgs, local>>
  PROVE  StatesInv'
<1>1. IInv /\ TypeOK /\ StatesInv
  BY DEF CompactionInv, CutInv, IInv
<1>2. msgs \subseteq msgs' /\ \A m \in msgs' \ msgs : m.type # "Snapshot"
  BY DEF SendsNoSnapshot, Send, Plain
<1>3. base' = base /\ waiting' = waiting
  BY DEF LogKept, Learns
<1>4. CASE UNCHANGED replica
  BY <1>1, <1>2, <1>3, <1>4, StatesBy DEF replica
<1>5. CASE ~UNCHANGED replica
  <2>1. PICK s, c : Learn(n, s, c)
    BY <1>5 DEF Learns, LogKept, replica
  <2>2. PICK k \in nextSlot[n]..LastSlot + 1 :
          /\ AppliesUpTo(n, nextSlot[n], k)
          /\ nextSlot' = [nextSlot EXCEPT ![n] = k]
          /\ results' = [results EXCEPT ![n] = @ \cup Applied(n, nextSlot[n], k)]
    BY <1>5, <2>1 DEF Learn
  <2>3. PICK j \in 0..LastSlot + 1, R \in {results[n]}, Q \in {Applied(n, nextSlot[n], k)} :
          j = nextSlot[n] /\ R = results[n] /\ Q = Applied(n, j, k)
    BY <1>1 DEF TypeOK
  <2>4. StateAt(j, R)'
    BY <1>1, <1>2, <2>3, StateStays DEF StatesInv
  <2>5. StateAt(k, R \cup Q)'
    BY <2>2, <2>3, <2>4, StateExtends
  <2>6. nextSlot'[n] = k /\ results'[n] = R \cup Q
    BY <1>1, <2>2, <2>3 DEF TypeOK
  <2>7. \A a \in Node : a # n => nextSlot'[a] = nextSlot[a] /\ results'[a] = results[a]
    BY <1>1, <2>2 DEF TypeOK
  <2>8. StateAt(nextSlot[n], results[n])'
    BY <2>5, <2>6
  <2> QED BY <1>1, <1>2, <1>3, <2>7, <2>8, StatesBy
<1> QED BY <1>4, <1>5

LEMMA ServeStates ==
  ASSUME CompactionInv, IInv', NEW n \in Node, NEW m, ServeSnapshot(n, m)
  PROVE  StatesInv'
<1> DEFINE x == [type |-> "Snapshot", from |-> n, to |-> m.from,
                 slot |-> base[n].slot, results |-> base[n].results]
<1>1. StatesInv /\ UNCHANGED <<nextSlot, results, base, waiting>>
  BY DEF CompactionInv, ServeSnapshot, snapVars
<1>2. msgs' = msgs \cup {x}
  BY DEF ServeSnapshot, Send
<1>3. StateAt(x.slot, x.results)
  BY <1>1 DEF StatesInv
<1> HIDE DEF x
<1>4. PICK y : y = x
  OBVIOUS
<1>5. StateAt(y.slot, y.results)'
  BY <1>2, <1>3, <1>4, StateStays
<1>6. \A z \in msgs' \ msgs : z = y
  BY <1>2, <1>4
<1> QED BY <1>1, <1>2, <1>5, <1>6, StatesBy

LEMMA SnapshotStates ==
  ASSUME CompactionInv, IInv', NEW n \in Node, NEW m \in msgs, OnSnapshot(n, m)
  PROVE  StatesInv'
<1>1. /\ StatesInv /\ TypeOK /\ SnapTypeOK /\ m.type = "Snapshot" /\ m.slot \in 0..LastSlot + 1
  BY MessageFields DEF CompactionInv, CutInv, IInv, TypeOK, OnSnapshot
<1>2. CASE Send(n, {m}, {}) /\ UNCHANGED <<replica, accepted, floor, snapVars>>
  <2>1. msgs' = msgs /\ UNCHANGED <<nextSlot, results, base, waiting>>
    BY <1>2 DEF Send, replica, snapVars
  <2> QED BY <1>1, <2>1, StatesBy
<1>3. CASE ~(m.slot <= nextSlot[n])
  <2> DEFINE snap == [slot |-> m.slot, results |-> m.results]
             out(k) == {CatchUp(n, m.from, k)} \cup
                   {Forward(n, leader[n], c) :
                      c \in IF prop[n].role = "leader" \/ leader[n] \in {0, n} THEN {}
                            ELSE pending[n] \ results'[n]}
  <2>1. PICK k \in m.slot..LastSlot + 1 :
          /\ AppliesUpTo(n, m.slot, k)
          /\ nextSlot' = [nextSlot EXCEPT ![n] = k]
          /\ results' = [results EXCEPT ![n] = m.results \cup Applied(n, m.slot, k)]
          /\ Send(n, {m}, out(k))
    BY <1>3 DEF OnSnapshot
  <2>2. /\ base' = [base EXCEPT ![n] = snap]
        /\ waiting' = [waiting EXCEPT ![n] = NoSnapshot]
    BY <1>3 DEF OnSnapshot, StartLogAt
  <2>3. \A x \in out(k) : x.type # "Snapshot"
    BY DEF CatchUp, Forward
  <2>4. snap.slot = m.slot /\ snap.results = m.results
    OBVIOUS
  <2> HIDE DEF snap, out
  <2>5. msgs \subseteq msgs' /\ \A x \in msgs' \ msgs : x.type # "Snapshot"
    BY <2>1, <2>3 DEF Send
  <2>6. StateAt(m.slot, m.results)'
    BY <1>1, <2>5, StateStays DEF StatesInv
  <2>7. PICK Q : Q = Applied(n, m.slot, k)
    OBVIOUS
  <2>8. StateAt(k, m.results \cup Q)'
    BY <1>1, <2>1, <2>6, <2>7, StateExtends
  <2>9. nextSlot'[n] = k /\ results'[n] = m.results \cup Q
    BY <1>1, <2>1, <2>7 DEF TypeOK
  <2>10. StateAt(nextSlot[n], results[n])'
    BY <2>8, <2>9
  <2>11. base'[n].slot = m.slot /\ base'[n].results = m.results /\ waiting'[n] = NoSnapshot
    BY <1>1, <2>2, <2>4 DEF SnapTypeOK
  <2>12. StateAt(base[n].slot, base[n].results)'
    BY <2>6, <2>11
  <2>13. StateAt(waiting[n].slot, waiting[n].results)'
    <3>1. StateAt(NoSnapshot.slot, NoSnapshot.results)'
      BY NoSnapshotState, PTL
    <3> QED BY <2>11, <3>1
  <2>14. \A a \in Node : a # n => /\ nextSlot'[a] = nextSlot[a] /\ results'[a] = results[a]
                                  /\ base'[a] = base[a] /\ waiting'[a] = waiting[a]
    BY <1>1, <2>1, <2>2 DEF TypeOK, SnapTypeOK
  <2> QED BY <1>1, <2>5, <2>10, <2>12, <2>13, <2>14, StatesBy
<1>4. m.slot \in Int /\ nextSlot[n] \in Int
  BY <1>1, BoundAssumption DEF TypeOK
<1> QED BY <1>2, <1>3, <1>4 DEF OnSnapshot

LEMMA RotateStates ==
  ASSUME CompactionInv, IInv', NEW n \in Node, Rotate(n)
  PROVE  StatesInv'
<1>1. /\ StatesInv /\ SnapTypeOK /\ msgs' = msgs /\ UNCHANGED <<nextSlot, results>>
      /\ waiting' = [waiting EXCEPT ![n] = Capture(n)]
      /\ base' = base \/ base' = [base EXCEPT ![n] = waiting[n]]
  BY DEF CompactionInv, CutInv, Rotate, StartLogAt
<1>2. PICK snap : snap = Capture(n)
  OBVIOUS
<1>3. StateAt(snap.slot, snap.results)
  BY <1>1, <1>2 DEF Capture, StatesInv
<1>4. StateAt(snap.slot, snap.results)'
  BY <1>1, <1>3, StateStays
<1>5. waiting'[n] = snap /\ \A a \in Node : a # n => waiting'[a] = waiting[a]
  BY <1>1, <1>2 DEF SnapTypeOK
<1>6. PICK old : old = waiting[n] /\ StateAt(old.slot, old.results)
  BY <1>1 DEF StatesInv
<1>7. StateAt(old.slot, old.results)'
  BY <1>1, <1>6, StateStays
<1>8. \A a \in Node : base'[a] = base[a] \/ base'[a] = old
  BY <1>1, <1>6 DEF SnapTypeOK
<1>9. \A a \in Node : base'[a] = base[a] \/ StateAt(base[a].slot, base[a].results)'
  BY <1>7, <1>8
<1>10. \A a \in Node : waiting'[a] = waiting[a] \/ StateAt(waiting[a].slot, waiting[a].results)'
  BY <1>4, <1>5
<1> QED BY <1>1, <1>9, <1>10, StatesBy

LEMMA RestartStates ==
  ASSUME CompactionInv, IInv', NEW n \in Node, RestartFromBase(n)
  PROVE  StatesInv'
<1>1. /\ StatesInv /\ SnapTypeOK /\ msgs' = msgs /\ UNCHANGED <<nextSlot, results, base>>
      /\ waiting' = [waiting EXCEPT ![n] = NoSnapshot]
  BY DEF CompactionInv, CutInv, RestartFromBase, Restart
<1>2. StateAt(NoSnapshot.slot, NoSnapshot.results)'
  BY NoSnapshotState, PTL
<1>3. \A a \in Node : waiting'[a] = waiting[a] \/ waiting'[a] = NoSnapshot
  BY <1>1 DEF SnapTypeOK
<1>4. \A a \in Node : waiting'[a] = waiting[a] \/ StateAt(waiting[a].slot, waiting[a].results)'
  BY <1>2, <1>3
<1> QED BY <1>1, <1>4, StatesBy

LEMMA CompactionStep ==
  ASSUME CompactionInv, [CNext]_compactionVars, ~ForgottenVote'
  PROVE  CompactionInv'
<1>1. CutInv' /\ IInv' /\ StatesInv
  BY CutStep DEF CompactionInv, CutInv
<1>2. CASE UNCHANGED compactionVars
  BY <1>1, <1>2, StatesBy DEF CompactionInv, compactionVars, vars, snapVars
<1>3. ASSUME NEW n \in Node, Receive(n), UNCHANGED snapVars PROVE StatesInv'
  BY <1>1, <1>3, HandleShape, LearnStates DEF Receive
<1>4. ASSUME NEW n \in Node, Outside(n), UNCHANGED snapVars PROVE StatesInv'
  BY <1>1, <1>4, OutsideShape, LearnStates
<1>5. ASSUME NEW n \in Node, NEW m \in msgs, ServeSnapshot(n, m) \/ OnSnapshot(n, m)
      PROVE  StatesInv'
  BY <1>1, <1>5, ServeStates, SnapshotStates
<1>6. ASSUME NEW n \in Node, Rotate(n) \/ RestartFromBase(n) PROVE StatesInv'
  BY <1>1, <1>6, RotateStates, RestartStates
<1> QED BY <1>1, <1>2, <1>3, <1>4, <1>5, <1>6 DEF CNext, CompactionInv

(* A vote once forgotten stays so: no message is taken back, no floor sinks. *)
LEMMA FloorsRise ==
  ASSUME RebuildInv, [CNext]_compactionVars
  PROVE  msgs \subseteq msgs' /\ \A n \in Node : floor[n] \in Int /\ floor'[n] \in Int /\ floor[n] <= floor'[n]
<1>1. RebuildInv'
  BY RebuildStep
<1>2. \A n \in Node : floor[n] \in Int /\ floor'[n] \in Int
  BY <1>1, BoundAssumption DEF RebuildInv, LogTypeOK, LogAt
<1>3. SUFFICES msgs \subseteq msgs' /\ (floor' = floor \/ \A n \in Node : floor[n] <= floor'[n])
  BY <1>2
<1>4. \A n, done, out : Send(n, done, out) => msgs \subseteq msgs'
  BY DEF Send
<1>5. ASSUME NEW n \in Node, Receive(n) \/ Outside(n), UNCHANGED snapVars
      PROVE  msgs \subseteq msgs' /\ floor' = floor
  <2>1. CASE Receive(n)
    BY <1>4, <1>5, <2>1, HandleShape DEF Receive, SendsNoSnapshot, LogKept, Learns
  <2>2. CASE Outside(n)
    BY <1>4, <1>5, <2>2, OutsideShape DEF SendsNoSnapshot, LogKept
  <2> QED BY <1>5, <2>1, <2>2
<1>6. ASSUME NEW n \in Node, NEW m, ServeSnapshot(n, m) \/ RestartFromBase(n)
      PROVE  msgs \subseteq msgs' /\ floor' = floor
  BY <1>4, <1>6 DEF ServeSnapshot, RestartFromBase, Restart
<1>7. ASSUME NEW n \in Node, NEW snap, StartLogAt(n, snap), snap.slot \in Int, floor[n] <= snap.slot
      PROVE  \A k \in Node : floor[k] <= floor'[k]
  BY <1>2, <1>7 DEF StartLogAt, RebuildInv, LogTypeOK
<1>8. ASSUME NEW n \in Node, NEW m \in msgs, OnSnapshot(n, m)
      PROVE  msgs \subseteq msgs' /\ (floor' = floor \/ \A k \in Node : floor[k] <= floor'[k])
  <2>1. msgs \subseteq msgs'
    BY <1>4, <1>8 DEF OnSnapshot
  <2>2. CASE m.slot > nextSlot[n] /\ StartLogAt(n, [slot |-> m.slot, results |-> m.results])
    <3>1. m.slot \in Int /\ nextSlot[n] \in Int /\ floor[n] <= nextSlot[n]
      BY <1>8, BoundAssumption DEF OnSnapshot, RebuildInv, MessagesOK, LogTypeOK, LogAt
    <3>2. floor[n] <= m.slot
      BY <1>2, <2>2, <3>1
    <3> QED BY <1>7, <2>1, <2>2, <3>1, <3>2
  <2> QED BY <1>8, <2>1, <2>2 DEF OnSnapshot
<1>9. ASSUME NEW n \in Node, Rotate(n)
      PROVE  msgs \subseteq msgs' /\ (floor' = floor \/ \A k \in Node : floor[k] <= floor'[k])
  <2>1. msgs' = msgs
    BY <1>9 DEF Rotate
  <2>2. CASE waiting[n].slot > 0 /\ StartLogAt(n, waiting[n])
    <3>1. waiting[n].slot \in Int /\ floor[n] <= waiting[n].slot
      BY <2>2, BoundAssumption DEF RebuildInv, LogTypeOK, LogAt, WaitingAt
    <3> QED BY <1>7, <2>1, <2>2, <3>1
  <2> QED BY <1>9, <2>1, <2>2 DEF Rotate
<1>10. UNCHANGED compactionVars => msgs' = msgs /\ floor' = floor
  BY DEF compactionVars, vars
<1> QED BY <1>5, <1>6, <1>8, <1>9, <1>10 DEF CNext

LEMMA ForgottenStays ==
  ASSUME RebuildInv, ForgottenVote, [CNext]_compactionVars
  PROVE  ForgottenVote'
<1>1. PICK n \in Node, q \in msgs, p \in msgs, s \in Slot, d \in Ballot :
        /\ q.type = "Prepare" /\ q.to = n
        /\ p.type = "Promise" /\ p.from = n /\ p.bal = q.bal
        /\ q.slot <= s /\ s < floor[n]
        /\ p.acc[s].bal \prec d /\ d \prec p.bal /\ Voted(n, s, d)
  BY DEF ForgottenVote, VotedBetween
<1>2. q \in msgs' /\ p \in msgs' /\ Voted(n, s, d)'
  BY <1>1, FloorsRise DEF Voted
<1>3. s \in Int
  BY BoundAssumption DEF Slot
<1>4. s < floor'[n]
  BY <1>1, <1>3, FloorsRise
<1> QED BY <1>1, <1>2, <1>4 DEF ForgottenVote, VotedBetween

(***************************************************************************)
(* As long as no promise leaves out a vote that its sender compacted away, *)
(* the agreement invariant of the epoch holds through compaction, crashes  *)
(* and installed snapshots, and every state a node holds, keeps as a base  *)
(* or sends as a snapshot is the decided one at its slot.                  *)
(***************************************************************************)
THEOREM CompactionInvariant == CSpec => [](ForgottenVote \/ CompactionInv)
<1>1. CInit => CompactionInv
  BY CutInit, StatesInit DEF CompactionInv
<1>2. RebuildInv /\ (ForgottenVote \/ CompactionInv) /\ [CNext]_compactionVars
        => (ForgottenVote \/ CompactionInv)'
  BY CompactionStep, ForgottenStays
<1> QED BY <1>1, <1>2, RebuildInvariant, PTL DEF CSpec

(***************************************************************************)
(* A commit contradicts what its receiver recorded, and Replica.commit     *)
(* raises SafetyViolation, only after a promise left out a compacted vote: *)
(* the missing check of Acceptor.prepare is the only fault of compaction   *)
(* that can break agreement, however logs are cut, snapshots installed and *)
(* nodes restarted.                                                        *)
(***************************************************************************)
THEOREM ViolationNeedsForgottenVote == CSpec => [](ForgottenVote \/ NeverSafetyViolation)
<1>1. ASSUME CompactionInv PROVE NeverSafetyViolation
  <2>1. IInv /\ TypeOK /\ MsgInv /\ ReplicaInv /\ OneDecision
    BY <1>1, OneDecisionHolds DEF CompactionInv, CutInv, IInv
  <2>2. ASSUME NEW m \in msgs, m.type = "Commit", chosen[m.to][m.slot] # None
        PROVE  chosen[m.to][m.slot] = m.cmd
    <3>1. m.to \in Node /\ m.slot \in Slot /\ m.cmd \in Cmd
      BY <2>1, <2>2, MessageFields DEF TypeOK
    <3>2. PICK b \in Ballot : ChosenIn(m.slot, b, m.cmd)
      BY <2>1, <2>2 DEF MsgInv, CommitInv
    <3>3. PICK c \in Cmd : c = chosen[m.to][m.slot]
      BY <2>1, <2>2, <3>1 DEF TypeOK
    <3>4. PICK e \in Ballot : ChosenIn(m.slot, e, c)
      BY <2>1, <2>2, <3>1, <3>3 DEF ReplicaInv
    <3> QED BY <2>1, <3>1, <3>2, <3>3, <3>4 DEF OneDecision
  <2> QED BY <2>2 DEF NeverSafetyViolation
<1> QED BY <1>1, CompactionInvariant, PTL

(***************************************************************************)
(* Until then, replicas that applied the same number of slots are in the   *)
(* same state, whether they got there slot by slot, by a replay after a    *)
(* crash or from a peer's snapshot (Replica.install).                      *)
(***************************************************************************)
THEOREM SameStateUntilForgottenVote == CSpec => [](ForgottenVote \/ SameSlotSameState)
<1>1. ASSUME CompactionInv PROVE SameSlotSameState
  <2>1. \A n \in Node : results[n] = DecidedBelow(nextSlot[n])
    BY <1>1 DEF CompactionInv, StatesInv, StateAt
  <2> QED BY <2>1 DEF SameSlotSameState
<1> QED BY <1>1, CompactionInvariant, PTL
=============================================================================
