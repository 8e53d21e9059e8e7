-------------------------- MODULE PaxosCompactionInv --------------------------
(***************************************************************************)
(* The inductive invariants behind PaxosCompaction.  For BaseAndLogRebuild: *)
(* a snapshot that waits to become the base already is what the base and   *)
(* the log below it rebuild.  For NeverSafetyViolation and                 *)
(* SameSlotSameState: PaxosEpoch's own invariant, which knows of dropped   *)
(* slots, and every state a node or a snapshot holds is the decided one.   *)
(***************************************************************************)
EXTENDS PaxosCompaction, PaxosEpochInv

LogTypeOK ==
  /\ nextSlot \in [Node -> 0..LastSlot + 1]
  /\ DOMAIN chosen = Node /\ \A n \in Node : DOMAIN chosen[n] = Slot
  /\ DOMAIN results = Node /\ DOMAIN floor = Node /\ DOMAIN since = Node
  /\ DOMAIN base = Node /\ \A n \in Node : base[n].slot \in 0..LastSlot + 1
  /\ DOMAIN waiting = Node /\ \A n \in Node : waiting[n].slot \in 0..LastSlot + 1

MessagesOK ==
  /\ local \in [Node -> SUBSET msgs]
  /\ \A m \in msgs : m.type = "Snapshot" => m.slot \in 0..LastSlot + 1

(* The state at slot k that node n's base and log rebuild. *)
Rebuilt(n, k) == base[n].results \cup ({chosen[n][s] : s \in base[n].slot..k - 1} \ {NOOP})

LogAt(n) ==
  /\ floor[n] = base[n].slot /\ base[n].slot <= nextSlot[n]
  /\ \A s \in base[n].slot..nextSlot[n] - 1 : chosen[n][s] # None
  /\ nextSlot[n] \in Slot => chosen[n][nextSlot[n]] = None
  /\ results[n] = Rebuilt(n, nextSlot[n])
WaitingAt(n) ==
  /\ waiting[n].slot \in {0} \cup base[n].slot..nextSlot[n]
  /\ waiting[n].slot > 0 => waiting[n].results = Rebuilt(n, waiting[n].slot)

RebuildInv == LogTypeOK /\ MessagesOK /\ \A n \in Node : LogAt(n) /\ WaitingAt(n)

-----------------------------------------------------------------------------
(***************************************************************************)
(* A promise on the wire leaves out a vote of its sender's, in a slot that *)
(* the campaigner asked for and the sender has compacted away: the one     *)
(* thing that can break agreement, as Acceptor.prepare does not check it.  *)
(***************************************************************************)
ForgottenVote ==
  \E n \in Node, q, p \in msgs :
    /\ q.type = "Prepare" /\ q.to = n
    /\ p.type = "Promise" /\ p.from = n /\ p.bal = q.bal
    /\ \E s \in Slot : /\ q.slot <= s /\ s < floor[n]
                       /\ VotedBetween(n, s, p.acc[s].bal, p.bal)

SnapTypeOK ==
  /\ base \in [Node -> SnapshotSet]
  /\ waiting \in [Node -> SnapshotSet]
  /\ since \in [Node -> 0..LastSlot + 1]

(* R is the state at slot k: every slot below is decided, and R holds the *)
(* commands decided there.                                                *)
DecidedBelow(k) ==
  {c \in Cmd : \E s \in Slot, b \in Ballot : s < k /\ ChosenIn(s, b, c)} \ {NOOP}
StateAt(k, R) ==
  /\ \A s \in Slot : s < k => \E b \in Ballot, c \in Cmd : ChosenIn(s, b, c)
  /\ R = DecidedBelow(k)

StatesInv ==
  /\ \A n \in Node : /\ StateAt(nextSlot[n], results[n])
                     /\ StateAt(base[n].slot, base[n].results)
                     /\ StateAt(waiting[n].slot, waiting[n].results)
  /\ \A m \in msgs : m.type = "Snapshot" => StateAt(m.slot, m.results)

CutInv == IInv /\ SnapTypeOK /\ RebuildInv
CompactionInv == CutInv /\ StatesInv
=============================================================================
