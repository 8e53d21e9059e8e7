--------------------------- MODULE PaxosCompaction ---------------------------
(***************************************************************************)
(* PaxosEpoch with the log compaction of snapshots.py and replica.py: a    *)
(* replica takes a snapshot every SnapshotEvery applied slots, and when it *)
(* takes the next one, the previous becomes the base: the log, and what    *)
(* its acceptor accepted, below the base are dropped, in memory and on     *)
(* disk.  A node asking for a dropped part of the log is sent the base.    *)
(***************************************************************************)
EXTENDS PaxosEpoch

CONSTANT SnapshotEvery   \* PaxosConfig.snapshot_every

ASSUME SnapshotAssumption == SnapshotEvery \in Nat \ {0}

VARIABLES
  base,     \* Replica.base: the durable snapshot the log starts from
  waiting,  \* Replica._pending: the next base (slot 0 when there is none)
  since     \* Replica._pending_total: the applied slots when it was taken

(* A snapshot is the slot it was taken at and the state there: of the state *)
(* machine and its results, the ids of the applied commands.                *)
SnapshotSet == [slot : 0..LastSlot + 1, results : SUBSET Command]
NoSnapshot == [slot |-> 0, results |-> {}]

snapVars == <<base, waiting, since>>
compactionVars == <<vars, snapVars>>

CInit ==
  /\ Init
  /\ base = [n \in Node |-> NoSnapshot]
  /\ waiting = [n \in Node |-> NoSnapshot]
  /\ since = [n \in Node |-> 0]

(* DurableState.prune, Replica._drop_below and Acceptor.floor: node n's log *)
(* now starts at the snapshot's slot.                                       *)
DropApplied(n, snap) ==                                 (* Mutant of StartLogAt *)
  /\ base' = [base EXCEPT ![n] = snap]
  /\ floor' = [floor EXCEPT ![n] = snap.slot]
  /\ chosen' = [chosen EXCEPT ![n] = [s \in Slot |-> IF s < nextSlot[n] THEN None ELSE @[s]]]
  /\ accepted' = [accepted EXCEPT ![n] = [s \in Slot |-> IF s < nextSlot[n] THEN NoEntry ELSE @[s]]]
StartLogAt(n, snap) ==
  /\ base' = [base EXCEPT ![n] = snap]
  /\ floor' = [floor EXCEPT ![n] = snap.slot]
  /\ chosen' = [chosen EXCEPT ![n] = [s \in Slot |-> IF s < snap.slot THEN None ELSE @[s]]]
  /\ accepted' = [accepted EXCEPT ![n] = [s \in Slot |-> IF s < snap.slot THEN NoEntry ELSE @[s]]]

(* Replica._capture: the snapshot taken now. *)
StateOnly(n) ==                                            (* Mutant of Capture *)
  [slot |-> nextSlot[n], results |-> {}]
Capture(n) == [slot |-> nextSlot[n], results |-> results[n]]

(* tick(): Replica.rotate and _compact. *)
Rotate(n) ==
  /\ Event("rotate", n)
  /\ nextSlot[n] - since[n] >= SnapshotEvery
  /\ \/ /\ waiting[n].slot = 0
        /\ UNCHANGED <<base, floor, chosen, accepted>>
     \/ /\ waiting[n].slot > 0
        /\ StartLogAt(n, waiting[n])
  /\ waiting' = [waiting EXCEPT ![n] = Capture(n)]
  /\ since' = [since EXCEPT ![n] = nextSlot[n]]
  /\ UNCHANGED <<promised, nextSlot, results, maxRound, prop, follow, pending, local, msgs, env>>

(* _serve_snapshot: the log from m.slot on is gone, the base is sent. *)
ServeSnapshot(n, m) ==
  /\ m.type = "CatchUp"
  /\ m.slot < base[n].slot
  /\ Send(n, {m}, {[type |-> "Snapshot", from |-> n, to |-> m.from,
                    slot |-> base[n].slot, results |-> base[n].results]})
  /\ UNCHANGED <<durable, nextSlot, results, floor, maxRound, prop, follow, pending, env, snapVars>>

(* _on_snapshot with Replica.install: a snapshot ahead of what is applied   *)
(* here replaces the state and the log before it; slots known after it are  *)
(* applied, the open commands go to the leader (a leader has proposed its   *)
(* own before), and the rest of the log is asked for.                       *)
OnSnapshot(n, m) ==
  /\ m.type = "Snapshot"
  /\ \/ /\ m.slot <= nextSlot[n]
        /\ Send(n, {m}, {})
        /\ UNCHANGED <<replica, accepted, floor, snapVars>>
     \/ /\ m.slot > nextSlot[n]
        /\ StartLogAt(n, [slot |-> m.slot, results |-> m.results])
        /\ waiting' = [waiting EXCEPT ![n] = NoSnapshot]
        /\ \E k \in m.slot..LastSlot + 1 :
             /\ AppliesUpTo(n, m.slot, k)
             /\ nextSlot' = [nextSlot EXCEPT ![n] = k]
             /\ since' = [since EXCEPT ![n] = k]
             /\ results' = [results EXCEPT ![n] =
                              m.results \cup Applied(n, m.slot, k)]
             /\ Send(n, {m}, {CatchUp(n, m.from, k)} \cup
                   {Forward(n, leader[n], c) :
                      c \in IF prop[n].role = "leader" \/ leader[n] \in {0, n} THEN {}
                            ELSE pending[n] \ results'[n]})
  /\ UNCHANGED <<promised, maxRound, prop, follow, pending, env>>

(* The restart keeps the durable base; a snapshot still waiting is lost. *)
RestartFromBase(n) ==
  /\ Restart(n)
  /\ waiting' = [waiting EXCEPT ![n] = NoSnapshot]
  /\ since' = [since EXCEPT ![n] = nextSlot[n]]
  /\ UNCHANGED base

CNext ==
  \E n \in Node :
    \/ (Receive(n) \/ Outside(n)) /\ UNCHANGED snapVars
    \/ \E m \in msgs : Handles(n, m) /\ (ServeSnapshot(n, m) \/ OnSnapshot(n, m))
    \/ Rotate(n)
    \/ RestartFromBase(n)

CSpec == CInit /\ [][CNext]_compactionVars

-----------------------------------------------------------------------------
(***************************************************************************)
(* No replica is ever told of a command other than the one it recorded for *)
(* a slot: Replica.commit raises SafetyViolation in that case.             *)
(***************************************************************************)
NeverSafetyViolation ==
  \A m \in msgs : m.type = "Commit" => chosen[m.to][m.slot] \in {None, m.cmd}

(***************************************************************************)
(* Replicas that applied the same number of slots are in the same state,   *)
(* whether they got there slot by slot, by a replay after a crash or by    *)
(* installing a peer's snapshot while commits were still coming in.        *)
(***************************************************************************)
SameSlotSameState ==
  \A n, k \in Node : nextSlot[n] = nextSlot[k] => results[n] = results[k]

(***************************************************************************)
(* The base and the log kept after it always rebuild the whole state, so a *)
(* crash at any point around a compaction loses nothing.                   *)
(***************************************************************************)
BaseAndLogRebuild ==
  \A n \in Node :
    /\ floor[n] = base[n].slot /\ base[n].slot <= nextSlot[n]
    /\ waiting[n].slot \in {0} \cup base[n].slot..nextSlot[n]
    /\ \A s \in base[n].slot..nextSlot[n] - 1 : chosen[n][s] # None
    /\ nextSlot[n] \in Slot => chosen[n][nextSlot[n]] = None
    /\ results[n] = base[n].results \cup
                      ({chosen[n][s] : s \in base[n].slot..nextSlot[n] - 1} \ {NOOP})
=============================================================================
