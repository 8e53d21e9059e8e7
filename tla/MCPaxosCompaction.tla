-------------------------- MODULE MCPaxosCompaction --------------------------
(***************************************************************************)
(* Instances of PaxosCompaction for TLC.  Events says what may happen at   *)
(* which node, and so cuts the state space to one kind of conflict.        *)
(***************************************************************************)
EXTENDS PaxosCompactionInv, TLC

CONSTANTS c1, c2

(* Node 1 leads, commits and compacts; node 3 lags behind and then campaigns. *)
LaggardCampaigns ==
       {"campaign", "submit", "rotate", "Prepare", "Promise", "Accepted"} \X {1}
  \cup {"Prepare", "Accept", "Commit"} \X {2}
  \cup {"campaign", "Promise", "Accepted"} \X {3}

(* Node 1 leads with node 2 and compacts; node 3 missed everything, is told *)
(* by a heartbeat and catches up by snapshot and log; both may crash.       *)
LaggardCatchesUp ==
       {"campaign", "submit", "rotate", "heartbeat", "crash", "Promise", "Accepted", "CatchUp"} \X {1}
  \cup {"Prepare", "Accept"} \X {2}
  \cup {"rotate", "crash", "Heartbeat", "Snapshot", "Commit", "CatchUp"} \X {3}

(* Node 1 proposes two commands of which node 3 may accept the second only; *)
(* node 2 takes over with node 3 and fills the gap before it.               *)
Gap ==
       {"campaign", "submit", "Promise", "Accepted"} \X {1}
  \cup {"campaign", "Promise", "Accept", "Accepted", "Commit"} \X {2}
  \cup {"Prepare", "Accept"} \X {3}

(* A smaller search of the gap: a node with messages to itself handles one  *)
(* of them before another node moves.  Such a step reads nothing of the     *)
(* other nodes and its messages are never taken back, so it commutes with   *)
(* theirs: what is skipped are states in which others moved meanwhile.      *)
DrainFirst == \A n \in Node : local[n] # {} => local'[n] # local[n]

(* Both scenes in one search: a behaviour plays one of them to its end. *)
VARIABLE scene
sceneVars == <<compactionVars, scene>>

InGap == INSTANCE PaxosCompaction WITH Events <- Gap

SceneInit == CInit /\ scene \in {"gap", "catch-up"}
SceneNext ==
  /\ \/ scene = "gap" /\ InGap!CNext /\ DrainFirst
     \/ scene = "catch-up" /\ CNext
  /\ UNCHANGED scene
SceneSpec == SceneInit /\ [][SceneNext]_sceneVars

(* The laggard's campaign by itself. *)
LaggardInit == CInit /\ scene = "laggard"
LaggardSpec == LaggardInit /\ [][CNext /\ UNCHANGED scene]_sceneVars
=============================================================================
