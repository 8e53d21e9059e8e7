---------------------------- MODULE MCPaxosScenes ----------------------------
(***************************************************************************)
(* Two kinds of conflict of one epoch in one search.  A behaviour plays    *)
(* one of the scenes to its end: everything both scenes allow, at once, is *)
(* far beyond what can be searched.                                        *)
(***************************************************************************)
EXTENDS PaxosEpoch, TLC

CONSTANTS c1, c2

VARIABLE scene

sceneVars == <<vars, scene>>

(* Two nodes campaign for the same slot, have a command each and may crash. *)
Rivals(n) ==
  /\ scene = "rivals"
  /\ \/ StartCampaign(n)
     \/ Restart(n)
     \/ n # 3 /\ \E c \in Command : Submit(n, c)

(* Two leaders in turn; node 3 follows, forwards a command and catches up. *)
Followers(n) ==
  /\ scene = "follow"
  /\ \/ StartCampaign(n)
     \/ SendHeartbeat(n)
     \/ QuorumLost(n)
     \/ Retry(n)
     \/ n = 3 /\ (Submit(n, c1) \/ Abandon(n, c1))

(* What may happen where: the messages everywhere, the rest as named. *)
Types == {"Prepare", "Promise", "Accept", "Accepted", "Nack", "Commit",
          "Heartbeat", "CatchUp", "Forward"}
Scenes ==
  Types \X Node
  \cup {"campaign", "crash"} \X {1, 2}
  \cup {"submit"} \X Node
  \cup {<<"heartbeat", 1>>, <<"quorum_lost", 1>>,
        <<"abandon", 3>>, <<"retry", 2>>, <<"retry", 3>>}

SceneInit == Init /\ scene \in {"rivals", "follow"}

SceneNext ==
  /\ \E n \in Node : Receive(n) \/ Rivals(n) \/ Followers(n)
  /\ UNCHANGED scene

SceneSpec == SceneInit /\ [][SceneNext]_sceneVars
=============================================================================
