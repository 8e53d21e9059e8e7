--------------------------- MODULE ModelServingInv ---------------------------
(***************************************************************************)
(* What the threads of ModelServing rely on: the type of every variable,   *)
(* and the inductive invariants behind NoModelIsLost, OnlyTheAimedStop and *)
(* RetiredPastItsReplies.                                                  *)
(***************************************************************************)
EXTENDS ModelServing

OnWorker == {"submitted", "ended"}
HasModel == {"got", "ready", "starting"} \cup OnWorker
Place == {"new", "answered", "dropped"} \cup Loading \cup HasModel

Call == [at : Place, tag : Tag \cup {None}, handle : Handle \cup {None}, victims : SUBSET Tag,
         tokens : Nat, stop : BOOLEAN, how : {None, "stopped", "finished"}]
Worker == [queue : Seq(Request \cup {Close}), active : SUBSET Request, todo : SUBSET Request,
           phase : {"idle", "admit", "advance", "ended"}, stop : BOOLEAN, closing : BOOLEAN]

TypeOK ==
  /\ resident \in [Tag -> Handle \cup {None}]
  /\ stoppedLoads \in SUBSET Tag
  /\ noted \in SUBSET Chat
  /\ closed \in SUBSET Handle
  /\ call \in [Request -> Call]
  /\ worker \in [Handle -> Worker]
  /\ unload \in [Unload -> [at : {"new", "waiting", "retiring", "done"},
                           handle : Handle \cup {None}]]
  /\ cancel \in [Chat -> {"no", "missed", "done"}]
  /\ sweep \in SUBSET Tag
  /\ history \in [late : SUBSET Request, aimed : SUBSET Handle, made : Nat, expiries : Nat]

(* How far a request is goes with what it holds. *)
CallInv ==
  \A c \in Request :
    /\ call[c].at \in Loading \cup HasModel => call[c].tag \in Tag
    /\ call[c].at \in HasModel => call[c].handle \in Handle
    /\ call[c].at \in {"new"} \cup Loading => call[c].handle = None
    /\ call[c].victims # {} => call[c].at \in {"evicting", "making room"}

(* The load lock of a tag has one holder, who has found the tag not resident *)
(* by the time it makes room.                                                *)
LockInv ==
  \A c \in Request :
    /\ \A d \in Request : call[c].at \in Loading /\ call[d].at \in Loading
                           /\ call[c].tag = call[d].tag => c = d
    /\ call[c].at \in {"making room", "loading"} => resident[call[c].tag] = None

(* Handles are numbered as they are made; each is of one tag, for good, and  *)
(* is resident only until it is closed or an unload has taken it.            *)
HandleInv ==
  /\ closed \subseteq 1..history.made
  /\ \A t \in Tag : resident[t] # None =>
       /\ resident[t] <= history.made /\ resident[t] \notin closed
       /\ \A u \in Tag : resident[u] = resident[t] => u = t
       /\ \A c \in Request : call[c].handle = resident[t] => call[c].tag = t
       /\ \A u \in Unload : unload[u].handle # resident[t]
  /\ \A c \in Request : call[c].handle # None => call[c].handle <= history.made
  /\ \A u \in Unload :
       /\ unload[u].handle # None => unload[u].handle <= history.made
       /\ unload[u].at \in {"waiting", "retiring"} => unload[u].handle # None

(* Replies still on the worker of a model that is closed, or picked for      *)
(* retirement, were submitted after that.                                    *)
RetireInv ==
  /\ \A h \in closed : On(h) \subseteq history.late
  /\ \A t \in Doomed : resident[t] # None => On(resident[t]) \subseteq history.late
  /\ \A u \in Unload : unload[u].at = "retiring" => On(unload[u].handle) \subseteq history.late

(* The replies a worker holds are its own; a stop is for whom it was meant,  *)
(* and what it has ended shows whose it was.                                 *)
Queued(h) == {worker[h].queue[i] : i \in 1..Len(worker[h].queue)} \ {Close}
Jobs(h) == Queued(h) \cup worker[h].active \cup worker[h].todo
JobInv ==
  \A h \in Handle : \A c \in Jobs(h) : call[c].at \in OnWorker /\ call[c].handle = h
StopInv ==
  /\ \A h \in Handle : worker[h].stop => h \in history.aimed
  /\ \A c \in Request : call[c].stop => c \in Chat /\ cancel[c] = "done"
  /\ \A c \in Request : call[c].how = "stopped" =>
       call[c].handle \in history.aimed \/ call[c].stop

ServingInv ==
  /\ TypeOK /\ CallInv /\ LockInv /\ HandleInv /\ NoModelIsLost
  /\ JobInv /\ StopInv /\ RetireInv
=============================================================================
