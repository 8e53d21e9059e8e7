---------------------------- MODULE ModelLibraryInv ----------------------------
(***************************************************************************)
(* What the requests of ModelLibrary rely on: the type of every variable,  *)
(* and the inductive invariants behind OneWriterPerNode,                   *)
(* WholeUnlessTheLeaseMoved, SuccessMeansInstalled and AliasesHaveModels.  *)
(***************************************************************************)
EXTENDS ModelLibrary

Before == {"new", "resolving", "taking a slot", "waiting", "guarded", "opening"}
Guarded == {"guarded", "opening", "streaming", "unlocking"}
InSlot == {"waiting", "leaving"} \cup Guarded
PullPlace == {"resolving", "taking a slot", "reading", "describing", "telling"} \cup InSlot
CopyPlace == {"finding source", "finding target", "aliasing"}
CatalogPlace == {"checking", "removing", "checking users", "finding file", "unlinking",
                 "unlinking file", "pruning"} \cup CopyPlace
Place == {"new", "ended"} \cup PullPlace \cup CatalogPlace

Slot == [lock : Job \cup {None}, waiters : Nat]
Req == [at : Place, node : Node \cup {None}, ask : Ask \cup {None}, lock : Job \cup {None},
        fd : Job \cup {None}, pos : Nat, sound : BOOLEAN, done : {"no", "found", "downloaded"},
        found : Tag \cup {None}, target : Name \cup {None}]

TypeOK ==
  /\ dest \in [Tag -> Job \cup {None}] /\ partial \in [Tag -> Job \cup {None}]
  /\ data \in [Job -> [1..Blocks -> {"hole", "good", "bad"}]]
  /\ sidecar \in SUBSET Tag
  /\ DOMAIN alias \subseteq Name /\ alias \in [DOMAIN alias -> Name]
  /\ folder \in BOOLEAN
  /\ registry \in [Node -> [Tag -> Slot]] /\ owner \in [Job -> Job \cup {None}]
  /\ holder \in Node
  /\ req \in [Job -> Req]
  /\ history \in [moves : Nat, crashes : Nat, overtaken : SUBSET Job]

(* How far a request is goes with what it was asked for and what it holds. *)
ReqOK(r) ==
  /\ r.at \notin {"new", "ended"} => r.node \in Node /\ r.ask \in Ask
  /\ r.at \in PullPlace => r.ask.kind = "pull"
  /\ r.at \in CatalogPlace => r.ask.kind # "pull"
  /\ r.at \in CopyPlace => r.ask.kind = "copy"
  /\ r.at = "checking" => r.ask.kind = "delete"
  /\ r.at = "streaming" => r.fd \in Job
  /\ r.at \in Before => r.pos = 0
  /\ r.at \in {"unlinking", "unlinking file"} => r.found \in Tag
  /\ r.at \in CatalogPlace \ {"finding source", "finding target"} /\ r.ask.kind = "copy" =>
       r.target \in Name
ReqInv == \A j \in Job : ReqOK(req[j])

(* The registry of a node knows the lock of every pull that waits or works,  *)
(* and counts those that have not left; a lock is owned by who works.        *)
Waiters(n, t) == {j \in Job : req[j].at \in InSlot /\ req[j].node = n /\ req[j].ask.tag = t}
SlotInv ==
  /\ \A n \in Node, t \in Tag : registry[n][t].waiters = Cardinality(Waiters(n, t))
  /\ \A j \in Job :
       /\ req[j].at \in {"waiting"} \cup Guarded =>
            req[j].lock \in Job /\ registry[req[j].node][req[j].ask.tag].lock = req[j].lock
       /\ req[j].at \in Guarded => owner[req[j].lock] = j

(* As long as the lease has not moved, every request runs on its owner: the  *)
(* file a pull writes is <dest>.partial, no installed file is written to,    *)
(* and what the digest has seen is in the file.                              *)
FileInv ==
  /\ \A t, u \in Tag : partial[t] # None => partial[t] # dest[u] /\ (partial[t] = partial[u] => t = u)
  /\ \A j \in Job, t \in Tag : req[j].at \in Before => dest[t] # j /\ partial[t] # j
  /\ \A j \in Job : Running(j) => req[j].node = holder
  /\ \A j \in Job : req[j].at = "streaming" =>
       /\ partial[req[j].ask.tag] = req[j].fd /\ req[j].pos <= Blocks
       /\ req[j].sound => \A b \in 1..req[j].pos : data[req[j].fd][b] = "good"
WholeInv == history.moves = 0 => FileInv /\ WholeUnlessTheLeaseMoved

(* A pull past the download knows its file is there, then its sidecar too,   *)
(* until somebody overtakes it.                                              *)
SuccessInv ==
  \A j \in Job \ history.overtaken :
    /\ req[j].at \in {"describing", "telling"} => dest[req[j].ask.tag] # None
    /\ req[j].at = "telling" => req[j].ask.tag \in sidecar

(* What delete and copy have looked at still holds while nobody overtakes    *)
(* anybody.                                                                  *)
SeenBy(j) ==
  /\ req[j].at = "finding target" => req[j].ask.from \in Installed
  /\ req[j].at \in CatalogPlace \ {"finding source", "finding target"} /\ Asks(j, "copy") =>
       req[j].target \in sidecar
  /\ req[j].at \in {"removing", "checking users"} /\ Asks(j, "copy") =>
       /\ req[j].ask.tag # req[j].ask.from
       /\ req[j].target = req[j].ask.from \/ req[j].ask.from \in Users(req[j].target)
  /\ req[j].at \in {"checking users", "finding file"} => req[j].ask.tag \notin DOMAIN alias
  /\ req[j].at = "finding file" => Users(req[j].ask.tag) = {}
  /\ req[j].at = "unlinking" => req[j].found = req[j].ask.tag /\ Users(req[j].found) = {}
  /\ req[j].at \in {"finding file", "unlinking"} /\ Asks(j, "copy") =>
       req[j].target # req[j].ask.tag
SeenInv == AliasesHaveModels /\ (history.overtaken = {} => \A j \in Job : SeenBy(j))

LibraryInv ==
  TypeOK /\ ReqInv /\ SlotInv /\ WholeInv /\ SuccessInv /\ SeenInv
=============================================================================
