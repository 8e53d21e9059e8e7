----------------------------- MODULE ModelLibrary -----------------------------
(***************************************************************************)
(* The models folder the nodes share, and the requests that change it:     *)
(* pulls (PullJob, HFDownloader, DownloadCoordinator), deletes, copies and *)
(* creates (ModelCatalog), each a thread of the node that got it.          *)
(*                                                                         *)
(* A file is an inode, named after the pull that created it, and holds     *)
(* blocks; <dest>.partial and <dest> are directory entries.  A request may *)
(* be interleaved with others between any two of its file operations.      *)
(***************************************************************************)
EXTENDS Naturals, FiniteSets, Functions

CONSTANTS
  Node,        \* processes that mount the folder
  Tag,         \* hf.co tags that can be pulled: one file each
  Name,        \* every model name in use: tags and alias names
  Job,         \* requests
  Asked,       \* [Job -> requests it may be: records with kind, tag and, for a copy, from]
  Hashed,      \* tags whose sha256 the repository tells
  Blocks,      \* chunks of a file
  MaxFaults,   \* bound: crashes, and moves of the pull lease to another node
  None

ASSUME LibraryAssumption ==
  /\ Tag \subseteq Name /\ Hashed \subseteq Tag /\ Blocks \in Nat \ {0}
  /\ None \notin Node \cup Name \cup Job /\ IsFiniteSet(Job)

(* What a request may ask for. *)
Ask == [kind : {"pull"}, tag : Tag] \cup [kind : {"delete"}, tag : Name]
         \cup [kind : {"copy"}, from : Name, tag : Name]

ASSUME AskedAssumption == \A j \in Job : Asked[j] \subseteq Ask

VARIABLES
  dest, partial,  \* [Tag -> inode or None]: the directory entries
  data,           \* [inode -> its blocks]
  sidecar,        \* tags with a <name>.gguf.json
  alias,          \* alias name -> the real model's tag
  folder,         \* the directory of the repository exists
  registry,       \* [Node -> [Tag -> lock and number of waiters]] (DownloadCoordinator)
  owner,          \* [lock -> the job holding it]: a lock is named after its creator
  holder,         \* the node owning the pull lease
  req,            \* [Job -> where its thread is]
  history         \* moves, crashes; overtaken: requests another one changed the catalog under

disk == <<dest, partial, data, folder>>
catalog == <<sidecar, alias>>
locks == <<registry, owner>>
vars == <<disk, catalog, locks, holder, req, history>>

Empty == [b \in 1..Blocks |-> "hole"]
NoSlot == [lock |-> None, waiters |-> 0]
Fresh == [at |-> "new", node |-> None, ask |-> None, lock |-> None, fd |-> None, pos |-> 0,
          sound |-> TRUE, done |-> "no", found |-> None, target |-> None]

(* The folder is empty, or holds a model, or a crash left a file without   *)
(* its sidecar or half a download.                                         *)
Init ==
  /\ dest = [t \in Tag |-> None] /\ partial = [t \in Tag |-> None]
  /\ data = [j \in Job |-> Empty]
  /\ sidecar = {} /\ alias = << >> /\ folder = FALSE
  /\ registry = [n \in Node |-> [t \in Tag |-> NoSlot]] /\ owner = [j \in Job |-> None]
  /\ holder \in Node /\ req = [j \in Job |-> Fresh]
  /\ history = [moves |-> 0, crashes |-> 0, overtaken |-> {}]

Running(j) == req[j].at \notin {"new", "ended"}
Goes(j, where) == req' = [req EXCEPT ![j].at = where]
Ended == [Fresh EXCEPT !.at = "ended"]
Ends(j) == req' = [req EXCEPT ![j] = Ended]  \* with an answer or an error
Asks(j, kind) == req[j].ask.kind = kind
(* j has changed the catalog: whoever is running is overtaken. *)
Overtake(j) ==
  history' = [history EXCEPT !.overtaken = @ \cup {k \in Job \ {j} : Running(k)}]

(* require_pull_lease: only the owner of the lease begins a request, and *)
(* nothing looks at the lease again. *)
Begin(j) ==
  /\ req[j].at = "new"
  /\ \E r \in Asked[j] :
       req' = [req EXCEPT ![j].node = holder, ![j].ask = r,
                 ![j].at = CASE r.kind = "pull" -> "resolving"
                             [] r.kind = "delete" -> "checking"
                             [] r.kind = "copy" -> "finding source"]
  /\ UNCHANGED <<disk, catalog, locks, holder, history>>

-----------------------------------------------------------------------------
(* A pull. *)

(* The repository is asked what file the tag means: it may not answer, or *)
(* know no such file, or several. *)
Resolve(j) ==
  /\ req[j].at = "resolving"
  /\ Goes(j, "taking a slot") \/ Ends(j)
  /\ UNCHANGED <<disk, catalog, locks, holder, history>>

AcquireSlot(j) ==
  LET n == req[j].node
      t == req[j].ask.tag
      lock == IF registry[n][t].lock = None THEN j ELSE registry[n][t].lock
  IN /\ req[j].at = "taking a slot"
     /\ registry' = [registry EXCEPT ![n][t] = [lock |-> lock, waiters |-> @.waiters + 1]]
     /\ req' = [req EXCEPT ![j].at = "waiting", ![j].lock = lock]
     /\ UNCHANGED <<disk, catalog, owner, holder, history>>

EnterGuard(j) ==
  /\ req[j].at = "waiting" /\ owner[req[j].lock] = None
  /\ owner' = [owner EXCEPT ![req[j].lock] = j]
  /\ Goes(j, "guarded")
  /\ UNCHANGED <<disk, catalog, registry, holder, history>>

(* The end of the guarded part, for whatever reason. *)
LeavesGuard(j, done) ==
  req' = [req EXCEPT ![j] = [Fresh EXCEPT !.at = "unlocking", !.node = req[j].node,
                               !.ask = req[j].ask, !.lock = req[j].lock, !.done = done]]

(* dest.exists: somebody else has downloaded it; otherwise mkdir. *)
FindFile(j) ==
  /\ req[j].at = "guarded"
  /\ \/ dest[req[j].ask.tag] # None /\ LeavesGuard(j, "found") /\ UNCHANGED folder
     \/ dest[req[j].ask.tag] = None /\ Goes(j, "opening") /\ folder' = TRUE
  /\ UNCHANGED <<dest, partial, data, catalog, locks, holder, history>>

Unlink(t) == partial' = [partial EXCEPT ![t] = None] /\ UNCHANGED <<dest, data, folder>>

(* open("wb") empties the file that is there, or creates one; the server *)
(* may not answer, and a delete may have pruned the directory. *)
OpenPartial(j) ==
  LET t == req[j].ask.tag
      fd == IF partial[t] = None THEN j ELSE partial[t]
  IN /\ req[j].at = "opening"
     /\ \/ /\ folder
           /\ partial' = [partial EXCEPT ![t] = fd]
           /\ data' = [data EXCEPT ![fd] = Empty]
           /\ req' = [req EXCEPT ![j].at = "streaming", ![j].fd = fd]
           /\ UNCHANGED <<dest, folder>>
        \/ Unlink(t) /\ LeavesGuard(j, "no")
        \/ ~folder /\ LeavesGuard(j, "no") /\ UNCHANGED disk
     /\ UNCHANGED <<catalog, locks, holder, history>>

(* One chunk, perhaps damaged on its way, goes to the file that was opened *)
(* and to the digest.  Or the pull ends here: its client has gone (from    *)
(* any time before, cancel_event is looked at for each chunk) or the       *)
(* connection breaks, and the partial file goes; or the write fails, and   *)
(* it stays.                                                               *)
Chunk(j) ==
  /\ req[j].at = "streaming" /\ req[j].pos < Blocks
  /\ \/ /\ \E block \in {"good", "bad"} :
             /\ data' = [data EXCEPT ![req[j].fd][req[j].pos + 1] = block]
             /\ req' = [req EXCEPT ![j].pos = @ + 1, ![j].sound = @ /\ block = "good"]
        /\ UNCHANGED <<dest, partial, folder>>
     \/ Unlink(req[j].ask.tag) /\ LeavesGuard(j, "no")
     \/ LeavesGuard(j, "no") /\ UNCHANGED disk
  /\ UNCHANGED <<catalog, locks, holder, history>>

(* The digest is of what came, not of the file; rename moves the entry *)
(* <dest>.partial, whoever's file it is, and fails when there is none. *)
RenameUnverified(j) ==
  LET t == req[j].ask.tag
  IN /\ req[j].at = "streaming" /\ req[j].pos = Blocks /\ partial[t] # None
     /\ dest' = [dest EXCEPT ![t] = partial[t]]
     /\ partial' = [partial EXCEPT ![t] = None]
     /\ LeavesGuard(j, "downloaded")
     /\ UNCHANGED <<data, folder, catalog, locks, holder, history>>
Rename(j) ==
  LET t == req[j].ask.tag
  IN /\ req[j].at = "streaming" /\ req[j].pos = Blocks
     /\ \/ ~req[j].sound /\ t \in Hashed /\ Unlink(t) /\ LeavesGuard(j, "no")
        \/ /\ req[j].sound \/ t \notin Hashed
           /\ partial[t] # None
           /\ dest' = [dest EXCEPT ![t] = partial[t]]
           /\ partial' = [partial EXCEPT ![t] = None]
           /\ LeavesGuard(j, "downloaded") /\ UNCHANGED <<data, folder>>
        \/ /\ req[j].sound \/ t \notin Hashed
           /\ partial[t] = None /\ LeavesGuard(j, "no") /\ UNCHANGED disk
     /\ UNCHANGED <<catalog, locks, holder, history>>

LeaveWhenDone(j) ==
  /\ req[j].at = "unlocking"
  /\ owner' = IF req[j].done = "no" THEN owner ELSE [owner EXCEPT ![req[j].lock] = None]
  /\ req' = [req EXCEPT ![j].at = "leaving", ![j].lock = None]
  /\ UNCHANGED <<disk, catalog, registry, holder, history>>
LeaveGuard(j) ==
  /\ req[j].at = "unlocking"
  /\ owner' = [owner EXCEPT ![req[j].lock] = None]
  /\ req' = [req EXCEPT ![j].at = "leaving", ![j].lock = None]
  /\ UNCHANGED <<disk, catalog, registry, holder, history>>

DropSlot(j) ==
  /\ req[j].at = "leaving"
  /\ registry' = [registry EXCEPT ![req[j].node][req[j].ask.tag] = NoSlot]
  /\ IF req[j].done # "no" THEN Goes(j, "reading") ELSE Ends(j)
  /\ UNCHANGED <<disk, catalog, owner, holder, history>>
ReleaseSlot(j) ==
  LET n == req[j].node
      t == req[j].ask.tag
      left == registry[n][t].waiters - 1
  IN /\ req[j].at = "leaving"
     /\ registry' = [registry EXCEPT ![n][t] =
                       IF left = 0 THEN NoSlot ELSE [@ EXCEPT !.waiters = left]]
     /\ IF req[j].done # "no" THEN Goes(j, "reading") ELSE Ends(j)
     /\ UNCHANGED <<disk, catalog, owner, holder, history>>

(* The header of the file that is there now, which must parse. *)
ReadDownloaded(j) ==
  LET file == dest[req[j].ask.tag]
  IN /\ req[j].at = "reading"
     /\ \/ req[j].done = "found" /\ Goes(j, "telling")
        \/ req[j].done = "downloaded" /\ file # None /\ Goes(j, "describing")
        \/ req[j].done = "downloaded" /\ file = None /\ Ends(j)
     /\ UNCHANGED <<disk, catalog, locks, holder, history>>
ReadHeader(j) ==
  LET file == dest[req[j].ask.tag]
  IN /\ req[j].at = "reading"
     /\ \/ file # None /\ data[file][1] # "hole" /\ Goes(j, "describing")
        \/ (IF file = None THEN TRUE ELSE data[file][1] # "good") /\ Ends(j)
     /\ UNCHANGED <<disk, catalog, locks, holder, history>>

WriteSidecar(j) ==
  /\ req[j].at = "describing"
  /\ \/ folder /\ sidecar' = sidecar \cup {req[j].ask.tag} /\ Goes(j, "telling")
     \/ ~folder /\ Ends(j) /\ UNCHANGED sidecar
  /\ UNCHANGED <<disk, alias, locks, holder, history>>

TellSuccess(j) ==
  /\ req[j].at = "telling" /\ Ends(j)
  /\ UNCHANGED <<disk, catalog, locks, holder, history>>

-----------------------------------------------------------------------------
(* The catalog: delete, and copy, which deletes the name it is to write. *)

Users(name) == {x \in DOMAIN alias : alias[x] = name}
Installed == sidecar \cup {x \in DOMAIN alias : alias[x] \in sidecar}
FileOf(name) == IF name \in sidecar THEN name ELSE alias[name]

(* A delete looks for aliases before it unloads the model. *)
CheckDeletable(j) ==
  /\ req[j].at = "checking"
  /\ IF Users(req[j].ask.tag) # {} THEN Ends(j) ELSE Goes(j, "removing")
  /\ UNCHANGED <<disk, catalog, locks, holder, history>>

FindSource(j) ==
  /\ req[j].at = "finding source"
  /\ IF req[j].ask.from \in Installed THEN Goes(j, "finding target") ELSE Ends(j)
  /\ UNCHANGED <<disk, catalog, locks, holder, history>>

(* An alias of an alias points at the real model. *)
Target(from) == IF from \in DOMAIN alias THEN alias[from] ELSE from

FindTarget(j) ==
  /\ req[j].at = "finding target"
  /\ IF req[j].ask.tag = req[j].ask.from THEN Ends(j)
     ELSE req' = [req EXCEPT ![j].target = Target(req[j].ask.from), ![j].at = "removing"]
  /\ UNCHANGED <<disk, catalog, locks, holder, history>>

(* catalog.delete has ended: with an answer, or for a copy with the alias *)
(* still to write. *)
Removed(j) == IF Asks(j, "copy") THEN Goes(j, "aliasing") ELSE Ends(j)

RemoveAlias(j) ==
  /\ req[j].at = "removing"
  /\ \/ /\ req[j].ask.tag \in DOMAIN alias
        /\ alias' = Restrict(alias, DOMAIN alias \ {req[j].ask.tag})
        /\ Overtake(j) /\ Removed(j)
     \/ req[j].ask.tag \notin DOMAIN alias /\ Goes(j, "checking users") /\ UNCHANGED <<alias, history>>
  /\ UNCHANGED <<disk, sidecar, locks, holder>>

TrustUsers(j) ==
  /\ req[j].at = "checking users" /\ Goes(j, "finding file")
  /\ UNCHANGED <<disk, catalog, locks, holder, history>>
CheckUsers(j) ==
  /\ req[j].at = "checking users"
  /\ IF Users(req[j].ask.tag) # {} THEN Ends(j) ELSE Goes(j, "finding file")
  /\ UNCHANGED <<disk, catalog, locks, holder, history>>

(* get: by now the name may have become an alias of another model. *)
FindPath(j) ==
  LET name == req[j].ask.tag
  IN /\ req[j].at = "finding file"
     /\ \/ /\ name \in Installed
           /\ req' = [req EXCEPT ![j].at = "unlinking", ![j].found = FileOf(name)]
        \/ name \notin Installed /\ Asks(j, "copy") /\ Goes(j, "aliasing")
        \/ name \notin Installed /\ Asks(j, "delete") /\ Ends(j)
     /\ UNCHANGED <<disk, catalog, locks, holder, history>>

UnlinkSidecar(j) ==
  /\ req[j].at = "unlinking"
  /\ sidecar' = sidecar \ {req[j].found}
  /\ Overtake(j) /\ Goes(j, "unlinking file")
  /\ UNCHANGED <<disk, alias, locks, holder>>

UnlinkFile(j) ==
  /\ req[j].at = "unlinking file"
  /\ dest' = [dest EXCEPT ![req[j].found] = None]
  /\ Overtake(j) /\ Goes(j, "pruning")
  /\ UNCHANGED <<partial, data, folder, catalog, locks, holder>>

Bare == sidecar = {} /\ \A t \in Tag : dest[t] = None /\ partial[t] = None

PruneEmptyAncestors(j) ==
  /\ req[j].at = "pruning"
  /\ folder' = (folder /\ ~Bare)
  /\ Removed(j)
  /\ UNCHANGED <<dest, partial, data, catalog, locks, holder, history>>

WriteAlias(j) ==
  /\ req[j].at = "aliasing"
  /\ alias' = [x \in DOMAIN alias \cup {req[j].ask.tag} |->
                 IF x = req[j].ask.tag THEN req[j].target ELSE alias[x]]
  /\ Overtake(j) /\ Ends(j)
  /\ UNCHANGED <<disk, sidecar, locks, holder>>

-----------------------------------------------------------------------------
(* The lease goes to another node while requests of the old one run on. *)
MoveLease ==
  /\ history.moves + history.crashes < MaxFaults
  /\ \E n \in Node \ {holder} : holder' = n
  /\ history' = [history EXCEPT !.moves = @ + 1]
  /\ UNCHANGED <<disk, catalog, locks, req>>

(* A node crashes and starts again: its threads and locks are gone. *)
Crash(n) ==
  LET gone == {j \in Job : Running(j) /\ req[j].node = n}
  IN /\ history.moves + history.crashes < MaxFaults /\ gone # {}
     /\ req' = [j \in Job |-> IF j \in gone THEN Ended ELSE req[j]]
     /\ registry' = [registry EXCEPT ![n] = [t \in Tag |-> NoSlot]]
     /\ owner' = [lock \in Job |-> IF owner[lock] \in gone THEN None ELSE owner[lock]]
     /\ history' = [history EXCEPT !.crashes = @ + 1]
     /\ UNCHANGED <<disk, catalog, holder>>

PullStep(j) ==
  Resolve(j) \/ AcquireSlot(j) \/ EnterGuard(j) \/ FindFile(j) \/ OpenPartial(j) \/ Chunk(j)
    \/ Rename(j) \/ LeaveGuard(j) \/ ReleaseSlot(j) \/ ReadHeader(j) \/ WriteSidecar(j)
    \/ TellSuccess(j)
CatalogStep(j) ==
  CheckDeletable(j) \/ FindSource(j) \/ FindTarget(j) \/ RemoveAlias(j) \/ CheckUsers(j)
    \/ FindPath(j) \/ UnlinkSidecar(j) \/ UnlinkFile(j) \/ PruneEmptyAncestors(j) \/ WriteAlias(j)

Next ==
  \/ \E j \in Job : Begin(j) \/ PullStep(j) \/ CatalogStep(j)
  \/ MoveLease
  \/ \E n \in Node : Crash(n)

(* A thread that can go on does: a chunk comes, or the connection is given *)
(* up after 30 s. *)
Fairness == \A j \in Job : WF_vars(PullStep(j) \/ CatalogStep(j))
Spec == Init /\ [][Next]_vars /\ Fairness

-----------------------------------------------------------------------------
Writing(j) == req[j].at \in {"guarded", "opening", "streaming", "unlocking"}

(* The coordinator lets one pull at a time work on a file: two pulls never *)
(* share <dest>.partial, however their slots come and go. *)
OneWriterPerNode ==
  \A j, k \in Job :
    Writing(j) /\ Writing(k) /\ req[j].node = req[k].node /\ req[j].ask.tag = req[k].ask.tag => j = k

(* A damaged or half download never looks installed, as long as the lease  *)
(* stays where it is: nothing stops the pull of a node that has lost it.   *)
WholeUnlessTheLeaseMoved ==
  history.moves = 0 =>
    \A t \in Hashed : dest[t] # None => \A b \in 1..Blocks : data[dest[t]][b] = "good"

(* A pull that says "success" has left the model installed, whatever state *)
(* a crash left before it, unless somebody removed something meanwhile. *)
SuccessMeansInstalled ==
  \A j \in Job \ history.overtaken :
    req[j].at = "telling" => dest[req[j].ask.tag] # None /\ req[j].ask.tag \in sidecar

(* An alias has its model, unless requests overtook each other: delete and *)
(* copy hold nothing between the look at the aliases and the change. *)
AliasesHaveModels ==
  history.overtaken = {} => \A x \in DOMAIN alias : alias[x] \in sidecar

(* A pull ends, also when its client has gone, when others want the same *)
(* file, and when the guarded part fails. *)
EveryPullEnds ==
  \A j \in Job : req[j].at = "resolving" ~> ~Running(j)
=============================================================================
