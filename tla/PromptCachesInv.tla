---------------------------- MODULE PromptCachesInv ----------------------------
(***************************************************************************)
(* What the caches of PromptCaches rely on: the type of every variable,    *)
(* and the inductive invariants behind SlotsTellTheirContent,              *)
(* ReuseIsOwnText, QuietPoolFits, OneNodeRestores, OvertakenSpillsGo and   *)
(* BranchesAreKept.                                                        *)
(***************************************************************************)
EXTENDS PromptCaches

Cell == Nat \cup {"mixed"}
Tag == Tags \cup {None}
Snaps == UNION {[D -> Seq(Cell)] : D \in SUBSET Nat}

(* A slot, and a file, that tells its content; only a recurrent state has  *)
(* snapshots, and only keys that can be shifted carry a trace of others.   *)
Exact(s) == s.clean = Len(s.kv)
Shifted(s) == kind = "plain" /\ 0 < s.clean /\ s.clean < Len(s.kv)
Honest(s) == /\ TellsItsContent(s) /\ (~Hybrid => DOMAIN s.snaps = {})
             /\ Exact(s) \/ Shifted(s)
SlotShape == [id : Nat, tokens : Seq(Nat), kv : Seq(Nat), clean : Nat, state : Seq(Cell),
              snaps : Snaps, plen : Nat, ctx : Nat, tag : Tag, busy : BOOLEAN]
FileShape == [tokens : Seq(Nat), kv : Seq(Nat), clean : Nat, snaps : Snaps, plen : Nat, tag : Tag,
              by : Node, late : BOOLEAN]
Slot == {s \in SlotShape : Honest(s)}
File == {f \in FileShape : Honest(f)}
Files == UNION {[D -> File] : D \in SUBSET Nat}

Writing == {NotWriting} \cup [at : {"encoded"}, file : File]
           \cup [at : {"placed"}, name : Nat, file : File]
           \cup [at : {"listed"}, doomed : SUBSET Nat]
Store == [queue : Seq(Slot), writing : Writing, index : Files, forgotten : SUBSET Tag,
          claim : File \cup {None}, enabled : BOOLEAN]
Call == [at : {"no", "read", "synced", "marked"}, names : SUBSET Nat, tag : Tag]
Waiting == {"acquiring", "claimed"}
Answer == [at : {"new", "prefill", "decode", "done"} \cup Waiting, node : Node \cup {None},
           ask : Request \cup {None}, id : Nat, from : Nat, made : Seq(Nat)]

TypeOK ==
  /\ kind \in Kinds
  /\ pool \in [Node -> Seq(Slot)] /\ limit \in [Node -> MaxSlots]
  /\ store \in [Node -> Store] /\ forget \in [Node -> Call]
  /\ disk \in Files
  /\ reply \in [Reply -> Answer]
  /\ history \in [saved : Seq(File), claims : SUBSET (Nat \X Node), admin : Nat]

(* What a reply has to do with the pool of its node: while it runs, one    *)
(* busy slot there is its own and holds what it has read so far; and every *)
(* busy slot is the one of such a reply.                                   *)
ReadSoFar(w, s) ==
  LET text == w.ask.ids \o w.made
  IN /\ Len(s.kv) <= Len(text) /\ s.kv = First(text, Len(s.kv))
     /\ Hybrid => s.state = s.kv
     /\ w.at = "prefill" => Len(s.kv) < Len(w.ask.ids)
     /\ w.at = "decode" => s.kv = text
     /\ w.from <= Len(s.kv) /\ (Exact(s) \/ s.clean < w.from)
Serves(p, w) == \E i \in DOMAIN p : p[i].id = w.id /\ p[i].busy /\ ReadSoFar(w, p[i])
Running(w) == w.at \in {"prefill", "decode"}
ReplyOK(w) ==
  /\ w.at \notin {"new", "done"} => w.node \in Node /\ w.ask \in Request
  /\ w.at \in {"new", "done"} => w.node = None
  /\ w.at # "decode" => w.made = <<>>

Busy(p) == {p[i].id : i \in {i \in DOMAIN p : p[i].busy}}
OneIdPerSlot(p) == \A i, j \in DOMAIN p : p[i].id = p[j].id => i = j
PoolInv ==
  /\ \A n \in Node : OneIdPerSlot(pool[n])
  /\ \A r \in Reply : ReplyOK(reply[r])
  /\ \A r \in Reply : Running(reply[r]) => Serves(pool[reply[r].node], reply[r])
  /\ \A r, o \in Reply : Running(reply[r]) /\ Running(reply[o]) /\ r # o =>
       reply[r].node # reply[o].node \/ reply[r].id # reply[o].id
  /\ \A n \in Node : \A x \in Busy(pool[n]) :
       \E r \in Reply : Running(reply[r]) /\ reply[r].node = n /\ reply[r].id = x

(* A name is given once, and stands for one content wherever it is known.  *)
NamesInv ==
  /\ DOMAIN disk \subseteq DOMAIN history.saved
  /\ \A x \in DOMAIN disk : disk[x] = history.saved[x]
  /\ \A c \in history.claims : c[1] \in DOMAIN history.saved \ DOMAIN disk
  /\ \A n \in Node :
       /\ DOMAIN store[n].index \subseteq DOMAIN history.saved
       /\ \A x \in DOMAIN store[n].index : store[n].index[x] = history.saved[x]
       /\ store[n].writing.at = "encoded" =>
            store[n].writing.file.by = n /\ ~store[n].writing.file.late
       /\ store[n].writing.at = "placed" =>
            /\ store[n].writing.file.by = n
            /\ store[n].writing.name \in DOMAIN history.saved
            /\ store[n].writing.file = history.saved[store[n].writing.name]

(* What is about to go, and why: the file of a forgotten chat, or one that *)
(* another file covers.                                                    *)
CoveredBy(f, g) == /\ g.tag = f.tag
                   /\ Common(f.tokens, g.tokens) >= Blocks(f.tokens) * Block
DoomedInv ==
  \A n \in Node : store[n].writing.at = "listed" =>
    \A x \in store[n].writing.doomed :
      /\ x \in DOMAIN history.saved
      /\ \/ history.saved[x].tag \in store[n].forgotten
         \/ \E y \in DOMAIN history.saved \ {x} : CoveredBy(history.saved[x], history.saved[y])

(* A file placed after its chat was forgotten is on its way out: being     *)
(* listed, doomed, or noted by a forget; or the node has restarted and a   *)
(* forget of the chat, also one that is under way, will see it.            *)
GoesSoon(n, x) ==
  LET w == store[n].writing
      f == forget[n]
  IN \/ w.at = "placed" /\ w.name = x /\ disk[x].tag \in store[n].forgotten
     \/ w.at = "listed" /\ x \in w.doomed
     \/ f.at = "marked" /\ x \in f.names
     \/ /\ disk[x].tag \notin store[n].forgotten
        /\ f.at = "read" => x \in f.names
        /\ f.at = "synced" => x \in DOMAIN store[n].index
LateInv == \A x \in DOMAIN disk : disk[x].late => GoesSoon(disk[x].by, x)

CachesInv == TypeOK /\ PoolInv /\ NamesInv /\ DoomedInv /\ LateInv
=============================================================================
