----------------------------- MODULE PromptCaches -----------------------------
(***************************************************************************)
(* The prompt caches of one model: the pool of conversations each node     *)
(* keeps in RAM (PromptCache), the directory of saved ones the nodes share *)
(* (PersistentCacheStore) and the replies that use them (ChatEngine).      *)
(*                                                                         *)
(* What a cache holds is the sequence of tokens whose keys and values (for *)
(* a hybrid model also whose recurrent state) were computed in it, and how *)
(* many of the first ones are exact (`clean`): those behind a cut were     *)
(* read while the dropped tokens were visible.  The code sees neither, it  *)
(* trusts token_ids.  A pool is a sequence in the order of last use.  A    *)
(* fingerprint per block is the prefix it stands for, the size of a file   *)
(* is one, and a prompt with images, which never touches the pool, is left *)
(* out.                                                                    *)
(***************************************************************************)
EXTENDS Naturals, Sequences, FiniteSets, FiniteSetsExt

CONSTANTS
  Node, Cleaner,    \* nodes; the owner of the cleanup lease
  Reply,            \* replies asked for
  Request,          \* prompts: records with ids, tag (the chat) and ctx (num_ctx)
  Saved,            \* those of them an earlier life of the nodes may have saved
  Token,            \* tokens a reply may generate
  Kinds,            \* kinds of model considered, of {"plain", "rigid", "hybrid"}
  MaxSlots,         \* values of the slot limit
  Budget,           \* bytes of a pool: positions and snapshots here
  ForkMin, TailTokens, MinRun, MaxSnapshots, Chunk, TailSnapshot,
  Block, MinPersist, DiskBudget,
  MaxNew,           \* bound: tokens generated
  MaxAdmin,         \* bound: administration calls, crashes and cancels
  MaxFiles,         \* bound: files written
  None

ASSUME CachesAssumption ==
  /\ Cleaner \in Node /\ None \notin Node \cup Nat
  /\ IsFiniteSet(Reply) /\ Token \subseteq Nat /\ Saved \subseteq Request
  /\ \A q \in Request : q.ids \in Seq(Nat) \ {<<>>} /\ q.ctx \in Nat /\ q.ctx >= Len(q.ids)
  /\ MaxSlots \subseteq Nat \ {0} /\ MinRun > 0 /\ MinPersist > 0
  /\ Block \in Nat \ {0} /\ Chunk \in Nat \ {0} /\ TailSnapshot \in Nat
  /\ DiskBudget \in Nat /\ Budget \in Nat

VARIABLES
  kind,    \* the model's cache: keys and values that can be shifted ("plain")
           \* or cannot ("rigid": context_shift off, or the architecture has no
           \* rotations for it), or with a recurrent state ("hybrid")
  pool,    \* [Node -> sequence of slots, the least recently used first]
  limit,   \* [Node -> max_slots]
  store,   \* [Node -> queue of spills, writer, index, forgotten chats, claim, enabled]
  forget,  \* [Node -> the forget or clear call in progress]
  disk,    \* the shared directory: [name -> file]
  reply,   \* [Reply -> where it is]
  history  \* saved: the files written, by name; claims: <<name, node>>; admin: calls

vars == <<kind, pool, limit, store, forget, disk, reply, history>>

NotWriting == [at |-> "no"]
IdleStore == [queue |-> <<>>, writing |-> NotWriting, index |-> <<>>, forgotten |-> {},
              claim |-> None, enabled |-> TRUE]
NoCall == [at |-> "no", names |-> {}, tag |-> None]
NewReply == [at |-> "new", node |-> None, ask |-> None, id |-> 0, from |-> 0, made |-> <<>>]

Hybrid == kind = "hybrid"
SavedFile(n, q) ==
  [tokens |-> q.ids, kv |-> q.ids, clean |-> Len(q.ids), plen |-> Len(q.ids), tag |-> q.tag,
   by |-> n, late |-> FALSE,
   snaps |-> IF Hybrid THEN [p \in {Len(q.ids)} |-> q.ids] ELSE <<>>]

(* Every node has just started: its index is the directory.                *)
Init ==
  /\ kind \in Kinds
  /\ pool = [n \in Node |-> <<>>]
  /\ \E max \in MaxSlots : limit = [n \in Node |-> max]
  /\ disk \in {<<>>} \cup {<<SavedFile(Cleaner, q)>> : q \in Saved}
  /\ store = [n \in Node |-> [IdleStore EXCEPT !.index = disk]]
  /\ forget = [n \in Node |-> NoCall]
  /\ reply = [r \in Reply |-> NewReply]
  /\ history = [saved |-> disk, claims |-> {}, admin |-> 0]

Least(a, b) == IF a < b THEN a ELSE b
First(s, n) == SubSeq(s, 1, n)
After(s, n) == SubSeq(s, n + 1, Len(s))
Common(s, t) == Max({n \in 0..Least(Len(s), Len(t)) : First(s, n) = First(t, n)})
UpTo(snaps, n) == [p \in {p \in DOMAIN snaps : p <= n} |-> snaps[p]]

(***************************************************************************)
(* CacheSlot: a slot's id is the identity of its cache object.             *)
(***************************************************************************)
NewSlot(id, q) == [id |-> id, tokens |-> <<>>, kv |-> <<>>, clean |-> 0, state |-> <<>>,
                   snaps |-> <<>>, plen |-> Len(q.ids), ctx |-> q.ctx, tag |-> q.tag, busy |-> FALSE]

(* How many leading tokens of the prompt a slot has; and can supply: the   *)
(* last one is always computed, a recurrent state exists only in snapshots.*)
Shared(s, ids) == Least(Common(s.tokens, ids), Len(ids) - 1)
Supplies(s, ids) ==
  IF Hybrid THEN Max({0} \cup {p \in DOMAIN s.snaps : p <= Shared(s, ids)}) ELSE Shared(s, ids)

RewindAttentionOnly(s, n) ==                             (* Mutant of Rewind *)
  [s EXCEPT !.tokens = First(@, n), !.kv = First(@, n), !.clean = Least(@, n),
            !.snaps = UpTo(@, n)]
RewindKeepingSnapshots(s, n) ==                          (* Mutant of Rewind *)
  [s EXCEPT !.tokens = First(@, n), !.kv = First(@, n), !.clean = Least(@, n),
            !.state = IF Hybrid THEN s.snaps[n] ELSE <<>>]
Rewind(s, n) ==
  [s EXCEPT !.tokens = First(@, n), !.kv = First(@, n), !.clean = Least(@, n),
            !.state = IF Hybrid THEN s.snaps[n] ELSE <<>>,
            !.snaps = UpTo(@, n)]
Fork(s, n, ctx, id) == [Rewind(s, n) EXCEPT !.id = id, !.ctx = ctx, !.busy = FALSE]

(* The ways to see the prompt as the slot's tokens with some cut out after *)
(* the first `keep`, because the chat's oldest messages were trimmed.      *)
Gaps(s, ids) ==
  LET keep == Common(s.tokens, ids)
      run(start) == Common(After(s.tokens, start), After(ids, keep))
  IN IF kind # "plain" \/ keep = 0 \/ keep = Least(Len(s.tokens), Len(ids)) THEN {}
     ELSE {[keep |-> keep, end |-> e, run |-> run(e)] :
             e \in {e \in keep + 1 .. Len(s.tokens) - 1 : run(e) >= MinRun}}
FindGap(s, ids) ==      \* the longest run, the earliest of those
  CHOOSE g \in Gaps(s, ids) : \A h \in Gaps(s, ids) :
    h.run < g.run \/ (h.run = g.run /\ h.end >= g.end)
(* The cache is cut like the tokens: the keys behind the gap are rotated to *)
(* their new positions, but carry a trace of the tokens cut out.            *)
ShiftOut(s, g) ==
  LET cut(x) == First(x, g.keep) \o After(x, g.end)
      gap == g.end - g.keep
  IN [s EXCEPT !.tokens = cut(@), !.kv = cut(@), !.clean = Least(@, g.keep),
               !.plen = IF @ > gap THEN @ - gap ELSE 0]

(***************************************************************************)
(* The pool: eviction, the best slot for a prompt, taking it.              *)
(***************************************************************************)
Ids(p) == {p[i].id : i \in DOMAIN p}
At(p, places) ==        \* the slots of p at these places, in its order
  LET upto[i \in 0..Len(p)] == IF i = 0 THEN <<>>
                               ELSE IF i \in places THEN Append(upto[i - 1], p[i])
                               ELSE upto[i - 1]
  IN upto[Len(p)]
Without(p, gone) == At(p, {i \in DOMAIN p : p[i].id \notin gone})
Size(s) == s.ctx + Cardinality(DOMAIN s.snaps)
Weight(p) ==
  LET upto[i \in 0..Len(p)] == IF i = 0 THEN 0 ELSE upto[i - 1] + Size(p[i])
  IN upto[Len(p)]
Fits(p, max) == Len(p) <= max /\ Weight(p) <= Budget

(* The slots that eviction drops, oldest first; `keep` is spared.          *)
Victims(p, keep, max) ==
  LET idle == At(p, {i \in DOMAIN p : ~p[i].busy /\ p[i].id # keep})
      left(k) == Without(p, Ids(First(idle, k)))
      enough(k) == Fits(left(k), max) \/ k = Len(idle) \/ Len(left(k)) <= 1
  IN First(idle, Min({k \in 0..Len(idle) : enough(k)}))
Evicted(p, keep, max) == Without(p, Ids(Victims(p, keep, max)))

Candidates(n, p, ids) ==
  {i \in DOMAIN p : Supplies(p[i], ids) > 0 /\ ~(p[i].busy /\ limit[n] = 1)}
Best(n, p, ids) ==      \* the most tokens; of those, the most recently used
  CHOOSE i \in Candidates(n, p, ids) : \A j \in Candidates(n, p, ids) :
    \/ Supplies(p[j], ids) < Supplies(p[i], ids)
    \/ Supplies(p[j], ids) = Supplies(p[i], ids) /\ j <= i
Reused(n, p, ids) == IF Candidates(n, p, ids) = {} THEN 0 ELSE Supplies(p[Best(n, p, ids)], ids)

RunningOn(n) == {r \in Reply : reply[r].node = n /\ reply[r].at # "done"}
Taken(n) == Ids(pool[n]) \cup Ids(store[n].queue) \cup {reply[r].id : r \in RunningOn(n)}
FreshId(n, p) ==
  LET known == Taken(n) \cup Ids(p)
  IN CHOOSE i \in 1..Cardinality(known) + 1 : i \notin known

(* `_take`: the pool with a slot for the prompt at its end, and the ids to *)
(* forget without a spill.  Out of reach of others: forked, or rewound.    *)
TakeSlot(n, p, i, q) ==
  LET s == p[i]
      k == Supplies(s, q.ids)
      continues == Shared(s, q.ids) + Least(TailTokens, s.plen \div 4) >= s.plen
      wanted == s.busy \/ (~continues /\ Len(s.tokens) - k >= ForkMin)
      fork(ctx) == Fork(s, k, ctx, FreshId(n, p))
  IN CASE s.ctx < q.ctx ->
            Append(IF continues /\ ~s.busy THEN Without(p, {s.id}) ELSE p, fork(q.ctx))
       [] s.ctx >= q.ctx /\ limit[n] > 1 /\ wanted -> Append(p, fork(s.ctx))
       [] OTHER -> Append(Without(p, {s.id}), Rewind(s, k))

(***************************************************************************)
(* SlotCodec and the files.                                                *)
(***************************************************************************)
KeepOf(s) == IF Hybrid THEN Max({0} \cup DOMAIN s.snaps) ELSE Len(s.tokens)
Encode(n, s) == [tokens |-> First(s.tokens, KeepOf(s)), kv |-> First(s.kv, KeepOf(s)),
                 clean |-> Least(s.clean, KeepOf(s)), snaps |-> s.snaps,
                 plen |-> Least(s.plen, KeepOf(s)), tag |-> s.tag, by |-> n, late |-> FALSE]
Decode(f, q, id) == [id |-> id, tokens |-> f.tokens, kv |-> f.kv, clean |-> f.clean,
                     state |-> <<>>,
                     snaps |-> f.snaps, plen |-> f.plen, ctx |-> q.ctx, tag |-> f.tag,
                     busy |-> FALSE]

Blocks(ids) == Len(ids) \div Block
SharedBlocks(f, ids) == Common(f.tokens, ids) \div Block
CoversAnyBranch(new, old) ==                             (* Mutant of Covers *)
  new.tag # None /\ new.tag = old.tag /\ Len(old.tokens) <= Len(new.tokens)
Covers(new, old) ==
  /\ new.tag # None /\ new.tag = old.tag /\ Len(old.tokens) <= Len(new.tokens)
  /\ SharedBlocks(old, new.tokens) = Blocks(old.tokens)

Except(files, names) == [x \in DOMAIN files \ names |-> files[x]]
Spilled(n, slots) == IF store[n].enabled THEN store[n].queue \o slots ELSE store[n].queue
WriterDone(n) == store[n].queue = <<>> /\ store[n].writing = NotWriting
Locked(n) == \E r \in RunningOn(n) : reply[r].at \in {"acquiring", "claimed"}
Admin == /\ history.admin < MaxAdmin
         /\ history' = [history EXCEPT !.admin = @ + 1]

SetPool(n, p, keep) ==
  /\ pool' = [pool EXCEPT ![n] = Evicted(p, keep, limit[n])]
  /\ store' = [store EXCEPT ![n].queue = Spilled(n, Victims(p, keep, limit[n]))]

(***************************************************************************)
(* PromptCache.acquire, under the pool's lock: cut trimmed messages out of *)
(* the chat's slot, wait for the writer, claim a file that shares more,    *)
(* take the best slot or a new one.                                        *)
(***************************************************************************)
Trimmed(p, q) ==
  LET told == {i \in DOMAIN p : p[i].tag = q.tag /\ ~p[i].busy /\ Gaps(p[i], q.ids) # {}}
  IN IF q.tag = None \/ told = {} THEN {p}
     ELSE {[p EXCEPT ![i] = ShiftOut(p[i], FindGap(p[i], q.ids))] : i \in told}

Acquire(r, n, q) ==
  /\ reply[r].at = "new" /\ ~Locked(n)
  /\ \E p \in Trimmed(pool[n], q) : pool' = [pool EXCEPT ![n] = p]
  /\ reply' = [reply EXCEPT ![r] = [@ EXCEPT !.at = "acquiring", !.node = n, !.ask = q]]
  /\ UNCHANGED <<kind, limit, store, forget, disk, history>>

(* The listed files sharing the most whole blocks, if more than the pool.  *)
Matching(n, listed, q) ==
  LET blocks(x) == SharedBlocks(listed[x], q.ids)
      more == {x \in DOMAIN listed : blocks(x) * Block > Reused(n, pool[n], q.ids)}
  IN {x \in more : \A y \in more : blocks(y) <= blocks(x)}

ReadInPlace(x) == UNCHANGED disk                         (* Mutant of Rename *)
Rename(x) == disk' = Except(disk, {x})

(* A file is chosen by the index, read again if it is old or has nothing.  *)
(* Of several nodes that chose a file the first to rename it has it.       *)
Miss(n, listed) == /\ store' = [store EXCEPT ![n].index = listed]
                   /\ UNCHANGED <<disk, history>>
Claim(r) ==
  LET n == reply[r].node IN
  /\ reply[r].at = "acquiring"
  /\ reply' = [reply EXCEPT ![r].at = "claimed"]
  /\ \/ ~store[n].enabled /\ Miss(n, store[n].index)
     \/ /\ store[n].enabled /\ WriterDone(n)
        /\ \E listed \in {store[n].index, disk} :
             LET found == Matching(n, listed, reply[r].ask) IN
             \/ found = {} /\ Miss(n, listed)
             \/ \E x \in found \ DOMAIN disk : Miss(n, Except(listed, {x}))
             \/ \E x \in found \cap DOMAIN disk :
                  /\ Rename(x)
                  /\ store' = [store EXCEPT ![n].index = Except(listed, {x}),
                                            ![n].claim = disk[x]]
                  /\ history' = [history EXCEPT !.claims = @ \cup {<<x, n>>}]
  /\ UNCHANGED <<kind, pool, limit, forget>>

(* A file too long for this num_ctx has been claimed for nothing.          *)
Restored(n, q) ==
  LET f == store[n].claim IN
  IF f = None \/ Len(f.tokens) > q.ctx THEN <<>> ELSE <<Decode(f, q, FreshId(n, pool[n]))>>

Take(r) ==
  LET n == reply[r].node
      q == reply[r].ask
      back == Restored(n, q)
      more == pool[n] \o back
      keep == IF back = <<>> THEN None ELSE back[1].id
      spare == IF back = <<>> THEN <<>> ELSE Victims(more, keep, limit[n])
  IN
  /\ reply[r].at = "claimed"
  /\ \E p \in IF back = <<>> THEN {pool[n]} ELSE Trimmed(Without(more, Ids(spare)), q) :
       LET hit == Candidates(n, p, q.ids) # {}
           used == IF hit THEN TakeSlot(n, p, Best(n, p, q.ids), q)
                   ELSE Append(p, NewSlot(FreshId(n, p), q))
           mine == used[Len(used)]
           dropped == IF mine.id \in Ids(p) THEN <<>> ELSE Victims(used, mine.id, limit[n])
           end == [used EXCEPT ![Len(used)].busy = TRUE, ![Len(used)].plen = Len(q.ids),
                               ![Len(used)].tag = IF q.tag = None THEN @ ELSE q.tag]
       IN /\ pool' = [pool EXCEPT ![n] = Without(end, Ids(dropped))]
          /\ store' = [store EXCEPT ![n].queue = Spilled(n, spare \o dropped), ![n].claim = None]
          /\ reply' = [reply EXCEPT ![r].at = "prefill", ![r].id = mine.id,
                                    ![r].from = Len(mine.tokens)]
  /\ UNCHANGED <<kind, limit, forget, disk, history>>

(***************************************************************************)
(* ChatEngine.stream_steps on the worker's thread: the prompt in pieces,   *)
(* then one token at a time.  A stop or an error between the layers leaves *)
(* the committed length, and a recurrent state that is neither.            *)
(***************************************************************************)
Mine(r) == CHOOSE i \in DOMAIN pool[reply[r].node] : pool[reply[r].node][i].id = reply[r].id
Cuts(q, from) ==
  LET last == Len(q.ids)
      step == {e \in from + 1 .. last : (e - from) % Chunk = 0}
  IN {last} \cup step \cup
     (IF Hybrid /\ last > TailSnapshot + from THEN {last - TailSnapshot} ELSE {})

Advanced(s, toks) ==
  [s EXCEPT !.tokens = @ \o toks, !.kv = @ \o toks,
            !.clean = IF @ = Len(s.kv) THEN @ + Len(toks) ELSE @,
            !.state = IF Hybrid THEN @ \o toks ELSE <<>>]
Capture(s) ==
  LET all == [p \in DOMAIN s.snaps \cup {Len(s.kv)} |->
                IF p = Len(s.kv) THEN s.state ELSE s.snaps[p]]
      newest == {p \in DOMAIN all : Cardinality({o \in DOMAIN all : o > p}) < MaxSnapshots}
  IN IF Hybrid THEN [s EXCEPT !.snaps = [p \in newest |-> all[p]]] ELSE s

Prefill(r) ==
  LET n == reply[r].node
      q == reply[r].ask
      i == Mine(r)
      start == Len(pool[n][i].tokens)
      end == Min({c \in Cuts(q, reply[r].from) : c > start})
      s == Capture(Advanced(pool[n][i], SubSeq(q.ids, start + 1, end)))
  IN
  /\ reply[r].at = "prefill" /\ ~Locked(n)
  /\ IF Hybrid THEN SetPool(n, [pool[n] EXCEPT ![i] = s], s.id)
     ELSE pool' = [pool EXCEPT ![n][i] = s] /\ UNCHANGED store
  /\ reply' = [reply EXCEPT ![r].at = IF end = Len(q.ids) THEN "decode" ELSE "prefill"]
  /\ UNCHANGED <<kind, limit, forget, disk, history>>

Room(r) == Len(reply[r].made) < Least(MaxNew, reply[r].ask.ctx - Len(reply[r].ask.ids))
Decode1(r, t) ==
  LET n == reply[r].node IN
  /\ reply[r].at = "decode" /\ Room(r) /\ ~Locked(n)
  /\ pool' = [pool EXCEPT ![n][Mine(r)] = Advanced(@, <<t>>)]
  /\ reply' = [reply EXCEPT ![r].made = Append(@, t)]
  /\ UNCHANGED <<kind, limit, store, forget, disk, history>>

KeepOverLimit(r, p) ==                                   (* Mutant of Release *)
  LET n == reply[r].node IN
  /\ pool' = [pool EXCEPT ![n] = [p EXCEPT ![Mine(r)].busy = FALSE]]
  /\ reply' = [reply EXCEPT ![r] = [NewReply EXCEPT !.at = "done"]]
  /\ UNCHANGED store
Release(r, p) ==
  /\ SetPool(reply[r].node, [p EXCEPT ![Mine(r)].busy = FALSE], None)
  /\ reply' = [reply EXCEPT ![r] = [NewReply EXCEPT !.at = "done"]]

(* The end token, or no room for another; the last token is not committed. *)
Finish(r) ==
  /\ reply[r].at = "decode" /\ ~Locked(reply[r].node)
  /\ Release(r, pool[reply[r].node])
  /\ UNCHANGED <<kind, limit, forget, disk, history>>

Stop(r) ==
  LET n == reply[r].node IN
  /\ reply[r].at \in {"prefill", "decode"} /\ ~Locked(n) /\ Admin
  /\ Release(r, [pool[n] EXCEPT ![Mine(r)].state = IF Hybrid THEN <<"mixed">> ELSE <<>>])
  /\ UNCHANGED <<kind, limit, forget, disk>>

(***************************************************************************)
(* The writer thread of a node: encode, write and rename, list, clean up.  *)
(***************************************************************************)
EncodeNext(n) ==
  LET s == Head(store[n].queue)
      drop == KeepOf(s) < MinPersist \/ s.tag \in store[n].forgotten
  IN
  /\ store[n].queue # <<>> /\ store[n].writing = NotWriting
  /\ store' = [store EXCEPT ![n].queue = Tail(@),
                 ![n].writing = IF drop THEN NotWriting ELSE [at |-> "encoded", file |-> Encode(n, s)]]
  /\ UNCHANGED <<kind, pool, limit, forget, disk, reply, history>>

Place(n) ==
  LET w == store[n].writing
      x == Len(history.saved) + 1
      file == [w.file EXCEPT !.late = @ \/ w.file.tag \in store[n].forgotten]
  IN
  /\ w.at = "encoded" /\ x <= MaxFiles
  /\ disk' = [y \in DOMAIN disk \cup {x} |-> IF y = x THEN file ELSE disk[y]]
  /\ store' = [store EXCEPT ![n].writing = [at |-> "placed", name |-> x, file |-> file]]
  /\ history' = [history EXCEPT !.saved = Append(@, file)]
  /\ UNCHANGED <<kind, pool, limit, forget, reply>>

(* Listed; and what is to go is decided in the same critical section: the  *)
(* new file if its chat was forgotten meanwhile, the files it covers.      *)
KeepForgotten(n, w) == {}                                (* Mutant of Gone *)
Gone(n, w) == IF w.file.tag \in store[n].forgotten THEN {w.name} ELSE {}
List(n) ==
  LET w == store[n].writing
      listed == [y \in DOMAIN store[n].index \cup {w.name} |->
                   IF y = w.name THEN w.file ELSE store[n].index[y]]
      old == {y \in DOMAIN store[n].index \ {w.name} : Covers(w.file, store[n].index[y])}
  IN
  /\ w.at = "placed"
  /\ store' = [store EXCEPT ![n].index = listed,
                 ![n].writing = [at |-> "listed", doomed |-> Gone(n, w) \cup old]]
  /\ UNCHANGED <<kind, pool, limit, forget, disk, reply, history>>

(* Over the budget the oldest listed files go, on the owner of the lease.  *)
OverBudget(listed) ==
  {x \in DOMAIN listed : Cardinality({y \in DOMAIN listed : y > x}) >= DiskBudget}
CleanUp(n) ==
  LET w == store[n].writing
      left == Except(store[n].index, w.doomed)
      over == IF n = Cleaner THEN OverBudget(left) ELSE {}
  IN
  /\ w.at = "listed"
  /\ disk' = Except(disk, w.doomed \cup over)
  /\ store' = [store EXCEPT ![n].index = Except(left, over), ![n].writing = NotWriting]
  /\ UNCHANGED <<kind, pool, limit, forget, reply, history>>

(***************************************************************************)
(* PersistentCacheStore.forget and clear (tag None), on an HTTP thread:    *)
(* read the directory, sync the index with what was read, mark the chat    *)
(* and note the listed files, remove them.                                 *)
(***************************************************************************)
ReadDirectory(n, tag, on) ==
  /\ forget[n].at = "no" /\ Admin
  /\ forget' = [forget EXCEPT ![n] = [at |-> "read", names |-> DOMAIN disk, tag |-> tag]]
  /\ store' = [store EXCEPT ![n].enabled = on]
  /\ UNCHANGED <<kind, pool, limit, disk, reply>>
Forget(n, tag) == tag # None /\ ReadDirectory(n, tag, store[n].enabled)
Clear(n) == ReadDirectory(n, None, store[n].enabled)
Disable(n) == store[n].enabled /\ ReadDirectory(n, None, FALSE)

Sync(n) ==
  LET seen == forget[n].names
      new == (seen \cap DOMAIN disk) \ DOMAIN store[n].index
      kept == seen \cap DOMAIN store[n].index
  IN
  /\ forget[n].at = "read"
  /\ store' = [store EXCEPT ![n].index =
       [x \in kept \cup new |-> IF x \in kept THEN store[n].index[x] ELSE disk[x]]]
  /\ forget' = [forget EXCEPT ![n].at = "synced"]
  /\ UNCHANGED <<kind, pool, limit, disk, reply, history>>

Mark(n) ==
  LET tag == forget[n].tag
      listed == store[n].index
  IN
  /\ forget[n].at = "synced"
  /\ store' = [store EXCEPT ![n].forgotten = IF tag = None THEN @ ELSE @ \cup {tag}]
  /\ forget' = [forget EXCEPT ![n] = [at |-> "marked", tag |-> tag, names |->
       {x \in DOMAIN listed : tag = None \/ listed[x].tag = tag}]]
  /\ UNCHANGED <<kind, pool, limit, disk, reply, history>>

Remove(n) ==
  /\ forget[n].at = "marked"
  /\ disk' = Except(disk, forget[n].names)
  /\ store' = [store EXCEPT ![n].index = Except(@, forget[n].names)]
  /\ forget' = [forget EXCEPT ![n] = NoCall]
  /\ UNCHANGED <<kind, pool, limit, reply, history>>

(***************************************************************************)
(* Other calls on a node's pool, and the end of its process.               *)
(***************************************************************************)
SpillChat(n, tag) ==
  LET moving == At(pool[n], {i \in DOMAIN pool[n] : pool[n][i].tag = tag /\ ~pool[n][i].busy}) IN
  /\ ~Locked(n) /\ moving # <<>> /\ Admin
  /\ pool' = [pool EXCEPT ![n] = Without(@, Ids(moving))]
  /\ store' = [store EXCEPT ![n].queue = Spilled(n, moving)]
  /\ UNCHANGED <<kind, limit, forget, disk, reply>>

SetLimits(n, max) ==
  LET out == Victims(pool[n], None, max) IN
  /\ ~Locked(n) /\ max # limit[n] /\ Admin
  /\ limit' = [limit EXCEPT ![n] = max]
  /\ pool' = [pool EXCEPT ![n] = Without(@, Ids(out))]
  /\ store' = [store EXCEPT ![n].queue = Spilled(n, out)]
  /\ UNCHANGED <<kind, forget, disk, reply>>

(* persist_all: the model is retired once no reply runs, and loaded again. *)
Unload(n) ==
  /\ RunningOn(n) = {} /\ pool[n] # <<>> /\ Admin
  /\ pool' = [pool EXCEPT ![n] = <<>>]
  /\ store' = [store EXCEPT ![n].queue = Spilled(n, pool[n])]
  /\ UNCHANGED <<kind, limit, forget, disk, reply>>

(* RAM is gone, with the forgotten chats; the start drops the node's own   *)
(* unfinished files and claims and cleans up whoever owns the lease.       *)
Restart(n) ==
  LET over == OverBudget(disk) IN
  /\ Admin
  /\ pool' = [pool EXCEPT ![n] = <<>>]
  /\ disk' = Except(disk, over)
  /\ store' = [store EXCEPT ![n] = [IdleStore EXCEPT !.index = Except(disk, over),
                                                     !.enabled = store[n].enabled]]
  /\ forget' = [forget EXCEPT ![n] = NoCall]
  /\ reply' = [r \in Reply |->
                 IF r \in RunningOn(n) THEN [NewReply EXCEPT !.at = "done"] ELSE reply[r]]
  /\ UNCHANGED <<kind, limit>>

Tags == {q.tag : q \in Request}

Next ==
  \/ \E r \in Reply :
       \/ \E n \in Node, q \in Request : Acquire(r, n, q)
       \/ Claim(r) \/ Take(r) \/ Prefill(r) \/ Finish(r) \/ Stop(r)
       \/ \E t \in Token : Decode1(r, t)
  \/ \E n \in Node :
       \/ EncodeNext(n) \/ Place(n) \/ List(n) \/ CleanUp(n)
       \/ Clear(n) \/ Disable(n) \/ Sync(n) \/ Mark(n) \/ Remove(n)
       \/ Unload(n) \/ Restart(n)
       \/ \E t \in Tags : Forget(n, t) \/ SpillChat(n, t)
       \/ \E max \in MaxSlots : SetLimits(n, max)

Spec == Init /\ [][Next]_vars
-----------------------------------------------------------------------------
InUse(r) == reply[r].at \in {"prefill", "decode"}
SlotOf(r) == pool[reply[r].node][Mine(r)]

(* Whatever was reused, cut, copied, shifted or restored, a running reply  *)
(* continues from keys and values (and a recurrent state) of its own       *)
(* prompt and tokens, each at its place, and of nothing else.  They are    *)
(* those that reading the text from scratch would have left, except behind *)
(* the first cut of a trimmed chat: there they carry a trace of the tokens *)
(* cut out (the shift is approximate).  Such a cut never reaches the first *)
(* token, nor a model that cannot shift its cache, and a reply comes by it *)
(* only with the tokens it reuses.                                         *)
ReuseIsOwnText ==
  \A r \in Reply : InUse(r) =>
    LET s == SlotOf(r)
        text == reply[r].ask.ids \o reply[r].made
    IN /\ s.kv = First(text, Len(s.kv)) /\ s.tokens = s.kv
       /\ Hybrid => s.state = s.kv
       /\ reply[r].at = "decode" => s.kv = text
       /\ \/ s.clean = Len(s.kv)
          \/ kind = "plain" /\ 0 < s.clean /\ s.clean < reply[r].from

(* What a slot says it holds (and can be rewound to) is what it holds,     *)
(* wherever the slot is: in the pool, on its way to disk, or in a file.    *)
TellsItsContent(s) == /\ s.kv = s.tokens
                      /\ \A p \in DOMAIN s.snaps : p <= Len(s.tokens) /\ s.snaps[p] = First(s.kv, p)
SlotsTellTheirContent ==
  /\ \A n \in Node :
       /\ \A i \in DOMAIN pool[n] : TellsItsContent(pool[n][i])
       /\ \A i \in DOMAIN store[n].queue : TellsItsContent(store[n].queue[i])
  /\ \A x \in DOMAIN disk : TellsItsContent(disk[x])

(* Once a node's replies have ended its pool is within the limits (one     *)
(* conversation is kept even if it alone is over the budget).              *)
QuietPoolFits ==
  \A n \in Node : RunningOn(n) = {} /\ Len(pool[n]) > 1 => Fits(pool[n], limit[n])

(* A saved conversation goes back into the RAM of one node only.           *)
OneNodeRestores ==
  \A c, d \in history.claims : c[1] = d[1] => c[2] = d[2]

(* A spill overtaken by a forget of its chat does not outlive its write.   *)
OvertakenSpillsGo ==
  \A x \in DOMAIN disk :
    LET by == disk[x].by IN
    disk[x].late /\ disk[x].tag \in store[by].forgotten
      => store[by].writing # NotWriting \/ forget[by].at = "marked"

(* A saved branch of a chat disappears only because it was restored,       *)
(* forgotten, dropped by the limits, or by a save of the chat that holds   *)
(* all of its whole blocks: one that differs within them is kept, one that *)
(* differs behind them is not, although its tokens are no prefix of the    *)
(* new save's.  The limits are kept on the files the owner of the lease    *)
(* lists: some of them may be gone since it last read the directory.       *)
BranchesAreKept ==
  [][\A x \in DOMAIN disk \ DOMAIN disk' :
       \/ \E n \in Node : forget[n].at = "marked" /\ x \in forget[n].names
       \/ history'.claims # history.claims
       \/ x \in OverBudget(disk) \cup OverBudget(store[Cleaner].index)
       \/ \E n \in Node : disk[x].tag \in store[n].forgotten
       \/ \E y \in DOMAIN history.saved :
            /\ y # x /\ history.saved[y].tag = disk[x].tag
            /\ Common(disk[x].tokens, history.saved[y].tokens) >= Blocks(disk[x].tokens) * Block]_vars

(* Once a node has forgotten a chat, and is neither writing nor removing   *)
(* files, the directory holds no file of the chat that this node wrote.    *)
ForgottenStaysGone ==
  \A n \in Node, x \in DOMAIN disk :
    disk[x].by = n /\ disk[x].tag \in store[n].forgotten
      => store[n].writing # NotWriting \/ forget[n].at = "marked"
=============================================================================
