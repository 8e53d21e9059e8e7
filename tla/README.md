# A TLA+ model of matricxon

matricxon is an LLM inference server in Python. One server loads GGUF models and answers chat and
embedding requests; several of them form a cluster whose shared facts (who is a member, which node
holds which lease, shared settings) live in a log replicated by the server's own Multi-Paxos,
`src/app/consensus`. These modules model the consensus core and what is built on it, the serving of
models (manager, workers, prompt caches, downloads), and the parts of the inference engine in which
order and bookkeeping matter: how replies reuse caches and are split into pieces, how weights are
loaded, and where the bits of packed weights are read. TLC checks them on small instances, and TLAPS
proves the main properties of the Paxos core, of its compaction, of the control plane above it, of the
serving of models, of the prompt caches, of the models folder and of the loading of weights for every
number of voters, slots, epochs, requests, nodes, layers and crashes.

To repeat a check: `tlc -config X.cfg M` for the module and configuration in the table of runs, and
`tlapm M.tla` for the proofs, with M one of `PaxosEpochSafety`, `PaxosEpochLog`,
`PaxosCompactionProofs`, `ClusterLogProofs`, `ModelServingProofs`, `PromptCachesProofs`,
`ModelLibraryProofs` and `WeightLoadingProofs`.

## Inventory

### The consensus core (`src/app/consensus`)

| Part | State | Operations | Correct when | Modelled in |
|---|---|---|---|---|
| Acceptor (`acceptor.py`) | promised ballot, accepted value per slot (durable), floor | prepare, accept | a promise binds, also through crashes; nothing already chosen is forgotten | `PaxosEpoch`, `PaxosCompaction` |
| Proposer (`proposer.py`, `roles.py`) | role, own ballot, promises collected, commands in flight with their acceptances, next free slot | start campaign, on promise/become leader, propose, resend, on accepted, on nack, step down | at most one command per ballot and slot; later ballots keep what was chosen | `PaxosEpoch` |
| Node (`node.py`, `pending.py`) | leader followed and its ballot, highest round seen, commands not yet applied, queue of messages to itself | submit, abandon, receive, tick, forward | an outranked node gives up; a command is applied at most once | `PaxosEpoch`, `ClusterLog` |
| Replica (`replica.py`) | chosen log (durable), next slot, results by command id, epoch, members | commit, advance, reconfigure, rotate, install, replay | replicas agree; a restart resumes in the same state | `PaxosEpoch`, `PaxosCompaction`, `ClusterLog` |
| Snapshots (`snapshots.py`) | base, waiting snapshot | compact, serve, install | what is dropped is never needed again | `PaxosCompaction` |
| Store (`storage.py`) | the journal | save, compact, load | everything saved precedes the reply that depends on it | as durability in `PaxosEpoch`, `PaxosCompaction` |
| Timing (`quorum.py`, `catchup.py`, `timers.py`) | who was heard when, whom to ask for the log | step down without majority, back off, pull | somebody eventually leads; everybody eventually catches up | as steps that may come at any time |
| Runtime (`runtime.py`) | a lock, a bounded queue per peer, a ticking thread | submit and wait, handle, send | what a caller is told is what happened | `ClusterLog` |
| Leases (`lease.py`) | `lease/<name>` in the replicated store, clocks | acquire, renew by compare-and-set | at most one holder at a time within clock error | `ClusterLog` |
| Voters (`voters.py`, `voter_keeper.py`, `learners.py`) | voter list, nodes removed on purpose | add, remove, leave, promote, replace | a node removed on purpose is not promoted again | `ClusterLog` |
| Recovery (`recovery.py`) | the journal of one node | force a new group | only after the old majority is gone for good | `ClusterLog` |

Nodes interact by messages alone, over HTTP requests that may be lost, repeated, delayed and
reordered. Inside a node all handlers run under the runtime's lock, one after another; messages of a
handler to its own node go into a queue that is emptied before the lock is released. Threads of the
server submit commands and wait for their results under a timeout.

### Serving

| Part | State | Operations | Correct when | Modelled in |
|---|---|---|---|---|
| `models/manager.py` | loaded models, one load lock per tag, cancelled requests and loads | get or load, unload, evict, cancel | no model is retired under a reply; no model is lost; every request ends | `ModelServing` |
| `models/worker.py` | job queue, active jobs, stop flags, busy count | stream, run, cancel, shut down | each job ends once with its sentinel; a stop hits only the jobs it was meant for | `ModelServing` |
| `runtime/prompt_cache.py` | cached prefixes (slots), owners, byte counts | acquire, release, fork, shift, evict, spill | what is reused is the prompt's own text, as reading it would have computed it (behind a context shift: approximately) | `PromptCaches` |
| `runtime/cache_store.py` | files of cached prefixes shared by processes | write, take (claim by rename), forget, clear, limit | a file is taken by one reader; a forgotten chat stays forgotten | `PromptCaches` |
| `runtime/chat_engine.py`, `batch_decoder.py`, caches of `architectures` | keys, values and recurrent states per layer | prefill in pieces, sample, decode alone or in a batch | each token comes from the whole text before it | `ChatReply` |
| `runtime/reply_text_stream.py` and the filters it joins | undecoded bytes, held-back characters | decode, drop tags, hold back calls | what is shown is what the whole text promises, wherever tokens end (but for tags that come apart) | `ReplyText`, `ChatReply` |
| `pull/`, `models/catalog.py` | one lock per destination, partial files, sidecars, aliases | pull, delete, copy, prune | one download per file; a listed model is complete | `ModelLibrary` |
| `architectures/*`, `models/load_dtype.py` | parameters, mapped file, loader waiting for the first forward | build, place, materialize, close | every parameter is filled from the file; a stopped load can be repeated | `WeightLoading` |
| `gguf/dequant/*`, `architectures/quantized_*`, `torch_dequant.py` | none | read packed blocks in three ways | all three read the same numbers | `PackedBlocks`, `PackedReads` |
| `cluster/` | files in a shared directory, shared settings | activate, join, reset, rearrange | one node founds the cluster | not modelled |
| `routers/` | none of their own | HTTP handlers | a disconnected client's job is cancelled | as cancels and gone clients |

`schemas`, `server`, `storage` and `config.py` are start-up and data definitions, and `vision` and
`native` compute with numbers only.

### What is hard here

`PROJECT.json` lists the hazards with their lines. For the core: crashes between sending and saving,
ballots reused after a crash, gaps in the log when leadership moves, outranked leaders that have not
noticed, lagging nodes serving or claiming old slots, compaction while others catch up, commands
chosen behind the end of an epoch, callers that gave up on a command which is applied all the same,
clocks in leases, and read-then-write sequences over the replicated list of marks. For serving:
handing out a model that is being retired, stop flags that hit the wrong job, cached prefixes that
claim more than they hold, files claimed, forgotten and listed by several processes, downloads whose
client, connection, disk or lease goes away in the middle. For the engine: replies cut short in a
forward, batches padded to the longest row, markup split over tokens, loads repeated after a stop,
hand-made lists and hand-made offsets that must agree with each other.

## Modules

| Module | Content |
|---|---|
| `PaxosEpoch` | one epoch: all message handlers, timers, client calls, crash and restart; its properties |
| `ChosenLog` | the abstract log an epoch implements: a slot is decided once, replicas learn decisions |
| `PaxosCompaction` | `PaxosEpoch` with snapshots: rotate, compact, serve, install |
| `PaxosEpochInv` | the inductive invariant `IInv` |
| `PaxosEpochSafety`, `PaxosEpochLog` | the proofs: types, `IInv` and the safety properties; promises, replay and the refinement of `ChosenLog` |
| `PaxosCompactionInv`, `PaxosCompactionProofs` | the invariants of compaction, and what a promise may forget (`ForgottenVote`); the proofs |
| `ClusterLog` | epochs, replicas, submit, leases, voter changes and their keeper, recovery by force |
| `ClusterLogInv`, `ClusterLogProofs` | its inductive invariant `Inv`; the proofs, with the refinement of `OneHistory` |
| `OneHistory` | what the cluster promises over all that: one growing sequence of effects, each command in it once |
| `ModelServing` | model manager and worker threads of one node |
| `ModelServingInv`, `ModelServingProofs` | its inductive invariant `ServingInv`; the proofs |
| `PromptCaches` | the pools in memory, the shared directory, the replies using them |
| `PromptCachesInv`, `PromptCachesProofs` | its inductive invariant `CachesInv`; the proofs |
| `ModelLibrary` | the models folder: pulls, deletes and copies, one file operation at a time |
| `ModelLibraryInv`, `ModelLibraryProofs` | its inductive invariant `LibraryInv`; the proofs |
| `ReplyText`, `ChatReply` | the text of a reply as functions; replies on layers and caches |
| `WeightLoading` | the life of a model's parameters, fifteen architectures |
| `WeightLoadingInv`, `WeightLoadingProofs` | what loaders owe to constructors, its inductive invariant `LoadInv`; the proofs |
| `PackedBlocks`, `PackedReads` | layouts of packed weights as read by three implementations; a loaded model's reads |
| `MC*` | instances for TLC |

`PaxosCompaction` extends `PaxosEpoch`. `ClusterLog` stands on `ChosenLog`'s abstraction: the
refinement checked in run `compaction` says what one epoch's Paxos amounts to, and `ClusterLog` starts from
there. `ChatReply` extends `ReplyText`; `PackedReads` joins `WeightLoading` and `PackedBlocks`.
`PromptCaches` and `ChatReply` look at the same code from two sides: the first keeps the pool's and
the directory's bookkeeping and takes a cache's content as a sequence of tokens, the second opens
the cache up into layers and takes the choice of the slot as given.

### PaxosEpoch and PaxosCompaction

Durable: `promised`, `accepted`, `chosen` are the fields of `EpochState`. Volatile: `nextSlot` and
`results` are `Replica.next_slot` and the keys of `_results`; `floor` is `Acceptor.floor`;
`maxRound` is `_max_round`; `prop[n]` holds `role` and the `Campaign` or `Leadership` object that
exists in it; `leader` and `leaderBallot` are whom the node follows; `pending` is
`PendingCommands`; `local` is the queue `_local`. `msgs` is the wire. Ballots are
`<<round, node>>` pairs compared as the code's tuples are; node ids are numbers because they are
compared. Each handler `_on_x` is one action `OnX` with the calls it makes, such as
`Acceptor.prepare` inside `OnPrepare` or `Replica.commit` with its `_advance` inside `OnAccepted`.
`tick` does several independent things when their deadlines have passed; each is an action, since
each may be due alone.

- **The network.** `msgs` only grows and any message in it may be handled any number of times or
  never: loss, duplication, delay and reordering at once. Repeating a message already sent is not a
  step, which is why `_resend_unchosen` and repeated heartbeats have no action, and why
  `CatchUpPolicy.pull`, which repeats a request, is covered by a request that stays on the wire.
  Limits on how much one answer carries (`catchup_batch`, `SEND_EVERY`) are losses, and so is the
  oldest message a full peer queue drops.
- **Handlers and crashes.** A handler is one step. What it sends to other nodes is on the wire when
  it ends; what it sends to its own node is in `local`, and a crash may come before that is handled.
  While `local[n]` is not empty the node handles nothing else, as `_drain` does. `local` is a
  set where the code has a queue: its messages may be handled in any order, a superset of the
  code's orders.
- **Time.** There is no clock. A deadline may pass at any moment: a node may campaign, retry, send
  heartbeats or give up for lack of a majority whenever its role allows it. Heartbeat
  acknowledgements feed only the clock-based `QuorumWatch` and are left out.
- **Commands** are identified by their id; what the machine computes from them is a function of the
  log and so of `results` and `nextSlot`. A snapshot is its slot and the results at it.
- **Restart.** `Restart` leaves `nextSlot` and `results` as they are where the code rebuilds them by
  replaying the log. `BaseAndLogRebuild` (in one epoch without compaction: `ReplayExact`) is exactly
  the statement that the replay gives the same values.
- `OnCatchUp` has no batch limit and `Learn` has no exception: where the code would raise
  `SafetyViolation` the model leaves the log alone, and `NeverSafetyViolation` looks at the messages
  instead.

### ClusterLog

`log[e + 1]` is the gapless sequence of commands chosen in epoch e; `at[n]` is node n's `Replica`
with the parts of `ClusterStateMachine` looked at (one lease, the marks of removed nodes) and, as a
history variable, `passed`, the effects it went through. `Learn` is `Replica._advance` by one
command: apply once, refuse a change computed in another epoch, seal the epoch by one of this. What
was chosen behind the sealing command is never looked at; its submitter submits again.

`sent` are the commands any leader may still propose. A command stays in it for ever, also after its
caller gave up: that is a forward still on its way, an abandoned command still pending somewhere, a
retry. `Choose` appends a command while a majority of the epoch's voters is still in that epoch and
alive; a node that has applied it does not propose it again, others may (`PendingCommands`,
`Replica` remembers results for exactly this). `call[c]` is a thread of the server: `submit` with its
timeout (`Told`, `GiveUp`), `LeaseKeeper.tick` on its node's clock `now + skew`, `VoterChanges.add`,
`remove` and `leave` with the marks before and after them, `VoterKeeper.step`. A thread reads its own
node's replica, which may lag: nothing keeps it fresh. `ForceNewGroup` cuts the survivor's journal
to what it went through and appends the command that makes it the only voter; all other nodes are
lost from then on.

Left out: `Leases.release`, which nothing calls; the cluster id and its keeper; the addresses in the
node list; two operators' leaves at once (see "Divergences"). The keeper believes it leads whenever
its node is a voter.

### ModelServing

`resident` is `_handles`, `stoppedLoads` and `noted` are `_cancelled_loads` and `_cancelled_requests`,
`closed` the handles whose weights were closed. `call[c].at` is the program counter of a request's
thread through `get_or_load` (`EnterLoad`, `Evict`, `Lookup`, `StartLoading`, `Load` or `LoadFails`),
the router's checks after it (`CheckChat`, `CheckGenerate`, `CheckEmbed`) and the start of the stream on
the event loop (`BeginChat`, `Submit`). `worker[h]` is the thread of a handle: `Pick` takes the first
job, `Admit` the further ones, `Advance` moves one reply by a token, `Round` ends the round. When
`Admit` finds the stop flag up it ends all active replies and lowers the flag, but the round still goes
over every one of them, as in `_run`. `Advance` of a reply that has ended records nothing; of one that
had not started before the stop (`Leftover`) it stands for a first piece that really runs, on weights
that an unload may be closing. `Retire` is `shutdown`, which appends the sentinel, with the closing of
the weights. Unloads, cancels of a reply's own id and the expiry sweep come from other threads. Each
step is what one thread does between two points where another may see or change the shared fields.

Time is abstracted: an idle model may have outlived its keep-alive at any moment, and any idle model
may be the least recently used. `set_limits` and `set_max_active` change what is a constant here.

### PromptCaches

`pool[n]` is the list of a node's `CacheSlot`s in the order of last use, `store[n]` its
`PersistentCacheStore` (queue of spills, what the writer is at, the index, forgotten chats, the current
claim), `forget[n]` a forget, clear or disable between its steps, `disk` the shared directory. A slot's
`tokens` are what the code says of it; `kv`, `state` and `snaps` what was computed in it. They are
sequences of tokens too, so that a wrong cut, copy or restore shows as a difference. `clean` counts the
positions, from the first, whose keys were computed with nothing visible but the tokens before them: a
context shift (`ShiftOut`) cuts the sequence and leaves exact only what lies before the cut, since the
kept keys behind it "carry a trace" of the dropped tokens (`prompt_cache.py:159-160`). Reading on makes
nothing exact again; a fork, a rewind, a spill and a restore carry `clean` along. The best slot is
chosen by tokens and not by tag, so such keys may also reach another chat that shares the text up to
there. `kind` is a plain cache, a `"rigid"` one of a model without rotations or with the shift turned
off, or a hybrid one; only the first is shifted. `Acquire` with `Claim` and `Take` is
`PromptCache.acquire` with the directory, `Prefill` and `Decode1` grow the slot, `Finish` and `Stop`
release it. `EncodeNext`, `Place`, `List`, `CleanUp` are the writer; `ReadDirectory`, `Sync`, `Mark`,
`Remove` the forget. Sizes count positions and snapshots, and the disk's budget is in files; encryption,
unreadable files, the time-to-live of files and the diagnosis of a miss (log text) are left out.

### ModelLibrary

`dest` and `partial` are the directory entries of a tag's file, `data` the blocks of each inode,
`sidecar` and `alias` the catalog, `registry` and `owner` the slots and locks of each node's
`DownloadCoordinator`, `holder` the owner of the pull lease. `req[j].at` is the program counter of a
request: for a pull from `Resolve` through slot, lock, `FindFile`, `OpenPartial` (resume, restart or
append), `Chunk`, `Rename` with its digest, to `WriteSidecar` and `TellSuccess`; for a delete or a
copy the look at the aliases, the unlinks and the pruning. Steps end between file operations, where
another thread, node or crash may come in. Chunks may be damaged, connections break, disks be full,
clients go. What a tag means at Hugging Face is one step that may fail (external).

### ReplyText and ChatReply

`ReplyText` has `IncrementalTextDecoder`, `ToolCallScanner` and `SpecialTokenTextFilter` as functions of
a stream's state and the next piece, and beside them `Promised`, what the user should see, defined over
the whole text at once: the text before the first invalid byte (the decoder shows nothing behind it),
without call markup; `Tags` are the tags in it. `ShownAsPromised` compares the two: what is shown is
`Promised` without its tags, except that a tag may show whose `<|` or whose `|>` began in one token and
ended in the next, for those the filter does not hold back (`special_token_filter.py:48`). A tag cut
anywhere else never shows, and no text is lost. In `ChatReply` a reply has its text, its logits and its
stream, and `cache[r]` what each layer holds: keys per position, a convolution window and a running sum
for a recurrent layer. A number stands for what it was computed from: the text up to a token, as one
forward over the whole text would have it, or `Garbage`; attention gives `Garbage` unless the keys it
sees, by the mask or by the fused kernel's limits, are exactly those the architecture wants.
`BeginReusing` takes over another reply's cache, rewound or forked; `CutShort` ends a forward after any
layer. `DecodeBatch` pads the rows as `BatchDecoder` does.

Left out: the context shift (it keeps keys computed from text that is gone, an approximation by
design), images, the numbers, the rope's formula, which slot the pool picks, sampling and penalties,
log probabilities, speculative decoding, embeddings and reranking.

### WeightLoading, PackedBlocks, PackedReads

`value` says for each parameter how it was filled: still unset, loaded from the file, derived (the
rope's frequencies), a view into the mapped file, packed rows, moved to a device, released. `PlaceOn`
moves every tensor to the device, the placeholders of the big matrices included, as line 55 of
`device_placement.py` does.
`FromGguf`, `PlaceOn`, `StartLoad`, `LoadPart(i)` per layer, `Finish` and `Close` are the steps
of `ModelManager._load`, `place_on`, `_ensure_materialized` and `close`; a stop may come before any
layer, and the next forward starts over. Which parameters a constructor allocates and a loader
fills is written down per architecture, from its file. `CountedPacked` is the memory guard's own
list (`load_dtype.py`).

`PackedBlocks` gives each of the 22 formats' numpy strategies, the 22 fused kernels and the 13 torch
functions as a layout: for each output, the bits that make up its quant, sign, scale and minimum.
`Sound` says that each output is written once and each bit of the block belongs to one field (Q8_K's
sums are for kernels this code has not, and exempt), `KernelAgrees` and `TorchAgrees` that the
layouts are equal. `PackedReads` lets a loaded model's forwards read through them: the prompt by the
strategy, further tokens by the kernel, a device by torch. Lookup tables' contents, rounding, the
order of additions, arithmetic in the C kernels and row order are left out.

## Runs

| Run | Question | Bounds |
|---|---|---|
| `scenes` | two campaigners with a command each and crashes; or two leaders in turn with heartbeats, forwarding, catch-up, lost majorities: can two commands be chosen, a ballot propose twice, a promise be broken, something unchosen be learned, an outranked bidder go on? | 3 voters, 1 slot, 1 round per node, 2 commands, 1 crash |
| `compaction` | a leader proposes two slots, the second alone may have been accepted when another takes over: is the gap filled without losing a command? or node 1 compacts while node 3 catches up by snapshot and log, one crash of either: same slot, same state; can a restart always rebuild? In both: does the epoch implement `ChosenLog`, is `IInv` an invariant? | 3 voters, 2 slots, 1 round per node, 2 commands, a snapshot per slot, 1 crash |
| `compaction_laggard` | the same compaction with the lagging node campaigning instead: a violation | as above, no crash |
| `cluster` | retries, timeouts, epochs, leases, removals and a forced group: one history? is a caller told the truth? one lease holder? does a leaver stay out? | 5 settings of 2 threads, 2-3 nodes, 2 submissions each, lease of 2 ticks, clocks at most 1 apart |
| `serving` | eviction, expiry, unload, cancel and failing loads around two requests: is a model retired under its replies or lost, does a stop hit another, does everybody end? | 2 models, room for 1, a chat and an embedding, 1 token each, 2 loads, 1 expiry, 1 unload |
| `serving_lost_reply` | does every submitted reply end? a violation | the same, no expiry |
| `serving_unmapped` | are weights only closed when no worker touches them? a violation | the same, no expiry |
| `caches` | two nodes, one directory, caches of three kinds: is what a reply reuses its own text, and exact but for what a shift left? are claims exclusive and branches kept? | 2 replies over 4 prompts of one chat, 1-2 slots, 3 files for a budget of 2, 1 administration call or crash, 1 new token |
| `caches_forget_race` | does a forgotten chat stay forgotten? a violation | one node |
| `library` | overlapping pulls, deletes and copies: one writer, whole files, truthful success, aliases with models, every pull ends | 1 model and 1 alias, 3 requests, 2 chunks, 1 crash or move of the lease, 2 nodes |
| `reply` | is each token sampled from the whole text before it; is the text shown what the whole text promises, wherever tokens end? | 3 stacks of 2-4 layers, 3 replies, 7 positions, batches of 2; 5 texts of 4 formats, 6 tokens |
| `weights` | is every parameter filled, the estimate right, the file mapped as long as needed, a stopped load harmless; do the readers agree? | 15 architectures in up to 4 modes, 392 models, 2-3 layers, 2 stops, 22 formats |

**Why the bounds suffice for what the runs ask.**

- *Paxos.* With three voters a majority is two and any two majorities share one voter. One round per
  node gives two ballots, `<<1, 1>>` and `<<1, 2>>`, one outranking the other: what a later ballot
  must respect is decided by a pair of ballots, and reuse of a ballot needs only one. A slot's
  history does not depend on other slots except through the plan's filling of gaps, for which two
  slots are the smallest case. Snapshots at every slot (`SnapshotEvery = 1` instead of 5000) make a
  base move after two slots. `Events` names what may happen where, so that a run spends its states
  on one conflict. What small bounds leave open is answered by the proofs, which have none.
- *Cluster.* Each hazard is between two threads, and the five settings (`MCPlans`) are these pairs: two
  lease keepers, a removal on purpose beside the voter keeper, an addition beside a removal, one node
  taken out twice, a lease and a removal with a group forced in the middle; in two of them a command may
  be chosen twice. Two submissions per thread allow one retry or a change with its mark. `Remembered`
  (10000 in the code) is 8 and never reached, see "Not modelled".
- *Serving.* One model too many for the room makes eviction happen whenever a second is asked for;
  two requests for one tag meet at the load lock, for two at the eviction. One token leaves a round
  in which a stop can come before, in and after it.
- *Caches.* The four prompts are the ways a chat comes back: next turn, branch, trimmed. Limits of
  one and two slots make eviction and forks happen; three files against a budget of two make the
  directory drop one.
- *Library.* Three requests are the fewest in which a lock's slot can be dropped and made anew while
  someone waits for the old one. Two chunks separate a half file from a whole one.
- *Reply.* A window of 2 and a convolution over 3 tokens are shorter than the texts, chunks of 2 and 3
  end inside them. Two of the five alphabets hold the characters of a marker or a tag one by one
  (`<`, `|`, `>`, `t`, with `{}` for a call's body), so that six tokens split them at every place, also
  between `<` and `|`; they also hold the pairs `<|` and `|>`, or both halves of a character and a byte that
  is none.
- *Weights.* Layers of one kind behave alike, so two or three show each; two stops give a load
  repeated from a load that was itself a repetition. Formats and architectures are all there.

**Smaller searches.** Some runs fix an order between steps that commute, so that fewer interleavings are
looked at. `DrainFirst` (the gap in `compaction`): a node empties its own queue, or crashes, before
another node moves; handling one's own message reads only one's own variables and adds messages.
`RoundsFirst` (`serving`): a worker's finished round ends before anything else moves; it touches only
what its own worker reads. `ChatAsksA` (`serving`): the two models are alike, so the one the chat asks
for is called a; the embedding may ask for either. `RepliesFirst` (`caches`, with symmetry of the replies, which are
interchangeable): replies that can go on do so before writers and forgets move. `ResolvedFirst`
(`library`): resolving a tag touches nothing shared.

Four are bounds rather than reductions: `InOrder` (`library`, requests begin in a fixed order, though they
overlap in every way); `LastDamaged` (only the last chunk of a file is damaged); `RigidUndisturbed`
(`caches`, no administration call comes with a cache that cannot be shifted, since it differs from a
plain one in what replies do to it only); and `HybridUntrimmed` (`caches`, a trimmed prompt comes to
plain and rigid caches only, since to a hybrid one, which is never shifted, it is another branch).
`scenes` and `compaction` play one of two lists of `Events` per
behaviour. The other runs, and every proof, are for the full specifications.

`CHECK_DEADLOCK FALSE` is said where a system may really stop: when all requests, pulls, replies or
threads of the instance have ended, or the bound on loads is used up. The Paxos runs have it nowhere,
since a message can always be received again.

Each property is paired with a mutant in `PROJECT.json`: a definition changed the way a bug would
change it (half the voters as a majority, rounds forgotten in a restart, results forgotten at the end
of an epoch, a load without its lock, a stop of the worker instead of the reply, a file read instead
of claimed, a rename without the digest, a loader that forgets a bias, a kernel with its neighbour's
shift ...), under which TLC finds the property violated. The mutants stand next to the definitions
they replace.

## Refinements

- `PaxosEpoch` implements `ChosenLog` (`ImplementsLog` in `compaction`, also with slots compacted away):
  a slot's decision is the command a majority accepted under one ballot, a replica's log is a part of
  the decisions.
- `ClusterLog` implements `OneHistory` (`OneHistorySpec` in `cluster`): the effects gone through by
  the replica that is furthest are one sequence that only grows, with each command in it at most
  once; every other replica has gone through a part from its beginning. A group forced by hand may
  cut it back to what its survivor had gone through, and nothing else may.

## Findings

Four places where the code does other than it says, each with a run whose counterexample shows it
(`PROJECT.json`, `findings`).

**A compacted acceptor promises too little** (`compaction_laggard`). `Acceptor.accept` refuses slots
below the floor, `Acceptor.prepare` (`acceptor.py:26`) does not look at it. Once a node has
compacted, its promise leaves out what it accepted in the dropped slots, though these were chosen.
With voters 1, 2 and 3:

1. node 1 leads; slots 0 and 1 are chosen by nodes 1 and 2, node 3 saw none of it;
2. node 1 rotates twice and drops slot 0;
3. node 3 campaigns from slot 0; node 1 promises and reports nothing for slot 0, so node 3's plan
   has a no-op (or a command of its own) for it;
4. node 3 and a voter that has not dropped the slot accept it under the higher ballot: a second
   command is chosen, and its Commit meets the first in a replica that still has the slot.

`replica.py:12` says this is "Never expected". With `snapshot_every` at 5000 it takes a voter that
stayed behind for that long and wins an election before it has caught up. A promise that carried the
floor, or no promise for a `from_slot` below it, would close it. It is the only fault of this kind:
`ViolationNeedsForgottenVote` proves of the code as it is, for every value of the constants, that a
contradicting commit comes only after such a promise (`ForgottenVote`), and
`SameStateUntilForgottenVote` the same of replicas in different states. `compaction` shows that without
it, when the lagging node does not campaign before catching up, the replicas' states stay equal. That
every restart is possible is proved without condition.

**A reply on a model retired in between** (`serving_lost_reply`, `manager.py:304`). A handle just
handed out is not busy until its caller has queued a reply. Another request at `max_loaded` may find
it idle and retire it: the reply then lies behind the sentinel of a thread that has ended, and its
stream never ends. `EveryRequestSettles` and `RetiredPastItsReplies` in `serving` hold for all
requests but these (`history.late`).

**A stopped reply that still runs** (`serving_unmapped`, `worker.py:177`). `_run` takes jobs from the
queue, finds the stop flag up, finishes all of them and lowers the flag; then it advances each of them all
the same, and `WorkerJob.advance` does not look at `done`. A reply that had started has its generator
closed and runs no further, and one with a stop of its own is stopped again, but a reply that had not
started makes its generator and runs a first piece of prefill. The model counts as idle since the replies
were finished, so `unload` goes on and closes the weights, which "Waiting first means `close` runs after
the worker has stopped touching the weights" (`manager.py:172-173`) rules out.
`RetiredPastItsReplies` states what does hold: such a reply is always one that an unload of this very
model has stopped, and an evicted or expired model has none.

**A forget that overlooks a spill** (`caches_forget_race`, `cache_store.py:108`). `_refresh` lists the
directory and then reads which names are known. A spill renamed and listed by the writer in between
is known but not in the listing, so it is dropped from the index; the forget does not remove it, and
the writer checked for the forget before.

### Divergences met while modelling, without a run

Loading: `device_placement.py:55` moves the placeholders of the big matrices to the device too, which
reserves the whole model in bf16 there, where lines 35-38 say they stay behind; `gemma4.py:272` divides
the rope's frequencies in place, so a load repeated after a stop divides twice, where `base.py:190` says
repeating is harmless because "`.copy_` is idempotent"; `mistral3.py:177` reads `.weight.dtype` of a
module that a first, stopped load has replaced by a packed one, so every later forward raises;
`qwen2.py:149` loses the bias of v whenever v is packed, where `packed_weights.py:62` keeps biases;
`gemma4` with rope factors on a GPU divides a device buffer by factors on the CPU. The properties of
`weights` name these cases and claim the rest. Text: the regular expression for a tag's beginning in
`special_token_filter.py:48` does not hold back a lone `<` or a trailing `|`, nor does line 32 find a
tag whose `<` has gone by, so a tag that comes apart there is shown, against lines 7-11
(`ShownAsPromised` excepts these tags); in `tokenizer.py:157` one invalid byte keeps all later text in
the buffer, which `finish` does not flush. `Promised` follows the code there. Catalog and downloads: a
file with holes can be installed when the pull lease moves in the middle of a download, against
`lease.py:14-17` and `downloader.py:18-20`; a delete beside a copy leaves aliases without model, or a
sidecar without file; names that differ may collide after `_sanitize_tag`; some failures of a pull
escape the "in-band error line" of `job.py:24`. `WholeUnlessTheLeaseMoved` and `AliasesHaveModels` state
the conditions under which these do not happen. Caches: `cache_superseded.py:31-35` compares whole
blocks, so of two branches that part inside the last, incomplete block the older one is removed, where
lines 16-19 say that a file is superseded only if its tokens are a prefix of the new one's and that
another branch "is kept". In the run `caches` <<1, 2, 3>> goes for <<1, 2, 6, 7>> with blocks of 2;
`BranchesAreKept` states the rule by blocks. The disk budget is kept by what the cleaning node has in
its index (`cache_store.py:299`, `total` over `self._index`), and that may still list files other nodes
have taken since: the oldest conversation is then removed while the directory is within its budget,
where the docstring of `enforce_limits` says "until the total is within budget". With two replies and
three files this does not come up; the proof of `BranchesAreKept` did not go through, and a simulation
with three replies showed why, so the property names the index. A file is taken although it supplies no
more than the pool (`cache_tier.py:36`); a newer file of equal content may be dropped as superseded;
`may_clean` lets any node clean when it starts. Consensus: a heartbeat of a higher ballot makes a node
follow but does not raise its `_max_round` (`roles.py:68`, `120` and `137` do, for a Prepare, an Accept
and a Nack), so a node that lost its leader may campaign with a ballot below the one it followed, and is
outranked. `OutrankedGivesUp` states what does hold. Cluster: the keeper's promotion also removes a mark
set meanwhile; two leaves of different nodes at once lose a mark, since the list of marks is written
back as a whole.

## Fairness

The safety runs assume none: `Spec` allows stuttering for ever. Two runs have liveness properties.

- `ModelServing`: weak fairness of each request's thread, each worker's thread, callers of `unload`
  that may go on, and the sweep. These are operating-system threads: one that can run does. A
  request waiting for a load lock is not claimed to get it (`EveryRequestSettles` begins behind the
  lock), since the lock is not fair. No fairness is given to cancels, unloads or new requests.
- `ModelLibrary`: weak fairness of each request's thread. Downloads have a 30 s limit per read, so a
  chunk comes or an error does. A lock's waiter gets it because the finitely many others before it
  end.

Liveness of elections needs timing (the randomised waits of `timers.py`) and is not claimed.

## Proofs

The theorems hold for all values of the constants. What they assume is named in the modules:

- `PaxosEpoch`: the voters are a finite set of positive numbers, `NOOP` and `None` are not client
  commands, the bounds are natural numbers. So: any number of voters, slots, rounds and crashes, and
  every set of events.
- `ClusterLog`: a setting's first voters are some of its nodes, a node to add is one of its nodes, and no
  two clocks differ by more than the margin (`ClusterAssumption`): any number of nodes, threads,
  epochs and commands, any kinds of work. `OneHistoryHolds` also assumes `[]Short`: no replica has gone
  through more commands than it remembers results of (10000 in `replica.py`). Beyond that the code
  itself may let a command take effect again, so it is a hypothesis, and stated in the theorem.
- `ModelServing`: tags, requests and unloads are whatever they are, the limits are positive numbers,
  the model values that stand for "nothing" and for the sentinel are not tags, handles or requests.
- `PaxosCompaction`: a snapshot every one or more slots. All theorems are about the code as it is
  (`CSpec`). `RebuildInvariant` and `BaseAndLogRebuildHolds` are unconditional; `CompactionInvariant`,
  `ViolationNeedsForgottenVote` and `SameStateUntilForgottenVote` hold until a promise on the wire
  leaves out a vote that its sender had compacted away (`ForgottenVote`). After it they are false, see
  "A compacted acceptor promises too little".
- `PromptCaches`: finitely many replies, prompts of at least one token that fit their context, slot
  limits, blocks and pieces of at least one, natural numbers as the pool's and the disk's budget, a
  `None` that is neither node nor number (`CachesAssumption`): any nodes, replies, prompts, limits and
  any of the three kinds of cache.
- `WeightLoading`: a model is of one of the fifteen architectures, in a mode the code has for it, with
  any sequence of that architecture's kinds of layers (`ModelsAssumption`); what the file holds and
  which tensors have no kernel is left open. The theorems are about `Spec` of `WeightLoading`; the run
  `weights` adds the reads of `PackedReads`, which leave its variables alone.
- `ModelLibrary`: finitely many requests (the slots count them), `None` is none of the names, a hashed
  tag is a tag, a request asks for a pull of a tag, a delete of a name or a copy from name to name.

| Theorem | Module | Says |
|---|---|---|
| `TypeCorrect` | `PaxosEpochSafety` | `Spec => []TypeOK` |
| `InvariantHolds` | `PaxosEpochSafety` | `Spec => []IInv` |
| `AgreementHolds` | `PaxosEpochSafety` | no two replicas hold different commands for a slot |
| `OneProposalHolds` | `PaxosEpochSafety` | a ballot proposes one command per slot |
| `LaterBallotsHold` | `PaxosEpochSafety` | later ballots propose what was chosen |
| `LearnedIsChosenHolds` | `PaxosEpochSafety` | what a replica records, a majority accepted |
| `PromisesBindHolds` | `PaxosEpochLog` | nobody accepts below a promise it has sent (an action property) |
| `OutrankedHolds` | `PaxosEpochLog` | who promises or follows a higher ballot gives up its own (an action property) |
| `ReplayExactHolds` | `PaxosEpochLog` | a replay of the durable log gives `nextSlot` and `results` |
| `ImplementsLogHolds` | `PaxosEpochLog` | `PaxosEpoch` implements `ChosenLog` |
| `RebuildInvariant` | `PaxosCompactionProofs` | `CSpec => []RebuildInv` |
| `BaseAndLogRebuildHolds` | `PaxosCompactionProofs` | base and log rebuild a replica's state at every moment |
| `CompactionInvariant` | `PaxosCompactionProofs` | `CSpec => [](ForgottenVote \/ CompactionInv)` |
| `ViolationNeedsForgottenVote` | `PaxosCompactionProofs` | a commit contradicts what its receiver recorded only after a promise left out a compacted vote |
| `SameStateUntilForgottenVote` | `PaxosCompactionProofs` | until then replicas at the same slot are in the same state |
| `ClusterInvariant` | `ClusterLogProofs` | `Spec => []Inv` |
| `ToldIsTrueHolds` | `ClusterLogProofs` | what `submit` returns is what the command did, for everyone |
| `OneLeaseHolderHolds` | `ClusterLogProofs` | two nodes never rely on the lease at once |
| `OneHistoryHolds` | `ClusterLogProofs` | `ClusterLog` implements `OneHistory` |
| `ServingInvariant` | `ModelServingProofs` | `Spec => []ServingInv` |
| `NoModelIsLostHolds` | `ModelServingProofs` | every handle is resident, closed or in the hands of an unload |
| `RetiredPastItsRepliesHolds` | `ModelServingProofs` | no weights are closed under a reply that was there before, nor, but by an unload, under one a stop has ended |
| `OnlyTheAimedStopHolds` | `ModelServingProofs` | a reply is cut short only by what was meant for it |
| `CachesInvariant` | `PromptCachesProofs` | `Spec => []CachesInv` |
| `SlotsTellTheirContentHolds` | `PromptCachesProofs` | the tokens a slot or file tells are those whose keys and states it holds |
| `ReuseIsOwnTextHolds` | `PromptCachesProofs` | a running reply has its own text's keys and states, exact but for what it reused from behind a shift's cut |
| `QuietPoolFitsHolds` | `PromptCachesProofs` | once no reply runs, a pool is within its slots and bytes |
| `OneNodeRestoresHolds` | `PromptCachesProofs` | one node restores a saved conversation |
| `OvertakenSpillsGoHolds` | `PromptCachesProofs` | a spill overtaken by a forget of its chat goes |
| `BranchesAreKeptHolds` | `PromptCachesProofs` | a saved branch goes only for a reason (an action property) |
| `LibraryInvariant` | `ModelLibraryProofs` | `Spec => []LibraryInv` |
| `OneWriterPerNodeHolds` | `ModelLibraryProofs` | one pull of a node at a time works on a file |
| `WholeUnlessTheLeaseMovedHolds` | `ModelLibraryProofs` | installed files are whole while the lease stays |
| `SuccessMeansInstalledHolds` | `ModelLibraryProofs` | a success has left file and sidecar |
| `AliasesHaveModelsHolds` | `ModelLibraryProofs` | aliases have models while nobody is overtaken |
| `LoadInvariant` | `WeightLoadingProofs` | `Spec => []LoadInv` |
| `WeightsAreTheFilesHolds` | `WeightLoadingProofs` | every parameter is filled from the file before a forward computes |
| `EstimateMatchesLoadHolds` | `WeightLoadingProofs` | the memory guard's list counts packed what is kept packed |
| `MappedWhileNeededHolds` | `WeightLoadingProofs` | the file is mapped as long as needed, and no longer |
| `StoppedLoadLeavesNoTraceHolds` | `WeightLoadingProofs` | a load after stopped ones leaves what a single one would, but for three models |

### One epoch of Paxos

**The inductive invariant.** `Agreement` is not inductive: it speaks of what replicas recorded, while
the danger lies in what is still on the wire. `IInv` contains `TypeOK` and adds:

- for each message what its sender guaranteed. An Accept for slot s, ballot b, command c says
  `SafeAt(s, b, c)`: for each lower ballot there is a majority whose members have voted for c or will
  never vote. A promise is `Truthful`: it reports the sender's last vote, except for slots its
  receiver knows to be chosen (the code's `from_slot` leaves those out). A Commit has a majority;
- for each acceptor that its entries are votes it sent and not above its promise;
- for each candidate that nothing was proposed under its ballot yet, and that its own promise is
  saved or its own Prepare is still first in its queue. This makes the reuse of a ballot harmless: a
  node that crashed before saving its promise had not handled its own Prepare, and since
  messages to itself come before others, no promise was counted;
- for each leader that slots from `free` on are `FreeAt`: no majority can have chosen anything
  there below its ballot, and no Accept of its own ballot exists.

The proof has one lemma per action and, below it, one step per disturbed conjunct. Actions
that only add messages of harmless types share the lemmas on growth (`SafeAt`, `ChosenIn`, votes
persist when promises rise and messages accumulate). The crux, that a plan made from a majority of
promises gives `SafeAt`, takes for each lower ballot either the invariant of the reported best
entry or the promises of the majority itself.

`PromisesBind` and `ReplayExact` (that replaying the durable log gives `nextSlot` and `results`) use
`IInv` as it is: an acceptor's promise covers every Promise it has sent, and what a replica has recorded
is chosen. `OutrankedGivesUp` needs in addition that a bidder's ballot carries its own number
(`OwnBidInv`): only then is a message of a higher ballot somebody else's. For the refinement a slot's
decision is `Value(s)`, the command a majority accepted. A step that completes a majority maps to
`Decide`, one that records a decision in a replica to `Learn`, all others to stutters; that decisions
never change is `LaterBallotsKeepChosen` again, and that they are client commands or fillers is
`OriginInv`.

### Compaction

`RebuildInv` is the smaller invariant, and holds of the code as it is: besides what base and log
rebuild now (`LogAt`), the snapshot that waits to become the base already is what base and log
rebuild at its slot (`WaitingAt`). That is what `Rotate` needs when it drops the log below it.

For agreement the whole of `IInv` has to go through compaction, which drops what it speaks of. Four
of its parts therefore know the floor: a slot below it counts as known (`Known`, in `PrepareInv`,
`PromiseInv` and `ReplicaInv`), and an acceptor need not remember what it accepted there
(`AcceptedInv`). In `PaxosEpoch` alone every floor is 0 and these say what they said before
(`FreshInv`). `StartLogAt` then keeps `IInv` (`CutSafe`): what is dropped was applied, so decided, and
that it was is on the wire. The one step that fails is a promise for slots below the floor, which
reports nothing where there was a vote: there `Truthful` fails, and that is what `ForgottenVote` says of
the messages. Since messages stay and floors only rise, it stays true once it is (`ForgottenStays`), so
`ForgottenVote \/ CompactionInv` is inductive: a step of any node from a state with the invariant either
keeps it or makes such a promise (`CompactionStep`).

`StatesInv` adds that what every node has applied, keeps as base or waiting snapshot, or sends, is
the state of the decided commands below its slot (`StateAt`). Decisions only grow and a slot has one
(`StateStays`); applying decided slots leads from one such state to the next (`StateExtends`), from
whichever snapshot it starts. `SameSlotSameState` is then two states read at one slot.

### The control plane

Nodes are in different epochs, the logs of older epochs go on growing behind the command that sealed
them, and a forced group cuts them off: comparing two replicas, or a replica with the logs, leads
nowhere inductive. `Inv` says instead that there is one way through the logs: a sequence of replica
states from the first, each the one before with the next chosen command of its epoch taken in
(`WaySteps`), such that every node that is there is in one of them and some node in the last
(`WayNodes`). A state leaves out the voters a replica knows, since a learner starts out with none. The
invariant is an existential, `\E T : Way(T)`:

- a node behind others that takes in a command moves on to the next state, since the logs only
  grow (`LearnBehind`); the foremost adds one (`LearnAhead`);
- `ForceNewGroup` cuts the way off at the survivor's state, and the logs there;
- along the way positions rise, effects come only behind effects, and each lease takes the place of an
  earlier one that had run out on some clock, had no holder, or was the holder's own (`WayOrder`).

With it each property is a statement about two states of one sequence. `History` is what the last of
them has passed; a caller's result is among what its node has passed (`ToldInv`), so among that. Of two
holders one has the later state, so the other's lease is over on some clock, so not beyond the margin
on its own. For the refinement, `LearnAhead` maps to `Extend`, `LearnBehind` to `Follow`, a command
applied before to a stutter, `ForceNewGroup` to `Force`; that `Extend` adds a new command is where
`Short` comes in. `CommandInv` ties the leases on their way to the clock of the node that sent them: a
command chosen late, or in a later epoch, still replaces only a lease that was over when it was sent.

### Serving

`NoModelIsLost`, `RetiredPastItsReplies` and `OnlyTheAimedStop` hold for reasons far from what they
say, so `ServingInv` keeps for every request at each point of `get_or_load` what it relies on:

- `CallInv`: from the lookup on it has a tag, from then on a handle; only evictions have victims;
- `LockInv`: who is past `EnterLoad` and before the end of the load holds its tag's lock, alone, and
  has found the tag not resident, so a handle made is registered in a free place (this is where a load
  without its lock would lose one);
- `HandleInv`: handles are numbered as they are made; one resident is of one tag, not closed, and not
  taken by an unload;
- `RetireInv`: when a model is picked for retirement, by an eviction, the sweep or an unload that has
  waited, the replies on its worker are those submitted afterwards;
- `JobInv`: a job a worker has queued or admitted is of a request that was handed this very handle;
- `StopInv`: a worker's stop flag is up only when an unload aimed at it, a reply's only when its own
  id was cancelled, and a reply that was cut short had one or the other. So what `Advance` still runs
  for a moment after a stop (`Leftover`) is on a model that an unload aimed at.

There is one lemma per action and invariant. Actions that touch one request or one worker share
lemmas on what a step of that request or worker leaves alone.

### The prompt caches

Most of the code here moves slots about: it picks, forks, rewinds, cuts, evicts, encodes and decodes
them. `CachesInv` puts what each move relies on into the type of a slot and of a file, and relates the
pools, the replies, the writers and the directory:

- `TypeOK`: a `Slot` and a `File` are `Honest`: `tokens` are what `kv` holds, each snapshot is the state
  after its position and lies within the tokens, and only a hybrid model has any; all keys are exact
  (`Exact`) or, in a cache that can be shifted, those behind some position after the first are not
  (`Shifted`). Each helper has a
  lemma that it makes a slot of a slot (`RewindOf`, `ShiftOutOf`, `CaptureOf`, `EncodeOf`, `TakeSlotOf`
  and so on); a rewind that kept the snapshots behind it would fail there. The state itself may be
  `"mixed"` after a stop between layers: nothing promises more about a slot nobody uses;
- `PoolInv`: a pool has one slot per id, and every running reply a busy one of its own that holds the
  beginning of its text (`ReadSoFar`); inexact keys begin within what it reused. This makes eviction and
  other calls harmless: they leave busy slots alone (`UnusedVictims`, `ServesWithout`), and the slot
  another reply takes is forked if it is busy, or idle and so nobody's. An id is fresh for pool, queue
  and waiting replies (`FreshOf`);
- `NamesInv`: a file's name is given once and stands for one content, in the directory, in every
  index and at the writer, and a claimed name is never again in the directory;
- `DoomedInv`: what the writer is about to remove is of a chat forgotten on its node, or held by
  another file for all of its whole blocks. A list of superseded files may be old when it is used; that
  names are given once is why it still says the same;
- `LateInv`: a file placed after its chat was forgotten is being listed, doomed, or noted by a forget.
  If its node has restarted, it no longer counts as forgotten there, and a forget under way will see
  the file: it is in the listing read (`read`), and in the index after it (`synced`).

`ReuseIsOwnText` and `SlotsTellTheirContent` are then `PoolInv` and `TypeOK` read in one state,
`OvertakenSpillsGo` is `LateInv`. `OneNodeRestores` goes by induction beside `CachesInv`: a claim is of
a file that is there, so its name was not claimed before. `BranchesAreKept` looks at the four actions
that remove files. In its proof the budget of the directory came out wrong, see "Divergences".

`QuietPoolFits` needs a part of `PoolInv` that says who is busy: every busy slot is that of a running
reply. So in a pool without replies all slots are idle, and evicting goes on until it fits. Its weight
is a sum over the slots, which is a recursive function here too: that a pool restricted to some of
its slots weighs no more is shown by the same kind of induction.

`At`, which picks some places of a sequence in their order, is a recursive function; that it returns
a sequence of exactly these places is shown by induction over the positions, as well-foundedness of
a set of numbers (`SetInduction`), since the library's induction theorems take an operator.

### The models folder

`LibraryInv` has a part per property, on top of types and of where a request may stand with what it
was asked for (`ReqInv`):

- `SlotInv`: a slot's count is the number of pulls between `AcquireSlot` and `ReleaseSlot`, and whoever
  waits or works holds the lock the slot has. So a slot is dropped only when nobody is left who
  knows its lock, and a newcomer never gets another lock than those at work. Counting is by
  cardinality, which is why the number of requests is assumed finite;
- `WholeInv`, as long as the lease has not moved: all requests run on its owner, so `SlotInv` gives a
  file one writer; the file a pull writes is the one named `<dest>.partial`; no installed file is that
  of a partial entry; what the digest saw is in the file;
- `SuccessInv`: past the header the file is there, past the sidecar the sidecar too, or somebody who
  unlinked one has put the pull into `overtaken`;
- `SeenInv`: what `delete` and `copy` have looked at (no alias of the name, the source installed, the
  target's real model, which is not the name to be overwritten) still holds when they act. It is
  conditional on `overtaken` being empty: a step that changes the catalog leaves it empty only if no
  other request is running, so nobody else's look can have become stale.

### The loading of weights

The properties of `WeightLoading` come down to hand-made lists that must agree: what a constructor
allocates, what a loader fills, what the memory guard counts. `LoaderOK` states this contract for one
kind of layer, and there is one lemma per architecture (`LlamaOK`, `Gemma4OK` and so on) that its
loader keeps it: everything allocated is filled or derived (`Complete`), no bias goes with a packed
projection but qwen2's (`KeepsBiases`), buffers changed in place are gemma4's (`RopeOK`), the suffixes
name what may stay packed and nothing else (`Listed`). Since the lemmas are per kind of layer, they
hold for models of any depth and order of layers.

`LoadInv` then says of every parameter that it holds what a single load of an untouched model would
leave in it, or, if the running load has not got there, what the constructor left (`ValueInv`); and
relates the mapping, the pending loader and the mark of kept views to the phase (`PhaseInv`). A load
that starts over finds either of the two, and filling leads from both to the same, except in the
buffers scaled in place.

### What is only model-checked

- `NeverSafetyViolation` and `SameSlotSameState` without the disjunct `ForgottenVote`: false in general,
  and checked in `compaction` for the behaviours in which the lagging node does not campaign. The
  disjunction itself was also searched over `LaggardSpec`, whose behaviours do reach a `ForgottenVote`.
- `LeaverStaysOut` of `ClusterLog`: it depends on who is asked to do what, and does not hold for every
  setting (a node added again by hand after it left is a voter again, as it should be), so it is
  checked in the settings of `cluster`.
- Liveness (`EveryRequestSettles`, `EveryPullEnds`, that every reply ends): liveness under fairness and
  `ENABLED` are beyond the prover.
- `ShownAsPromised` and `SampledFromTheWholeText` of `ChatReply`: they say what folds and recursive
  operators compute over a whole text, and induction over such data is out of reach of the installed
  provers.
- `KernelsAgree` and `EveryBitOnce` of `PackedReads`: facts about 22 given layouts, without a
  parameter that a proof could generalise; TLC evaluates all of them.

## Not modelled, and why

- Consensus: encoding, authentication, status pages and probes (no state of their own); the journal's
  bytes (torn last line, rewrite by rename); peer queues and HTTP, as losses; a message of the newer
  epoch with ballot ZERO that tells a stale node of it (`node.py:222`) and, delayed, may be taken as
  a leader's (`roles.py:150`); the bound of 10000 remembered results.
- `cluster/`: readiness, shared settings, provisioning, reset and the diagnosis commands. They are
  sequences of file operations started by an operator; `readiness.activate`, which checks and then
  writes who founds the cluster, is the one with a hazard.
- HTTP routers, server start, settings, schemas: they call what is modelled; a client that goes away
  is a cancel in `ModelServing` and a gone client in `ModelLibrary`.
- Of the engine: arithmetic, shapes, rounding, lookup tables, the C kernels, GGUF headers, vision,
  encoders' forwards, sampling, penalties, log probabilities, speculative decoding, embeddings and
  reranking: functions of one request's numbers, for which model checking has nothing to explore.
- Of the modelled components: what the sections above leave out.

## Plan

Done: one epoch, compaction, epochs and configuration, serving, caches, downloads, replies, weights.

Proved: the safety of one epoch and its refinement of `ChosenLog`; compaction, agreement and equal states
until a promise forgets a vote; the refinement of `OneHistory` by `ClusterLog`, `ToldIsTrue` and
`OneLeaseHolder`; all safety properties of `ModelServing`, `ModelLibrary`, `PromptCaches` and
`WeightLoading`.

Next, if the code changes or the project grows: `LeaverStaysOut` under conditions on who is asked to
do what; `cluster/readiness.py`; the heartbeat of ballot ZERO across epochs; the runs
`compaction_laggard` and `serving_unmapped` turned into passing ones once `Acceptor.prepare` looks at the
floor and `_run` leaves out of the round what it has just finished.
