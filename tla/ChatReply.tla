------------------------------- MODULE ChatReply -------------------------------
(***************************************************************************)
(* Replies of one loaded chat model: prompts prefilled in pieces on a new  *)
(* or a reused cache, tokens sampled, decode steps alone or in a batch     *)
(* (ChatEngine, BatchDecoder), through the layers of the architectures     *)
(* and their caches (KVCache, NemotronHHybridCache), and the text that     *)
(* comes out (ReplyText).  The worker's one thread does it all: a forward  *)
(* is one step.                                                            *)
(*                                                                         *)
(* A number a layer computes for a token stands for what it was computed   *)
(* from: it is the text up to that token, as one forward over the whole    *)
(* text would have it, or Garbage.                                         *)
(***************************************************************************)
EXTENDS ReplyText

CONSTANTS
  Reply,
  Plans,           \* settings: records with requests, layers, own, hybrid, batches, faults, prompt,
                   \* predict, tokens, bytes and format
  NumCtx,          \* positions of a cache
  Kernel,          \* tokens a recurrent layer's convolution sees
  PlainChunk, HybridChunk, TailOffset,  \* PLAIN_PREFILL_CHUNK, PREFILL_CHUNK, TAIL_SNAPSHOT_OFFSET
  MaxFused,        \* MAX_FUSED_QUERY_TOKENS
  MaxBatch, MaxSnapshots,
  Garbage, None

ASSUME ReplyAssumption ==
  /\ Kernel > 1 /\ PlainChunk > 0 /\ HybridChunk > 0 /\ MaxBatch > 0 /\ MaxSnapshots > 0
  /\ \A p \in Plans : \A r \in Reply : Len(p.prompt[r]) \in 1..NumCtx

VARIABLES
  plan,   \* the setting
  reply,  \* [Reply -> how far it is]
  cache   \* [Reply -> the cache it uses, or left in the pool]

vars == <<plan, reply, cache>>

Layers == DOMAIN plan.layers
Kind(l) == plan.layers[l].kind     \* "attention", "recurrent" or "mlp"
Window(l) == plan.layers[l].window \* of sliding attention, else 0
OwnKeys == {l \in Layers : Kind(l) = "attention" /\ l <= plan.own}
Zero == << >>

NewCache ==
  [len |-> 0, ids |-> << >>, snapshots |-> << >>,
   keys |-> [l \in OwnKeys |-> [p \in 1..NumCtx |-> Zero]],
   state |-> [l \in {l \in Layers : Kind(l) = "recurrent"} |->
                [conv |-> [i \in 1..Kernel - 1 |-> Zero], sum |-> Zero]]]

NewReply == [at |-> "new", text |-> << >>, start |-> 0, reused |-> 0, logits |-> None,
             stream |-> NewStream(NoTools), shown |-> << >>]
Init ==
  /\ plan \in Plans
  /\ reply = [r \in Reply |-> NewReply]
  /\ cache = [r \in Reply |-> None]

-----------------------------------------------------------------------------
(* Layers.  A row is one reply's part of a forward: its new tokens' values *)
(* x, its cache, and the keys other layers borrow, sliding or not.         *)

(* A key or query of a value, rotated to its position. *)
Rotated(h, position) == IF h # Garbage /\ Len(h) = position + 1 THEN h ELSE Garbage

(* What the architecture wants a token at position i to see. *)
Sees(i, window) == {j \in 0..i : window = 0 \/ j > i - window}
AttentionOf(query, keys, seen, window) ==
  IF query # Garbage /\ seen = Sees(Len(query) - 1, window)
       /\ \A j \in seen : keys[j + 1] = UpTo(query, j + 1)
  THEN query ELSE Garbage

(* What new token t of a forward sees: by the mask, or in the fused kernels. *)
Masked(t, offset, kvLen, window) ==
  {j \in 0..kvLen - 1 : j <= t + offset /\ (window = 0 \/ j > t + offset - window)}
Fused(t, offset, kvLen, window) ==
  LET limit == Min({t + offset + 1, kvLen})
      start == IF window > 0 THEN Max({t + offset + 1 - window, 0}) ELSE 0
  IN {j \in 0..kvLen - 1 : start <= j /\ j < limit}

(* A batch's keys are padded to the longest row's. *)
Padded(keys, end, longest) == [p \in 1..longest |-> IF p <= end THEN keys[p] ELSE Zero]

Attention(row, l, position, longest, alone) ==
  LET n == Len(row.x)
      offset == row.cache.len
      turned == [t \in 1..n |-> Rotated(row.x[t], position + t - 1)]
      keys == [p \in 1..NumCtx |-> IF p \in offset + 1..offset + n THEN turned[p - offset]
                                   ELSE row.cache.keys[l][p]]
      view == IF l \in OwnKeys THEN Padded(keys, offset + n, longest) ELSE row.shared[Window(l) > 0]
      seen == [t \in 1..n |-> IF alone /\ n <= MaxFused
                              THEN Fused(t - 1, offset, Len(view), Window(l))
                              ELSE Masked(t - 1, offset, Len(view), Window(l))]
      provides == l = (IF Window(l) > 0 THEN plan.own - 1 ELSE plan.own)
  IN [x |-> [t \in 1..n |-> AttentionOf(turned[t], view, seen[t], Window(l))],
      cache |-> IF l \in OwnKeys THEN [row.cache EXCEPT !.keys[l] = keys] ELSE row.cache,
      shared |-> IF provides THEN [row.shared EXCEPT ![Window(l) > 0] = view] ELSE row.shared]

(* Mamba-2 and gated DeltaNet: a convolution over the last inputs, which   *)
(* the cache carries from one forward to the next, and a running sum.      *)
Recurrent(row, l) ==
  LET x == row.x
      before == row.cache.state[l]
      inputs == before.conv \o x
      Wanted(h) == [i \in 1..Kernel |-> UpTo(h, Max({0, Len(h) - Kernel + i}))]
      Absorb(sum, h) == IF h # Garbage /\ sum # Garbage /\ sum = Front(h) THEN h ELSE Garbage
      Sum(t) == FoldLeft(Absorb, before.sum, UpTo(x, t))
      Out(t) == IF Sum(t) # Garbage /\ SubSeq(inputs, t, t + Kernel - 1) = Wanted(x[t])
                THEN x[t] ELSE Garbage
  IN [row EXCEPT !.x = [t \in DOMAIN x |-> Out(t)],
        !.cache.state[l] = [conv |-> From(inputs, Len(inputs) - Kernel + 2), sum |-> Sum(Len(x))]]

(* The first layers of a forward: `upto` of them when it is cut short. *)
Forward(row, position, upto, longest, alone) ==
  LET Layer(before, l) ==
        CASE Kind(l) = "attention" -> Attention(before, l, position, longest, alone)
          [] Kind(l) = "recurrent" -> Recurrent(before, l)
          [] Kind(l) = "mlp" -> before
  IN FoldLeft(Layer, row, [l \in 1..upto |-> l])

Row(r, first, last) ==
  [x |-> [t \in 1..last - first |-> UpTo(reply[r].text, first + t)],
   cache |-> cache[r], shared |-> [sliding \in BOOLEAN |-> << >>]]

-----------------------------------------------------------------------------
(* Caches. *)

(* KVCache.advance and PromptCache.advanced: after the whole forward. *)
Advanced(c, tokens) == [c EXCEPT !.len = @ + Len(tokens), !.ids = @ \o tokens]

(* PromptCache.capture: a hybrid cache's newest snapshots. *)
Captured(c) ==
  IF ~plan.hybrid THEN c
  ELSE LET all == [n \in DOMAIN c.snapshots \cup {c.len} |-> IF n = c.len THEN c.state ELSE c.snapshots[n]]
           kept == {n \in DOMAIN all : Cardinality({m \in DOMAIN all : m >= n}) <= MaxSnapshots}
       IN [c EXCEPT !.snapshots = [n \in kept |-> all[n]]]

(* CacheSlot.match: the prompt's last token is always computed again. *)
Match(c, prompt) ==
  LET common == Max({n \in 0..Min({Len(c.ids), Len(prompt) - 1}) : UpTo(c.ids, n) = UpTo(prompt, n)})
  IN IF plan.hybrid THEN Max({0} \cup {n \in DOMAIN c.snapshots : n <= common}) ELSE common

(* CacheSlot.rewind, in place, and fork, which copies n positions only. *)
TruncatedOnly(c, n) ==  \* a mutant
  [c EXCEPT !.len = n, !.ids = UpTo(@, n),
     !.snapshots = [m \in {m \in DOMAIN @ : m <= n} |-> @[m]]]
Rewound(c, n) ==
  [c EXCEPT !.len = n, !.ids = UpTo(@, n),
     !.snapshots = [m \in {m \in DOMAIN @ : m <= n} |-> @[m]],
     !.state = IF plan.hybrid THEN c.snapshots[n] ELSE @]
Forked(c, n) ==
  [Rewound(c, n) EXCEPT !.keys = [l \in OwnKeys |-> [p \in 1..NumCtx |-> IF p <= n THEN @[l][p] ELSE Zero]]]

-----------------------------------------------------------------------------
(* Replies. *)

Started(r, reused) ==
  reply' = [reply EXCEPT ![r].at = "prefill", ![r].text = plan.prompt[r], ![r].start = reused,
              ![r].reused = reused, ![r].stream = NewStream(plan.format)]

(* PromptCache.acquire: which slot serves best is its own matter. *)
BeginCold(r) ==
  /\ reply[r].at = "new" /\ r \in plan.requests
  /\ cache' = [cache EXCEPT ![r] = NewCache]
  /\ Started(r, 0) /\ UNCHANGED plan
BeginReusing(r, o) ==
  /\ reply[r].at = "new" /\ r \in plan.requests /\ cache[o] # None
  /\ LET n == Match(cache[o], plan.prompt[r])
     IN /\ n > 0 /\ Started(r, n)
        /\ \/ cache' = [cache EXCEPT ![r] = Forked(cache[o], n)]
           \/ /\ reply[o].at \in {"ended", "failed"}
              /\ cache' = [cache EXCEPT ![r] = Rewound(cache[o], n), ![o] = None]
  /\ UNCHANGED plan

(* The text goes out; an error takes what was still held back with it. *)
Ended(r, failed) ==
  [NewReply EXCEPT !.at = IF failed THEN "failed" ELSE "ended", !.text = reply[r].text,
     !.shown = IF failed THEN << >> ELSE Finish(plan.format, reply[r].stream)]

(* A forward cut short after some of its layers, by a stop, or by an error, *)
(* which leaves the same: what those layers wrote stays in the cache,       *)
(* behind its length.                                                       *)
CutShort(r, row, position) ==
  /\ plan.faults
  /\ \E upto \in 0..Len(plan.layers) :
       /\ cache' = [cache EXCEPT ![r] = Forward(row, position, upto, cache[r].len + Len(row.x), TRUE).cache]
       /\ reply' = [reply EXCEPT ![r] = Ended(r, upto = 0)]

(* ChatEngine._prefill_cuts *)
Cuts(r) ==
  LET end == Len(plan.prompt[r])
      chunk == IF plan.hybrid THEN HybridChunk ELSE PlainChunk
  IN {end} \cup {cut \in reply[r].reused + 1..end : (cut - reply[r].reused) % chunk = 0}
       \cup {cut \in {end - TailOffset} : plan.hybrid /\ cut > reply[r].reused}

Prefill(r) ==
  LET start == reply[r].start
      end == Min({cut \in Cuts(r) : cut > start})
      row == Row(r, start, end)
      done == Forward(row, start, Len(plan.layers), cache[r].len + end - start, TRUE)
  IN /\ reply[r].at = "prefill"
     /\ \/ /\ cache' = [cache EXCEPT ![r] =
                          Captured(Advanced(done.cache, SubSeq(plan.prompt[r], start + 1, end)))]
           /\ reply' = [reply EXCEPT ![r].start = end, ![r].logits = Last(done.x),
                          ![r].at = IF end = Len(plan.prompt[r]) THEN "sampling" ELSE "prefill"]
        \/ CutShort(r, row, start)
     /\ UNCHANGED plan

Generated(r) == Len(reply[r].text) - Len(plan.prompt[r])
MaxNew(r) == Min({plan.predict, NumCtx - Len(plan.prompt[r])})

Sample(r) ==
  /\ reply[r].at = "sampling" /\ Generated(r) < MaxNew(r)
  /\ \E token \in plan.tokens :
       reply' = [reply EXCEPT ![r].at = "decoding", ![r].text = Append(@, token), ![r].logits = None,
                   ![r].stream = Push(plan.format, @, plan.bytes[token])]
  /\ UNCHANGED <<plan, cache>>
(* An end token, which is neither shown nor kept, or no room for more. *)
EndOfTurn(r) ==
  /\ reply[r].at = "sampling"
  /\ reply' = [reply EXCEPT ![r] = Ended(r, FALSE)]
  /\ UNCHANGED <<plan, cache>>

(* A decode step for some of the replies that wait for one. *)
Newest(r) == Row(r, Len(reply[r].text) - 1, Len(reply[r].text))
Decoded(r, done) == [done EXCEPT !.cache = Advanced(@, <<Last(reply[r].text)>>)]
DecodeAlone(r) ==
  /\ reply[r].at = "decoding"
  /\ \/ LET done == Decoded(r, Forward(Newest(r), cache[r].len, Len(plan.layers), cache[r].len + 1, TRUE))
        IN /\ cache' = [cache EXCEPT ![r] = done.cache]
           /\ reply' = [reply EXCEPT ![r].at = "sampling", ![r].logits = Last(done.x)]
     \/ CutShort(r, Newest(r), cache[r].len)
  /\ UNCHANGED plan
(* One forward for all of them: no stop is looked at, an error is everyone's. *)
DecodeBatch(rs) ==
  LET longest == Max({cache[r].len + 1 : r \in rs})
      After(r, upto) == Forward(Newest(r), cache[r].len, upto, longest, FALSE)
  IN /\ plan.batches /\ \A r \in rs : reply[r].at = "decoding"
     /\ \/ LET done == [r \in rs |-> Decoded(r, After(r, Len(plan.layers)))]
           IN /\ cache' = [r \in Reply |-> IF r \in rs THEN done[r].cache ELSE cache[r]]
              /\ reply' = [r \in Reply |-> IF r \in rs
                             THEN [reply[r] EXCEPT !.at = "sampling", !.logits = Last(done[r].x)]
                             ELSE reply[r]]
        \/ /\ plan.faults
           /\ \E upto \in 0..Len(plan.layers) :
                cache' = [r \in Reply |-> IF r \in rs THEN After(r, upto).cache ELSE cache[r]]
           /\ reply' = [r \in Reply |-> IF r \in rs THEN Ended(r, TRUE) ELSE reply[r]]
     /\ UNCHANGED plan

(* A stop noticed between two steps. *)
Stop(r) ==
  /\ plan.faults
  /\ reply[r].at = "decoding" \/ (reply[r].at = "prefill" /\ reply[r].start > reply[r].reused)
  /\ reply' = [reply EXCEPT ![r] = Ended(r, FALSE)]
  /\ UNCHANGED <<plan, cache>>

Next ==
  \/ \E r \in Reply : \/ BeginCold(r) \/ Prefill(r) \/ Sample(r) \/ EndOfTurn(r)
                      \/ DecodeAlone(r) \/ Stop(r)
  \/ \E r \in Reply, o \in Reply : BeginReusing(r, o)
  \/ \E rs \in kSubset(MaxBatch, Reply) : DecodeBatch(rs)

Spec == Init /\ [][Next]_vars

-----------------------------------------------------------------------------
(* Every token is sampled from what one forward over the whole text so far *)
(* would have given: however it was split and batched, on whichever cache  *)
(* it began, and whatever was cut short on that cache before.              *)
SampledFromTheWholeText ==
  \A r \in Reply : reply[r].at = "sampling" => reply[r].logits = reply[r].text

(* The user is shown what the reply's bytes say up to the first that is no *)
(* character, wherever tokens end: nothing of it is lost or repeated, and  *)
(* no markup of a call is shown.  Of its tags only those may show that are *)
(* torn, whose <| or |> began in one token and ended in the next: there    *)
(* the filter buffers nothing (special_token_filter.py:32 and 48).         *)
ShownAsPromised ==
  \A r \in Reply :
    reply[r].at = "ended" =>
      LET tokens == From(reply[r].text, Len(plan.prompt[r]) + 1)
          Bytes(k) == FoldLeft(LAMBDA all, t : all \o plan.bytes[t], << >>, UpTo(tokens, k))
          text == Promised(plan.format, Bytes(Len(tokens)))
          ends == {Len(Characters(Bytes(k))) : k \in DOMAIN tokens}
          torn == {tag \in Tags(text) : tag[1] \in ends \/ tag[2] - 1 \in ends}
      IN \E leaked \in SUBSET torn : reply[r].shown = Without(text, Tags(text) \ leaked)
=============================================================================
