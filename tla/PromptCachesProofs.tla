-------------------------- MODULE PromptCachesProofs --------------------------
(***************************************************************************)
(* Proofs about PromptCaches: slots and files tell their content, a reply  *)
(* that reuses a slot goes on as if it had read its prompt from scratch, a *)
(* quiet pool is within its limits, one node restores a file, and a file   *)
(* goes only for a reason.                                                 *)
(***************************************************************************)
EXTENDS PromptCachesInv, SequenceTheorems, FiniteSetTheorems, TLAPS

-----------------------------------------------------------------------------
(* Numbers, sequences and the places of a sequence *)

LEMMA SetInduction ==
  ASSUME NEW S \in SUBSET Nat, 0 \in S, \A n \in S : n + 1 \in S
  PROVE  S = Nat
<1> DEFINE R == {ss \in Nat \X Nat : ss[1] < ss[2]}
<1>1. IsWellFoundedOn(R, Nat)
  BY NatLessThanWellFounded DEF OpToRel
<1> HIDE DEF R
<1>2. ASSUME Nat \ S # {} PROVE FALSE
  <2>1. PICK x \in Nat \ S : \A y \in Nat \ S : ~ (<<y, x>> \in R)
    <3>1. Nat \ S \subseteq Nat
      OBVIOUS
    <3> QED BY <1>1, <1>2, <3>1, WFMin
  <2>2. \A y \in Nat \ S : ~ (y < x)
    BY <2>1 DEF R
  <2>3. x # 0 /\ x - 1 \in Nat
    OBVIOUS
  <2>4. x - 1 \in S
    BY <2>2, <2>3
  <2> QED BY <2>3, <2>4
<1> QED BY <1>2

LEMMA MinExists ==
  ASSUME NEW S \in SUBSET Nat, S # {}
  PROVE  Min(S) \in S /\ \A y \in S : Min(S) <= y
<1> DEFINE Below == {n \in Nat : \A x \in S : n <= x}
<1>1. \E x \in S : \A y \in S : x <= y
  <2> SUFFICES ASSUME \A x \in S : \E y \in S : y < x PROVE FALSE
    OBVIOUS
  <2>1. 0 \in Below
    OBVIOUS
  <2>2. ASSUME NEW n \in Below PROVE n + 1 \in Below
    <3>1. ASSUME NEW x \in S PROVE n + 1 <= x
      <4>1. PICK y \in S : y < x
        OBVIOUS
      <4>2. n <= y /\ n \in Nat /\ x \in Nat /\ y \in Nat
        BY <2>2
      <4> QED BY <4>1, <4>2
    <3> QED BY <3>1, <2>2
  <2>3. Below = Nat
    <3> HIDE DEF Below
    <3>1. Below \in SUBSET Nat
      BY DEF Below
    <3> QED BY <2>1, <2>2, <3>1, SetInduction
  <2>4. PICK x \in S : TRUE
    OBVIOUS
  <2>5. x + 1 \in Below
    BY <2>3
  <2> QED BY <2>5
<1> QED BY <1>1 DEF Min

LEMMA MaxExists ==
  ASSUME NEW S \in SUBSET Nat, S # {}, NEW b \in Nat, \A x \in S : x <= b
  PROVE  Max(S) \in S /\ \A y \in S : y <= Max(S)
<1> DEFINE Left == {b - x : x \in S}
<1>1. Left \in SUBSET Nat /\ Left # {}
  OBVIOUS
<1>2. PICK y \in Left : \A z \in Left : y <= z
  <2> HIDE DEF Left
  <2> QED BY <1>1, MinExists
<1>3. PICK x \in S : y = b - x
  BY <1>2
<1>4. \A z \in S : x >= z
  BY <1>2, <1>3
<1>5. \E u \in S : \A z \in S : u >= z
  BY <1>4
<1> QED BY <1>5 DEF Max

LEMMA FirstOf ==
  ASSUME NEW S, NEW s \in Seq(S), NEW n \in 0..Len(s)
  PROVE  /\ First(s, n) \in Seq(S) /\ Len(First(s, n)) = n
         /\ \A i \in 1..n : First(s, n)[i] = s[i]
BY SubSeqProperties, ElementOfSeq DEF First

LEMMA AfterOf ==
  ASSUME NEW S, NEW s \in Seq(S), NEW n \in 0..Len(s)
  PROVE  /\ After(s, n) \in Seq(S) /\ Len(After(s, n)) = Len(s) - n
BY SubSeqProperties, ElementOfSeq DEF After

LEMMA FirstOfFirst ==
  ASSUME NEW S, NEW s \in Seq(S), NEW n \in 0..Len(s), NEW m \in 0..n
  PROVE  First(First(s, n), m) = First(s, m)
<1>1. First(s, n) \in Seq(S) /\ Len(First(s, n)) = n
  BY FirstOf
<1>2. /\ First(First(s, n), m) \in Seq(S) /\ Len(First(First(s, n), m)) = m
      /\ \A i \in 1..m : First(First(s, n), m)[i] = First(s, n)[i]
  BY <1>1, FirstOf
<1>3. /\ First(s, m) \in Seq(S) /\ Len(First(s, m)) = m
      /\ \A i \in 1..m : First(s, m)[i] = s[i] /\ First(s, n)[i] = s[i]
  BY FirstOf
<1> QED BY <1>2, <1>3, SeqEqual

LEMMA FirstOfAll ==
  ASSUME NEW S, NEW s \in Seq(S)
  PROVE  First(s, Len(s)) = s
BY SubSeqFull DEF First

LEMMA FirstOfConcat ==
  ASSUME NEW S, NEW s \in Seq(S), NEW t \in Seq(S), NEW n \in 0..Len(s)
  PROVE  First(s \o t, n) = First(s, n)
<1>1. s \o t \in Seq(S) /\ Len(s \o t) = Len(s) + Len(t) /\ \A i \in 1..Len(s) : (s \o t)[i] = s[i]
  BY ConcatProperties
<1>2. n \in 0..Len(s \o t)
  BY <1>1, LenProperties
<1>3. /\ First(s \o t, n) \in Seq(S) /\ Len(First(s \o t, n)) = n
      /\ \A i \in 1..n : First(s \o t, n)[i] = s[i]
  <2>1. /\ First(s \o t, n) \in Seq(S) /\ Len(First(s \o t, n)) = n
        /\ \A i \in 1..n : First(s \o t, n)[i] = (s \o t)[i]
    BY <1>1, <1>2, FirstOf
  <2>2. \A i \in 1..n : i \in 1..Len(s)
    BY LenProperties
  <2> QED BY <2>1, <2>2, <1>1
<1>4. /\ First(s, n) \in Seq(S) /\ Len(First(s, n)) = n
      /\ \A i \in 1..n : First(s, n)[i] = s[i]
  BY FirstOf
<1> QED BY <1>3, <1>4, SeqEqual

(* Reading on: the first n of a text and what follows up to m are its      *)
(* first m.                                                                *)
LEMMA ReadOn ==
  ASSUME NEW S, NEW s \in Seq(S), NEW m \in 0..Len(s), NEW n \in 0..m
  PROVE  First(s, n) \o SubSeq(s, n + 1, m) = First(s, m)
<1>1. n \in 1 - 1 .. Len(s) /\ m \in n..Len(s) /\ 1 \in 1..Len(s) + 1
  BY LenProperties
<1> QED BY <1>1, ConcatAdjacentSubSeq DEF First

LEMMA ConcatInTurn ==
  ASSUME NEW s \in Seq(Nat), NEW t \in Seq(Nat), NEW u \in Seq(Nat)
  PROVE  (s \o t) \o u = s \o (t \o u)
BY SMT

(* The places g of p, in order, that At(p, places) takes its slots from.   *)
Picks(t, p, places, g) ==
  /\ g \in [1..Len(t) -> places \cap (1..Len(p))]
  /\ \A k \in 1..Len(t) : t[k] = p[g[k]]
  /\ \A k, l \in 1..Len(t) : k < l => g[k] < g[l]
  /\ \A i \in places \cap (1..Len(p)) : \E k \in 1..Len(t) : g[k] = i

(* One more element of the sequence, taken or not. *)
LEMMA PickNext ==
  ASSUME NEW S, NEW p \in Seq(S), NEW places, NEW m \in 0..Len(p) - 1,
         NEW t \in Seq(S), NEW g, Picks(t, First(p, m), places, g)
  PROVE  \E h : Picks(IF m + 1 \in places THEN Append(t, p[m + 1]) ELSE t,
                      First(p, m + 1), places, h)
<1> DEFINE a == First(p, m)
           b == First(p, m + 1)
<1>1. /\ Len(a) = m /\ Len(b) = m + 1 /\ Len(t) \in Nat /\ Len(p) \in Nat
      /\ \A i \in 1..m : a[i] = p[i]
      /\ \A i \in 1..m + 1 : b[i] = p[i]
  <2>1. Len(p) \in Nat /\ Len(t) \in Nat
    BY LenProperties
  <2>2. m \in 0..Len(p) /\ m + 1 \in 0..Len(p)
    BY <2>1
  <2> QED BY <2>1, <2>2, FirstOf
<1>2. /\ g \in [1..Len(t) -> places \cap (1..m)]
      /\ \A k \in 1..Len(t) : t[k] = p[g[k]]
      /\ \A k, l \in 1..Len(t) : k < l => g[k] < g[l]
      /\ \A i \in places \cap (1..m) : \E k \in 1..Len(t) : g[k] = i
  BY <1>1 DEF Picks
<1> HIDE DEF a, b
<1>3. CASE m + 1 \notin places
  <2>1. places \cap (1..m + 1) = places \cap (1..m)
    BY <1>3, <1>1
  <2>2. \A k \in 1..Len(t) : t[k] = b[g[k]]
    BY <1>1, <1>2
  <2>3. Picks(t, b, places, g)
    BY <1>1, <1>2, <2>1, <2>2 DEF Picks
  <2> QED BY <1>3, <2>3 DEF b
<1>4. CASE m + 1 \in places
  <2> DEFINE u == Append(t, p[m + 1])
             h == [k \in 1..Len(t) + 1 |-> IF k = Len(t) + 1 THEN m + 1 ELSE g[k]]
  <2>1. p[m + 1] \in S
    BY ElementOfSeq, <1>1
  <2>2. /\ Len(u) = Len(t) + 1 /\ u[Len(t) + 1] = p[m + 1]
        /\ \A k \in 1..Len(t) : u[k] = t[k]
    BY <2>1, AppendProperties
  <2> HIDE DEF u
  <2>3. ASSUME NEW k \in 1..Len(t)
        PROVE  g[k] \in places /\ g[k] \in 1..m /\ h[k] = g[k] /\ k # Len(t) + 1
    <3>1. g[k] \in places \cap (1..m)
      BY <1>2
    <3>2. k # Len(t) + 1 /\ k \in 1..Len(t) + 1
      BY <1>1
    <3>3. h[k] = g[k]
      BY <3>2
    <3> QED BY <3>1, <3>2, <3>3
  <2>4. h[Len(t) + 1] = m + 1 /\ \A k \in 1..Len(u) : k \in 1..Len(t) \/ k = Len(t) + 1
    BY <1>1, <2>2
  <2>5. h \in [1..Len(u) -> places \cap (1..Len(b))]
    BY <1>1, <1>2, <1>4, <2>2, <2>3
  <2> HIDE DEF h
  <2>6. ASSUME NEW k \in 1..Len(u) PROVE u[k] = b[h[k]]
    <3>1. CASE k \in 1..Len(t)
      <4>1. u[k] = t[k] /\ t[k] = p[g[k]]
        BY <3>1, <2>2, <1>2
      <4>2. g[k] \in 1..m + 1 /\ h[k] = g[k]
        BY <3>1, <2>3, <1>1
      <4> QED BY <4>1, <4>2, <1>1
    <3>2. CASE k = Len(t) + 1
      BY <3>2, <2>2, <2>4, <1>1
    <3> QED BY <3>1, <3>2, <2>4
  <2>7. ASSUME NEW k \in 1..Len(u), NEW l \in 1..Len(u), k < l PROVE h[k] < h[l]
    <3>1. k \in 1..Len(t)
      BY <2>2, <1>1, <2>7
    <3>2. CASE l \in 1..Len(t)
      BY <3>1, <3>2, <2>3, <1>2, <2>7
    <3>3. CASE l = Len(t) + 1
      BY <3>1, <3>3, <2>3, <2>4, <1>1
    <3> QED BY <3>2, <3>3, <2>4
  <2>8. ASSUME NEW i \in places \cap (1..Len(b)) PROVE \E k \in 1..Len(u) : h[k] = i
    <3>1. CASE i = m + 1
      BY <3>1, <2>4, <2>2, <1>1
    <3>2. CASE i # m + 1
      <4>1. i \in places \cap (1..m)
        BY <3>2, <1>1
      <4>2. PICK k \in 1..Len(t) : g[k] = i
        BY <4>1, <1>2
      <4> QED BY <4>2, <2>3, <2>2, <1>1
    <3> QED BY <3>1, <3>2
  <2>9. Picks(u, b, places, h)
    BY <2>5, <2>6, <2>7, <2>8 DEF Picks
  <2> QED BY <1>4, <2>9 DEF u, b
<1> QED BY <1>3, <1>4

(* At is defined by recursion on the length: the function it uses exists,  *)
(* and picks from every beginning of the sequence.                         *)
LEMMA AtPicks ==
  ASSUME NEW S, NEW p \in Seq(S), NEW places
  PROVE  At(p, places) \in Seq(S) /\ \E g : Picks(At(p, places), p, places, g)
<1> DEFINE Step(f, i) == IF i = 0 THEN <<>>
                         ELSE IF i \in places THEN Append(f[i - 1], p[i]) ELSE f[i - 1]
           Upto(m, f) == f = [i \in 0..m |-> Step(f, i)]
           Defined == {m \in Nat : \E f : Upto(m, f)}
<1>1. Defined = Nat
  <2>1. 0 \in Defined
    <3> DEFINE f == [i \in 0..0 |-> <<>>]
    <3>1. f = [i \in 0..0 |-> Step(f, i)]
      OBVIOUS
    <3>2. \E u : Upto(0, u)
      BY <3>1
    <3> QED BY <3>2
  <2>2. ASSUME NEW m \in Defined PROVE m + 1 \in Defined
    <3>1. PICK f : Upto(m, f)
      OBVIOUS
    <3> DEFINE h == [i \in 0..m + 1 |-> IF i = m + 1 THEN Step(f, i) ELSE f[i]]
    <3>2. m \in Nat /\ \A i \in 0..m : f[i] = Step(f, i)
      BY <3>1
    <3>3. \A i \in 0..m + 1 : h[i] = Step(h, i)
      <4>1. \A i \in 0..m : h[i] = f[i]
        BY <3>2
      <4>2. ASSUME NEW i \in 0..m + 1 PROVE Step(h, i) = Step(f, i)
        <5>1. i = 0 \/ i - 1 \in 0..m
          BY <3>2
        <5> HIDE DEF h
        <5> QED BY <5>1, <4>1
      <4>3. ASSUME NEW i \in 0..m + 1 PROVE h[i] = Step(f, i)
        <5>1. i = m + 1 \/ (i # m + 1 /\ i \in 0..m)
          BY <3>2
        <5>2. h[i] = IF i = m + 1 THEN Step(f, i) ELSE f[i]
          OBVIOUS
        <5> HIDE DEF h, Step
        <5> QED BY <5>1, <5>2, <3>2
      <4> HIDE DEF h, Step
      <4> QED BY <4>2, <4>3
    <3>4. h = [i \in 0..m + 1 |-> Step(h, i)]
      <4>1. h = [i \in 0..m + 1 |-> h[i]]
        OBVIOUS
      <4> HIDE DEF h, Step
      <4> QED BY <4>1, <3>3
    <3>5. m + 1 \in Nat /\ Upto(m + 1, h)
      BY <3>2, <3>4
    <3> HIDE DEF Upto, h
    <3> QED BY <3>5
  <2>3. Defined \in SUBSET Nat
    OBVIOUS
  <2> HIDE DEF Defined
  <2> QED BY <2>1, <2>2, <2>3, SetInduction
<1>2. Len(p) \in Nat
  BY LenProperties
<1> DEFINE f == CHOOSE f : Upto(Len(p), f)
<1>3. Upto(Len(p), f)
  BY <1>1, <1>2
<1>4. At(p, places) = f[Len(p)]
  BY DEF At
<1>5. \A i \in 0..Len(p) : f[i] = Step(f, i)
  <2> HIDE DEF f
  <2> QED BY <1>3
<1> HIDE DEF f
<1> DEFINE Good == {m \in Nat : m <= Len(p) =>
                      f[m] \in Seq(S) /\ \E g : Picks(f[m], First(p, m), places, g)}
<1>6. Good = Nat
  <2>1. 0 \in Good
    <3>1. f[0] = <<>> /\ <<>> \in Seq(S) /\ Len(<<>>) = 0
      BY <1>5, <1>2, EmptySeq
    <3>2. Len(First(p, 0)) = 0
      BY FirstOf, <1>2
    <3>3. Picks(<<>>, First(p, 0), places, <<>>)
      BY <3>1, <3>2 DEF Picks
    <3> QED BY <3>1, <3>3
  <2>2. ASSUME NEW m \in Good PROVE m + 1 \in Good
    <3>1. m \in Nat
      OBVIOUS
    <3> SUFFICES ASSUME m + 1 <= Len(p)
                 PROVE  f[m + 1] \in Seq(S) /\ \E g : Picks(f[m + 1], First(p, m + 1), places, g)
      BY <3>1
    <3>2. f[m] \in Seq(S) /\ \E g : Picks(f[m], First(p, m), places, g)
      BY <3>1, <1>2
    <3>3. f[m + 1] = IF m + 1 \in places THEN Append(f[m], p[m + 1]) ELSE f[m]
      <4>1. m + 1 \in 0..Len(p) /\ m + 1 # 0 /\ (m + 1) - 1 = m
        BY <3>1, <1>2
      <4> QED BY <4>1, <1>5
    <3>4. p[m + 1] \in S
      BY <3>1, <1>2, ElementOfSeq
    <3>5. f[m + 1] \in Seq(S)
      BY <3>2, <3>3, <3>4, AppendProperties
    <3>6. m \in 0..Len(p) - 1
      BY <3>1, <1>2
    <3> HIDE DEF Good, Step
    <3> QED BY <3>2, <3>3, <3>5, <3>6, PickNext
  <2>3. Good \in SUBSET Nat
    OBVIOUS
  <2> HIDE DEF Good
  <2> QED BY <2>1, <2>2, <2>3, SetInduction
<1>7. f[Len(p)] \in Seq(S) /\ \E g : Picks(f[Len(p)], First(p, Len(p)), places, g)
  BY <1>6, <1>2
<1> HIDE DEF Good, Step
<1> QED BY <1>4, <1>7, FirstOfAll

-----------------------------------------------------------------------------
(* What is common to two texts, and what a slot can supply *)

LEMMA CommonOf ==
  ASSUME NEW s \in Seq(Nat), NEW t \in Seq(Nat)
  PROVE  /\ Common(s, t) \in 0..Len(s) /\ Common(s, t) \in 0..Len(t)
         /\ First(s, Common(s, t)) = First(t, Common(s, t))
<1> DEFINE b == Least(Len(s), Len(t))
           Same == {n \in 0..b : First(s, n) = First(t, n)}
<1>1. b \in Nat /\ b <= Len(s) /\ b <= Len(t) /\ Len(s) \in Nat /\ Len(t) \in Nat
  BY LenProperties DEF Least
<1>2. First(s, 0) = <<>> /\ First(t, 0) = <<>>
  BY SubSeqEmpty DEF First
<1> HIDE DEF b
<1>3. 0 \in Same /\ Same \in SUBSET Nat /\ \A n \in Same : n <= b
  BY <1>1, <1>2
<1>4. Common(s, t) = Max(Same)
  BY DEF Common, b
<1> HIDE DEF Same
<1>5. Max(Same) \in Same
  BY <1>1, <1>3, MaxExists
<1> QED BY <1>1, <1>4, <1>5 DEF Same

LEMMA SlotFields ==
  ASSUME NEW s \in Slot
  PROVE  /\ s \in SlotShape /\ s.id \in Nat /\ s.tokens \in Seq(Nat) /\ s.kv = s.tokens
         /\ s.kv \in Seq(Nat) /\ s.state \in Seq(Cell) /\ s.plen \in Nat /\ s.ctx \in Nat
         /\ s.tag \in Tag /\ s.busy \in BOOLEAN /\ Len(s.tokens) \in Nat
         /\ DOMAIN s.snaps \in SUBSET Nat /\ s.snaps \in [DOMAIN s.snaps -> Seq(Cell)]
         /\ \A p \in DOMAIN s.snaps : p <= Len(s.tokens) /\ s.snaps[p] = First(s.kv, p)
         /\ ~Hybrid => DOMAIN s.snaps = {}
         /\ s.clean \in Nat /\ (Exact(s) \/ Shifted(s))
<1>1. s \in SlotShape /\ Honest(s)
  BY DEF Slot
<1>2. /\ s.clean \in Nat
      /\ s.id \in Nat /\ s.tokens \in Seq(Nat) /\ s.kv \in Seq(Nat) /\ s.state \in Seq(Cell)
      /\ s.snaps \in Snaps /\ s.plen \in Nat /\ s.ctx \in Nat /\ s.tag \in Tag /\ s.busy \in BOOLEAN
  BY <1>1 DEF SlotShape
<1>3. DOMAIN s.snaps \in SUBSET Nat /\ s.snaps \in [DOMAIN s.snaps -> Seq(Cell)]
  BY <1>2 DEF Snaps
<1> QED BY <1>1, <1>2, <1>3, LenProperties DEF Honest, TellsItsContent

(* How many of the keys kv may be exact. *)
CleanOK(clean, kv) == clean = Len(kv) \/ (kind = "plain" /\ 0 < clean /\ clean < Len(kv))

LEMMA CleanOf ==
  ASSUME NEW s, Exact(s) \/ Shifted(s), s.clean \in Nat, Len(s.kv) \in Nat
  PROVE  /\ CleanOK(s.clean, s.kv)
         /\ \A n \in 0..Len(s.kv) : \A kv : Len(kv) = n =>
              Least(s.clean, n) \in Nat /\ CleanOK(Least(s.clean, n), kv)
BY DEF CleanOK, Exact, Shifted, Least

(* A slot as the record of its fields, and ... *)
SlotOfAll(id, tokens, kv, clean, state, snaps, plen, ctx, tag, busy) ==
  [id |-> id, tokens |-> tokens, kv |-> kv, clean |-> clean, state |-> state, snaps |-> snaps,
   plen |-> plen, ctx |-> ctx, tag |-> tag, busy |-> busy]

LEMMA SlotIsRecord ==
  ASSUME NEW s \in Slot
  PROVE  s = SlotOfAll(s.id, s.kv, s.kv, s.clean, s.state, s.snaps, s.plen, s.ctx, s.tag, s.busy)
<1>1. s \in SlotShape /\ s.kv = s.tokens
  BY SlotFields
<1> QED BY <1>1 DEF SlotShape, SlotOfAll

LEMMA TokensOf ==
  ASSUME NEW id, NEW tokens, NEW kv, NEW clean, NEW state, NEW snaps, NEW plen, NEW ctx, NEW tag,
         NEW busy, NEW new
  PROVE  [SlotOfAll(id, tokens, kv, clean, state, snaps, plen, ctx, tag, busy) EXCEPT !.tokens = new]
           = SlotOfAll(id, new, kv, clean, state, snaps, plen, ctx, tag, busy)
BY DEF SlotOfAll

LEMMA CleanOfSlot ==
  ASSUME NEW s \in Slot
  PROVE  s.clean \in Nat /\ CleanOK(s.clean, s.kv)
BY SlotFields DEF CleanOK, Exact, Shifted

(* The other way round: what makes a record a slot. *)
LEMMA SlotIs ==
  ASSUME NEW id \in Nat, NEW kv \in Seq(Nat), NEW state \in Seq(Cell), NEW D \in SUBSET Nat,
         NEW snaps \in [D -> Seq(Cell)], NEW plen \in Nat, NEW ctx \in Nat, NEW tag \in Tag,
         NEW busy \in BOOLEAN,
         \A p \in D : p <= Len(kv) /\ snaps[p] = First(kv, p), ~Hybrid => D = {},
         NEW clean \in Nat, CleanOK(clean, kv)
  PROVE  [id |-> id, tokens |-> kv, kv |-> kv, clean |-> clean, state |-> state, snaps |-> snaps,
          plen |-> plen, ctx |-> ctx, tag |-> tag, busy |-> busy] \in Slot
<1> DEFINE s == [id |-> id, tokens |-> kv, kv |-> kv, clean |-> clean, state |-> state,
                 snaps |-> snaps, plen |-> plen, ctx |-> ctx, tag |-> tag, busy |-> busy]
<1>1. DOMAIN snaps = D /\ snaps \in Snaps
  BY DEF Snaps
<1>2. s \in SlotShape
  BY <1>1 DEF SlotShape
<1>3. s.kv = s.tokens /\ s.kv = kv /\ s.snaps = snaps /\ s.clean = clean
  OBVIOUS
<1> HIDE DEF s
<1>4. Honest(s)
  BY <1>1, <1>3 DEF Honest, TellsItsContent, CleanOK, Exact, Shifted
<1>5. s \in Slot
  BY <1>2, <1>4 DEF Slot
<1> QED BY <1>5 DEF s

LEMMA SharedOf ==
  ASSUME NEW s \in Slot, NEW ids \in Seq(Nat) \ {<<>>}
  PROVE  /\ Shared(s, ids) \in 0..Len(s.tokens) /\ Shared(s, ids) \in 0..Len(ids) - 1
         /\ Shared(s, ids) <= Common(s.tokens, ids)
<1>1. Common(s.tokens, ids) \in 0..Len(s.tokens) /\ Common(s.tokens, ids) \in 0..Len(ids)
  BY SlotFields, CommonOf
<1>2. Len(ids) \in Nat /\ Len(ids) # 0 /\ Len(s.tokens) \in Nat
  BY LenProperties, SlotFields
<1> QED BY <1>1, <1>2 DEF Shared, Least

LEMMA SuppliesOf ==
  ASSUME NEW s \in Slot, NEW ids \in Seq(Nat) \ {<<>>}
  PROVE  LET k == Supplies(s, ids)
         IN /\ k \in 0..Len(s.tokens) /\ k \in 0..Len(ids) - 1
            /\ First(s.tokens, k) = First(ids, k)
            /\ Hybrid /\ k > 0 => k \in DOMAIN s.snaps
<1> DEFINE k == Supplies(s, ids)
           h == Shared(s, ids)
           c == Common(s.tokens, ids)
           P == {0} \cup {p \in DOMAIN s.snaps : p <= h}
<1>1. /\ h \in 0..Len(s.tokens) /\ h \in 0..Len(ids) - 1 /\ h <= c
      /\ c \in 0..Len(s.tokens) /\ c \in 0..Len(ids) /\ First(s.tokens, c) = First(ids, c)
  BY SharedOf, SlotFields, CommonOf
<1>2. Len(s.tokens) \in Nat /\ DOMAIN s.snaps \in SUBSET Nat /\ Len(ids) \in Nat
      /\ s.tokens \in Seq(Nat)
  BY SlotFields, LenProperties
<1>3. Hybrid => k = Max(P)
  BY DEF Supplies
<1>4. ~Hybrid => k = h
  BY DEF Supplies
<1> HIDE DEF k, h, c
<1>5. P \in SUBSET Nat /\ P # {} /\ h \in Nat /\ \A p \in P : p <= h
  BY <1>1, <1>2
<1>6. Max(P) \in P
  <2> HIDE DEF P
  <2> QED BY <1>5, MaxExists
<1>7. k \in 0..h /\ (Hybrid /\ k > 0 => k \in DOMAIN s.snaps)
  BY <1>1, <1>2, <1>3, <1>4, <1>6
<1>8. First(First(s.tokens, c), k) = First(s.tokens, k)
  BY <1>1, <1>2, <1>7, FirstOfFirst
<1>9. First(First(ids, c), k) = First(ids, k)
  BY <1>1, <1>2, <1>7, FirstOfFirst
<1>10. k \in 0..Len(s.tokens) /\ k \in 0..Len(ids) - 1
  BY <1>1, <1>2, <1>7
<1> QED BY <1>1, <1>7, <1>8, <1>9, <1>10 DEF k

-----------------------------------------------------------------------------
(* What the code does to a slot leaves a slot that tells its content *)

LEMMA RewindOf ==
  ASSUME NEW s \in Slot, NEW n \in 0..Len(s.tokens), Hybrid => n \in DOMAIN s.snaps
  PROVE  LET t == Rewind(s, n)
         IN /\ t \in Slot /\ t.id = s.id /\ t.busy = s.busy
            /\ t.kv = First(s.tokens, n) /\ Len(t.kv) = n /\ (Hybrid => t.state = t.kv)
<1> DEFINE kv == First(s.kv, n)
           D == {p \in DOMAIN s.snaps : p <= n}
           snaps == UpTo(s.snaps, n)
           state == IF Hybrid THEN s.snaps[n] ELSE <<>>
           clean == Least(s.clean, n)
           t == [id |-> s.id, tokens |-> kv, kv |-> kv, clean |-> clean, state |-> state,
                 snaps |-> snaps, plen |-> s.plen, ctx |-> s.ctx, tag |-> s.tag, busy |-> s.busy]
<1>1. /\ s.id \in Nat /\ s.kv = s.tokens /\ s.kv \in Seq(Nat) /\ s.plen \in Nat /\ s.ctx \in Nat
      /\ s.tag \in Tag /\ s.busy \in BOOLEAN /\ DOMAIN s.snaps \in SUBSET Nat
      /\ s.snaps \in [DOMAIN s.snaps -> Seq(Cell)] /\ s \in SlotShape /\ Len(s.kv) \in Nat
      /\ s.clean \in Nat /\ (Exact(s) \/ Shifted(s))
      /\ \A p \in DOMAIN s.snaps : p <= Len(s.tokens) /\ s.snaps[p] = First(s.kv, p)
      /\ ~Hybrid => DOMAIN s.snaps = {}
  BY SlotFields
<1>2. kv \in Seq(Nat) /\ Len(kv) = n
  BY <1>1, FirstOf
<1>3. D \in SUBSET Nat /\ snaps \in [D -> Seq(Cell)] /\ (~Hybrid => D = {})
  BY <1>1 DEF UpTo
<1>4. \A p \in D : p <= n /\ p \in 0..n /\ snaps[p] = First(s.kv, p)
  BY <1>1 DEF UpTo
<1>5. \A p \in D : p <= Len(kv) /\ snaps[p] = First(kv, p)
  <2>1. \A p \in D : First(kv, p) = First(s.kv, p)
    BY <1>1, <1>4, FirstOfFirst
  <2> QED BY <2>1, <1>2, <1>4
<1>6. state \in Seq(Cell) /\ (Hybrid => state = kv)
  BY <1>1, EmptySeq
<1>7. Rewind(s, n) = t
  <2> DEFINE s1 == [s EXCEPT !.tokens = First(s.tokens, n)]
             s2 == [s1 EXCEPT !.kv = First(s.kv, n)]
             s2c == [s2 EXCEPT !.clean = Least(s.clean, n)]
             s3 == [s2c EXCEPT !.state = state]
             s4 == [s3 EXCEPT !.snaps = UpTo(s.snaps, n)]
  <2>1. s = SlotOfAll(s.id, s.kv, s.kv, s.clean, s.state, s.snaps, s.plen, s.ctx, s.tag, s.busy)
    BY SlotIsRecord
  <2>2. s1 = SlotOfAll(s.id, kv, s.kv, s.clean, s.state, s.snaps, s.plen, s.ctx, s.tag, s.busy)
    BY <2>1, <1>1, TokensOf
  <2> HIDE DEF s1
  <2>3. s2 = SlotOfAll(s.id, kv, kv, s.clean, s.state, s.snaps, s.plen, s.ctx, s.tag, s.busy)
    BY <2>2 DEF SlotOfAll
  <2> HIDE DEF s2
  <2>7. s2c = SlotOfAll(s.id, kv, kv, clean, s.state, s.snaps, s.plen, s.ctx, s.tag, s.busy)
    BY <2>3 DEF SlotOfAll
  <2> HIDE DEF s2c
  <2>4. s3 = SlotOfAll(s.id, kv, kv, clean, state, s.snaps, s.plen, s.ctx, s.tag, s.busy)
    BY <2>7 DEF SlotOfAll
  <2> HIDE DEF s3
  <2>5. s4 = SlotOfAll(s.id, kv, kv, clean, state, snaps, s.plen, s.ctx, s.tag, s.busy)
    BY <2>4 DEF SlotOfAll
  <2> HIDE DEF s4
  <2>6. Rewind(s, n) = s4
    BY DEF Rewind, s1, s2, s2c, s3, s4
  <2> QED BY <2>5, <2>6 DEF SlotOfAll
<1>8. t.id = s.id /\ t.busy = s.busy /\ t.kv = kv /\ t.state = state
  OBVIOUS
<1>11. clean \in Nat /\ CleanOK(clean, kv)
  BY <1>1, <1>2, CleanOf
<1> HIDE DEF kv, D, snaps, state, clean
<1>9. t \in Slot
  BY <1>1, <1>2, <1>3, <1>4, <1>5, <1>6, <1>11, SlotIs
<1>10. kv = First(s.tokens, n)
  BY <1>1 DEF kv
<1> HIDE DEF t
<1> QED BY <1>2, <1>6, <1>7, <1>8, <1>9, <1>10

LEMMA ForkOf ==
  ASSUME NEW s \in Slot, NEW n \in 0..Len(s.tokens), Hybrid => n \in DOMAIN s.snaps,
         NEW ctx \in Nat, NEW id \in Nat
  PROVE  LET t == Fork(s, n, ctx, id)
         IN /\ t \in Slot /\ t.id = id /\ ~t.busy
            /\ t.kv = First(s.tokens, n) /\ Len(t.kv) = n /\ (Hybrid => t.state = t.kv)
<1> DEFINE r == Rewind(s, n)
           t == [id |-> id, tokens |-> r.kv, kv |-> r.kv, clean |-> r.clean, state |-> r.state,
                 snaps |-> r.snaps, plen |-> r.plen, ctx |-> ctx, tag |-> r.tag, busy |-> FALSE]
<1>1. r \in Slot /\ r.kv = First(s.tokens, n) /\ Len(r.kv) = n /\ (Hybrid => r.state = r.kv)
  BY RewindOf
<1> HIDE DEF r
<1>2. Fork(s, n, ctx, id) = t
  <2> DEFINE r1 == [r EXCEPT !.id = id]
             r2 == [r1 EXCEPT !.ctx = ctx]
             no == FALSE
             r3 == [r2 EXCEPT !.busy = no]
  <2>1. r = SlotOfAll(r.id, r.kv, r.kv, r.clean, r.state, r.snaps, r.plen, r.ctx, r.tag, r.busy)
    BY <1>1, SlotIsRecord
  <2>2. r1 = SlotOfAll(id, r.kv, r.kv, r.clean, r.state, r.snaps, r.plen, r.ctx, r.tag, r.busy)
    BY <2>1 DEF SlotOfAll
  <2> HIDE DEF r1
  <2>3. r2 = SlotOfAll(id, r.kv, r.kv, r.clean, r.state, r.snaps, r.plen, ctx, r.tag, r.busy)
    BY <2>2 DEF SlotOfAll
  <2> HIDE DEF r2
  <2> HIDE DEF no
  <2>4. r3 = SlotOfAll(id, r.kv, r.kv, r.clean, r.state, r.snaps, r.plen, ctx, r.tag, no)
    BY <2>3 DEF SlotOfAll
  <2> HIDE DEF r3
  <2>5. Fork(s, n, ctx, id) = r3
    BY DEF Fork, r, r1, r2, r3, no
  <2> QED BY <2>4, <2>5 DEF SlotOfAll, no
<1>3. t \in Slot
  <2>1. /\ r.kv \in Seq(Nat) /\ r.state \in Seq(Cell) /\ r.plen \in Nat /\ r.tag \in Tag
        /\ DOMAIN r.snaps \in SUBSET Nat /\ r.snaps \in [DOMAIN r.snaps -> Seq(Cell)]
        /\ \A p \in DOMAIN r.snaps : p <= Len(r.kv) /\ r.snaps[p] = First(r.kv, p)
        /\ ~Hybrid => DOMAIN r.snaps = {}
        /\ r.clean \in Nat /\ CleanOK(r.clean, r.kv)
    BY <1>1, SlotFields, CleanOf
  <2> QED BY <2>1, SlotIs
<1> QED BY <1>1, <1>2, <1>3

LEMMA NewSlotOf ==
  ASSUME NEW q \in Request, NEW id \in Nat
  PROVE  LET t == NewSlot(id, q)
         IN /\ t \in Slot /\ t.id = id /\ ~t.busy
            /\ t.kv = First(q.ids, 0) /\ Len(t.kv) = 0 /\ (Hybrid => t.state = t.kv)
<1>1. q.ids \in Seq(Nat) /\ Len(q.ids) \in Nat /\ q.ctx \in Nat /\ q.tag \in Tag
  BY CachesAssumption, LenProperties DEF Tag, Tags
<1>2. First(q.ids, 0) = <<>> /\ <<>> \in Seq(Nat) /\ <<>> \in Seq(Cell) /\ Len(<<>>) = 0
  BY SubSeqEmpty, EmptySeq DEF First
<1>3. <<>> \in [{} -> Seq(Cell)] /\ {} \in SUBSET Nat
  OBVIOUS
<1>5. 0 \in Nat /\ CleanOK(0, <<>>)
  BY <1>2 DEF CleanOK
<1>4. [id |-> id, tokens |-> <<>>, kv |-> <<>>, clean |-> 0, state |-> <<>>, snaps |-> <<>>,
       plen |-> Len(q.ids), ctx |-> q.ctx, tag |-> q.tag, busy |-> FALSE] \in Slot
  BY <1>1, <1>2, <1>3, <1>5, SlotIs
<1> QED BY <1>2, <1>4 DEF NewSlot

(* Only the flags of a slot are set. *)
Flagged(s, b, plen, tag) == [s EXCEPT !.busy = b, !.plen = plen, !.tag = tag]

LEMMA FlagsOf ==
  ASSUME NEW s \in Slot, NEW b \in BOOLEAN, NEW plen \in Nat, NEW tag \in Tag
  PROVE  LET t == Flagged(s, b, plen, tag)
         IN /\ t \in Slot /\ t.id = s.id /\ t.busy = b
            /\ t.kv = s.kv /\ t.tokens = s.tokens /\ t.state = s.state /\ t.clean = s.clean
<1> DEFINE t == [id |-> s.id, tokens |-> s.kv, kv |-> s.kv, clean |-> s.clean, state |-> s.state,
                 snaps |-> s.snaps, plen |-> plen, ctx |-> s.ctx, tag |-> tag, busy |-> b]
<1>1. Flagged(s, b, plen, tag) = t
  <2> DEFINE s1 == [s EXCEPT !.busy = b]
             s2 == [s1 EXCEPT !.plen = plen]
             s3 == [s2 EXCEPT !.tag = tag]
  <2>1. s = SlotOfAll(s.id, s.kv, s.kv, s.clean, s.state, s.snaps, s.plen, s.ctx, s.tag, s.busy)
    BY SlotIsRecord
  <2>2. s1 = SlotOfAll(s.id, s.kv, s.kv, s.clean, s.state, s.snaps, s.plen, s.ctx, s.tag, b)
    BY <2>1 DEF SlotOfAll
  <2> HIDE DEF s1
  <2>3. s2 = SlotOfAll(s.id, s.kv, s.kv, s.clean, s.state, s.snaps, plen, s.ctx, s.tag, b)
    BY <2>2 DEF SlotOfAll
  <2> HIDE DEF s2
  <2>4. s3 = SlotOfAll(s.id, s.kv, s.kv, s.clean, s.state, s.snaps, plen, s.ctx, tag, b)
    BY <2>3 DEF SlotOfAll
  <2> HIDE DEF s3
  <2>5. Flagged(s, b, plen, tag) = s3
    BY DEF s1, s2, s3, Flagged
  <2> QED BY <2>4, <2>5 DEF SlotOfAll
<1>2. t \in Slot
  <2>1. /\ s.id \in Nat /\ s.kv \in Seq(Nat) /\ s.ctx \in Nat /\ s.state \in Seq(Cell)
        /\ DOMAIN s.snaps \in SUBSET Nat
        /\ s.snaps \in [DOMAIN s.snaps -> Seq(Cell)] /\ (~Hybrid => DOMAIN s.snaps = {})
        /\ \A p \in DOMAIN s.snaps : p <= Len(s.kv) /\ s.snaps[p] = First(s.kv, p)
        /\ s.clean \in Nat /\ CleanOK(s.clean, s.kv)
    BY SlotFields, CleanOfSlot
  <2> QED BY <2>1, SlotIs
<1>3. s.tokens = s.kv
  BY SlotFields
<1> QED BY <1>1, <1>2, <1>3

LEMMA StateOf ==
  ASSUME NEW s \in Slot, NEW state \in Seq(Cell)
  PROVE  LET t == [s EXCEPT !.state = state]
         IN t \in Slot /\ t.id = s.id /\ t.busy = s.busy
<1> DEFINE t == [id |-> s.id, tokens |-> s.kv, kv |-> s.kv, clean |-> s.clean, state |-> state,
                 snaps |-> s.snaps, plen |-> s.plen, ctx |-> s.ctx, tag |-> s.tag, busy |-> s.busy]
<1>1. [s EXCEPT !.state = state] = t
  BY SlotIsRecord DEF SlotOfAll
<1>2. /\ s.id \in Nat /\ s.kv \in Seq(Nat) /\ s.plen \in Nat /\ s.ctx \in Nat /\ s.tag \in Tag
      /\ s.busy \in BOOLEAN /\ DOMAIN s.snaps \in SUBSET Nat
      /\ s.snaps \in [DOMAIN s.snaps -> Seq(Cell)] /\ (~Hybrid => DOMAIN s.snaps = {})
      /\ \A p \in DOMAIN s.snaps : p <= Len(s.kv) /\ s.snaps[p] = First(s.kv, p)
      /\ s.clean \in Nat /\ CleanOK(s.clean, s.kv)
  BY SlotFields, CleanOfSlot
<1>3. t \in Slot
  BY <1>2, SlotIs
<1> QED BY <1>1, <1>3

(* A slot reads on; what it held is a beginning of what it holds. *)
LEMMA AdvancedOf ==
  ASSUME NEW s \in Slot, NEW toks \in Seq(Nat)
  PROVE  LET t == Advanced(s, toks)
         IN /\ t \in Slot /\ t.id = s.id /\ t.busy = s.busy /\ t.tokens = t.kv
            /\ t.kv = s.kv \o toks /\ (Hybrid /\ s.state = s.kv => t.state = t.kv)
            /\ Exact(t) \/ (~Exact(s) /\ t.clean = s.clean)
<1> DEFINE kv == s.kv \o toks
           clean == IF s.clean = Len(s.kv) THEN s.clean + Len(toks) ELSE s.clean
           state == IF Hybrid THEN s.state \o toks ELSE <<>>
           t == [id |-> s.id, tokens |-> kv, kv |-> kv, clean |-> clean, state |-> state,
                 snaps |-> s.snaps, plen |-> s.plen, ctx |-> s.ctx, tag |-> s.tag, busy |-> s.busy]
<1>1. kv \in Seq(Nat) /\ Len(kv) = Len(s.kv) + Len(toks) /\ Len(toks) \in Nat /\ Len(s.kv) \in Nat
  BY SlotFields, ConcatProperties, LenProperties
<1>2. toks \in Seq(Cell)
  BY SeqMonotonic DEF Cell
<1>3. state \in Seq(Cell)
  BY <1>2, SlotFields, ConcatProperties, EmptySeq
<1>4. \A p \in DOMAIN s.snaps : p <= Len(kv) /\ s.snaps[p] = First(kv, p)
  <2>1. ASSUME NEW p \in DOMAIN s.snaps PROVE p <= Len(kv) /\ s.snaps[p] = First(kv, p)
    <3>1. /\ p \in Nat /\ p <= Len(s.kv) /\ s.snaps[p] = First(s.kv, p)
          /\ s.kv \in Seq(Nat)
      BY SlotFields
    <3>2. p \in 0..Len(s.kv)
      BY <3>1, <1>1
    <3>3. First(kv, p) = First(s.kv, p)
      BY <3>1, <3>2, FirstOfConcat
    <3> QED BY <3>1, <3>3, <1>1
  <2> QED BY <2>1
<1>5. Advanced(s, toks) = t
  <2> DEFINE s1 == [s EXCEPT !.tokens = kv]
             s2 == [s1 EXCEPT !.kv = kv]
             s2c == [s2 EXCEPT !.clean = clean]
             s3 == [s2c EXCEPT !.state = state]
  <2>1. s = SlotOfAll(s.id, s.kv, s.kv, s.clean, s.state, s.snaps, s.plen, s.ctx, s.tag, s.busy)
    BY SlotIsRecord
  <2>2. [s EXCEPT !.tokens = s.tokens \o toks, !.kv = s.kv \o toks, !.clean = clean,
                  !.state = state] = s3
    BY SlotFields
  <2>3. Advanced(s, toks) = s3
    BY <2>2 DEF Advanced
  <2> HIDE DEF kv, state, clean
  <2>4. s1 = SlotOfAll(s.id, kv, s.kv, s.clean, s.state, s.snaps, s.plen, s.ctx, s.tag, s.busy)
    BY <2>1, TokensOf
  <2> HIDE DEF s1
  <2>5. s2 = SlotOfAll(s.id, kv, kv, s.clean, s.state, s.snaps, s.plen, s.ctx, s.tag, s.busy)
    BY <2>4 DEF SlotOfAll
  <2> HIDE DEF s2
  <2>7. s2c = SlotOfAll(s.id, kv, kv, clean, s.state, s.snaps, s.plen, s.ctx, s.tag, s.busy)
    BY <2>5 DEF SlotOfAll
  <2> HIDE DEF s2c
  <2>6. s3 = SlotOfAll(s.id, kv, kv, clean, state, s.snaps, s.plen, s.ctx, s.tag, s.busy)
    BY <2>7 DEF SlotOfAll
  <2> HIDE DEF s3
  <2> QED BY <2>6, <2>3 DEF SlotOfAll
<1>6. /\ t.id = s.id /\ t.busy = s.busy /\ t.tokens = kv /\ t.kv = kv
      /\ Hybrid /\ s.state = s.kv => t.state = kv
      /\ t.clean = clean
  OBVIOUS
<1>8. clean \in Nat /\ CleanOK(clean, kv)
  <2> HIDE DEF kv
  <2> QED BY <1>1, SlotFields DEF CleanOK, Exact, Shifted
<1>9. clean = Len(kv) \/ (~Exact(s) /\ clean = s.clean)
  BY <1>1 DEF Exact
<1> HIDE DEF kv, state, clean
<1>7. t \in Slot
  BY <1>1, <1>3, <1>4, <1>8, SlotFields, SlotIs
<1>10. Exact(t) \/ (~Exact(s) /\ t.clean = s.clean)
  BY <1>6, <1>9 DEF Exact
<1> QED BY <1>5, <1>6, <1>7, <1>10 DEF kv

LEMMA CaptureOf ==
  ASSUME NEW s \in Slot, Hybrid => s.state = s.kv
  PROVE  LET t == Capture(s)
         IN /\ t \in Slot /\ t.id = s.id /\ t.busy = s.busy /\ t.kv = s.kv /\ t.state = s.state
            /\ t.clean = s.clean
<1> DEFINE all == [p \in DOMAIN s.snaps \cup {Len(s.kv)} |->
                     IF p = Len(s.kv) THEN s.state ELSE s.snaps[p]]
           newest == {p \in DOMAIN all : Cardinality({o \in DOMAIN all : o > p}) < MaxSnapshots}
           snaps == [p \in newest |-> all[p]]
           t == [id |-> s.id, tokens |-> s.kv, kv |-> s.kv, clean |-> s.clean, state |-> s.state,
                 snaps |-> snaps, plen |-> s.plen, ctx |-> s.ctx, tag |-> s.tag, busy |-> s.busy]
<1>1. CASE ~Hybrid
  BY <1>1 DEF Capture
<1>2. CASE Hybrid
  <2>1. Capture(s) = t
    BY <1>2, SlotFields DEF Capture, SlotShape
  <2>2. /\ DOMAIN all = DOMAIN s.snaps \cup {Len(s.kv)} /\ DOMAIN all \in SUBSET Nat
        /\ Len(s.kv) \in Nat
    BY SlotFields
  <2>3. \A p \in DOMAIN all : all[p] \in Seq(Cell) /\ p <= Len(s.kv) /\ all[p] = First(s.kv, p)
    <3>1. ASSUME NEW p \in DOMAIN all
          PROVE  all[p] \in Seq(Cell) /\ p <= Len(s.kv) /\ all[p] = First(s.kv, p)
      <4>1. CASE p = Len(s.kv)
        <5>1. all[p] = s.state
          BY <4>1
        <5>2. First(s.kv, p) = s.kv
          BY <4>1, SlotFields, FirstOfAll
        <5> QED BY <5>1, <5>2, <4>1, <1>2, <2>2, SlotFields
      <4>2. CASE p # Len(s.kv)
        <5>1. p \in DOMAIN s.snaps /\ all[p] = s.snaps[p]
          BY <4>2
        <5> QED BY <5>1, SlotFields
      <4> QED BY <4>1, <4>2
    <3> QED BY <3>1
  <2> HIDE DEF all
  <2>4. newest \in SUBSET Nat /\ newest \subseteq DOMAIN all
    BY <2>2
  <2> HIDE DEF newest
  <2>5. /\ snaps \in [newest -> Seq(Cell)]
        /\ \A p \in newest : p <= Len(s.kv) /\ snaps[p] = First(s.kv, p)
    BY <2>3, <2>4
  <2> HIDE DEF snaps
  <2>6. t \in Slot
    BY <1>2, <2>4, <2>5, SlotFields, CleanOfSlot, SlotIs
  <2> QED BY <2>1, <2>6
<1> QED BY <1>1, <1>2

LEMMA GapsOf ==
  ASSUME NEW s \in Slot, NEW ids \in Seq(Nat) \ {<<>>}, NEW g \in Gaps(s, ids)
  PROVE  /\ ~Hybrid /\ g.keep \in 0..Len(s.tokens) /\ g.end \in g.keep..Len(s.tokens)
         /\ kind = "plain" /\ 0 < g.keep /\ g.end < Len(s.tokens)
         /\ g.end \in Nat /\ g.run \in 0..Len(ids)
<1> DEFINE keep == Common(s.tokens, ids)
           run(e) == Common(After(s.tokens, e), After(ids, keep))
<1>1. s.tokens \in Seq(Nat) /\ Len(s.tokens) \in Nat /\ Len(ids) \in Nat
  BY SlotFields, LenProperties
<1>2. keep \in 0..Len(s.tokens) /\ keep \in 0..Len(ids)
  BY <1>1, CommonOf
<1>3. kind = "plain" /\ ~Hybrid /\ keep # 0
  BY DEF Gaps, Hybrid
<1>4. PICK e \in keep + 1 .. Len(s.tokens) - 1 : g = [keep |-> keep, end |-> e, run |-> run(e)]
  BY DEF Gaps
<1>5. e \in 0..Len(s.tokens)
  BY <1>1, <1>2
<1>6. After(s.tokens, e) \in Seq(Nat)
  BY <1>1, <1>5, AfterOf
<1>7. After(ids, keep) \in Seq(Nat) /\ Len(After(ids, keep)) = Len(ids) - keep
  BY <1>2, AfterOf
<1>8. run(e) \in 0..Len(ids) - keep
  BY <1>6, <1>7, CommonOf
<1>9. g.keep = keep /\ g.end = e /\ g.run = run(e)
  BY <1>4
<1> HIDE DEF keep, run
<1> QED BY <1>1, <1>2, <1>3, <1>5, <1>8, <1>9

LEMMA FindGapOf ==
  ASSUME NEW s \in Slot, NEW ids \in Seq(Nat) \ {<<>>}, Gaps(s, ids) # {}
  PROVE  FindGap(s, ids) \in Gaps(s, ids)
<1> DEFINE G == Gaps(s, ids)
           Runs == {g.run : g \in G}
           Ends == {g.end : g \in {g \in G : g.run = Max(Runs)}}
<1>1. \A g \in G : g.run \in Nat /\ g.run <= Len(ids) /\ g.end \in Nat
  BY GapsOf, LenProperties
<1>2. Len(ids) \in Nat /\ G # {}
  BY LenProperties
<1>3. FindGap(s, ids) = CHOOSE g \in G : \A h \in G : h.run < g.run \/ (h.run = g.run /\ h.end >= g.end)
  BY DEF FindGap
<1> HIDE DEF G
<1>4. Runs \in SUBSET Nat /\ Runs # {} /\ \A x \in Runs : x <= Len(ids)
  BY <1>1, <1>2
<1>5. Max(Runs) \in Runs /\ \A x \in Runs : x <= Max(Runs)
  <2> HIDE DEF Runs
  <2> QED BY <1>2, <1>4, MaxExists
<1>6. Ends \in SUBSET Nat /\ Ends # {}
  BY <1>1, <1>5
<1>7. Min(Ends) \in Ends /\ \A x \in Ends : Min(Ends) <= x
  <2> HIDE DEF Ends
  <2> QED BY <1>6, MinExists
<1>8. PICK g \in G : g.run = Max(Runs) /\ g.end = Min(Ends)
  BY <1>7
<1>9. ASSUME NEW h \in G PROVE h.run < g.run \/ (h.run = g.run /\ h.end >= g.end)
  <2>1. h.run \in Runs /\ (h.run = Max(Runs) => h.end \in Ends)
    OBVIOUS
  <2> HIDE DEF Runs, Ends
  <2> QED BY <2>1, <1>1, <1>5, <1>7, <1>8
<1> QED BY <1>3, <1>8, <1>9 DEF G

LEMMA ShiftOutOf ==
  ASSUME NEW s \in Slot, NEW ids \in Seq(Nat) \ {<<>>}, NEW g \in Gaps(s, ids)
  PROVE  LET t == ShiftOut(s, g)
         IN t \in Slot /\ t.id = s.id /\ t.busy = s.busy
<1> DEFINE cut(x) == First(x, g.keep) \o After(x, g.end)
           gap == g.end - g.keep
           kv == cut(s.kv)
           plen == IF s.plen > gap THEN s.plen - gap ELSE 0
           clean == Least(s.clean, g.keep)
           t == [id |-> s.id, tokens |-> kv, kv |-> kv, clean |-> clean, state |-> s.state,
                 snaps |-> s.snaps, plen |-> plen, ctx |-> s.ctx, tag |-> s.tag, busy |-> s.busy]
<1>1. /\ ~Hybrid /\ g.keep \in 0..Len(s.kv) /\ g.end \in g.keep..Len(s.kv)
      /\ kind = "plain" /\ 0 < g.keep /\ g.end < Len(s.kv)
      /\ s.clean \in Nat /\ (Exact(s) \/ Shifted(s))
      /\ s.kv = s.tokens /\ s.kv \in Seq(Nat) /\ s.plen \in Nat /\ Len(s.kv) \in Nat
  BY GapsOf, SlotFields
<1>2. g.end \in 0..Len(s.kv) /\ gap \in Nat
  BY <1>1
<1>3. /\ First(s.kv, g.keep) \in Seq(Nat) /\ After(s.kv, g.end) \in Seq(Nat)
      /\ Len(First(s.kv, g.keep)) = g.keep /\ Len(After(s.kv, g.end)) = Len(s.kv) - g.end
  BY <1>1, <1>2, FirstOf, AfterOf
<1>4. kv \in Seq(Nat) /\ Len(kv) = Len(First(s.kv, g.keep)) + Len(After(s.kv, g.end))
  BY <1>3, ConcatProperties
<1>9. clean \in Nat /\ CleanOK(clean, kv)
  <2> DEFINE len == Len(kv)
  <2>3. g.keep \in Nat /\ g.end \in Nat /\ g.end < Len(s.kv) /\ Len(s.kv) \in Nat
    BY <1>1
  <2>4. len = g.keep + (Len(s.kv) - g.end)
    BY <1>3, <1>4
  <2> HIDE DEF len
  <2>1. g.keep \in Nat /\ len \in Nat /\ g.keep < len
    BY <2>3, <2>4
  <2>2. s.clean = Len(s.kv) \/ (0 < s.clean /\ s.clean < Len(s.kv))
    BY <1>1 DEF Exact, Shifted
  <2>5. s.clean \in Nat /\ 0 < g.keep /\ Len(s.kv) \in Nat
    BY <1>1
  <2>6. clean \in Nat /\ 0 < clean /\ clean < len
    BY <2>1, <2>2, <2>3, <2>5 DEF Least
  <2> HIDE DEF kv
  <2> QED BY <1>1, <2>6 DEF CleanOK, len
<1>5. plen \in Nat
  BY <1>1, <1>2
<1>6. ShiftOut(s, g) = t
  <2> DEFINE s1 == [s EXCEPT !.tokens = kv]
             s2 == [s1 EXCEPT !.kv = kv]
             s2c == [s2 EXCEPT !.clean = clean]
             s3 == [s2c EXCEPT !.plen = plen]
  <2>1. [s EXCEPT !.tokens = cut(s.tokens), !.kv = cut(s.kv), !.clean = clean, !.plen = plen] = s3
    BY <1>1
  <2>2. ShiftOut(s, g) = s3
    BY <2>1 DEF ShiftOut
  <2> HIDE DEF kv, plen, clean
  <2>3. s = SlotOfAll(s.id, s.kv, s.kv, s.clean, s.state, s.snaps, s.plen, s.ctx, s.tag, s.busy)
    BY SlotIsRecord
  <2>4. s1 = SlotOfAll(s.id, kv, s.kv, s.clean, s.state, s.snaps, s.plen, s.ctx, s.tag, s.busy)
    BY <2>3 DEF SlotOfAll
  <2> HIDE DEF s1
  <2>5. s2 = SlotOfAll(s.id, kv, kv, s.clean, s.state, s.snaps, s.plen, s.ctx, s.tag, s.busy)
    BY <2>4 DEF SlotOfAll
  <2> HIDE DEF s2
  <2>7. s2c = SlotOfAll(s.id, kv, kv, clean, s.state, s.snaps, s.plen, s.ctx, s.tag, s.busy)
    BY <2>5 DEF SlotOfAll
  <2> HIDE DEF s2c
  <2>6. s3 = SlotOfAll(s.id, kv, kv, clean, s.state, s.snaps, plen, s.ctx, s.tag, s.busy)
    BY <2>7 DEF SlotOfAll
  <2> QED BY <2>2, <2>6 DEF SlotOfAll
<1>7. t.id = s.id /\ t.busy = s.busy
  OBVIOUS
<1> HIDE DEF kv, plen, clean
<1>8. t \in Slot
  <2>1. /\ s.id \in Nat /\ s.state \in Seq(Cell) /\ s.ctx \in Nat /\ s.tag \in Tag /\ s.busy \in BOOLEAN
        /\ s.snaps \in [{} -> Seq(Cell)] /\ {} \in SUBSET Nat
    BY <1>1, SlotFields
  <2> QED BY <2>1, <1>4, <1>5, <1>9, SlotIs
<1> QED BY <1>6, <1>7, <1>8

LEMMA FileFields ==
  ASSUME NEW f \in File
  PROVE  /\ f \in FileShape /\ f.tokens \in Seq(Nat) /\ f.kv = f.tokens /\ f.plen \in Nat
         /\ f.tag \in Tag /\ f.by \in Node /\ f.late \in BOOLEAN /\ Len(f.tokens) \in Nat
         /\ DOMAIN f.snaps \in SUBSET Nat /\ f.snaps \in [DOMAIN f.snaps -> Seq(Cell)]
         /\ \A p \in DOMAIN f.snaps : p <= Len(f.tokens) /\ f.snaps[p] = First(f.kv, p)
         /\ ~Hybrid => DOMAIN f.snaps = {}
         /\ f.clean \in Nat /\ (Exact(f) \/ Shifted(f))
<1>1. f \in FileShape /\ Honest(f)
  BY DEF File
<1>2. /\ f.tokens \in Seq(Nat) /\ f.kv \in Seq(Nat) /\ f.snaps \in Snaps /\ f.plen \in Nat
      /\ f.tag \in Tag /\ f.by \in Node /\ f.late \in BOOLEAN /\ f.clean \in Nat
  BY <1>1 DEF FileShape
<1>3. DOMAIN f.snaps \in SUBSET Nat /\ f.snaps \in [DOMAIN f.snaps -> Seq(Cell)]
  BY <1>2 DEF Snaps
<1> QED BY <1>1, <1>2, <1>3, LenProperties DEF Honest, TellsItsContent

LEMMA FileIs ==
  ASSUME NEW kv \in Seq(Nat), NEW D \in SUBSET Nat, NEW snaps \in [D -> Seq(Cell)],
         NEW plen \in Nat, NEW tag \in Tag, NEW by \in Node, NEW late \in BOOLEAN,
         \A p \in D : p <= Len(kv) /\ snaps[p] = First(kv, p), ~Hybrid => D = {},
         NEW clean \in Nat, CleanOK(clean, kv)
  PROVE  [tokens |-> kv, kv |-> kv, clean |-> clean, snaps |-> snaps, plen |-> plen, tag |-> tag,
          by |-> by, late |-> late] \in File
<1> DEFINE f == [tokens |-> kv, kv |-> kv, clean |-> clean, snaps |-> snaps, plen |-> plen,
                 tag |-> tag, by |-> by, late |-> late]
<1>1. DOMAIN snaps = D /\ snaps \in Snaps
  BY DEF Snaps
<1>2. f \in FileShape
  BY <1>1 DEF FileShape
<1>3. f.kv = f.tokens /\ f.kv = kv /\ f.snaps = snaps /\ f.clean = clean
  OBVIOUS
<1> HIDE DEF f
<1>4. Honest(f)
  BY <1>1, <1>3 DEF Honest, TellsItsContent, CleanOK, Exact, Shifted
<1>5. f \in File
  BY <1>2, <1>4 DEF File
<1> QED BY <1>5 DEF f

(* A slot that goes to disk, and comes back. *)
LEMMA EncodeOf ==
  ASSUME NEW s \in Slot, NEW n \in Node
  PROVE  LET f == Encode(n, s)
         IN f \in File /\ f.by = n /\ ~f.late /\ f.tag = s.tag
<1> DEFINE k == KeepOf(s)
           P == {0} \cup DOMAIN s.snaps
           kv == First(s.kv, k)
           plen == Least(s.plen, k)
           clean == Least(s.clean, k)
           f == [tokens |-> kv, kv |-> kv, clean |-> clean, snaps |-> s.snaps, plen |-> plen,
                 tag |-> s.tag, by |-> n, late |-> FALSE]
<1>1. /\ s.kv = s.tokens /\ s.kv \in Seq(Nat) /\ s.plen \in Nat /\ Len(s.kv) \in Nat
      /\ DOMAIN s.snaps \in SUBSET Nat
      /\ \A p \in DOMAIN s.snaps : p <= Len(s.kv) /\ s.snaps[p] = First(s.kv, p)
      /\ ~Hybrid => DOMAIN s.snaps = {}
      /\ s.clean \in Nat /\ (Exact(s) \/ Shifted(s))
  BY SlotFields
<1>2. Max(P) \in P /\ \A p \in P : p <= Max(P)
  <2>1. P \in SUBSET Nat /\ P # {} /\ \A p \in P : p <= Len(s.kv)
    BY <1>1
  <2> HIDE DEF P
  <2> QED BY <1>1, <2>1, MaxExists
<1>3. k \in 0..Len(s.kv) /\ \A p \in DOMAIN s.snaps : p <= k
  <2>1. CASE Hybrid
    <3>1. k = Max(P)
      BY <2>1 DEF KeepOf
    <3>2. k \in P /\ \A p \in P : p <= k
      BY <1>2, <3>1
    <3> HIDE DEF k
    <3>3. \A p \in P : p \in Nat /\ p <= Len(s.kv)
      BY <1>1
    <3>4. k \in 0..Len(s.kv)
      BY <3>2, <3>3, <1>1
    <3> QED BY <3>2, <3>4
  <2>2. CASE ~Hybrid
    BY <2>2, <1>1 DEF KeepOf
  <2> QED BY <2>1, <2>2
<1>4. kv \in Seq(Nat) /\ Len(kv) = k
  <2> HIDE DEF k
  <2> QED BY <1>1, <1>3, FirstOf
<1>5. \A p \in DOMAIN s.snaps : p <= Len(kv) /\ s.snaps[p] = First(kv, p)
  <2> HIDE DEF k
  <2>1. \A p \in DOMAIN s.snaps : p \in 0..k
    BY <1>1, <1>3
  <2>2. \A p \in DOMAIN s.snaps : First(kv, p) = First(s.kv, p)
    BY <1>1, <1>3, <2>1, FirstOfFirst
  <2> HIDE DEF kv
  <2> QED BY <1>1, <1>3, <1>4, <2>2
<1>6. plen \in Nat
  BY <1>1, <1>3 DEF Least
<1>7. Encode(n, s) = f
  BY <1>1 DEF Encode
<1>8. f.by = n /\ ~f.late /\ f.tag = s.tag
  OBVIOUS
<1>10. clean \in Nat /\ CleanOK(clean, kv)
  <2> HIDE DEF k, kv
  <2> QED BY <1>1, <1>3, <1>4, CleanOf
<1> HIDE DEF k, kv, plen, clean
<1>9. f \in File
  <2>1. s.tag \in Tag /\ s.snaps \in [DOMAIN s.snaps -> Seq(Cell)]
    BY SlotFields
  <2> QED BY <1>1, <1>4, <1>5, <1>6, <1>10, <2>1, FileIs
<1> QED BY <1>7, <1>8, <1>9

LEMMA DecodeOf ==
  ASSUME NEW f \in File, NEW q \in Request, NEW id \in Nat
  PROVE  LET s == Decode(f, q, id)
         IN s \in Slot /\ s.id = id /\ ~s.busy
<1> DEFINE s == [id |-> id, tokens |-> f.kv, kv |-> f.kv, clean |-> f.clean, state |-> <<>>,
                 snaps |-> f.snaps, plen |-> f.plen, ctx |-> q.ctx, tag |-> f.tag, busy |-> FALSE]
<1>1. Decode(f, q, id) = s
  BY FileFields DEF Decode
<1>2. /\ f.kv \in Seq(Nat) /\ f.plen \in Nat /\ f.tag \in Tag /\ q.ctx \in Nat
      /\ DOMAIN f.snaps \in SUBSET Nat /\ f.snaps \in [DOMAIN f.snaps -> Seq(Cell)]
      /\ \A p \in DOMAIN f.snaps : p <= Len(f.kv) /\ f.snaps[p] = First(f.kv, p)
      /\ ~Hybrid => DOMAIN f.snaps = {}
      /\ f.clean \in Nat /\ CleanOK(f.clean, f.kv)
  BY FileFields, CleanOf, CachesAssumption
<1>3. <<>> \in Seq(Cell)
  BY EmptySeq
<1>4. s \in Slot
  BY <1>2, <1>3, SlotIs
<1> QED BY <1>1, <1>4

-----------------------------------------------------------------------------
(* Pools: slots of their own ids; what leaves, stays and is put in *)

PoolOK(p) == p \in Seq(Slot) /\ OneIdPerSlot(p)

LEMMA PoolFields ==
  ASSUME NEW p \in Seq(Slot)
  PROVE  /\ Len(p) \in Nat /\ DOMAIN p = 1..Len(p)
         /\ \A i \in DOMAIN p : p[i] \in Slot /\ i \in Nat
BY LenProperties, ElementOfSeq

LEMMA AtOf ==
  ASSUME NEW p \in Seq(Slot), NEW places
  PROVE  LET t == At(p, places)
         IN /\ t \in Seq(Slot)
            /\ \A k \in DOMAIN t : \E i \in DOMAIN p \cap places : t[k] = p[i]
            /\ \A i \in DOMAIN p \cap places : \E k \in DOMAIN t : t[k] = p[i]
            /\ OneIdPerSlot(p) => OneIdPerSlot(t)
<1> DEFINE t == At(p, places)
<1>1. t \in Seq(Slot)
  BY AtPicks
<1>2. PICK g : Picks(t, p, places, g)
  BY AtPicks
<1> HIDE DEF t
<1>3. DOMAIN t = 1..Len(t) /\ DOMAIN p = 1..Len(p) /\ Len(t) \in Nat
  BY <1>1, PoolFields
<1>4. /\ \A k \in DOMAIN t : g[k] \in DOMAIN p \cap places /\ t[k] = p[g[k]]
      /\ \A k, l \in DOMAIN t : k < l => g[k] < g[l]
      /\ \A i \in DOMAIN p \cap places : \E k \in DOMAIN t : g[k] = i
  BY <1>2, <1>3 DEF Picks
<1>5. ASSUME OneIdPerSlot(p) PROVE OneIdPerSlot(t)
  <2>1. ASSUME NEW k \in DOMAIN t, NEW l \in DOMAIN t, t[k].id = t[l].id PROVE k = l
    <3>1. g[k] = g[l]
      BY <2>1, <1>4, <1>5 DEF OneIdPerSlot
    <3>2. k \in Nat /\ l \in Nat /\ g[k] \in Nat /\ g[l] \in Nat
      BY <1>3, <1>4
    <3>3. ~ (k < l) /\ ~ (l < k)
      BY <3>1, <3>2, <1>4
    <3> QED BY <3>2, <3>3
  <2> QED BY <2>1 DEF OneIdPerSlot
<1>6. \A k \in DOMAIN t : \E i \in DOMAIN p \cap places : t[k] = p[i]
  BY <1>4
<1>7. \A i \in DOMAIN p \cap places : \E k \in DOMAIN t : t[k] = p[i]
  BY <1>4
<1> QED BY <1>1, <1>5, <1>6, <1>7 DEF t

LEMMA AtCovers ==
  ASSUME NEW p \in Seq(Slot), NEW places, NEW i \in DOMAIN p \cap places
  PROVE  \E k \in DOMAIN At(p, places) : At(p, places)[k] = p[i]
<1> DEFINE t == At(p, places)
<1>1. t \in Seq(Slot)
  BY AtPicks
<1>2. PICK g : Picks(t, p, places, g)
  BY AtPicks
<1> HIDE DEF t
<1>3. DOMAIN t = 1..Len(t)
  BY <1>1, PoolFields
<1>4. PICK k \in DOMAIN t : g[k] = i
  BY <1>2, <1>3 DEF Picks
<1>5. t[k] = p[i]
  BY <1>2, <1>3, <1>4 DEF Picks
<1> QED BY <1>4, <1>5 DEF t

LEMMA WithoutOf ==
  ASSUME NEW p, PoolOK(p), NEW gone
  PROVE  LET t == Without(p, gone)
         IN /\ PoolOK(t)
            /\ \A k \in DOMAIN t : t[k].id \notin gone /\ \E i \in DOMAIN p : t[k] = p[i]
            /\ \A i \in DOMAIN p : p[i].id \notin gone => \E k \in DOMAIN t : t[k] = p[i]
<1> DEFINE I == {i \in DOMAIN p : p[i].id \notin gone}
           t == At(p, I)
<1>1. Without(p, gone) = t
  BY DEF Without
<1>2. p \in Seq(Slot) /\ OneIdPerSlot(p)
  BY DEF PoolOK
<1> HIDE DEF I
<1>3. /\ t \in Seq(Slot) /\ OneIdPerSlot(t)
      /\ \A k \in DOMAIN t : \E i \in DOMAIN p \cap I : t[k] = p[i]
      /\ \A i \in DOMAIN p \cap I : \E k \in DOMAIN t : t[k] = p[i]
  BY <1>2, AtOf
<1> HIDE DEF t
<1> QED BY <1>1, <1>3 DEF PoolOK, I

(* Victims are idle slots of the pool, and not the one to keep. *)
LEMMA VictimsOf ==
  ASSUME NEW p \in Seq(Slot), NEW keep, NEW max
  PROVE  LET v == Victims(p, keep, max)
         IN /\ v \in Seq(Slot)
            /\ \A k \in DOMAIN v : \E i \in DOMAIN p : /\ v[k] = p[i]
                                                       /\ ~p[i].busy /\ p[i].id # keep
<1> DEFINE I == {i \in DOMAIN p : ~p[i].busy /\ p[i].id # keep}
           idle == At(p, I)
           left(k) == Without(p, Ids(First(idle, k)))
           enough(k) == Fits(left(k), max) \/ k = Len(idle) \/ Len(left(k)) <= 1
           K == {k \in 0..Len(idle) : enough(k)}
<1>1. Victims(p, keep, max) = First(idle, Min(K))
  BY DEF Victims
<1> HIDE DEF I
<1>2. /\ idle \in Seq(Slot)
      /\ \A k \in DOMAIN idle : \E i \in DOMAIN p \cap I : idle[k] = p[i]
  BY AtOf
<1> HIDE DEF idle
<1>3. Len(idle) \in Nat /\ DOMAIN idle = 1..Len(idle)
  BY <1>2, PoolFields
<1>4. K \in SUBSET Nat /\ Len(idle) \in K
  BY <1>3
<1> HIDE DEF K
<1>5. Min(K) \in K
  BY <1>4, MinExists
<1>6. Min(K) \in 0..Len(idle)
  BY <1>5 DEF K
<1> DEFINE v == First(idle, Min(K))
<1>7. v \in Seq(Slot) /\ Len(v) = Min(K) /\ \A k \in 1..Min(K) : v[k] = idle[k]
  BY <1>2, <1>6, FirstOf
<1> HIDE DEF v
<1>8. DOMAIN v = 1..Min(K) /\ DOMAIN v \subseteq DOMAIN idle
  BY <1>7, <1>6, <1>3, PoolFields
<1>9. \A k \in DOMAIN v : \E i \in DOMAIN p : v[k] = p[i] /\ ~p[i].busy /\ p[i].id # keep
  <2>1. ASSUME NEW k \in DOMAIN v
        PROVE  \E i \in DOMAIN p : v[k] = p[i] /\ ~p[i].busy /\ p[i].id # keep
    <3>1. k \in DOMAIN idle /\ v[k] = idle[k]
      BY <1>7, <1>8
    <3>2. PICK i \in DOMAIN p \cap I : idle[k] = p[i]
      BY <1>2, <3>1
    <3> QED BY <3>1, <3>2 DEF I
  <2> QED BY <2>1
<1> QED BY <1>1, <1>7, <1>9 DEF v

(* `gone` are ids of slots that no reply uses. *)
Unused(p, gone) == \A x \in gone : \E i \in DOMAIN p : p[i].id = x /\ ~p[i].busy

LEMMA UnusedVictims ==
  ASSUME NEW p \in Seq(Slot), NEW keep, NEW max
  PROVE  LET gone == Ids(Victims(p, keep, max)) IN Unused(p, gone) /\ keep \notin gone
<1> DEFINE v == Victims(p, keep, max)
<1>1. \A k \in DOMAIN v : \E i \in DOMAIN p : v[k] = p[i] /\ ~p[i].busy /\ p[i].id # keep
  BY VictimsOf
<1> HIDE DEF v
<1>2. Unused(p, Ids(v)) /\ keep \notin Ids(v)
  BY <1>1 DEF Unused, Ids
<1> QED BY <1>2 DEF v

LEMMA ServesWithout ==
  ASSUME NEW p, PoolOK(p), NEW gone, Unused(p, gone), NEW w, Serves(p, w)
  PROVE  Serves(Without(p, gone), w)
<1> DEFINE t == Without(p, gone)
<1>1. PICK i \in DOMAIN p : p[i].id = w.id /\ p[i].busy /\ ReadSoFar(w, p[i])
  BY DEF Serves
<1>2. p[i].id \notin gone
  <2>1. SUFFICES ASSUME p[i].id \in gone PROVE FALSE
    OBVIOUS
  <2>2. PICK j \in DOMAIN p : p[j].id = p[i].id /\ ~p[j].busy
    BY <2>1 DEF Unused
  <2>3. j = i
    BY <2>2 DEF PoolOK, OneIdPerSlot
  <2> QED BY <1>1, <2>2, <2>3
<1>3. \E k \in DOMAIN t : t[k] = p[i]
  BY <1>2, WithoutOf
<1> HIDE DEF t
<1>4. Serves(t, w)
  BY <1>1, <1>3 DEF Serves
<1> QED BY <1>4 DEF t

LEMMA EvictedOf ==
  ASSUME NEW p, PoolOK(p), NEW keep, NEW max
  PROVE  /\ PoolOK(Evicted(p, keep, max))
         /\ \A w : Serves(p, w) => Serves(Evicted(p, keep, max), w)
<1> DEFINE gone == Ids(Victims(p, keep, max))
<1>1. Unused(p, gone)
  BY UnusedVictims DEF PoolOK
<1>2. Evicted(p, keep, max) = Without(p, gone)
  BY DEF Evicted
<1> HIDE DEF gone
<1>3. PoolOK(Without(p, gone))
  BY WithoutOf
<1>4. \A w : Serves(p, w) => Serves(Without(p, gone), w)
  BY <1>1, ServesWithout
<1> QED BY <1>2, <1>3, <1>4

(* A slot changes in place, keeping its id. *)
LEMMA ReplaceOf ==
  ASSUME NEW p, PoolOK(p), NEW i \in DOMAIN p, NEW s \in Slot, s.id = p[i].id
  PROVE  LET t == [p EXCEPT ![i] = s]
         IN /\ PoolOK(t) /\ DOMAIN t = DOMAIN p /\ t[i] = s
            /\ \A j \in DOMAIN p : t[j].id = p[j].id /\ (j # i => t[j] = p[j])
            /\ \A w : Serves(p, w) /\ w.id # s.id => Serves(t, w)
            /\ \A w : Serves(p, w) /\ ~p[i].busy => Serves(t, w)
<1> DEFINE t == [p EXCEPT ![i] = s]
<1>1. p \in Seq(Slot) /\ OneIdPerSlot(p) /\ DOMAIN p = 1..Len(p)
  BY PoolFields DEF PoolOK
<1>2. t \in Seq(Slot)
  BY <1>1, ExceptSeq
<1>3. DOMAIN t = DOMAIN p /\ t[i] = s /\ \A j \in DOMAIN p : j # i => t[j] = p[j]
  BY <1>1
<1> HIDE DEF t
<1>4. \A j \in DOMAIN p : t[j].id = p[j].id
  BY <1>3
<1>5. PoolOK(t)
  BY <1>1, <1>2, <1>3, <1>4 DEF PoolOK, OneIdPerSlot
<1>6. ASSUME NEW w, Serves(p, w), w.id # s.id PROVE Serves(t, w)
  BY <1>3, <1>6 DEF Serves
<1>7. ASSUME NEW w, Serves(p, w), ~p[i].busy PROVE Serves(t, w)
  BY <1>3, <1>7 DEF Serves
<1>8. \A w : Serves(p, w) /\ w.id # s.id => Serves(t, w)
  BY <1>6
<1>9. \A w : Serves(p, w) /\ ~p[i].busy => Serves(t, w)
  BY <1>7
<1> QED BY <1>3, <1>4, <1>5, <1>8, <1>9 DEF t

(* A slot with an id of its own is put at the end. *)
LEMMA AppendOf ==
  ASSUME NEW p, PoolOK(p), NEW s \in Slot, s.id \notin Ids(p)
  PROVE  LET t == Append(p, s)
         IN /\ PoolOK(t) /\ Len(t) = Len(p) + 1 /\ t[Len(t)] = s
            /\ DOMAIN t = DOMAIN p \cup {Len(t)} /\ \A j \in DOMAIN p : t[j] = p[j]
            /\ \A w : Serves(p, w) => Serves(t, w)
<1> DEFINE t == Append(p, s)
<1>1. p \in Seq(Slot) /\ OneIdPerSlot(p) /\ DOMAIN p = 1..Len(p) /\ Len(p) \in Nat
  BY PoolFields DEF PoolOK
<1>2. /\ t \in Seq(Slot) /\ Len(t) = Len(p) + 1 /\ t[Len(p) + 1] = s
      /\ \A j \in 1..Len(p) : t[j] = p[j]
  BY <1>1, AppendProperties
<1> HIDE DEF t
<1>3. DOMAIN t = 1..Len(t)
  BY <1>2, PoolFields
<1>4. DOMAIN t = DOMAIN p \cup {Len(t)} /\ t[Len(t)] = s /\ Len(t) \notin DOMAIN p
  BY <1>1, <1>2, <1>3
<1>5. OneIdPerSlot(t)
  <2>1. \A j \in DOMAIN p : p[j].id # s.id
    BY DEF Ids
  <2> QED BY <2>1, <1>1, <1>2, <1>4 DEF OneIdPerSlot
<1>6. ASSUME NEW w, Serves(p, w) PROVE Serves(t, w)
  BY <1>1, <1>2, <1>4, <1>6 DEF Serves
<1>7. \A w : Serves(p, w) => Serves(t, w)
  BY <1>6
<1> QED BY <1>1, <1>2, <1>4, <1>5, <1>7 DEF t, PoolOK

(* The ids of busy slots: nothing that is done to a pool makes one but what *)
(* makes a slot busy.                                                       *)
LEMMA BusyWithout ==
  ASSUME NEW p, PoolOK(p), NEW gone
  PROVE  Busy(Without(p, gone)) \subseteq Busy(p)
<1> DEFINE t == Without(p, gone)
<1>1. \A k \in DOMAIN t : \E i \in DOMAIN p : t[k] = p[i]
  BY WithoutOf
<1> HIDE DEF t
<1>2. Busy(t) \subseteq Busy(p)
  BY <1>1 DEF Busy
<1> QED BY <1>2 DEF t

LEMMA BusyEvicted ==
  ASSUME NEW p, PoolOK(p), NEW keep, NEW max
  PROVE  Busy(Evicted(p, keep, max)) \subseteq Busy(p)
BY BusyWithout DEF Evicted

LEMMA BusyReplace ==
  ASSUME NEW p, PoolOK(p), NEW i \in DOMAIN p, NEW s \in Slot, s.id = p[i].id
  PROVE  /\ Busy([p EXCEPT ![i] = s]) \subseteq Busy(p) \cup {s.id}
         /\ ~s.busy => Busy([p EXCEPT ![i] = s]) \subseteq Busy(p) \ {s.id}
<1> DEFINE t == [p EXCEPT ![i] = s]
<1>1. DOMAIN t = DOMAIN p /\ t[i] = s /\ \A j \in DOMAIN p : j # i => t[j] = p[j]
  BY ReplaceOf
<1>2. \A j \in DOMAIN p : j # i => p[j].id # s.id
  BY DEF PoolOK, OneIdPerSlot
<1> HIDE DEF t
<1>3. Busy(t) \subseteq Busy(p) \cup {s.id}
  BY <1>1 DEF Busy
<1>4. ~s.busy => Busy(t) \subseteq Busy(p) \ {s.id}
  BY <1>1, <1>2 DEF Busy
<1> QED BY <1>3, <1>4 DEF t

LEMMA BusyAppend ==
  ASSUME NEW p, PoolOK(p), NEW s \in Slot, s.id \notin Ids(p), ~s.busy
  PROVE  Busy(Append(p, s)) \subseteq Busy(p)
<1> DEFINE t == Append(p, s)
<1>1. /\ t[Len(t)] = s /\ DOMAIN t = DOMAIN p \cup {Len(t)} /\ \A j \in DOMAIN p : t[j] = p[j]
  BY AppendOf
<1> HIDE DEF t
<1>2. Busy(t) \subseteq Busy(p)
  BY <1>1 DEF Busy
<1> QED BY <1>2 DEF t

LEMMA BestOf ==
  ASSUME NEW n, NEW p \in Seq(Slot), NEW ids \in Seq(Nat) \ {<<>>}, Candidates(n, p, ids) # {}
  PROVE  Best(n, p, ids) \in Candidates(n, p, ids)
<1> DEFINE C == Candidates(n, p, ids)
           got(i) == Supplies(p[i], ids)
           All == {got(i) : i \in C}
           Tops == {i \in C : got(i) = Max(All)}
<1>1. Len(p) \in Nat /\ Len(ids) \in Nat /\ C \subseteq DOMAIN p /\ DOMAIN p = 1..Len(p)
  BY PoolFields, LenProperties DEF Candidates
<1>2. \A i \in C : got(i) \in 0..Len(ids) - 1
  BY <1>1, PoolFields, SuppliesOf
<1>3. Best(n, p, ids) = CHOOSE i \in C : \A j \in C : got(j) < got(i) \/ (got(j) = got(i) /\ j <= i)
  BY DEF Best
<1>4. C # {}
  OBVIOUS
<1> HIDE DEF C, got
<1>5. All \in SUBSET Nat /\ All # {} /\ \A x \in All : x <= Len(ids)
  BY <1>1, <1>2, <1>4
<1>6. Max(All) \in All /\ \A x \in All : x <= Max(All)
  <2> HIDE DEF All
  <2> QED BY <1>1, <1>5, MaxExists
<1>7. Tops \in SUBSET Nat /\ Tops # {} /\ \A i \in Tops : i <= Len(p)
  <2>1. \A i \in C : i \in Nat /\ i <= Len(p)
    BY <1>1
  <2>2. PICK i \in C : got(i) = Max(All)
    BY <1>6
  <2>3. i \in Tops
    BY <2>2
  <2> QED BY <2>1, <2>3
<1>8. Max(Tops) \in Tops /\ \A i \in Tops : i <= Max(Tops)
  <2> HIDE DEF Tops
  <2> QED BY <1>1, <1>7, MaxExists
<1>9. ASSUME NEW j \in C
      PROVE  got(j) < got(Max(Tops)) \/ (got(j) = got(Max(Tops)) /\ j <= Max(Tops))
  <2>1. got(j) \in All /\ (got(j) = Max(All) => j \in Tops) /\ got(j) \in Nat
    BY <1>2, <1>1
  <2>2. got(Max(Tops)) = Max(All) /\ Max(All) \in Nat
    BY <1>5, <1>6, <1>8
  <2> HIDE DEF All, Tops
  <2> QED BY <2>1, <2>2, <1>6, <1>8
<1>10. \E i \in C : \A j \in C : got(j) < got(i) \/ (got(j) = got(i) /\ j <= i)
  <2>1. Max(Tops) \in C
    BY <1>8
  <2> HIDE DEF Tops
  <2> QED BY <2>1, <1>9
<1>11. Best(n, p, ids) \in C
  BY <1>3, <1>10
<1> QED BY <1>11 DEF C

(* There is always an identity that nothing has: fewer are known than are  *)
(* looked at.                                                              *)
LEMMA FreshOf ==
  ASSUME TypeOK, NEW n \in Node, NEW p \in Seq(Slot)
  PROVE  FreshId(n, p) \in Nat /\ FreshId(n, p) \notin Ids(p)
<1> DEFINE known == Taken(n) \cup Ids(p)
           k == Cardinality(known)
<1>1. ASSUME NEW t \in Seq(Slot) PROVE IsFiniteSet(Ids(t))
  <2>1. IsFiniteSet(1..Len(t)) /\ DOMAIN t = 1..Len(t)
    BY PoolFields, FS_Interval
  <2> DEFINE f == [i \in DOMAIN t |-> t[i].id]
  <2>2. f \in Surjection(DOMAIN t, Ids(t))
    BY DEF Surjection, Ids
  <2> QED BY <2>1, <2>2, FS_Surjection
<1>2. IsFiniteSet({reply[r].id : r \in RunningOn(n)})
  <2>1. IsFiniteSet(RunningOn(n))
    BY CachesAssumption, FS_Subset DEF RunningOn
  <2> DEFINE T == {reply[r].id : r \in RunningOn(n)}
             f == [r \in RunningOn(n) |-> reply[r].id]
  <2>2. f \in Surjection(RunningOn(n), T)
    BY DEF Surjection
  <2> QED BY <2>1, <2>2, FS_Surjection
<1>3. pool[n] \in Seq(Slot) /\ store[n].queue \in Seq(Slot)
  BY DEF TypeOK, Store
<1>4. IsFiniteSet(known)
  BY <1>1, <1>2, <1>3, FS_Union DEF Taken
<1> HIDE DEF known
<1>5. k \in Nat
  BY <1>4, FS_CardinalityType
<1>6. ~ (1..k + 1 \subseteq known)
  <2> SUFFICES ASSUME 1..k + 1 \subseteq known PROVE FALSE
    OBVIOUS
  <2>1. Cardinality(1..k + 1) <= k
    BY <1>4, FS_Subset
  <2>2. Cardinality(1..k + 1) = k + 1
    BY <1>5, FS_Interval
  <2> QED BY <1>5, <2>1, <2>2
<1>7. FreshId(n, p) = CHOOSE i \in 1..k + 1 : i \notin known
  BY DEF FreshId, known
<1>8. FreshId(n, p) \in 1..k + 1 /\ FreshId(n, p) \notin known
  BY <1>6, <1>7
<1> QED BY <1>5, <1>8 DEF known

LEMMA TrimmedOf ==
  ASSUME NEW p, PoolOK(p), NEW q \in Request, NEW t \in Trimmed(p, q)
  PROVE  /\ PoolOK(t) /\ Ids(t) = Ids(p) /\ Busy(t) \subseteq Busy(p)
         /\ \A w : Serves(p, w) => Serves(t, w)
<1> DEFINE told == {i \in DOMAIN p : p[i].tag = q.tag /\ ~p[i].busy /\ Gaps(p[i], q.ids) # {}}
<1>1. CASE t = p
  BY <1>1
<1>2. CASE t # p
  <2>1. PICK i \in told : t = [p EXCEPT ![i] = ShiftOut(p[i], FindGap(p[i], q.ids))]
    BY <1>2 DEF Trimmed
  <2>2. i \in DOMAIN p /\ ~p[i].busy /\ Gaps(p[i], q.ids) # {}
    BY <2>1
  <2> DEFINE s == ShiftOut(p[i], FindGap(p[i], q.ids))
  <2>3. p[i] \in Slot
    BY <2>2, PoolFields DEF PoolOK
  <2>4. s \in Slot /\ s.id = p[i].id /\ ~s.busy
    BY <2>2, <2>3, FindGapOf, ShiftOutOf, CachesAssumption
  <2>5. t = [p EXCEPT ![i] = s]
    BY <2>1
  <2> HIDE DEF s, told
  <2>6. /\ PoolOK(t) /\ DOMAIN t = DOMAIN p /\ \A j \in DOMAIN p : t[j].id = p[j].id
        /\ \A w : Serves(p, w) => Serves(t, w)
    BY <2>2, <2>4, <2>5, ReplaceOf
  <2>7. Ids(t) = Ids(p)
    BY <2>6 DEF Ids
  <2>8. Busy(t) \subseteq Busy(p)
    BY <2>2, <2>4, <2>5, BusyReplace
  <2> QED BY <2>6, <2>7, <2>8
<1> QED BY <1>1, <1>2

(* The slot a reply takes is at the end of the pool, no other reply has it *)
(* and it holds a proper beginning of the prompt.                          *)
Begins(s, ids) == /\ ~s.busy /\ s.kv = First(ids, Len(s.kv)) /\ Len(s.kv) < Len(ids)
                  /\ Hybrid => s.state = s.kv
TakenFor(u, p, q) ==
  /\ PoolOK(u) /\ Len(u) \in DOMAIN u /\ Begins(u[Len(u)], q.ids) /\ Busy(u) \subseteq Busy(p)
  /\ \A w : Serves(p, w) => Serves(u, w)

LEMMA TakeSlotOf ==
  ASSUME TypeOK, NEW n \in Node, NEW p, PoolOK(p), NEW q \in Request,
         NEW i \in Candidates(n, p, q.ids)
  PROVE  TakenFor(TakeSlot(n, p, i, q), p, q)
<1> DEFINE s == p[i]
           k == Supplies(s, q.ids)
           continues == Shared(s, q.ids) + Least(TailTokens, s.plen \div 4) >= s.plen
           wanted == s.busy \/ (~continues /\ Len(s.tokens) - k >= ForkMin)
           fork(ctx) == Fork(s, k, ctx, FreshId(n, p))
           less == Without(p, {s.id})
<1>1. /\ p \in Seq(Slot) /\ i \in DOMAIN p /\ s \in Slot /\ k > 0
      /\ s.busy => limit[n] # 1
  BY PoolFields DEF PoolOK, Candidates
<1>2. q.ids \in Seq(Nat) \ {<<>>} /\ q.ctx \in Nat /\ Len(q.ids) \in Nat
  BY CachesAssumption, LenProperties
<1>3. /\ k \in 0..Len(s.tokens) /\ k \in 0..Len(q.ids) - 1
      /\ First(s.tokens, k) = First(q.ids, k) /\ (Hybrid => k \in DOMAIN s.snaps)
  BY <1>1, <1>2, SuppliesOf
<1>4. limit[n] \in Nat \ {0}
  BY CachesAssumption DEF TypeOK
<1>5. FreshId(n, p) \in Nat /\ FreshId(n, p) \notin Ids(p)
  BY <1>1, FreshOf
<1>6. s.ctx \in Nat /\ s.busy \in BOOLEAN
  BY <1>1, SlotFields
<1>7. PoolOK(less) /\ \A x \in Ids(less) : x \in Ids(p) /\ x # s.id
  <2> DEFINE gone == {s.id}
             o == Without(p, gone)
  <2>1. s.id \in gone /\ less = o
    OBVIOUS
  <2> HIDE DEF gone
  <2>2. /\ PoolOK(o)
        /\ \A j \in DOMAIN o : o[j].id \notin gone /\ \E l \in DOMAIN p : o[j] = p[l]
    BY WithoutOf
  <2> HIDE DEF less, o
  <2>3. \A j \in DOMAIN less : less[j].id # s.id /\ \E l \in DOMAIN p : less[j] = p[l]
    BY <2>1, <2>2
  <2> QED BY <2>1, <2>2, <2>3 DEF Ids
<1>8. Busy(less) \subseteq Busy(p)
  BY BusyWithout
<1>9. ~s.busy => \A w : Serves(p, w) => Serves(less, w)
  <2>1. ~s.busy => Unused(p, {s.id})
    BY <1>1 DEF Unused
  <2> QED BY <2>1, ServesWithout
<1>10. ASSUME NEW ctx \in Nat PROVE fork(ctx) \in Slot /\ fork(ctx).id = FreshId(n, p) /\ Begins(fork(ctx), q.ids)
  <2> HIDE DEF s, k
  <2>1. /\ fork(ctx) \in Slot /\ fork(ctx).id = FreshId(n, p) /\ ~fork(ctx).busy
        /\ fork(ctx).kv = First(s.tokens, k) /\ Len(fork(ctx).kv) = k
        /\ (Hybrid => fork(ctx).state = fork(ctx).kv)
    BY <1>1, <1>3, <1>5, ForkOf
  <2> HIDE DEF fork
  <2>2. k < Len(q.ids)
    BY <1>2, <1>3
  <2> QED BY <2>1, <2>2, <1>3 DEF Begins
<1>11. /\ Rewind(s, k) \in Slot /\ Rewind(s, k).id = s.id
       /\ ~s.busy => Begins(Rewind(s, k), q.ids)
  <2> HIDE DEF s, k
  <2> DEFINE t == Rewind(s, k)
  <2>1. /\ t \in Slot /\ t.id = s.id /\ t.busy = s.busy
        /\ t.kv = First(s.tokens, k) /\ Len(t.kv) = k /\ (Hybrid => t.state = t.kv)
    BY <1>1, <1>3, RewindOf
  <2> HIDE DEF t
  <2>2. k < Len(q.ids)
    BY <1>2, <1>3
  <2>3. ~s.busy => Begins(t, q.ids)
    BY <2>1, <2>2, <1>3 DEF Begins
  <2> QED BY <2>1, <2>3 DEF t
<1>12. ASSUME NEW o, PoolOK(o), NEW t \in Slot, t.id \notin Ids(o), Begins(t, q.ids),
              Busy(o) \subseteq Busy(p), \A w : Serves(p, w) => Serves(o, w)
       PROVE  TakenFor(Append(o, t), p, q)
  <2> DEFINE u == Append(o, t)
  <2>1. /\ PoolOK(u) /\ u[Len(u)] = t /\ Len(u) \in DOMAIN u
        /\ \A w : Serves(o, w) => Serves(u, w)
    BY <1>12, AppendOf
  <2>2. Busy(u) \subseteq Busy(o)
    BY <1>12, BusyAppend DEF Begins
  <2> HIDE DEF u
  <2>3. TakenFor(u, p, q)
    BY <2>1, <2>2, <1>12 DEF TakenFor
  <2> QED BY <2>3 DEF u
<1> DEFINE u == TakeSlot(n, p, i, q)
<1>13. CASE s.ctx < q.ctx
  <2> DEFINE o == IF continues /\ ~s.busy THEN less ELSE p
  <2>1. u = Append(o, fork(q.ctx))
    BY <1>13, <1>2, <1>6 DEF TakeSlot
  <2>2. /\ PoolOK(o) /\ Ids(o) \subseteq Ids(p) /\ Busy(o) \subseteq Busy(p)
        /\ \A w : Serves(p, w) => Serves(o, w)
    <3> HIDE DEF less, continues, s
    <3> QED BY <1>7, <1>9, <1>8
  <2> HIDE DEF u, o, fork
  <2>3. TakenFor(Append(o, fork(q.ctx)), p, q)
    BY <2>2, <1>2, <1>5, <1>10, <1>12
  <2> QED BY <2>1, <2>3 DEF u
<1>14. CASE s.ctx >= q.ctx /\ limit[n] > 1 /\ wanted
  <2>1. u = Append(p, fork(s.ctx))
    BY <1>14, <1>2, <1>6 DEF TakeSlot
  <2> HIDE DEF u, fork, s
  <2>2. TakenFor(Append(p, fork(s.ctx)), p, q)
    BY <1>5, <1>6, <1>10, <1>12
  <2> QED BY <2>1, <2>2 DEF u
<1>15. CASE ~(s.ctx < q.ctx) /\ ~(s.ctx >= q.ctx /\ limit[n] > 1 /\ wanted)
  <2>1. u = Append(less, Rewind(s, k))
    BY <1>15 DEF TakeSlot
  <2>2. ~s.busy
    BY <1>1, <1>2, <1>4, <1>6, <1>15
  <2>3. s.id \notin Ids(less)
    BY <1>7
  <2> HIDE DEF u, less, s, k
  <2>4. TakenFor(Append(less, Rewind(s, k)), p, q)
    BY <2>2, <2>3, <1>7, <1>9, <1>11, <1>12, <1>8
  <2> QED BY <2>1, <2>4 DEF u
<1> QED BY <1>13, <1>14, <1>15

-----------------------------------------------------------------------------
(* How a step changes the records of the state *)

LEMMA StoreFields ==
  ASSUME NEW s \in Store
  PROVE  /\ s.queue \in Seq(Slot) /\ s.writing \in Writing /\ s.index \in Files
         /\ s.forgotten \in SUBSET Tag /\ s.claim \in File \cup {None} /\ s.enabled \in BOOLEAN
         /\ \A q \in Seq(Slot) : [s EXCEPT !.queue = q] \in Store
         /\ \A w \in Writing : [s EXCEPT !.writing = w] \in Store
         /\ \A i \in Files : [s EXCEPT !.index = i] \in Store
         /\ \A f \in SUBSET Tag : [s EXCEPT !.forgotten = f] \in Store
         /\ \A c \in File \cup {None} : [s EXCEPT !.claim = c] \in Store
         /\ \A b \in BOOLEAN : [s EXCEPT !.enabled = b] \in Store
<1>1. /\ s.queue \in Seq(Slot) /\ s.writing \in Writing /\ s.index \in Files
      /\ s.forgotten \in SUBSET Tag /\ s.claim \in File \cup {None} /\ s.enabled \in BOOLEAN
  BY DEF Store
<1>2. ASSUME NEW q \in Seq(Slot) PROVE [s EXCEPT !.queue = q] \in Store
  BY DEF Store
<1>3. ASSUME NEW w \in Writing PROVE [s EXCEPT !.writing = w] \in Store
  BY DEF Store
<1>4. ASSUME NEW i \in Files PROVE [s EXCEPT !.index = i] \in Store
  BY DEF Store
<1>5. ASSUME NEW f \in SUBSET Tag PROVE [s EXCEPT !.forgotten = f] \in Store
  BY DEF Store
<1>6. ASSUME NEW c \in File \cup {None} PROVE [s EXCEPT !.claim = c] \in Store
  BY DEF Store
<1>7. ASSUME NEW b \in BOOLEAN PROVE [s EXCEPT !.enabled = b] \in Store
  BY DEF Store
<1> QED BY <1>1, <1>2, <1>3, <1>4, <1>5, <1>6, <1>7

LEMMA AnswerFields ==
  ASSUME NEW w \in Answer
  PROVE  /\ w.node \in Node \cup {None} /\ w.ask \in Request \cup {None} /\ w.id \in Nat
         /\ w.from \in Nat /\ w.made \in Seq(Nat)
         /\ \A a \in {"new", "prefill", "decode", "done"} \cup Waiting : [w EXCEPT !.at = a] \in Answer
         /\ \A n \in Node : [w EXCEPT !.node = n] \in Answer
         /\ \A q \in Request : [w EXCEPT !.ask = q] \in Answer
         /\ \A i \in Nat : [w EXCEPT !.id = i] \in Answer
         /\ \A i \in Nat : [w EXCEPT !.from = i] \in Answer
         /\ \A m \in Seq(Nat) : [w EXCEPT !.made = m] \in Answer
<1>1. /\ w.node \in Node \cup {None} /\ w.ask \in Request \cup {None} /\ w.id \in Nat
      /\ w.from \in Nat /\ w.made \in Seq(Nat)
  BY DEF Answer
<1>2. ASSUME NEW a \in {"new", "prefill", "decode", "done"} \cup Waiting
      PROVE  [w EXCEPT !.at = a] \in Answer
  BY DEF Answer
<1>3. ASSUME NEW n \in Node PROVE [w EXCEPT !.node = n] \in Answer
  BY DEF Answer
<1>4. ASSUME NEW q \in Request PROVE [w EXCEPT !.ask = q] \in Answer
  BY DEF Answer
<1>5. ASSUME NEW i \in Nat PROVE [w EXCEPT !.id = i] \in Answer
  BY DEF Answer
<1>6. ASSUME NEW i \in Nat PROVE [w EXCEPT !.from = i] \in Answer
  BY DEF Answer
<1>7. ASSUME NEW m \in Seq(Nat) PROVE [w EXCEPT !.made = m] \in Answer
  BY DEF Answer
<1> QED BY <1>1, <1>2, <1>3, <1>4, <1>5, <1>6, <1>7

LEMMA EndedType == NewReply \in Answer /\ [NewReply EXCEPT !.at = "done"] \in Answer
                   /\ [NewReply EXCEPT !.at = "done"].at = "done"
                   /\ ReplyOK([NewReply EXCEPT !.at = "done"])
<1>1. <<>> \in Seq(Nat)
  BY EmptySeq
<1>2. NewReply \in Answer
  BY <1>1 DEF NewReply, Answer
<1>3. [NewReply EXCEPT !.at = "done"] = [at |-> "done", node |-> None, ask |-> None, id |-> 0,
                                         from |-> 0, made |-> <<>>]
  BY DEF NewReply
<1>4. [NewReply EXCEPT !.at = "done"] \in Answer
  BY <1>2, AnswerFields
<1> QED BY <1>2, <1>3, <1>4 DEF ReplyOK

LEMMA HistoryFields ==
  ASSUME TypeOK
  PROVE  /\ history.saved \in Seq(File) /\ DOMAIN history.saved = 1..Len(history.saved)
         /\ Len(history.saved) \in Nat /\ history.claims \subseteq Nat \X Node
         /\ history.admin \in Nat
         /\ Admin => /\ history'.saved = history.saved /\ history'.claims = history.claims
                     /\ history' \in [saved : Seq(File), claims : SUBSET (Nat \X Node), admin : Nat]
<1>1. history \in [saved : Seq(File), claims : SUBSET (Nat \X Node), admin : Nat]
  BY DEF TypeOK
<1>2. ASSUME NEW s \in Seq(File) PROVE DOMAIN s = 1..Len(s) /\ Len(s) \in Nat
  BY LenProperties
<1>3. history.saved \in Seq(File) /\ history.claims \subseteq Nat \X Node /\ history.admin \in Nat
  BY <1>1
<1>4. ASSUME Admin
      PROVE  /\ history'.saved = history.saved /\ history'.claims = history.claims
             /\ history' \in [saved : Seq(File), claims : SUBSET (Nat \X Node), admin : Nat]
  <2> DEFINE Files2 == Seq(File)
  <2> HIDE DEF Files2
  <2>1. history \in [saved : Files2, claims : SUBSET (Nat \X Node), admin : Nat]
    BY <1>1 DEF Files2
  <2>2. history' = [history EXCEPT !.admin = history.admin + 1]
    BY <1>4 DEF Admin
  <2>3. /\ history'.saved = history.saved /\ history'.claims = history.claims
        /\ history' \in [saved : Files2, claims : SUBSET (Nat \X Node), admin : Nat]
    BY <2>1, <2>2
  <2> QED BY <2>3 DEF Files2
<1> QED BY <1>2, <1>3, <1>4

(* The model's kind does not change, nor what a slot or a file is. *)
LEMMA SameKind ==
  ASSUME kind' = kind
  PROVE  /\ Slot' = Slot /\ File' = File /\ Files' = Files /\ Writing' = Writing /\ Store' = Store
         /\ Hybrid' = Hybrid
<1>1. Hybrid' = Hybrid
  BY DEF Hybrid
<1>2. Slot' = Slot
  BY <1>1 DEF Slot, Honest, Exact, Shifted
<1>3. File' = File
  BY <1>1 DEF File, Honest, Exact, Shifted
<1>4. Files' = Files
  BY <1>3 DEF Files
<1>5. Writing' = Writing
  BY <1>3 DEF Writing
<1>6. Store' = Store
  BY <1>2, <1>3, <1>4, <1>5 DEF Store
<1> QED BY <1>1, <1>2, <1>3, <1>4, <1>5, <1>6

LEMMA SameServes ==
  ASSUME kind' = kind, NEW o \in Reply, Serves(pool'[reply'[o].node], reply'[o])
  PROVE  Serves(pool[reply[o].node], reply[o])'
<1>1. Hybrid' = Hybrid
  BY SameKind
<1> DEFINE p == pool'[reply'[o].node]
           w == reply'[o]
<1>2. PICK i \in DOMAIN p : p[i].id = w.id /\ p[i].busy /\ ReadSoFar(w, p[i])
  BY DEF Serves
<1>3. ReadSoFar(reply[o], pool[reply[o].node][i])'
  BY <1>1, <1>2 DEF ReadSoFar, Exact
<1> QED BY <1>2, <1>3 DEF Serves

(* What is busy in p is the slot of w, or was busy before and is another's. *)
BusyFor(p, n, r, w) ==
  \A x \in Busy(p) : \/ Running(w) /\ x = w.id
                     \/ x \in Busy(pool[n]) /\ (Running(reply[r]) => x # reply[r].id)

(* A step of reply r on node n: the pool of n is p, the reply is w.        *)
ReplyStep(n, p, r, w) ==
  /\ kind' = kind /\ pool' = [pool EXCEPT ![n] = p] /\ reply' = [reply EXCEPT ![r] = w]
  /\ PoolOK(p) /\ w \in Answer /\ ReplyOK(w)
  /\ Running(w) => w.node = n /\ Serves(p, w)
  /\ \A o \in Reply \ {r} : Running(reply[o]) /\ reply[o].node = n =>
       Serves(p, reply[o]) /\ (Running(w) => reply[o].id # w.id)
  /\ Running(reply[r]) => reply[r].node = n
  /\ BusyFor(p, n, r, w)

LEMMA PoolStep ==
  ASSUME TypeOK, PoolInv, NEW n \in Node, NEW p, NEW r \in Reply, NEW w, ReplyStep(n, p, r, w)
  PROVE  PoolInv' /\ pool' \in [Node -> Seq(Slot')] /\ reply' \in [Reply -> Answer]
<1>0. /\ kind' = kind /\ pool' = [pool EXCEPT ![n] = p] /\ reply' = [reply EXCEPT ![r] = w]
      /\ PoolOK(p) /\ w \in Answer /\ ReplyOK(w)
      /\ Running(w) => w.node = n /\ Serves(p, w)
      /\ \A o \in Reply \ {r} : Running(reply[o]) /\ reply[o].node = n =>
           Serves(p, reply[o]) /\ (Running(w) => reply[o].id # w.id)
      /\ Running(reply[r]) => reply[r].node = n
      /\ BusyFor(p, n, r, w)
  BY DEF ReplyStep
<1>1. /\ pool \in [Node -> Seq(Slot)] /\ reply \in [Reply -> Answer] /\ p \in Seq(Slot)
      /\ Slot' = Slot /\ Hybrid' = Hybrid
  BY <1>0, SameKind DEF TypeOK, PoolOK
<1>2. /\ pool' \in [Node -> Seq(Slot)] /\ pool'[n] = p
      /\ \A m \in Node \ {n} : pool'[m] = pool[m]
  BY <1>0, <1>1
<1>3. /\ reply' \in [Reply -> Answer] /\ reply'[r] = w
      /\ \A o \in Reply \ {r} : reply'[o] = reply[o]
  BY <1>0, <1>1
<1>4. \A m \in Node : OneIdPerSlot(pool'[m])
  BY <1>0, <1>2 DEF PoolInv, PoolOK
<1>5. \A o \in Reply : ReplyOK(reply'[o])
  BY <1>0, <1>3 DEF PoolInv
<1>6. ASSUME NEW o \in Reply, Running(reply'[o]) PROVE Serves(pool'[reply'[o].node], reply'[o])
  <2>1. CASE o = r
    BY <1>0, <1>2, <1>3, <1>6, <2>1
  <2>2. CASE o # r
    <3>1. reply'[o] = reply[o] /\ Serves(pool[reply[o].node], reply[o])
      BY <1>3, <1>6, <2>2 DEF PoolInv
    <3>2. reply[o].node \in Node
      BY <1>6, <3>1 DEF PoolInv, ReplyOK, Running
    <3> QED BY <1>0, <1>2, <1>6, <2>2, <3>1, <3>2
  <2> QED BY <2>1, <2>2
<1>7. ASSUME NEW o \in Reply, NEW u \in Reply, Running(reply'[o]), Running(reply'[u]), o # u
      PROVE  reply'[o].node # reply'[u].node \/ reply'[o].id # reply'[u].id
  <2>1. CASE o = r
    BY <1>0, <1>3, <1>7, <2>1
  <2>2. CASE u = r
    BY <1>0, <1>3, <1>7, <2>2
  <2>3. CASE o # r /\ u # r
    BY <1>3, <1>7, <2>3 DEF PoolInv
  <2> QED BY <2>1, <2>2, <2>3
<1>8. ASSUME NEW m \in Node, NEW x \in Busy(pool'[m])
      PROVE  \E o \in Reply : Running(reply'[o]) /\ reply'[o].node = m /\ reply'[o].id = x
  <2>1. CASE m = n /\ Running(w) /\ x = w.id
    BY <1>0, <1>3, <2>1
  <2>2. CASE m = n /\ x \in Busy(pool[n]) /\ (Running(reply[r]) => x # reply[r].id)
    <3>1. PICK o \in Reply : Running(reply[o]) /\ reply[o].node = n /\ reply[o].id = x
      BY <2>2 DEF PoolInv
    <3> QED BY <1>3, <2>2, <3>1
  <2>3. CASE m # n
    <3>1. x \in Busy(pool[m])
      BY <1>2, <1>8, <2>3
    <3>2. PICK o \in Reply : Running(reply[o]) /\ reply[o].node = m /\ reply[o].id = x
      BY <3>1 DEF PoolInv
    <3> QED BY <1>0, <1>3, <2>3, <3>2
  <2> QED BY <1>0, <1>2, <1>8, <2>1, <2>2, <2>3 DEF BusyFor
<1>9. PoolInv'
  <2>1. \A o \in Reply : Running(reply'[o]) => Serves(pool[reply[o].node], reply[o])'
    BY <1>0, <1>6, SameServes
  <2> QED BY <2>1, <1>4, <1>5, <1>7, <1>8 DEF PoolInv
<1> QED BY <1>1, <1>2, <1>3, <1>9

(* A step of another call on the pool of node n, which spares every slot   *)
(* that a reply uses.                                                      *)
LEMMA PoolCall ==
  ASSUME TypeOK, PoolInv, kind' = kind, reply' = reply,
         NEW n \in Node, NEW p, PoolOK(p), pool' = [pool EXCEPT ![n] = p],
         Busy(p) \subseteq Busy(pool[n]),
         \A o \in Reply : Running(reply[o]) /\ reply[o].node = n => Serves(p, reply[o])
  PROVE  PoolInv' /\ pool' \in [Node -> Seq(Slot')]
<1>1. pool \in [Node -> Seq(Slot)] /\ p \in Seq(Slot) /\ Slot' = Slot /\ Hybrid' = Hybrid
  BY SameKind DEF TypeOK, PoolOK
<1>2. /\ pool' \in [Node -> Seq(Slot)] /\ pool'[n] = p
      /\ \A m \in Node \ {n} : pool'[m] = pool[m]
  BY <1>1
<1>3. \A m \in Node : OneIdPerSlot(pool'[m])
  BY <1>2 DEF PoolInv, PoolOK
<1>4. ASSUME NEW o \in Reply, Running(reply[o]) PROVE Serves(pool'[reply[o].node], reply[o])
  <2>1. reply[o].node \in Node /\ Serves(pool[reply[o].node], reply[o])
    BY <1>4 DEF PoolInv, ReplyOK, Running
  <2> QED BY <1>2, <1>4, <2>1
<1>5. PoolInv'
  <2>1. \A o \in Reply : Running(reply'[o]) => Serves(pool[reply[o].node], reply[o])'
    BY <1>4, SameServes
  <2>2. \A m \in Node : Busy(pool'[m]) \subseteq Busy(pool[m])
    BY <1>2
  <2> QED BY <2>1, <2>2, <1>3 DEF PoolInv
<1> QED BY <1>1, <1>2, <1>5

LEMMA FilesFields ==
  ASSUME NEW d \in Files
  PROVE  DOMAIN d \in SUBSET Nat /\ \A x \in DOMAIN d : d[x] \in File /\ d[x].by \in Node
<1>1. DOMAIN d \in SUBSET Nat /\ \A x \in DOMAIN d : d[x] \in File
  BY DEF Files
<1> QED BY <1>1, FileFields

LEMMA DiskFields ==
  ASSUME TypeOK
  PROVE  DOMAIN disk \in SUBSET Nat /\ \A x \in DOMAIN disk : disk[x] \in File /\ disk[x].by \in Node
BY FilesFields DEF TypeOK

(* A step that leaves the files, the indexes and the writers alone.        *)
LEMMA FilesStay ==
  ASSUME TypeOK, NamesInv, DoomedInv, LateInv, disk' = disk, forget' = forget,
         history'.saved = history.saved, history'.claims = history.claims,
         \A m \in Node : /\ store'[m].index = store[m].index
                         /\ store'[m].writing = store[m].writing
                         /\ store'[m].forgotten = store[m].forgotten
  PROVE  NamesInv' /\ DoomedInv' /\ LateInv'
<1>0. \A x \in DOMAIN disk : disk[x].by \in Node
  BY DiskFields
<1>1. NamesInv'
  BY DEF NamesInv
<1>2. DoomedInv'
  BY DEF DoomedInv
<1>3. LateInv'
  BY <1>0 DEF LateInv, GoesSoon
<1> QED BY <1>1, <1>2, <1>3

(* The queue of node n is longer, nothing else of its store changes.       *)
LEMMA QueueStep ==
  ASSUME TypeOK, kind' = kind, NEW n \in Node, NEW q \in Seq(Slot),
         store' = [store EXCEPT ![n].queue = Spilled(n, q)]
  PROVE  /\ store' \in [Node -> Store']
         /\ \A m \in Node : /\ store'[m].index = store[m].index
                            /\ store'[m].writing = store[m].writing
                            /\ store'[m].forgotten = store[m].forgotten
<1>1. store \in [Node -> Store] /\ store[n] \in Store /\ Store' = Store
  BY SameKind DEF TypeOK
<1>2. Spilled(n, q) \in Seq(Slot)
  BY <1>1, StoreFields, ConcatProperties DEF Spilled
<1> DEFINE s == [store[n] EXCEPT !.queue = Spilled(n, q)]
<1>3. store' = [store EXCEPT ![n] = s]
  OBVIOUS
<1>4. s \in Store
  BY <1>1, <1>2, StoreFields
<1>5. s.index = store[n].index /\ s.writing = store[n].writing /\ s.forgotten = store[n].forgotten
  BY <1>1 DEF Store
<1> HIDE DEF s
<1>6. store'[n] = s /\ \A m \in Node \ {n} : store'[m] = store[m]
  BY <1>1, <1>3
<1>7. store' \in [Node -> Store]
  BY <1>1, <1>3, <1>4
<1> QED BY <1>1, <1>5, <1>6, <1>7

LEMMA KeptTypes ==
  ASSUME TypeOK, kind' = kind
  PROVE  /\ kind' \in Kinds
         /\ pool' = pool => pool' \in [Node -> Seq(Slot')]
         /\ limit' = limit => limit' \in [Node -> MaxSlots]
         /\ store' = store => store' \in [Node -> Store']
         /\ forget' = forget => forget' \in [Node -> Call]
         /\ disk' = disk => disk' \in Files'
         /\ reply' = reply => reply' \in [Reply -> Answer]
         /\ history' = history =>
              history' \in [saved : Seq(File), claims : SUBSET (Nat \X Node), admin : Nat]
<1>1. Slot' = Slot /\ File' = File /\ Store' = Store /\ Files' = Files
  BY SameKind
<1> QED BY <1>1 DEF TypeOK

LEMMA NewTypes ==
  ASSUME kind' = kind, kind' \in Kinds, pool' \in [Node -> Seq(Slot')], limit' \in [Node -> MaxSlots],
         store' \in [Node -> Store'], forget' \in [Node -> Call], disk' \in Files',
         reply' \in [Reply -> Answer],
         history' \in [saved : Seq(File), claims : SUBSET (Nat \X Node), admin : Nat]
  PROVE  TypeOK'
<1>1. File' = File
  BY SameKind
<1> QED BY <1>1 DEF TypeOK

LEMMA ReplyFields ==
  ASSUME TypeOK, PoolInv, NEW r \in Reply
  PROVE  /\ reply[r] \in Answer /\ ReplyOK(reply[r])
         /\ reply[r].at \notin {"new", "done"} =>
              /\ reply[r].node \in Node /\ reply[r].ask \in Request
              /\ reply[r].ask.ids \in Seq(Nat) \ {<<>>} /\ Len(reply[r].ask.ids) \in Nat \ {0}
              /\ PoolOK(pool[reply[r].node]) /\ store[reply[r].node] \in Store
<1>1. reply[r] \in Answer /\ ReplyOK(reply[r])
  BY DEF TypeOK, PoolInv
<1>2. ASSUME reply[r].at \notin {"new", "done"}
      PROVE  /\ reply[r].node \in Node /\ reply[r].ask \in Request
             /\ reply[r].ask.ids \in Seq(Nat) \ {<<>>} /\ Len(reply[r].ask.ids) \in Nat \ {0}
             /\ PoolOK(pool[reply[r].node]) /\ store[reply[r].node] \in Store
  <2>1. reply[r].node \in Node /\ reply[r].ask \in Request
    BY <1>1, <1>2 DEF ReplyOK
  <2>2. reply[r].ask.ids \in Seq(Nat) \ {<<>>}
    BY <2>1, CachesAssumption
  <2>3. Len(reply[r].ask.ids) \in Nat \ {0}
    BY <2>2, LenProperties
  <2>4. PoolOK(pool[reply[r].node]) /\ store[reply[r].node] \in Store
    BY <2>1 DEF TypeOK, PoolInv, PoolOK
  <2> QED BY <2>1, <2>2, <2>3, <2>4
<1> QED BY <1>1, <1>2

(* The slot of a running reply, and the others'.                           *)
LEMMA MineOf ==
  ASSUME TypeOK, PoolInv, NEW r \in Reply, Running(reply[r])
  PROVE  LET p == pool[reply[r].node]
         IN /\ Mine(r) \in DOMAIN p /\ p[Mine(r)] \in Slot /\ p[Mine(r)].id = reply[r].id
            /\ p[Mine(r)].busy /\ ReadSoFar(reply[r], p[Mine(r)])
            /\ \A i \in DOMAIN p : p[i].id = reply[r].id => i = Mine(r)
<1> DEFINE p == pool[reply[r].node]
<1>1. PoolOK(p)
  BY ReplyFields DEF Running
<1>2. PICK i \in DOMAIN p : p[i].id = reply[r].id /\ p[i].busy /\ ReadSoFar(reply[r], p[i])
  BY DEF PoolInv, Serves
<1>3. Mine(r) = CHOOSE j \in DOMAIN p : p[j].id = reply[r].id
  BY DEF Mine
<1> HIDE DEF p
<1>4. \A j \in DOMAIN p : p[j].id = reply[r].id => j = i
  BY <1>1, <1>2 DEF PoolOK, OneIdPerSlot
<1>5. Mine(r) = i
  BY <1>2, <1>3, <1>4
<1>6. p[i] \in Slot
  BY <1>1, <1>2, PoolFields DEF PoolOK
<1> QED BY <1>2, <1>4, <1>5, <1>6 DEF p

LEMMA OthersOf ==
  ASSUME PoolInv, NEW o \in Reply, NEW n, Running(reply[o]), reply[o].node = n
  PROVE  /\ Serves(pool[n], reply[o])
         /\ \A r \in Reply : Running(reply[r]) /\ reply[r].node = n /\ r # o =>
              reply[o].id # reply[r].id
BY DEF PoolInv

LEMMA AcquireOf ==
  ASSUME CachesInv, NEW r \in Reply, NEW n \in Node, NEW q \in Request, Acquire(r, n, q)
  PROVE  CachesInv'
<1>1. TypeOK /\ PoolInv /\ NamesInv /\ DoomedInv /\ LateInv
  BY DEF CachesInv
<1>2. /\ reply[r].at = "new" /\ kind' = kind /\ limit' = limit /\ store' = store
      /\ forget' = forget /\ disk' = disk /\ history' = history
  BY DEF Acquire
<1>3. PICK p \in Trimmed(pool[n], q) : pool' = [pool EXCEPT ![n] = p]
  BY DEF Acquire
<1> DEFINE w1 == [reply[r] EXCEPT !.at = "acquiring"]
           w2 == [w1 EXCEPT !.node = n]
           w == [w2 EXCEPT !.ask = q]
<1>4. reply' = [reply EXCEPT ![r] = w]
  BY DEF Acquire
<1>5. reply[r] \in Answer /\ reply[r].made = <<>>
  BY <1>1, <1>2, ReplyFields DEF ReplyOK
<1>6. w1 \in Answer /\ w1.at = "acquiring" /\ w1.made = <<>>
  BY <1>5, AnswerFields DEF Answer, Waiting
<1> HIDE DEF w1
<1>7. w2 \in Answer /\ w2.at = "acquiring" /\ w2.node = n /\ w2.made = <<>>
  BY <1>6, AnswerFields DEF Answer
<1> HIDE DEF w2
<1>8. w \in Answer /\ w.at = "acquiring" /\ w.node = n /\ w.ask = q /\ w.made = <<>>
  BY <1>7, AnswerFields DEF Answer
<1> HIDE DEF w
<1>9. ReplyOK(w) /\ ~Running(w)
  BY <1>8 DEF ReplyOK, Running
<1>10. PoolOK(pool[n])
  BY <1>1 DEF TypeOK, PoolInv, PoolOK
<1>11. PoolOK(p) /\ Busy(p) \subseteq Busy(pool[n]) /\ \A v : Serves(pool[n], v) => Serves(p, v)
  BY <1>3, <1>10, TrimmedOf
<1>12. \A o \in Reply \ {r} : Running(reply[o]) /\ reply[o].node = n => Serves(p, reply[o])
  BY <1>1, <1>11, OthersOf
<1>13. PoolInv' /\ pool' \in [Node -> Seq(Slot')] /\ reply' \in [Reply -> Answer]
  <2>1. BusyFor(p, n, r, w) /\ ~Running(reply[r])
    BY <1>2, <1>11 DEF BusyFor, Running
  <2>2. ReplyStep(n, p, r, w)
    BY <2>1, <1>2, <1>3, <1>4, <1>8, <1>9, <1>11, <1>12 DEF ReplyStep
  <2> QED BY <1>1, <2>2, PoolStep
<1>14. TypeOK'
  BY <1>1, <1>2, <1>13, KeptTypes, NewTypes
<1>15. NamesInv' /\ DoomedInv' /\ LateInv'
  BY <1>1, <1>2, FilesStay
<1> QED BY <1>13, <1>14, <1>15 DEF CachesInv

(* A file that a reply claimed goes into the pool; what must go for it is  *)
(* idle.                                                                   *)
LEMMA RestoredOf ==
  ASSUME TypeOK, PoolInv, NEW n \in Node, NEW q \in Request,
         NEW back, back = Restored(n, q),
         NEW keep, keep = (IF back = <<>> THEN None ELSE back[1].id),
         NEW spare, spare = (IF back = <<>> THEN <<>> ELSE Victims(pool[n] \o back, keep, limit[n])),
         NEW p \in IF back = <<>> THEN {pool[n]}
                   ELSE Trimmed(Without(pool[n] \o back, Ids(spare)), q)
  PROVE  /\ spare \in Seq(Slot) /\ PoolOK(p) /\ Busy(p) \subseteq Busy(pool[n])
         /\ \A w : Serves(pool[n], w) => Serves(p, w)
<1>1. PoolOK(pool[n]) /\ store[n] \in Store /\ pool[n] \in Seq(Slot)
  BY DEF TypeOK, PoolInv, PoolOK
<1>2. CASE back = <<>>
  BY <1>1, <1>2, EmptySeq
<1>3. CASE back # <<>>
  <2> DEFINE f == store[n].claim
             s == Decode(f, q, FreshId(n, pool[n]))
             more == pool[n] \o back
  <2>1. back = <<s>> /\ f # None
    BY <1>3 DEF Restored
  <2>2. f \in File
    BY <1>1, <2>1, StoreFields
  <2>3. FreshId(n, pool[n]) \in Nat /\ FreshId(n, pool[n]) \notin Ids(pool[n])
    BY <1>1, FreshOf
  <2>4. s \in Slot /\ s.id \notin Ids(pool[n]) /\ ~s.busy
    BY <2>2, <2>3, DecodeOf
  <2> HIDE DEF s
  <2>5. more = Append(pool[n], s)
    BY <1>1, <2>1, <2>4, AppendIsConcat
  <2>6. /\ PoolOK(more) /\ \A w : Serves(pool[n], w) => Serves(more, w)
        /\ Busy(more) \subseteq Busy(pool[n])
    BY <1>1, <2>4, <2>5, AppendOf, BusyAppend
  <2>7. spare = Victims(more, keep, limit[n])
    BY <1>3
  <2> HIDE DEF more
  <2>8. spare \in Seq(Slot) /\ Unused(more, Ids(spare))
    BY <2>6, <2>7, VictimsOf, UnusedVictims DEF PoolOK
  <2> DEFINE left == Without(more, Ids(spare))
             gone == Ids(spare)
  <2>9. /\ PoolOK(left) /\ Busy(left) \subseteq Busy(more)
        /\ \A w : Serves(more, w) => Serves(left, w)
    <3>1. Unused(more, gone)
      BY <2>8
    <3> HIDE DEF gone
    <3>2. /\ PoolOK(Without(more, gone)) /\ Busy(Without(more, gone)) \subseteq Busy(more)
          /\ \A w : Serves(more, w) => Serves(Without(more, gone), w)
      BY <2>6, <3>1, WithoutOf, BusyWithout, ServesWithout
    <3> QED BY <3>2 DEF gone
  <2>10. p \in Trimmed(left, q)
    BY <1>3 DEF more
  <2> HIDE DEF left
  <2>11. PoolOK(p) /\ Busy(p) \subseteq Busy(left) /\ \A w : Serves(left, w) => Serves(p, w)
    BY <2>9, <2>10, TrimmedOf
  <2> QED BY <2>6, <2>8, <2>9, <2>11
<1> QED BY <1>2, <1>3

(* The slot at the end gets busy, idle ones may go.                        *)
LEMMA TakeEnd ==
  ASSUME NEW u, PoolOK(u), Len(u) \in DOMAIN u, ~u[Len(u)].busy,
         NEW e \in Slot, e.id = u[Len(u)].id, e.busy,
         NEW gone, Unused(u, gone), e.id \notin gone
  PROVE  LET t == Without([u EXCEPT ![Len(u)] = e], gone)
         IN /\ PoolOK(t) /\ \E k \in DOMAIN t : t[k] = e
            /\ \A w : Serves(u, w) => Serves(t, w) /\ w.id # e.id
<1> DEFINE i == Len(u)
           o == [u EXCEPT ![i] = e]
           t == Without(o, gone)
<1>1. /\ PoolOK(o) /\ DOMAIN o = DOMAIN u /\ o[i] = e
      /\ \A j \in DOMAIN u : o[j].id = u[j].id /\ (j # i => o[j] = u[j])
      /\ \A w : Serves(u, w) /\ ~u[i].busy => Serves(o, w)
  BY ReplaceOf
<1> HIDE DEF o, i
<1>2. Unused(o, gone)
  <2>1. ASSUME NEW x \in gone PROVE \E j \in DOMAIN o : o[j].id = x /\ ~o[j].busy
    <3>1. PICK j \in DOMAIN u : u[j].id = x /\ ~u[j].busy
      BY DEF Unused
    <3>2. j # i
      BY <3>1 DEF i
    <3> QED BY <1>1, <3>1, <3>2
  <2> QED BY <2>1 DEF Unused
<1>3. /\ PoolOK(t) /\ \E k \in DOMAIN t : t[k] = o[i]
  <2>1. o[i].id \notin gone /\ i \in DOMAIN o
    BY <1>1 DEF i
  <2>2. PoolOK(o)
    BY <1>1
  <2>3. /\ PoolOK(t)
        /\ \A j \in DOMAIN o : o[j].id \notin gone => \E k \in DOMAIN t : t[k] = o[j]
    BY ONLY <2>2, WithoutOf
  <2> HIDE DEF t
  <2> QED BY <2>1, <2>3
<1>4. ASSUME NEW w, Serves(u, w) PROVE Serves(t, w) /\ w.id # e.id
  <2>1. Serves(o, w)
    BY <1>1, <1>4 DEF i
  <2>2. Serves(t, w)
    BY <1>1, <1>2, <2>1, ServesWithout
  <2>3. PICK j \in DOMAIN u : u[j].id = w.id /\ u[j].busy
    BY <1>4 DEF Serves
  <2>4. w.id # e.id
    BY <2>3 DEF PoolOK, OneIdPerSlot
  <2> QED BY <2>2, <2>4
<1> QED BY <1>1, <1>3, <1>4 DEF o, i

LEMMA BusyTakeEnd ==
  ASSUME NEW u, PoolOK(u), Len(u) \in DOMAIN u, NEW e \in Slot, e.id = u[Len(u)].id, NEW gone
  PROVE  Busy(Without([u EXCEPT ![Len(u)] = e], gone)) \subseteq Busy(u) \cup {e.id}
<1> DEFINE o == [u EXCEPT ![Len(u)] = e]
<1>1. PoolOK(o) /\ Busy(o) \subseteq Busy(u) \cup {e.id}
  BY ReplaceOf, BusyReplace
<1> HIDE DEF o
<1>2. Busy(Without(o, gone)) \subseteq Busy(o)
  BY <1>1, BusyWithout
<1>3. Busy(Without(o, gone)) \subseteq Busy(u) \cup {e.id}
  BY <1>1, <1>2
<1> QED BY <1>3 DEF o

LEMMA TakeOf ==
  ASSUME CachesInv, NEW r \in Reply, Take(r)
  PROVE  CachesInv'
<1> DEFINE n == reply[r].node
           q == reply[r].ask
           back == Restored(n, q)
           more == pool[n] \o back
           keep == IF back = <<>> THEN None ELSE back[1].id
           spare == IF back = <<>> THEN <<>> ELSE Victims(more, keep, limit[n])
           ways == IF back = <<>> THEN {pool[n]} ELSE Trimmed(Without(more, Ids(spare)), q)
           hit(p) == Candidates(n, p, q.ids) # {}
           used(p) == IF hit(p) THEN TakeSlot(n, p, Best(n, p, q.ids), q)
                      ELSE Append(p, NewSlot(FreshId(n, p), q))
           mine(p) == used(p)[Len(used(p))]
           dropped(p) == IF mine(p).id \in Ids(p) THEN <<>>
                         ELSE Victims(used(p), mine(p).id, limit[n])
           end(p) == [used(p) EXCEPT ![Len(used(p))].busy = TRUE, ![Len(used(p))].plen = Len(q.ids),
                                     ![Len(used(p))].tag = IF q.tag = None THEN @ ELSE q.tag]
<1>1. TypeOK /\ PoolInv /\ NamesInv /\ DoomedInv /\ LateInv
  BY DEF CachesInv
<1>2. /\ reply[r].at = "claimed" /\ kind' = kind /\ limit' = limit
      /\ forget' = forget /\ disk' = disk /\ history' = history
  BY Zenon DEF Take
<1>3. PICK p \in ways :
        /\ pool' = [pool EXCEPT ![n] = Without(end(p), Ids(dropped(p)))]
        /\ store' = [store EXCEPT ![n].queue = Spilled(n, spare \o dropped(p)), ![n].claim = None]
        /\ reply' = [reply EXCEPT ![r].at = "prefill", ![r].id = mine(p).id,
                                  ![r].from = Len(mine(p).tokens)]
  BY Zenon DEF Take
<1>4. /\ reply[r] \in Answer /\ n \in Node /\ q \in Request /\ q.ids \in Seq(Nat) \ {<<>>}
      /\ Len(q.ids) \in Nat \ {0} /\ PoolOK(pool[n]) /\ store[n] \in Store /\ reply[r].made = <<>>
  BY <1>1, <1>2, ReplyFields DEF ReplyOK
<1>5. /\ spare \in Seq(Slot) /\ PoolOK(p) /\ Busy(p) \subseteq Busy(pool[n])
      /\ \A w : Serves(pool[n], w) => Serves(p, w)
  <2> HIDE DEF back, keep
  <2>1. \E k, s : k = keep /\ s = spare /\ s \in Seq(Slot) /\ PoolOK(p)
                  /\ Busy(p) \subseteq Busy(pool[n]) /\ \A w : Serves(pool[n], w) => Serves(p, w)
    <3>1. keep = IF back = <<>> THEN None ELSE back[1].id
      BY DEF keep
    <3>2. back = Restored(n, q)
      BY DEF back
    <3> QED BY <1>1, <1>4, <3>1, <3>2, RestoredOf
  <2> QED BY <2>1
<1> HIDE DEF n, q, back, more, keep, spare, ways
<1> DEFINE u == used(p)
           m == mine(p)
           d == dropped(p)
<1>6. TakenFor(u, p, q)
  <2>1. CASE hit(p)
    <3>1. p \in Seq(Slot)
      BY <1>5 DEF PoolOK
    <3>2. Best(n, p, q.ids) \in Candidates(n, p, q.ids)
      BY <1>4, <2>1, <3>1, BestOf
    <3> DEFINE i == Best(n, p, q.ids)
    <3> HIDE DEF i
    <3>3. TakenFor(TakeSlot(n, p, i, q), p, q)
      BY <1>1, <1>4, <1>5, <3>2, TakeSlotOf DEF i
    <3> QED BY <2>1, <3>3 DEF i
  <2>2. CASE ~hit(p)
    <3> DEFINE s == NewSlot(FreshId(n, p), q)
               a == Append(p, s)
    <3>1. FreshId(n, p) \in Nat /\ FreshId(n, p) \notin Ids(p)
      BY <1>1, <1>4, <1>5, FreshOf DEF PoolOK
    <3>2. /\ s \in Slot /\ s.id = FreshId(n, p) /\ ~s.busy
          /\ s.kv = First(q.ids, 0) /\ Len(s.kv) = 0 /\ (Hybrid => s.state = s.kv)
      BY <1>4, <3>1, NewSlotOf
    <3>3. u = a
      BY <2>2
    <3> HIDE DEF s, u
    <3>4. Begins(s, q.ids)
      BY <1>4, <3>2 DEF Begins
    <3>5. /\ PoolOK(a) /\ a[Len(a)] = s /\ Len(a) \in DOMAIN a
          /\ (\A w : Serves(p, w) => Serves(a, w)) /\ Busy(a) \subseteq Busy(p)
      BY <1>5, <3>1, <3>2, AppendOf, BusyAppend
    <3> HIDE DEF a
    <3> QED BY <3>3, <3>4, <3>5 DEF TakenFor
  <2> QED BY <2>1, <2>2
<1>7. /\ PoolOK(u) /\ u \in Seq(Slot) /\ Len(u) \in DOMAIN u /\ m \in Slot /\ Begins(m, q.ids)
      /\ (\A w : Serves(p, w) => Serves(u, w)) /\ Busy(u) \subseteq Busy(p)
  <2>1. PoolOK(u) /\ Len(u) \in DOMAIN u /\ Begins(u[Len(u)], q.ids)
        /\ (\A w : Serves(p, w) => Serves(u, w)) /\ Busy(u) \subseteq Busy(p)
    BY <1>6 DEF TakenFor
  <2>2. m = u[Len(u)]
    OBVIOUS
  <2> HIDE DEF u, m
  <2> QED BY <2>1, <2>2, PoolFields DEF PoolOK
<1>8. d \in Seq(Slot) /\ Unused(u, Ids(d)) /\ m.id \notin Ids(d)
  <2>1. d = Victims(u, m.id, limit[n]) \/ d = <<>>
    OBVIOUS
  <2> HIDE DEF u, m, d
  <2>2. CASE d = <<>>
    <3>1. d \in Seq(Slot) /\ DOMAIN d = {}
      BY <2>2, EmptySeq
    <3>2. Ids(d) = {}
      BY <3>1 DEF Ids
    <3> QED BY <3>1, <3>2 DEF Unused
  <2>3. CASE d = Victims(u, m.id, limit[n])
    BY <1>7, <2>3, VictimsOf, UnusedVictims
  <2> QED BY <2>1, <2>2, <2>3
<1> DEFINE tag == IF q.tag = None THEN m.tag ELSE q.tag
           e == [m EXCEPT !.busy = TRUE, !.plen = Len(q.ids), !.tag = tag]
<1>9. end(p) = [u EXCEPT ![Len(u)] = e]
  <2>1. end(p) = [u EXCEPT ![Len(u)].busy = TRUE, ![Len(u)].plen = Len(q.ids), ![Len(u)].tag = tag]
    <3>1. m = u[Len(u)]
      OBVIOUS
    <3> HIDE DEF m, hit
    <3> QED BY <3>1
  <2>2. m = u[Len(u)]
    OBVIOUS
  <2> HIDE DEF tag, u, m
  <2> QED BY <2>1, <2>2, <1>7
<1>10. /\ pool' = [pool EXCEPT ![n] = Without(end(p), Ids(d))]
       /\ store' = [store EXCEPT ![n].queue = Spilled(n, spare \o d), ![n].claim = None]
       /\ reply' = [reply EXCEPT ![r].at = "prefill", ![r].id = m.id, ![r].from = Len(m.tokens)]
  BY <1>3
<1>11. m = u[Len(u)]
  OBVIOUS
<1> HIDE DEF u, m, d, end
<1>12. e \in Slot /\ e.id = m.id /\ e.busy /\ e.kv = m.kv /\ e.state = m.state /\ e.tokens = m.tokens
  <2>1. tag \in Tag
    BY <1>4, <1>7, SlotFields DEF Tag, Tags
  <2> DEFINE yes == TRUE
  <2>2. e = [m EXCEPT !.busy = yes, !.plen = Len(q.ids), !.tag = tag]
    OBVIOUS
  <2> HIDE DEF e, tag
  <2>3. Len(q.ids) \in Nat /\ yes \in BOOLEAN
    BY <1>4
  <2> HIDE DEF yes
  <2> DEFINE len == Len(q.ids)
             t == Flagged(m, yes, len, tag)
  <2> HIDE DEF len
  <2>4. t \in Slot /\ t.id = m.id /\ t.busy = yes /\ t.kv = m.kv /\ t.tokens = m.tokens /\ t.state = m.state
    <3>1. m \in Slot /\ yes \in BOOLEAN /\ len \in Nat /\ tag \in Tag
      BY <1>7, <2>1, <2>3 DEF len
    <3> QED BY <3>1, FlagsOf
  <2>5. e = t
    BY <2>2 DEF len, Flagged
  <2> HIDE DEF t
  <2> QED BY <2>4, <2>5 DEF yes
<1> HIDE DEF e, tag
<1> DEFINE final == Without([u EXCEPT ![Len(u)] = e], Ids(d))
<1>13. /\ PoolOK(final) /\ (\E k \in DOMAIN final : final[k] = e) /\ Busy(final) \subseteq Busy(u) \cup {e.id}
       /\ \A v : Serves(u, v) => Serves(final, v) /\ v.id # e.id
  <2> DEFINE gone == Ids(d)
  <2>1. /\ Unused(u, gone) /\ e.id \notin gone /\ ~u[Len(u)].busy /\ e.id = u[Len(u)].id
        /\ final = Without([u EXCEPT ![Len(u)] = e], gone)
    BY <1>7, <1>8, <1>11, <1>12 DEF Begins
  <2> DEFINE t == Without([u EXCEPT ![Len(u)] = e], gone)
  <2> HIDE DEF gone, final
  <2>2. /\ PoolOK(t) /\ \E k \in DOMAIN t : t[k] = e
        /\ \A v : Serves(u, v) => Serves(t, v) /\ v.id # e.id
    BY <2>1, <1>7, <1>12, TakeEnd
  <2>3. Busy(t) \subseteq Busy(u) \cup {e.id}
    BY <2>1, <1>7, <1>12, BusyTakeEnd
  <2> HIDE DEF t
  <2> QED BY <2>1, <2>2, <2>3 DEF t
<1>14. pool' = [pool EXCEPT ![n] = final]
  BY <1>9, <1>10
<1> HIDE DEF final
<1> DEFINE w1 == [reply[r] EXCEPT !.at = "prefill"]
           w2 == [w1 EXCEPT !.id = m.id]
           w == [w2 EXCEPT !.from = Len(m.tokens)]
<1>15. reply' = [reply EXCEPT ![r] = w]
  BY <1>10
<1>16. reply[r].node = n /\ reply[r].ask = q
  BY DEF n, q
<1>17. w1 \in Answer /\ w1.at = "prefill" /\ w1.node = n /\ w1.ask = q /\ w1.made = <<>>
  BY <1>4, <1>16, AnswerFields DEF Answer
<1>18. m.id \in Nat /\ Len(m.tokens) \in Nat /\ m.kv = m.tokens /\ m.kv \in Seq(Nat)
  BY <1>7, SlotFields
<1> HIDE DEF w1
<1>19. w2 \in Answer /\ w2.at = "prefill" /\ w2.node = n /\ w2.ask = q /\ w2.made = <<>> /\ w2.id = m.id
  BY <1>17, <1>18, AnswerFields DEF Answer
<1> HIDE DEF w2
<1>20. w \in Answer /\ w.at = "prefill" /\ w.node = n /\ w.ask = q /\ w.made = <<>> /\ w.id = m.id
       /\ w.from = Len(m.tokens)
  BY <1>18, <1>19, AnswerFields DEF Answer
<1> HIDE DEF w
<1>21. ReadSoFar(w, e)
  <2>1. w.ask.ids \o w.made = q.ids
    BY <1>4, <1>20, ConcatEmptySeq
  <2>2. /\ e.kv = First(q.ids, Len(e.kv)) /\ Len(e.kv) < Len(q.ids) /\ (Hybrid => e.state = e.kv)
        /\ Len(e.kv) \in Nat
    BY <1>7, <1>12, <1>18 DEF Begins
  <2>3. w.from = Len(e.kv) /\ e.clean \in Nat /\ (Exact(e) \/ Shifted(e))
    BY <1>12, <1>18, <1>20, SlotFields
  <2> QED BY <1>4, <1>20, <2>1, <2>2, <2>3 DEF ReadSoFar, Shifted
<1>22. Serves(final, w)
  BY <1>12, <1>13, <1>20, <1>21 DEF Serves
<1>23. ReplyOK(w)
  BY <1>4, <1>20 DEF ReplyOK
<1>24. \A o \in Reply \ {r} : Running(reply[o]) /\ reply[o].node = n =>
         Serves(final, reply[o]) /\ (Running(w) => reply[o].id # w.id)
  <2>1. \A v : Serves(pool[n], v) => Serves(final, v) /\ v.id # w.id
    BY <1>5, <1>7, <1>12, <1>13, <1>20
  <2> QED BY <1>1, <2>1, OthersOf
<1>25. PoolInv' /\ pool' \in [Node -> Seq(Slot')] /\ reply' \in [Reply -> Answer]
  <2>1. n \in Node /\ PoolOK(final) /\ (Running(w) => w.node = n /\ Serves(final, w))
    BY <1>4, <1>13, <1>20, <1>22
  <2>2. BusyFor(final, n, r, w) /\ ~Running(reply[r])
    <3>1. Running(w) /\ ~Running(reply[r]) /\ w.id = e.id
      BY <1>2, <1>12, <1>20 DEF Running
    <3>2. Busy(final) \subseteq Busy(pool[n]) \cup {e.id}
      BY <1>5, <1>7, <1>13
    <3> QED BY <3>1, <3>2 DEF BusyFor
  <2>3. ReplyStep(n, final, r, w)
    BY <1>2, <1>14, <1>15, <1>20, <1>23, <1>24, <2>1, <2>2 DEF ReplyStep
  <2> QED BY <1>1, <2>1, <2>3, PoolStep
<1>26. /\ store' \in [Node -> Store']
       /\ \A o \in Node : /\ store'[o].index = store[o].index
                          /\ store'[o].writing = store[o].writing
                          /\ store'[o].forgotten = store[o].forgotten
  <2> DEFINE s1 == [store[n] EXCEPT !.queue = Spilled(n, spare \o d)]
             s2 == [s1 EXCEPT !.claim = None]
  <2>1. Spilled(n, spare \o d) \in Seq(Slot)
    BY <1>4, <1>5, <1>8, StoreFields, ConcatProperties DEF Spilled
  <2>2. store \in [Node -> Store] /\ Store' = Store
    BY <1>1, <1>2, SameKind DEF TypeOK
  <2>3. store' = [store EXCEPT ![n] = s2]
    BY <1>10
  <2>4. /\ s1 \in Store /\ s1.index = store[n].index /\ s1.writing = store[n].writing
        /\ s1.forgotten = store[n].forgotten
    BY <1>4, <2>1, StoreFields DEF Store
  <2> HIDE DEF s1
  <2>5. /\ s2 \in Store /\ s2.index = store[n].index /\ s2.writing = store[n].writing
        /\ s2.forgotten = store[n].forgotten
    BY <2>4, StoreFields DEF Store
  <2> HIDE DEF s2
  <2> QED BY <1>4, <2>2, <2>3, <2>5
<1>27. TypeOK'
  BY <1>1, <1>2, <1>25, <1>26, KeptTypes, NewTypes
<1>28. NamesInv' /\ DoomedInv' /\ LateInv'
  BY <1>1, <1>2, <1>26, FilesStay
<1> QED BY <1>25, <1>27, <1>28 DEF CachesInv

-----------------------------------------------------------------------------
(* A reply reads its prompt, generates, and gives its slot back *)

LEMMA SetPoolOf ==
  ASSUME TypeOK, kind' = kind, NEW n \in Node, NEW p, PoolOK(p), NEW keep, SetPool(n, p, keep)
  PROVE  /\ pool' = [pool EXCEPT ![n] = Evicted(p, keep, limit[n])]
         /\ PoolOK(Evicted(p, keep, limit[n]))
         /\ \A w : Serves(p, w) => Serves(Evicted(p, keep, limit[n]), w)
         /\ Busy(Evicted(p, keep, limit[n])) \subseteq Busy(p)
         /\ store' \in [Node -> Store']
         /\ \A m \in Node : /\ store'[m].index = store[m].index
                            /\ store'[m].writing = store[m].writing
                            /\ store'[m].forgotten = store[m].forgotten
<1> DEFINE v == Victims(p, keep, limit[n])
<1>1. v \in Seq(Slot)
  BY VictimsOf DEF PoolOK
<1>2. store' = [store EXCEPT ![n].queue = Spilled(n, v)]
  BY DEF SetPool
<1>3. pool' = [pool EXCEPT ![n] = Evicted(p, keep, limit[n])]
  BY DEF SetPool
<1> HIDE DEF v
<1>4. /\ store' \in [Node -> Store']
      /\ \A m \in Node : /\ store'[m].index = store[m].index
                         /\ store'[m].writing = store[m].writing
                         /\ store'[m].forgotten = store[m].forgotten
  BY <1>1, <1>2, QueueStep
<1>5. /\ PoolOK(Evicted(p, keep, limit[n]))
      /\ \A w : Serves(p, w) => Serves(Evicted(p, keep, limit[n]), w)
      /\ Busy(Evicted(p, keep, limit[n])) \subseteq Busy(p)
  BY EvictedOf, BusyEvicted
<1> QED BY <1>3, <1>4, <1>5

(* The next cut is further on, and at most the end of the prompt.          *)
LEMMA NextCutOf ==
  ASSUME NEW q \in Request, NEW from \in Nat, NEW start \in Nat, start < Len(q.ids)
  PROVE  Min({c \in Cuts(q, from) : c > start}) \in start + 1 .. Len(q.ids)
<1> DEFINE C == {c \in Cuts(q, from) : c > start}
<1>1. Len(q.ids) \in Nat /\ TailSnapshot \in Nat
  BY CachesAssumption, LenProperties
<1>2. \A c \in Cuts(q, from) : c \in 0..Len(q.ids)
  BY <1>1 DEF Cuts
<1>3. Len(q.ids) \in C
  BY DEF Cuts
<1>4. C \in SUBSET Nat
  BY <1>1, <1>2
<1>5. Min(C) \in C
  <2> HIDE DEF C
  <2> QED BY <1>3, <1>4, MinExists
<1>6. Min(C) \in Nat /\ Min(C) > start /\ Min(C) <= Len(q.ids)
  <2>1. \A c \in C : c \in Nat /\ c > start /\ c <= Len(q.ids)
    BY <1>1, <1>2
  <2> HIDE DEF C
  <2> QED BY <1>5, <2>1
<1> HIDE DEF C
<1>7. Min(C) \in start + 1 .. Len(q.ids)
  BY <1>1, <1>6
<1> QED BY <1>7 DEF C

(* The slot of a reply, read up to `end`.                                  *)
LEMMA ReadUpTo ==
  ASSUME NEW s \in Slot, NEW ids \in Seq(Nat), s.kv = First(ids, Len(s.kv)),
         Hybrid => s.state = s.kv, NEW end \in Len(s.kv) + 1 .. Len(ids)
  PROVE  LET t == Capture(Advanced(s, SubSeq(ids, Len(s.kv) + 1, end)))
         IN /\ t \in Slot /\ t.id = s.id /\ t.busy = s.busy
            /\ t.kv = First(ids, end) /\ Len(t.kv) = end /\ (Hybrid => t.state = t.kv)
            /\ Exact(t) \/ (~Exact(s) /\ t.clean = s.clean)
<1> DEFINE toks == SubSeq(ids, Len(s.kv) + 1, end)
           a == Advanced(s, toks)
           t == Capture(a)
<1>1. Len(s.kv) \in Nat /\ Len(ids) \in Nat
  BY SlotFields, LenProperties
<1>2. end \in 0..Len(ids) /\ Len(s.kv) \in 0..end
  BY <1>1
<1>3. toks \in Seq(Nat)
  <2>1. \A i \in Len(s.kv) + 1 .. end : ids[i] \in Nat
    <3>1. \A i \in Len(s.kv) + 1 .. end : i \in 1..Len(ids)
      BY <1>1
    <3> QED BY <3>1, ElementOfSeq
  <2> QED BY <1>1, <2>1, SubSeqProperties
<1>4. First(ids, Len(s.kv)) \o toks = First(ids, end)
  BY <1>2, ReadOn
<1> HIDE DEF toks
<1>5. /\ a \in Slot /\ a.id = s.id /\ a.busy = s.busy /\ a.kv = s.kv \o toks
      /\ (Hybrid /\ s.state = s.kv => a.state = a.kv)
      /\ Exact(a) \/ (~Exact(s) /\ a.clean = s.clean)
  BY <1>3, AdvancedOf
<1> HIDE DEF a
<1>6. /\ t \in Slot /\ t.id = a.id /\ t.busy = a.busy /\ t.kv = a.kv /\ t.state = a.state
      /\ t.clean = a.clean
  BY <1>5, CaptureOf
<1>7. Len(First(ids, end)) = end
  BY <1>2, FirstOf
<1> HIDE DEF t
<1>8. /\ t \in Slot /\ t.id = s.id /\ t.busy = s.busy
      /\ t.kv = First(ids, end) /\ Len(t.kv) = end /\ (Hybrid => t.state = t.kv)
  BY <1>4, <1>5, <1>6, <1>7
<1>9. Exact(t) \/ (~Exact(s) /\ t.clean = s.clean)
  BY <1>5, <1>6 DEF Exact
<1> QED BY <1>8, <1>9 DEF t, a, toks

(* A running reply goes to w, its slot to s.                               *)
LEMMA SlotStep ==
  ASSUME TypeOK, PoolInv, NEW r \in Reply, Running(reply[r]),
         NEW s \in Slot, s.id = reply[r].id, s.busy,
         NEW w \in Answer, ReplyOK(w), Running(w), w.node = reply[r].node, w.id = reply[r].id,
         ReadSoFar(w, s)
  PROVE  LET n == reply[r].node
             p == [pool[n] EXCEPT ![Mine(r)] = s]
         IN /\ PoolOK(p) /\ Serves(p, w) /\ BusyFor(p, n, r, w)
            /\ \A o \in Reply \ {r} : Running(reply[o]) /\ reply[o].node = n =>
                 Serves(p, reply[o]) /\ (Running(w) => reply[o].id # w.id)
<1> DEFINE n == reply[r].node
           i == Mine(r)
           p == [pool[n] EXCEPT ![i] = s]
<1>1. i \in DOMAIN pool[n] /\ pool[n][i].id = reply[r].id
  BY MineOf
<1>2. PoolOK(pool[n])
  BY ReplyFields DEF Running
<1>3. \A o \in Reply \ {r} : Running(reply[o]) /\ reply[o].node = n =>
        Serves(pool[n], reply[o]) /\ reply[o].id # reply[r].id
  BY OthersOf
<1> HIDE DEF n, i
<1>4. /\ PoolOK(p) /\ DOMAIN p = DOMAIN pool[n] /\ p[i] = s
      /\ \A v : Serves(pool[n], v) /\ v.id # s.id => Serves(p, v)
  BY <1>1, <1>2, ReplaceOf
<1>5. BusyFor(p, n, r, w)
  <2>1. Busy(p) \subseteq Busy(pool[n]) \cup {s.id}
    BY <1>1, <1>2, BusyReplace
  <2> QED BY <2>1 DEF BusyFor
<1> HIDE DEF p
<1>6. Serves(p, w)
  BY <1>1, <1>4 DEF Serves
<1>7. \A o \in Reply \ {r} : Running(reply[o]) /\ reply[o].node = n =>
        Serves(p, reply[o]) /\ (Running(w) => reply[o].id # w.id)
  BY <1>3, <1>4
<1> QED BY <1>4, <1>6, <1>7, <1>5 DEF p, n, i

LEMMA PrefillOf ==
  ASSUME CachesInv, NEW r \in Reply, Prefill(r)
  PROVE  CachesInv'
<1> DEFINE n == reply[r].node
           q == reply[r].ask
           i == Mine(r)
           o == pool[n][i]
           start == Len(o.tokens)
           end == Min({c \in Cuts(q, reply[r].from) : c > start})
           s == Capture(Advanced(o, SubSeq(q.ids, start + 1, end)))
           w == [reply[r] EXCEPT !.at = IF end = Len(q.ids) THEN "decode" ELSE "prefill"]
           p1 == [pool[n] EXCEPT ![i] = s]
           p == IF Hybrid THEN Evicted(p1, s.id, limit[n]) ELSE p1
<1>1. TypeOK /\ PoolInv /\ NamesInv /\ DoomedInv /\ LateInv
  BY DEF CachesInv
<1>2. /\ reply[r].at = "prefill" /\ kind' = kind /\ limit' = limit /\ forget' = forget
      /\ disk' = disk /\ history' = history /\ reply' = [reply EXCEPT ![r] = w]
      /\ Hybrid => SetPool(n, p1, s.id)
      /\ ~Hybrid => pool' = [pool EXCEPT ![n][i] = s] /\ store' = store
  BY DEF Prefill
<1>3. Running(reply[r])
  BY <1>2 DEF Running
<1>4. /\ o \in Slot /\ o.id = reply[r].id /\ o.busy /\ ReadSoFar(reply[r], o)
      /\ i \in DOMAIN pool[n]
  BY <1>1, <1>3, MineOf
<1>5. /\ reply[r] \in Answer /\ n \in Node /\ q \in Request /\ q.ids \in Seq(Nat)
      /\ PoolOK(pool[n]) /\ ReplyOK(reply[r]) /\ reply[r].made = <<>> /\ reply[r].from \in Nat
  BY <1>1, <1>2, ReplyFields, AnswerFields DEF ReplyOK
<1>6. /\ o.kv = First(q.ids, Len(o.kv)) /\ (Hybrid => o.state = o.kv) /\ Len(o.kv) < Len(q.ids)
      /\ start = Len(o.kv) /\ start \in Nat
      /\ reply[r].from <= Len(o.kv) /\ (Exact(o) \/ o.clean < reply[r].from)
  <2>1. q.ids \o reply[r].made = q.ids
    BY <1>5, ConcatEmptySeq
  <2>2. o.tokens = o.kv /\ Len(o.tokens) \in Nat
    BY <1>4, SlotFields
  <2> HIDE DEF o
  <2> QED BY <1>2, <1>4, <2>1, <2>2 DEF ReadSoFar
<1>7. w.node = n /\ w.ask = q /\ w.id = reply[r].id /\ w.made = <<>> /\ w \in Answer
      /\ w.from = reply[r].from
      /\ w.at = (IF end = Len(q.ids) THEN "decode" ELSE "prefill")
  <2> HIDE DEF end
  <2>1. (IF end = Len(q.ids) THEN "decode" ELSE "prefill") \in {"prefill", "decode"}
    OBVIOUS
  <2> QED BY <1>5, <2>1, AnswerFields DEF Answer
<1>8. ReplyOK(w) /\ Running(w)
  <2> HIDE DEF w, end, n, q
  <2> QED BY <1>5, <1>7 DEF ReplyOK, Running
<1> HIDE DEF o
<1>9. end \in start + 1 .. Len(q.ids)
  <2> HIDE DEF start
  <2> QED BY <1>5, <1>6, NextCutOf
<1> HIDE DEF w, n, q, i
<1>10. /\ s \in Slot /\ s.id = reply[r].id /\ s.busy /\ s.kv = First(q.ids, end) /\ Len(s.kv) = end
       /\ Hybrid => s.state = s.kv
       /\ Exact(s) \/ (~Exact(o) /\ s.clean = o.clean)
  <2> HIDE DEF end
  <2> QED BY <1>4, <1>5, <1>6, <1>9, ReadUpTo
<1> HIDE DEF s
<1>11. ReadSoFar(w, s)
  <2>1. q.ids \o w.made = q.ids
    BY <1>5, <1>7, ConcatEmptySeq
  <2>2. end \in Nat /\ Len(q.ids) \in Nat /\ end <= Len(q.ids)
    BY <1>5, <1>6, <1>9, LenProperties
  <2>3. end = Len(q.ids) => s.kv = q.ids
    BY <1>5, <1>10, FirstOfAll
  <2> HIDE DEF end, start
  <2>4. w.from <= Len(s.kv) /\ (Exact(s) \/ s.clean < w.from)
    BY <1>5, <1>6, <1>7, <1>9, <1>10
  <2> QED BY <1>7, <1>10, <2>1, <2>2, <2>3, <2>4 DEF ReadSoFar
<1> HIDE DEF end, start
<1>12. /\ PoolOK(p1) /\ Serves(p1, w) /\ BusyFor(p1, n, r, w)
       /\ \A u \in Reply \ {r} : Running(reply[u]) /\ reply[u].node = n =>
            Serves(p1, reply[u]) /\ (Running(w) => reply[u].id # w.id)
  <2>1. w.node = reply[r].node
    BY <1>7 DEF n
  <2> QED BY <1>1, <1>3, <1>7, <1>8, <1>10, <1>11, <2>1, SlotStep DEF n, i
<1> HIDE DEF p1
<1>13. /\ pool' = [pool EXCEPT ![n] = p] /\ PoolOK(p) /\ (\A v : Serves(p1, v) => Serves(p, v))
       /\ Busy(p) \subseteq Busy(p1)
       /\ store' \in [Node -> Store']
       /\ \A m \in Node : /\ store'[m].index = store[m].index
                          /\ store'[m].writing = store[m].writing
                          /\ store'[m].forgotten = store[m].forgotten
  <2>1. CASE Hybrid
    <3>1. p = Evicted(p1, s.id, limit[n])
      BY <2>1
    <3> QED BY <1>1, <1>2, <1>5, <1>12, <2>1, <3>1, SetPoolOf
  <2>2. CASE ~Hybrid
    <3>1. p = p1 /\ store' = store
      BY <1>2, <2>2
    <3>2. pool' = [pool EXCEPT ![n] = p1]
      BY <1>2, <2>2 DEF p1
    <3> QED BY <1>1, <1>2, <1>12, <3>1, <3>2, KeptTypes
  <2> QED BY <2>1, <2>2
<1> HIDE DEF p
<1>14. BusyFor(p, n, r, w) /\ reply[r].node = n
  BY <1>12, <1>13 DEF BusyFor, n
<1>15. ReplyStep(n, p, r, w)
  BY <1>2, <1>7, <1>8, <1>12, <1>13, <1>14 DEF ReplyStep
<1>16. PoolInv' /\ pool' \in [Node -> Seq(Slot')] /\ reply' \in [Reply -> Answer]
  BY <1>1, <1>5, <1>15, PoolStep
<1>17. TypeOK'
  BY <1>1, <1>2, <1>13, <1>16, KeptTypes, NewTypes
<1>18. NamesInv' /\ DoomedInv' /\ LateInv'
  BY <1>1, <1>2, <1>13, FilesStay
<1> QED BY <1>16, <1>17, <1>18 DEF CachesInv

LEMMA Decode1Of ==
  ASSUME CachesInv, NEW r \in Reply, NEW t \in Token, Decode1(r, t)
  PROVE  CachesInv'
<1> DEFINE n == reply[r].node
           q == reply[r].ask
           i == Mine(r)
           o == pool[n][i]
           s == Advanced(o, <<t>>)
           made == Append(reply[r].made, t)
           w == [reply[r] EXCEPT !.made = made]
           p == [pool[n] EXCEPT ![i] = s]
<1>1. TypeOK /\ PoolInv /\ NamesInv /\ DoomedInv /\ LateInv
  BY DEF CachesInv
<1>2. /\ reply[r].at = "decode" /\ kind' = kind /\ limit' = limit /\ forget' = forget
      /\ store' = store /\ disk' = disk /\ history' = history
      /\ reply' = [reply EXCEPT ![r] = w] /\ pool' = [pool EXCEPT ![n] = p]
  BY DEF Decode1
<1>3. Running(reply[r])
  BY <1>2 DEF Running
<1>4. /\ o \in Slot /\ o.id = reply[r].id /\ o.busy /\ ReadSoFar(reply[r], o)
      /\ i \in DOMAIN pool[n]
  BY <1>1, <1>3, MineOf
<1>5. /\ reply[r] \in Answer /\ n \in Node /\ q \in Request /\ q.ids \in Seq(Nat)
      /\ ReplyOK(reply[r]) /\ reply[r].made \in Seq(Nat)
  BY <1>1, <1>2, ReplyFields, AnswerFields
<1>6. t \in Nat /\ <<t>> \in Seq(Nat)
  BY CachesAssumption
<1>7. made = reply[r].made \o <<t>> /\ made \in Seq(Nat)
  BY <1>5, <1>6, AppendIsConcat, AppendProperties
<1> HIDE DEF made
<1>8. /\ w \in Answer /\ w.node = n /\ w.ask = q /\ w.id = reply[r].id /\ w.made = made
      /\ w.at = "decode" /\ w.from = reply[r].from /\ w.from \in Nat
  BY <1>2, <1>5, <1>7, AnswerFields DEF Answer
<1> HIDE DEF w, n, q, i, o
<1>9. ReplyOK(w) /\ Running(w)
  BY <1>2, <1>5, <1>8 DEF ReplyOK, Running, n, q
<1>10. /\ s \in Slot /\ s.id = reply[r].id /\ s.busy /\ s.kv = o.kv \o <<t>>
       /\ Hybrid /\ o.state = o.kv => s.state = s.kv
       /\ Exact(s) \/ (~Exact(o) /\ s.clean = o.clean)
  BY <1>4, <1>6, AdvancedOf
<1> HIDE DEF s
<1>11. ReadSoFar(w, s)
  <2>1. /\ o.kv = q.ids \o reply[r].made /\ (Hybrid => o.state = o.kv)
        /\ w.from <= Len(o.kv) /\ (Exact(o) \/ o.clean < w.from)
    BY <1>2, <1>4, <1>8 DEF ReadSoFar, q
  <2>2. s.kv = q.ids \o made
    <3> DEFINE gen == reply[r].made
               one == <<t>>
    <3>1. q.ids \in Seq(Nat) /\ gen \in Seq(Nat) /\ one \in Seq(Nat)
      BY <1>5, <1>6
    <3>2. made = gen \o one /\ s.kv = (q.ids \o gen) \o one
      BY <1>7, <1>10, <2>1
    <3> HIDE DEF gen, one
    <3>3. (q.ids \o gen) \o one = q.ids \o (gen \o one)
      BY <3>1, ConcatInTurn
    <3> QED BY <3>2, <3>3
  <2>3. q.ids \o made \in Seq(Nat)
    BY <1>5, <1>7, ConcatProperties
  <2>4. /\ Len(q.ids \o made) \in Nat /\ First(q.ids \o made, Len(q.ids \o made)) = q.ids \o made
    BY <2>3, LenProperties, FirstOfAll
  <2>5. /\ w.ask.ids \o w.made = q.ids \o made /\ w.at = "decode" /\ s.kv = q.ids \o made
        /\ Hybrid => s.state = s.kv
    BY <1>8, <1>10, <2>1, <2>2
  <2> DEFINE text == q.ids \o made
  <2>6. /\ w.ask.ids \o w.made = text /\ s.kv = text /\ Len(text) \in Nat
        /\ First(text, Len(text)) = text
    BY <2>4, <2>5
  <2> HIDE DEF text
  <2>7. Len(s.kv) <= Len(text) /\ s.kv = First(text, Len(s.kv)) /\ w.at # "prefill"
    BY <2>5, <2>6
  <2>8. o.kv \in Seq(Nat) /\ Len(o.kv) \in Nat
    BY <1>4, SlotFields, LenProperties
  <2>9. w.from <= Len(s.kv) /\ (Exact(s) \/ s.clean < w.from)
    <3>1. Len(s.kv) = Len(o.kv) + 1
      BY <1>6, <1>10, <2>8, ConcatProperties
    <3>2. w.from <= Len(s.kv)
      <4>1. w.from \in Nat /\ Len(o.kv) \in Nat
        BY <1>8, <2>8
      <4>2. w.from <= Len(o.kv)
        BY <2>1
      <4> HIDE DEF made
      <4> QED BY <3>1, <4>1, <4>2
    <3>3. Exact(s) \/ s.clean < w.from
      BY <1>10, <2>1
    <3> QED BY <3>2, <3>3
  <2> QED BY <2>5, <2>6, <2>7, <2>9 DEF ReadSoFar
<1>12. /\ PoolOK(p) /\ Serves(p, w) /\ BusyFor(p, n, r, w)
       /\ \A u \in Reply \ {r} : Running(reply[u]) /\ reply[u].node = n =>
            Serves(p, reply[u]) /\ (Running(w) => reply[u].id # w.id)
  <2>1. w.node = reply[r].node
    BY <1>8 DEF n
  <2> QED BY <1>1, <1>3, <1>8, <1>9, <1>10, <1>11, <2>1, SlotStep DEF n, i
<1> HIDE DEF p
<1>13. reply[r].node = n
  BY DEF n
<1>14. ReplyStep(n, p, r, w)
  BY <1>2, <1>8, <1>9, <1>12, <1>13 DEF ReplyStep
<1>15. PoolInv' /\ pool' \in [Node -> Seq(Slot')] /\ reply' \in [Reply -> Answer]
  BY <1>1, <1>5, <1>14, PoolStep
<1>16. TypeOK'
  BY <1>1, <1>2, <1>15, KeptTypes, NewTypes
<1>17. NamesInv' /\ DoomedInv' /\ LateInv'
  BY <1>1, <1>2, FilesStay
<1> QED BY <1>15, <1>16, <1>17 DEF CachesInv

(* The slot gets idle, the pool fits its limits again.                     *)
LEMMA IdleOf ==
  ASSUME NEW s \in Slot
  PROVE  LET t == [s EXCEPT !.busy = FALSE] IN t \in Slot /\ t.id = s.id /\ ~t.busy
<1> DEFINE no == FALSE
           plen == s.plen
           tag == s.tag
           t == Flagged(s, no, plen, tag)
<1>1. plen \in Nat /\ tag \in Tag /\ no \in BOOLEAN
  BY SlotFields
<1>2. [s EXCEPT !.busy = FALSE] = t
  <2> DEFINE f == [s EXCEPT !.busy = no]
             g == [f EXCEPT !.plen = plen]
             h == [g EXCEPT !.tag = tag]
  <2>1. s = SlotOfAll(s.id, s.kv, s.kv, s.clean, s.state, s.snaps, plen, s.ctx, tag, s.busy)
    BY SlotIsRecord
  <2>2. [s EXCEPT !.busy = FALSE] = f /\ t = h
    BY DEF Flagged
  <2> HIDE DEF no, plen, tag
  <2>3. f = SlotOfAll(s.id, s.kv, s.kv, s.clean, s.state, s.snaps, plen, s.ctx, tag, no)
    BY <2>1 DEF SlotOfAll
  <2> HIDE DEF f
  <2>4. g = SlotOfAll(s.id, s.kv, s.kv, s.clean, s.state, s.snaps, plen, s.ctx, tag, no)
    BY <2>3 DEF SlotOfAll
  <2> HIDE DEF g
  <2>5. h = SlotOfAll(s.id, s.kv, s.kv, s.clean, s.state, s.snaps, plen, s.ctx, tag, no)
    BY <2>4 DEF SlotOfAll
  <2> QED BY <2>2, <2>3, <2>5
<1> HIDE DEF no, plen, tag, t
<1>3. /\ Flagged(s, no, plen, tag) \in Slot /\ Flagged(s, no, plen, tag).id = s.id
      /\ Flagged(s, no, plen, tag).busy = no
  BY <1>1, FlagsOf
<1> QED BY <1>2, <1>3 DEF t, no

LEMMA ReleaseOf ==
  ASSUME CachesInv, NEW r \in Reply, Running(reply[r]), NEW s \in Slot, s.id = reply[r].id,
         NEW p, p = [pool[reply[r].node] EXCEPT ![Mine(r)] = s], Release(r, p),
         kind' = kind, limit' = limit, forget' = forget, disk' = disk,
         history' \in [saved : Seq(File), claims : SUBSET (Nat \X Node), admin : Nat],
         history'.saved = history.saved, history'.claims = history.claims
  PROVE  CachesInv'
<1> DEFINE n == reply[r].node
           i == Mine(r)
           t == [s EXCEPT !.busy = FALSE]
           o == [pool[n] EXCEPT ![i] = t]
           w == [NewReply EXCEPT !.at = "done"]
           e == Evicted(o, None, limit[n])
<1>1. TypeOK /\ PoolInv /\ NamesInv /\ DoomedInv /\ LateInv
  BY DEF CachesInv
<1>2. /\ i \in DOMAIN pool[n] /\ pool[n][i].id = reply[r].id /\ n \in Node /\ PoolOK(pool[n])
  BY <1>1, MineOf, ReplyFields DEF Running
<1>3. SetPool(n, o, None) /\ reply' = [reply EXCEPT ![r] = w]
  <2>1. SetPool(n, [p EXCEPT ![i].busy = FALSE], None) /\ reply' = [reply EXCEPT ![r] = w]
    BY DEF Release
  <2>2. [p EXCEPT ![i].busy = FALSE] = o
    <3>1. p = [pool[n] EXCEPT ![i] = s] /\ pool[n] \in Seq(Slot)
      BY <1>2 DEF PoolOK
    <3> HIDE DEF n, i
    <3>2. p[i] = s /\ DOMAIN p = DOMAIN pool[n]
      BY <1>2, <3>1
    <3> QED BY <1>2, <3>1, <3>2
  <2> QED BY <2>1, <2>2
<1>4. t \in Slot /\ t.id = reply[r].id /\ ~t.busy
  BY IdleOf
<1>5. \A u \in Reply \ {r} : Running(reply[u]) /\ reply[u].node = n =>
        Serves(pool[n], reply[u]) /\ reply[u].id # reply[r].id
  BY <1>1, OthersOf
<1>6. w \in Answer /\ ReplyOK(w) /\ ~Running(w)
  BY EndedType DEF Running
<1> HIDE DEF n, i, t, w
<1>7. /\ PoolOK(o) /\ \A v : Serves(pool[n], v) /\ v.id # t.id => Serves(o, v)
      /\ Busy(o) \subseteq Busy(pool[n]) \ {t.id}
  BY <1>2, <1>4, ReplaceOf, BusyReplace
<1> HIDE DEF o
<1>8. /\ pool' = [pool EXCEPT ![n] = e] /\ PoolOK(e) /\ (\A v : Serves(o, v) => Serves(e, v))
      /\ Busy(e) \subseteq Busy(o)
      /\ store' \in [Node -> Store']
      /\ \A m \in Node : /\ store'[m].index = store[m].index
                         /\ store'[m].writing = store[m].writing
                         /\ store'[m].forgotten = store[m].forgotten
  BY <1>1, <1>2, <1>3, <1>7, SetPoolOf
<1> HIDE DEF e
<1>9. BusyFor(e, n, r, w) /\ reply[r].node = n
  BY <1>4, <1>7, <1>8 DEF BusyFor, n
<1>10. ReplyStep(n, e, r, w)
  BY <1>3, <1>4, <1>5, <1>6, <1>7, <1>8, <1>9 DEF ReplyStep
<1>11. PoolInv' /\ pool' \in [Node -> Seq(Slot')] /\ reply' \in [Reply -> Answer]
  BY <1>1, <1>2, <1>10, PoolStep
<1>12. TypeOK'
  BY <1>1, <1>8, <1>11, KeptTypes, NewTypes
<1>13. NamesInv' /\ DoomedInv' /\ LateInv'
  BY <1>1, <1>8, FilesStay
<1> QED BY <1>11, <1>12, <1>13 DEF CachesInv

LEMMA FinishOf ==
  ASSUME CachesInv, NEW r \in Reply, Finish(r)
  PROVE  CachesInv'
<1> DEFINE p == pool[reply[r].node]
           s == p[Mine(r)]
<1>1. TypeOK /\ PoolInv
  BY DEF CachesInv
<1>2. /\ reply[r].at = "decode" /\ kind' = kind /\ limit' = limit /\ forget' = forget
      /\ disk' = disk /\ history' = history /\ Release(r, p)
  BY DEF Finish
<1>3. Running(reply[r])
  BY <1>2 DEF Running
<1>4. s \in Slot /\ s.id = reply[r].id /\ Mine(r) \in DOMAIN p
  BY <1>1, <1>3, MineOf
<1>5. p = [p EXCEPT ![Mine(r)] = s]
  <2>1. p \in Seq(Slot)
    BY <1>1, <1>2, ReplyFields DEF PoolOK
  <2> HIDE DEF p
  <2> QED BY <1>4, <2>1
<1>6. history' \in [saved : Seq(File), claims : SUBSET (Nat \X Node), admin : Nat]
  BY <1>1, <1>2 DEF TypeOK
<1> HIDE DEF s
<1> QED BY <1>2, <1>3, <1>4, <1>5, <1>6, ReleaseOf

LEMMA StopOf ==
  ASSUME CachesInv, NEW r \in Reply, Stop(r)
  PROVE  CachesInv'
<1> DEFINE o == pool[reply[r].node]
           i == Mine(r)
           state == IF Hybrid THEN <<"mixed">> ELSE <<>>
           s == [o[i] EXCEPT !.state = state]
           p == [o EXCEPT ![i] = s]
<1>1. TypeOK /\ PoolInv
  BY DEF CachesInv
<1>2. /\ reply[r].at \in {"prefill", "decode"} /\ kind' = kind /\ limit' = limit
      /\ forget' = forget /\ disk' = disk /\ Admin /\ Release(r, p)
  BY DEF Stop
<1>3. Running(reply[r])
  BY <1>2 DEF Running
<1>4. o[i] \in Slot /\ o[i].id = reply[r].id
  BY <1>1, <1>3, MineOf
<1>5. state \in Seq(Cell)
  <2>1. "mixed" \in Cell /\ <<>> \in Seq(Cell)
    BY EmptySeq DEF Cell
  <2> QED BY <2>1
<1> HIDE DEF state, o, i
<1>6. s \in Slot /\ s.id = reply[r].id
  <2> DEFINE c == o[i]
             t == [c EXCEPT !.state = state]
  <2>1. c \in Slot
    BY <1>4
  <2> HIDE DEF c
  <2>2. t \in Slot /\ t.id = c.id
    BY <1>5, <2>1, StateOf
  <2> QED BY <1>4, <2>2 DEF c
<1>7. /\ history'.saved = history.saved /\ history'.claims = history.claims
      /\ history' \in [saved : Seq(File), claims : SUBSET (Nat \X Node), admin : Nat]
  BY <1>1, <1>2, HistoryFields
<1>8. p = [pool[reply[r].node] EXCEPT ![Mine(r)] = s]
  BY DEF o, i
<1> HIDE DEF p, s
<1> QED BY <1>2, <1>3, <1>6, <1>7, <1>8, ReleaseOf

-----------------------------------------------------------------------------
(* Other calls on a pool: of node n stays p, what is in v is saved *)

PoolGoes(n, p, v) ==
  /\ kind' = kind /\ reply' = reply /\ forget' = forget /\ disk' = disk /\ Admin
  /\ pool' = [pool EXCEPT ![n] = p] /\ store' = [store EXCEPT ![n].queue = Spilled(n, v)]
  /\ PoolOK(p) /\ v \in Seq(Slot) /\ Busy(p) \subseteq Busy(pool[n])
  /\ \A o \in Reply : Running(reply[o]) /\ reply[o].node = n => Serves(p, reply[o])

LEMMA PoolGoesOf ==
  ASSUME CachesInv, NEW n \in Node, NEW p, NEW v, PoolGoes(n, p, v), limit' \in [Node -> MaxSlots]
  PROVE  CachesInv'
<1>1. TypeOK /\ PoolInv /\ NamesInv /\ DoomedInv /\ LateInv
  BY DEF CachesInv
<1>2. /\ kind' = kind /\ reply' = reply /\ forget' = forget /\ disk' = disk /\ Admin
      /\ pool' = [pool EXCEPT ![n] = p] /\ store' = [store EXCEPT ![n].queue = Spilled(n, v)]
      /\ PoolOK(p) /\ v \in Seq(Slot) /\ Busy(p) \subseteq Busy(pool[n])
      /\ \A o \in Reply : Running(reply[o]) /\ reply[o].node = n => Serves(p, reply[o])
  BY DEF PoolGoes
<1>3. PoolInv' /\ pool' \in [Node -> Seq(Slot')]
  BY <1>1, <1>2, PoolCall
<1>4. /\ store' \in [Node -> Store']
      /\ \A m \in Node : /\ store'[m].index = store[m].index
                         /\ store'[m].writing = store[m].writing
                         /\ store'[m].forgotten = store[m].forgotten
  BY <1>1, <1>2, QueueStep
<1>5. /\ history'.saved = history.saved /\ history'.claims = history.claims
      /\ history' \in [saved : Seq(File), claims : SUBSET (Nat \X Node), admin : Nat]
  BY <1>1, <1>2, HistoryFields
<1>6. TypeOK'
  BY <1>1, <1>2, <1>3, <1>4, <1>5, KeptTypes, NewTypes
<1>7. NamesInv' /\ DoomedInv' /\ LateInv'
  BY <1>1, <1>2, <1>4, <1>5, FilesStay
<1> QED BY <1>3, <1>6, <1>7 DEF CachesInv

LEMMA LeavesOf ==
  ASSUME CachesInv, NEW n \in Node, NEW v \in Seq(Slot), Unused(pool[n], Ids(v)),
         kind' = kind, reply' = reply, forget' = forget, disk' = disk, Admin,
         pool' = [pool EXCEPT ![n] = Without(pool[n], Ids(v))],
         store' = [store EXCEPT ![n].queue = Spilled(n, v)]
  PROVE  PoolGoes(n, Without(pool[n], Ids(v)), v)
<1> DEFINE gone == Ids(v)
           p == Without(pool[n], gone)
<1>1. PoolInv /\ PoolOK(pool[n])
  BY DEF CachesInv, TypeOK, PoolInv, PoolOK
<1>2. Unused(pool[n], gone)
  OBVIOUS
<1>3. pool' = [pool EXCEPT ![n] = p]
  OBVIOUS
<1> HIDE DEF gone
<1>4. /\ PoolOK(p) /\ (\A w : Serves(pool[n], w) => Serves(p, w))
      /\ Busy(p) \subseteq Busy(pool[n])
  BY <1>1, <1>2, WithoutOf, ServesWithout, BusyWithout
<1> HIDE DEF p
<1>5. \A o \in Reply : Running(reply[o]) /\ reply[o].node = n => Serves(p, reply[o])
  BY <1>1, <1>4, OthersOf
<1>6. PoolGoes(n, p, v)
  BY <1>3, <1>4, <1>5 DEF PoolGoes
<1> QED BY <1>6 DEF p, gone

LEMMA SpillChatOf ==
  ASSUME CachesInv, NEW n \in Node, NEW tag \in Tags, SpillChat(n, tag)
  PROVE  CachesInv'
<1> DEFINE I == {i \in DOMAIN pool[n] : pool[n][i].tag = tag /\ ~pool[n][i].busy}
           v == At(pool[n], I)
<1>1. /\ kind' = kind /\ reply' = reply /\ forget' = forget /\ disk' = disk /\ Admin
      /\ limit' = limit /\ pool' = [pool EXCEPT ![n] = Without(pool[n], Ids(v))]
      /\ store' = [store EXCEPT ![n].queue = Spilled(n, v)]
  BY DEF SpillChat
<1>2. pool[n] \in Seq(Slot) /\ limit \in [Node -> MaxSlots]
  BY DEF CachesInv, TypeOK
<1> HIDE DEF I
<1>3. v \in Seq(Slot) /\ \A k \in DOMAIN v : \E i \in DOMAIN pool[n] \cap I : v[k] = pool[n][i]
  BY <1>2, AtOf
<1> HIDE DEF v
<1>4. Unused(pool[n], Ids(v))
  <2>1. ASSUME NEW x \in Ids(v) PROVE \E i \in DOMAIN pool[n] : pool[n][i].id = x /\ ~pool[n][i].busy
    <3>1. PICK k \in DOMAIN v : x = v[k].id
      BY DEF Ids
    <3>2. PICK i \in DOMAIN pool[n] \cap I : v[k] = pool[n][i]
      BY <1>3
    <3> QED BY <3>1, <3>2 DEF I
  <2> QED BY <2>1 DEF Unused
<1>5. PoolGoes(n, Without(pool[n], Ids(v)), v)
  BY <1>1, <1>3, <1>4, LeavesOf
<1> QED BY <1>1, <1>2, <1>5, PoolGoesOf

LEMMA SetLimitsOf ==
  ASSUME CachesInv, NEW n \in Node, NEW max \in MaxSlots, SetLimits(n, max)
  PROVE  CachesInv'
<1> DEFINE v == Victims(pool[n], None, max)
<1>1. /\ kind' = kind /\ reply' = reply /\ forget' = forget /\ disk' = disk /\ Admin
      /\ limit' = [limit EXCEPT ![n] = max]
      /\ pool' = [pool EXCEPT ![n] = Without(pool[n], Ids(v))]
      /\ store' = [store EXCEPT ![n].queue = Spilled(n, v)]
  BY DEF SetLimits
<1>2. pool[n] \in Seq(Slot) /\ limit' \in [Node -> MaxSlots]
  BY <1>1 DEF CachesInv, TypeOK
<1>3. v \in Seq(Slot) /\ Unused(pool[n], Ids(v))
  BY <1>2, VictimsOf, UnusedVictims
<1> HIDE DEF v
<1>4. PoolGoes(n, Without(pool[n], Ids(v)), v)
  BY <1>1, <1>3, LeavesOf
<1> QED BY <1>2, <1>4, PoolGoesOf

LEMMA UnloadOf ==
  ASSUME CachesInv, NEW n \in Node, Unload(n)
  PROVE  CachesInv'
<1>1. /\ kind' = kind /\ reply' = reply /\ forget' = forget /\ disk' = disk /\ Admin
      /\ limit' = limit /\ pool' = [pool EXCEPT ![n] = <<>>] /\ RunningOn(n) = {}
      /\ store' = [store EXCEPT ![n].queue = Spilled(n, pool[n])]
  BY DEF Unload
<1>2. pool[n] \in Seq(Slot) /\ limit' \in [Node -> MaxSlots]
  BY <1>1 DEF CachesInv, TypeOK
<1>3. PoolOK(<<>>) /\ Busy(<<>>) = {}
  <2>1. <<>> \in Seq(Slot) /\ DOMAIN <<>> = {}
    BY EmptySeq
  <2> QED BY <2>1 DEF PoolOK, OneIdPerSlot, Busy
<1>4. \A o \in Reply : ~ (Running(reply[o]) /\ reply[o].node = n)
  BY <1>1 DEF RunningOn, Running
<1>5. PoolGoes(n, <<>>, pool[n])
  BY <1>1, <1>2, <1>3, <1>4 DEF PoolGoes
<1> QED BY <1>2, <1>5, PoolGoesOf

-----------------------------------------------------------------------------
(* Steps that leave the pools alone, and the files they read and take away *)

LEMMA PoolsStay ==
  ASSUME PoolInv, kind' = kind, pool' = pool, reply' = reply
  PROVE  PoolInv'
<1>1. \A r \in Reply : Running(reply'[r]) => Serves(pool[reply[r].node], reply[r])'
  BY SameServes DEF PoolInv
<1> QED BY <1>1 DEF PoolInv

LEMMA StoreStep ==
  ASSUME TypeOK, kind' = kind, NEW n \in Node, NEW s \in Store, store' = [store EXCEPT ![n] = s]
  PROVE  /\ store' \in [Node -> Store'] /\ store'[n] = s
         /\ \A m \in Node \ {n} : store'[m] = store[m]
BY SameKind DEF TypeOK

LEMMA ExceptOf ==
  ASSUME NEW f \in Files, NEW names
  PROVE  LET g == Except(f, names)
         IN /\ g \in Files /\ DOMAIN g = DOMAIN f \ names
            /\ \A x \in DOMAIN g : x \in DOMAIN f /\ g[x] = f[x]
<1>1. DOMAIN f \in SUBSET Nat /\ \A x \in DOMAIN f : f[x] \in File
  BY FilesFields
<1>2. /\ DOMAIN Except(f, names) = DOMAIN f \ names
      /\ \A x \in DOMAIN f \ names : Except(f, names)[x] = f[x]
      /\ Except(f, names) \in [DOMAIN f \ names -> File]
  BY <1>1 DEF Except
<1>3. Except(f, names) \in Files
  BY <1>1, <1>2 DEF Files
<1> QED BY <1>2, <1>3

(* An index that knows only names that were given.                         *)
Lists(i) == /\ i \in Files /\ DOMAIN i \subseteq DOMAIN history.saved
            /\ \A x \in DOMAIN i : i[x] = history.saved[x]

LEMMA ListedOf ==
  ASSUME TypeOK, NamesInv, NEW n \in Node, NEW listed \in {store[n].index, disk}, NEW gone
  PROVE  LET i == Except(listed, gone)
         IN /\ Lists(i) /\ DOMAIN i = DOMAIN listed \ gone
            /\ \A x \in DOMAIN store[n].index \ gone : x \in DOMAIN disk => x \in DOMAIN i
<1>1. store[n] \in Store /\ disk \in Files
  BY DEF TypeOK
<1>2. Lists(listed)
  BY <1>1, StoreFields DEF Lists, NamesInv
<1> DEFINE i == Except(listed, gone)
<1>3. /\ i \in Files /\ DOMAIN i = DOMAIN listed \ gone
      /\ \A x \in DOMAIN i : x \in DOMAIN listed /\ i[x] = listed[x]
  BY <1>2, ExceptOf DEF Lists
<1> HIDE DEF i
<1>4. Lists(i)
  BY <1>2, <1>3 DEF Lists
<1> QED BY <1>3, <1>4 DEF i

(* No name is new, files only go, the writers go on or have ended.         *)
OnlyGo ==
  /\ history'.saved = history.saved
  /\ DOMAIN disk' \subseteq DOMAIN disk /\ \A x \in DOMAIN disk' : disk'[x] = disk[x]
  /\ \A c \in history'.claims : c \in history.claims \/ c[1] \in DOMAIN disk \ DOMAIN disk'
  /\ \A m \in Node :
       /\ Lists(store'[m].index)
       /\ \/ store'[m].writing = NotWriting
          \/ /\ store'[m].writing = store[m].writing
             /\ store[m].forgotten \subseteq store'[m].forgotten

LEMMA OnlyGoKeeps ==
  ASSUME TypeOK, NamesInv, DoomedInv, OnlyGo
  PROVE  NamesInv' /\ DoomedInv'
<1>1. /\ history'.saved = history.saved
      /\ DOMAIN disk' \subseteq DOMAIN disk /\ \A x \in DOMAIN disk' : disk'[x] = disk[x]
      /\ \A c \in history'.claims : c \in history.claims \/ c[1] \in DOMAIN disk \ DOMAIN disk'
      /\ \A m \in Node :
           /\ DOMAIN store'[m].index \subseteq DOMAIN history.saved
           /\ \A x \in DOMAIN store'[m].index : store'[m].index[x] = history.saved[x]
      /\ \A m \in Node :
           \/ store'[m].writing = NotWriting
           \/ /\ store'[m].writing = store[m].writing
              /\ store[m].forgotten \subseteq store'[m].forgotten
  BY DEF OnlyGo, Lists
<1>2. \A c \in history'.claims : c[1] \in DOMAIN history'.saved \ DOMAIN disk'
  BY <1>1 DEF NamesInv
<1>3. DOMAIN disk' \subseteq DOMAIN history'.saved /\ \A x \in DOMAIN disk' : disk'[x] = history'.saved[x]
  BY <1>1 DEF NamesInv
<1>4. ASSUME NEW m \in Node
      PROVE  /\ DOMAIN store'[m].index \subseteq DOMAIN history'.saved
             /\ \A x \in DOMAIN store'[m].index : store'[m].index[x] = history'.saved[x]
             /\ store'[m].writing.at = "encoded" =>
                  store'[m].writing.file.by = m /\ ~store'[m].writing.file.late
             /\ store'[m].writing.at = "placed" =>
                  /\ store'[m].writing.file.by = m
                  /\ store'[m].writing.name \in DOMAIN history'.saved
                  /\ store'[m].writing.file = history'.saved[store'[m].writing.name]
  BY <1>1 DEF NamesInv, NotWriting
<1>5. NamesInv'
  BY <1>2, <1>3, <1>4 DEF NamesInv
<1>6. DoomedInv'
  <2>1. ASSUME NEW m \in Node, store'[m].writing.at = "listed",
               NEW x \in store'[m].writing.doomed
        PROVE  /\ x \in DOMAIN history'.saved
               /\ \/ history'.saved[x].tag \in store'[m].forgotten
                  \/ \E y \in DOMAIN history'.saved \ {x} : CoveredBy(history'.saved[x], history'.saved[y])
    <3>1. store'[m].writing = store[m].writing /\ store[m].forgotten \subseteq store'[m].forgotten
      BY <1>1, <2>1 DEF NotWriting
    <3>2. /\ x \in DOMAIN history.saved
          /\ \/ history.saved[x].tag \in store[m].forgotten
             \/ \E y \in DOMAIN history.saved \ {x} : CoveredBy(history.saved[x], history.saved[y])
      BY <2>1, <3>1 DEF DoomedInv
    <3> QED BY <1>1, <3>1, <3>2
  <2> QED BY <2>1 DEF DoomedInv, CoveredBy
<1> QED BY <1>5, <1>6

(* A listed file stays listed unless it goes.                              *)
LEMMA LateStays ==
  ASSUME TypeOK, LateInv, forget' = forget, DOMAIN disk' \subseteq DOMAIN disk,
         \A x \in DOMAIN disk' : disk'[x] = disk[x],
         \A m \in Node : /\ store'[m].writing = store[m].writing
                         /\ store'[m].forgotten = store[m].forgotten
                         /\ \A x \in DOMAIN disk' :
                              x \in DOMAIN store[m].index => x \in DOMAIN store'[m].index
  PROVE  LateInv'
<1>1. \A x \in DOMAIN disk : disk[x].by \in Node
  BY DiskFields
<1>2. ASSUME NEW x \in DOMAIN disk', disk'[x].late PROVE GoesSoon(disk[x].by, x)'
  <2> DEFINE m == disk[x].by
  <2>1. x \in DOMAIN disk /\ disk'[x] = disk[x] /\ m \in Node /\ GoesSoon(m, x)
    BY <1>1, <1>2 DEF LateInv
  <2>2. /\ store'[m].writing = store[m].writing /\ store'[m].forgotten = store[m].forgotten
        /\ x \in DOMAIN store[m].index => x \in DOMAIN store'[m].index
    BY <1>2, <2>1
  <2> QED BY <2>1, <2>2 DEF GoesSoon
<1> QED BY <1>2 DEF LateInv

LEMMA ExceptNone ==
  ASSUME NEW f \in Files
  PROVE  Except(f, {}) = f
BY FilesFields DEF Except, Files

(* A reply looked for a saved conversation and found none, or claimed x.   *)
LEMMA ClaimCases ==
  ASSUME TypeOK, NEW r \in Reply, Claim(r), reply[r].node \in Node
  PROVE  LET n == reply[r].node
         IN \E listed \in {store[n].index, disk} :
              \/ \E gone : /\ gone \cap DOMAIN disk = {} /\ disk' = disk /\ history' = history
                           /\ store' = [store EXCEPT ![n].index = Except(listed, gone)]
              \/ \E x \in DOMAIN disk :
                   /\ disk' = Except(disk, {x})
                   /\ store' = [store EXCEPT ![n].index = Except(listed, {x}),
                                             ![n].claim = disk[x]]
                   /\ history' = [history EXCEPT !.claims = @ \cup {<<x, n>>}]
<1> DEFINE n == reply[r].node
<1>1. store[n].index \in Files /\ disk \in Files
  BY StoreFields DEF TypeOK
<1> DEFINE miss(listed) == \E gone : /\ gone \cap DOMAIN disk = {} /\ disk' = disk /\ history' = history
                                     /\ store' = [store EXCEPT ![n].index = Except(listed, gone)]
<1>2. ASSUME NEW listed \in {store[n].index, disk}, Miss(n, listed) PROVE miss(listed)
  BY <1>1, <1>2, ExceptNone DEF Miss
<1>3. ASSUME NEW listed \in {store[n].index, disk}, NEW x, x \notin DOMAIN disk, Miss(n, Except(listed, {x}))
      PROVE  miss(listed)
  <2>1. {x} \cap DOMAIN disk = {}
    BY <1>3
  <2> QED BY <1>3, <2>1 DEF Miss
<1>4. CASE ~store[n].enabled
  <2>1. Miss(n, store[n].index)
    BY <1>4 DEF Claim
  <2>2. miss(store[n].index)
    BY <1>2, <2>1
  <2> HIDE DEF miss
  <2> QED BY <2>2 DEF miss
<1>5. CASE store[n].enabled
  <2>1. PICK listed \in {store[n].index, disk} :
          LET found == Matching(n, listed, reply[r].ask) IN
             \/ found = {} /\ Miss(n, listed)
             \/ \E x \in found \ DOMAIN disk : Miss(n, Except(listed, {x}))
             \/ \E x \in found \cap DOMAIN disk :
                  /\ Rename(x)
                  /\ store' = [store EXCEPT ![n].index = Except(listed, {x}),
                                            ![n].claim = disk[x]]
                  /\ history' = [history EXCEPT !.claims = @ \cup {<<x, n>>}]
    BY <1>5 DEF Claim
  <2>2. CASE Miss(n, listed)
    BY <1>2, <2>2
  <2>3. CASE \E x : x \notin DOMAIN disk /\ Miss(n, Except(listed, {x}))
    BY <1>3, <2>3
  <2>4. CASE \E x \in DOMAIN disk :
               /\ Rename(x)
               /\ store' = [store EXCEPT ![n].index = Except(listed, {x}), ![n].claim = disk[x]]
               /\ history' = [history EXCEPT !.claims = @ \cup {<<x, n>>}]
    BY <2>4 DEF Rename
  <2> QED BY <2>1, <2>2, <2>3, <2>4
<1> QED BY <1>4, <1>5

LEMMA ClaimOf ==
  ASSUME CachesInv, NEW r \in Reply, Claim(r)
  PROVE  CachesInv'
<1> DEFINE n == reply[r].node
           w == [reply[r] EXCEPT !.at = "claimed"]
<1>1. TypeOK /\ PoolInv /\ NamesInv /\ DoomedInv /\ LateInv
  BY DEF CachesInv
<1>2. /\ reply[r].at = "acquiring" /\ kind' = kind /\ pool' = pool /\ limit' = limit
      /\ forget' = forget /\ reply' = [reply EXCEPT ![r] = w]
  BY DEF Claim
<1>3. /\ reply[r] \in Answer /\ ReplyOK(reply[r]) /\ n \in Node /\ PoolOK(pool[n])
      /\ store[n] \in Store /\ disk \in Files
  BY <1>1, <1>2, ReplyFields DEF TypeOK
<1>4. PoolInv' /\ pool' \in [Node -> Seq(Slot')] /\ reply' \in [Reply -> Answer]
  <2>1. w \in Answer /\ w.at = "claimed" /\ w.node = n /\ w.ask = reply[r].ask /\ w.made = reply[r].made
    BY <1>3, AnswerFields DEF Answer, Waiting
  <2>2. pool' = [pool EXCEPT ![n] = pool[n]]
    BY <1>1, <1>2, <1>3 DEF TypeOK
  <2> HIDE DEF w, n
  <2>3. ReplyOK(w) /\ ~Running(w)
    BY <1>2, <1>3, <2>1 DEF ReplyOK, Running, n
  <2>4. BusyFor(pool[n], n, r, w) /\ ~Running(reply[r])
    BY <1>2 DEF BusyFor, Running
  <2>5. ReplyStep(n, pool[n], r, w)
    BY <1>1, <1>2, <1>3, <2>1, <2>2, <2>3, <2>4, OthersOf DEF ReplyStep
  <2> QED BY <1>1, <1>3, <2>5, PoolStep
<1>5. PICK listed \in {store[n].index, disk} :
        \/ \E gone : /\ gone \cap DOMAIN disk = {} /\ disk' = disk /\ history' = history
                     /\ store' = [store EXCEPT ![n].index = Except(listed, gone)]
        \/ \E x \in DOMAIN disk :
             /\ disk' = Except(disk, {x})
             /\ store' = [store EXCEPT ![n].index = Except(listed, {x}), ![n].claim = disk[x]]
             /\ history' = [history EXCEPT !.claims = @ \cup {<<x, n>>}]
  BY <1>1, <1>3, ClaimCases
<1>6. \E i, s : /\ Lists(i) /\ s \in Store /\ store' = [store EXCEPT ![n] = s] /\ s.index = i
                /\ s.writing = store[n].writing /\ s.forgotten = store[n].forgotten
                /\ history'.saved = history.saved
                /\ history' \in [saved : Seq(File), claims : SUBSET (Nat \X Node), admin : Nat]
                /\ disk' \in Files
                /\ DOMAIN disk' \subseteq DOMAIN disk /\ \A x \in DOMAIN disk' : disk'[x] = disk[x]
                /\ \A c \in history'.claims :
                     c \in history.claims \/ c[1] \in DOMAIN disk \ DOMAIN disk'
                /\ \A x \in DOMAIN disk' : x \in DOMAIN store[n].index => x \in DOMAIN i
  <2>1. CASE \E gone : /\ gone \cap DOMAIN disk = {} /\ disk' = disk /\ history' = history
                       /\ store' = [store EXCEPT ![n].index = Except(listed, gone)]
    <3>1. PICK gone : /\ gone \cap DOMAIN disk = {} /\ disk' = disk /\ history' = history
                      /\ store' = [store EXCEPT ![n].index = Except(listed, gone)]
      BY <2>1
    <3> DEFINE i == Except(listed, gone)
               s == [store[n] EXCEPT !.index = i]
    <3>2. Lists(i) /\ \A x \in DOMAIN store[n].index \ gone : x \in DOMAIN disk => x \in DOMAIN i
      BY <1>1, <1>3, ListedOf
    <3>3. store' = [store EXCEPT ![n] = s]
      BY <3>1
    <3> HIDE DEF i
    <3>4. s \in Store /\ s.index = i /\ s.writing = store[n].writing /\ s.forgotten = store[n].forgotten
      BY <1>3, <3>2, StoreFields DEF Store, Lists
    <3>5. history' \in [saved : Seq(File), claims : SUBSET (Nat \X Node), admin : Nat]
      BY <1>1, <3>1 DEF TypeOK
    <3> HIDE DEF s
    <3>6. \A x \in DOMAIN disk' : x \in DOMAIN store[n].index => x \in DOMAIN i
      BY <3>1, <3>2
    <3>7. /\ history'.saved = history.saved /\ history'.claims = history.claims /\ disk' \in Files
          /\ DOMAIN disk' \subseteq DOMAIN disk /\ \A x \in DOMAIN disk' : disk'[x] = disk[x]
      BY <1>3, <3>1
    <3> QED BY <3>2, <3>3, <3>4, <3>5, <3>6, <3>7
  <2>2. CASE \E x \in DOMAIN disk :
               /\ disk' = Except(disk, {x})
               /\ store' = [store EXCEPT ![n].index = Except(listed, {x}), ![n].claim = disk[x]]
               /\ history' = [history EXCEPT !.claims = @ \cup {<<x, n>>}]
    <3>1. PICK x \in DOMAIN disk :
               /\ disk' = Except(disk, {x})
               /\ store' = [store EXCEPT ![n].index = Except(listed, {x}), ![n].claim = disk[x]]
               /\ history' = [history EXCEPT !.claims = @ \cup {<<x, n>>}]
      BY <2>2
    <3> DEFINE i == Except(listed, {x})
               s1 == [store[n] EXCEPT !.index = i]
               s == [s1 EXCEPT !.claim = disk[x]]
    <3>2. Lists(i) /\ \A y \in DOMAIN store[n].index \ {x} : y \in DOMAIN disk => y \in DOMAIN i
      <4> DEFINE gone == {x}
                 j == Except(listed, gone)
      <4> HIDE DEF gone
      <4>1. Lists(j) /\ \A y \in DOMAIN store[n].index \ gone : y \in DOMAIN disk => y \in DOMAIN j
        BY <1>1, <1>3, ListedOf
      <4>2. i = j
        BY DEF gone
      <4> HIDE DEF i, j
      <4> QED BY <4>1, <4>2 DEF gone
    <3>3. store' = [store EXCEPT ![n] = s]
      BY <3>1
    <3> HIDE DEF i
    <3>4. s1 \in Store /\ s1.index = i /\ s1.writing = store[n].writing /\ s1.forgotten = store[n].forgotten
      BY <1>3, <3>2, StoreFields DEF Store, Lists
    <3>5. disk[x] \in File /\ x \in Nat
      BY <1>3, FilesFields
    <3> HIDE DEF s1
    <3>6. s \in Store /\ s.index = i /\ s.writing = store[n].writing /\ s.forgotten = store[n].forgotten
      BY <3>4, <3>5, StoreFields DEF Store
    <3> HIDE DEF s
    <3>7. /\ history'.saved = history.saved /\ history'.claims = history.claims \cup {<<x, n>>}
          /\ history' \in [saved : Seq(File), claims : SUBSET (Nat \X Node), admin : Nat]
      <4> DEFINE Saves == Seq(File)
                 claims == history.claims \cup {<<x, n>>}
      <4>1. /\ history \in [saved : Saves, claims : SUBSET (Nat \X Node), admin : Nat]
            /\ claims \in SUBSET (Nat \X Node)
        BY <1>1, <1>3, <3>5 DEF TypeOK
      <4>2. history' = [history EXCEPT !.claims = claims]
        BY <3>1
      <4> HIDE DEF Saves, claims
      <4>3. /\ history'.saved = history.saved /\ history'.claims = claims
            /\ history' \in [saved : Saves, claims : SUBSET (Nat \X Node), admin : Nat]
        BY <4>1, <4>2
      <4> QED BY <4>3 DEF Saves, claims
    <3>8. /\ disk' \in Files /\ DOMAIN disk' = DOMAIN disk \ {x}
          /\ \A y \in DOMAIN disk' : disk'[y] = disk[y]
      <4> DEFINE gone == {x}
      <4>1. disk' = Except(disk, gone)
        BY <3>1
      <4> HIDE DEF gone
      <4> DEFINE g == Except(disk, gone)
      <4>2. disk \in Files
        BY <1>3
      <4>3. g \in Files /\ DOMAIN g = DOMAIN disk \ gone /\ \A y \in DOMAIN g : g[y] = disk[y]
        BY <4>2, ExceptOf
      <4>4. disk' = g
        BY <4>1
      <4> HIDE DEF g
      <4> QED BY <4>3, <4>4 DEF gone
    <3>9. \A c \in history'.claims : c \in history.claims \/ c[1] \in DOMAIN disk \ DOMAIN disk'
      BY <3>7, <3>8
    <3>10. \A y \in DOMAIN disk' : y \in DOMAIN store[n].index => y \in DOMAIN i
      BY <3>2, <3>8
    <3> QED BY <3>2, <3>3, <3>6, <3>7, <3>8, <3>9, <3>10
  <2> QED BY <1>5, <2>1, <2>2
<1>7. PICK i, s : /\ Lists(i) /\ s \in Store /\ store' = [store EXCEPT ![n] = s] /\ s.index = i
                  /\ s.writing = store[n].writing /\ s.forgotten = store[n].forgotten
                  /\ history'.saved = history.saved
                  /\ history' \in [saved : Seq(File), claims : SUBSET (Nat \X Node), admin : Nat]
                  /\ disk' \in Files
                  /\ DOMAIN disk' \subseteq DOMAIN disk /\ \A x \in DOMAIN disk' : disk'[x] = disk[x]
                  /\ \A c \in history'.claims :
                       c \in history.claims \/ c[1] \in DOMAIN disk \ DOMAIN disk'
                  /\ \A x \in DOMAIN disk' : x \in DOMAIN store[n].index => x \in DOMAIN i
  BY <1>6
<1> HIDE DEF n, w
<1>8. /\ store' \in [Node -> Store'] /\ store'[n] = s
      /\ \A m \in Node \ {n} : store'[m] = store[m]
  BY <1>1, <1>2, <1>3, <1>7, StoreStep
<1>9. OnlyGo
  <2>1. \A m \in Node : Lists(store[m].index)
    BY <1>1, StoreFields DEF NamesInv, TypeOK, Lists
  <2> QED BY <1>7, <1>8, <2>1 DEF OnlyGo
<1>10. NamesInv' /\ DoomedInv'
  BY <1>1, <1>9, OnlyGoKeeps
<1>11. LateInv'
  <2>1. \A m \in Node : /\ store'[m].writing = store[m].writing
                        /\ store'[m].forgotten = store[m].forgotten
                        /\ \A x \in DOMAIN disk' :
                             x \in DOMAIN store[m].index => x \in DOMAIN store'[m].index
    BY <1>7, <1>8
  <2> QED BY <1>1, <1>2, <1>7, <2>1, LateStays
<1>12. TypeOK'
  BY <1>1, <1>2, <1>4, <1>7, <1>8, SameKind, KeptTypes, NewTypes
<1> QED BY <1>4, <1>10, <1>11, <1>12 DEF CachesInv

-----------------------------------------------------------------------------
(* The writer: encode, place, list, clean up *)

LEMMA WritingFields ==
  ASSUME NEW w \in Writing
  PROVE  /\ w.at = "no" <=> w = NotWriting
         /\ w.at = "encoded" => w.file \in File
         /\ w.at = "placed" => w.file \in File /\ w.name \in Nat
         /\ w.at = "listed" => w.doomed \in SUBSET Nat
BY DEF Writing, NotWriting

(* A step of the writer of n: it was at o, is at w; its index is i.        *)
WriterStep(n, o, w, i) ==
  /\ store[n].writing = o /\ w \in Writing /\ Lists(i)
  /\ \E s \in Store : /\ store' = [store EXCEPT ![n] = s] /\ s.writing = w /\ s.index = i
                      /\ s.forgotten = store[n].forgotten
  /\ kind' = kind /\ forget' = forget /\ disk' = disk /\ history' = history
  /\ w.at # "placed" /\ (w.at = "encoded" => w.file.by = n /\ ~w.file.late)
  /\ w.at = "listed" => \A x \in w.doomed :
       /\ x \in DOMAIN history.saved
       /\ \/ history.saved[x].tag \in store[n].forgotten
          \/ \E y \in DOMAIN history.saved \ {x} : CoveredBy(history.saved[x], history.saved[y])

LEMMA WriterStepOf ==
  ASSUME TypeOK, NamesInv, DoomedInv, NEW n \in Node, NEW o, NEW w, NEW i, WriterStep(n, o, w, i)
  PROVE  /\ store' \in [Node -> Store'] /\ NamesInv' /\ DoomedInv'
         /\ store'[n].writing = w /\ store'[n].index = i
         /\ store'[n].forgotten = store[n].forgotten
         /\ \A m \in Node \ {n} : store'[m] = store[m]
<1>1. /\ w \in Writing /\ Lists(i) /\ kind' = kind /\ disk' = disk /\ history' = history
      /\ w.at # "placed" /\ (w.at = "encoded" => w.file.by = n /\ ~w.file.late)
      /\ w.at = "listed" => \A x \in w.doomed :
           /\ x \in DOMAIN history.saved
           /\ \/ history.saved[x].tag \in store[n].forgotten
              \/ \E y \in DOMAIN history.saved \ {x} : CoveredBy(history.saved[x], history.saved[y])
  BY DEF WriterStep
<1>2. PICK s \in Store : /\ store' = [store EXCEPT ![n] = s] /\ s.writing = w /\ s.index = i
                         /\ s.forgotten = store[n].forgotten
  BY DEF WriterStep
<1>3. store' \in [Node -> Store'] /\ store'[n] = s /\ \A m \in Node \ {n} : store'[m] = store[m]
  BY <1>1, <1>2, StoreStep
<1>4. NamesInv'
  <2>1. /\ DOMAIN disk' \subseteq DOMAIN history'.saved
        /\ \A x \in DOMAIN disk' : disk'[x] = history'.saved[x]
        /\ \A c \in history'.claims : c[1] \in DOMAIN history'.saved \ DOMAIN disk'
    BY <1>1 DEF NamesInv
  <2>2. ASSUME NEW m \in Node
        PROVE  /\ DOMAIN store'[m].index \subseteq DOMAIN history'.saved
               /\ \A x \in DOMAIN store'[m].index : store'[m].index[x] = history'.saved[x]
               /\ store'[m].writing.at = "encoded" =>
                    store'[m].writing.file.by = m /\ ~store'[m].writing.file.late
               /\ store'[m].writing.at = "placed" =>
                    /\ store'[m].writing.file.by = m
                    /\ store'[m].writing.name \in DOMAIN history'.saved
                    /\ store'[m].writing.file = history'.saved[store'[m].writing.name]
    <3>1. CASE m = n
      BY <1>1, <1>2, <1>3, <3>1 DEF Lists
    <3>2. CASE m # n
      BY <1>1, <1>3, <3>2 DEF NamesInv
    <3> QED BY <3>1, <3>2
  <2> QED BY <2>1, <2>2 DEF NamesInv
<1>5. DoomedInv'
  <2>1. ASSUME NEW m \in Node, store'[m].writing.at = "listed",
               NEW x \in store'[m].writing.doomed
        PROVE  /\ x \in DOMAIN history.saved
               /\ \/ history.saved[x].tag \in store'[m].forgotten
                  \/ \E y \in DOMAIN history.saved \ {x} : CoveredBy(history.saved[x], history.saved[y])
    <3>1. CASE m = n
      BY <1>1, <1>2, <1>3, <2>1, <3>1
    <3>2. CASE m # n
      BY <1>3, <2>1, <3>2 DEF DoomedInv
    <3> QED BY <3>1, <3>2
  <2> QED BY <2>1, <1>1 DEF DoomedInv
<1> QED BY <1>2, <1>3, <1>4, <1>5

LEMMA EncodeNextOf ==
  ASSUME CachesInv, NEW n \in Node, EncodeNext(n)
  PROVE  CachesInv'
<1> DEFINE s == Head(store[n].queue)
           f == Encode(n, s)
           drop == KeepOf(s) < MinPersist \/ s.tag \in store[n].forgotten
           w == IF drop THEN NotWriting ELSE [at |-> "encoded", file |-> f]
           i == store[n].index
           s1 == [store[n] EXCEPT !.queue = Tail(store[n].queue)]
           s2 == [s1 EXCEPT !.writing = w]
<1>1. TypeOK /\ PoolInv /\ NamesInv /\ DoomedInv /\ LateInv
  BY DEF CachesInv
<1>2. /\ store[n].queue # <<>> /\ store[n].writing = NotWriting /\ kind' = kind /\ pool' = pool
      /\ limit' = limit /\ forget' = forget /\ disk' = disk /\ reply' = reply /\ history' = history
      /\ store' = [store EXCEPT ![n] = s2]
  BY DEF EncodeNext
<1>3. store[n] \in Store /\ store[n].queue \in Seq(Slot)
  BY <1>1, StoreFields DEF TypeOK
<1>4. s \in Slot /\ Tail(store[n].queue) \in Seq(Slot)
  BY <1>2, <1>3, HeadTailProperties
<1> HIDE DEF s, drop
<1>5. f \in File /\ f.by = n /\ ~f.late
  BY <1>4, EncodeOf
<1> HIDE DEF f
<1>6. /\ w \in Writing /\ w.at \in {"no", "encoded"}
      /\ w.at = "encoded" => w.file.by = n /\ ~w.file.late
  BY <1>5 DEF Writing, NotWriting
<1> HIDE DEF w
<1>7. s1 \in Store /\ s1.index = i /\ s1.forgotten = store[n].forgotten
  BY <1>3, <1>4, StoreFields DEF Store
<1> HIDE DEF s1
<1>8. s2 \in Store /\ s2.writing = w /\ s2.index = i /\ s2.forgotten = store[n].forgotten
  BY <1>6, <1>7, StoreFields DEF Store
<1> HIDE DEF s2
<1>9. Lists(i)
  BY <1>1, <1>3, StoreFields DEF NamesInv, Lists
<1>10. WriterStep(n, NotWriting, w, i)
  BY <1>2, <1>6, <1>8, <1>9 DEF WriterStep
<1>11. /\ store' \in [Node -> Store'] /\ NamesInv' /\ DoomedInv'
       /\ store'[n].writing = w /\ store'[n].index = i
       /\ store'[n].forgotten = store[n].forgotten
       /\ \A m \in Node \ {n} : store'[m] = store[m]
  BY <1>1, <1>10, WriterStepOf
<1>12. LateInv'
  <2>1. ASSUME NEW x \in DOMAIN disk, disk[x].late PROVE GoesSoon(disk[x].by, x)'
    <3>1. GoesSoon(disk[x].by, x) /\ disk[x].by \in Node
      BY <1>1, <2>1, DiskFields DEF LateInv
    <3>2. CASE disk[x].by = n
      BY <1>2, <1>11, <3>1, <3>2 DEF GoesSoon, NotWriting
    <3>3. CASE disk[x].by # n
      BY <1>2, <1>11, <3>1, <3>3 DEF GoesSoon
    <3> QED BY <3>2, <3>3
  <2> QED BY <1>2, <2>1 DEF LateInv
<1>13. PoolInv'
  BY <1>1, <1>2, PoolsStay
<1>14. TypeOK'
  BY <1>1, <1>2, <1>11, KeptTypes, NewTypes
<1> QED BY <1>11, <1>12, <1>13, <1>14 DEF CachesInv

(* A file that covers another has all its whole blocks.                    *)
LEMMA CoversOf ==
  ASSUME NEW new \in File, NEW old \in File, Covers(new, old)
  PROVE  CoveredBy(old, new)
<1> DEFINE c == Common(old.tokens, new.tokens)
           l == Len(old.tokens)
<1>1. c \in Nat /\ l \in Nat /\ Block \in Nat \ {0}
  BY FileFields, CommonOf, CachesAssumption
<1>2. c \div Block = l \div Block /\ new.tag = old.tag
  BY DEF Covers, SharedBlocks, Blocks
<1>3. Blocks(old.tokens) = l \div Block
  BY DEF Blocks
<1> HIDE DEF c, l
<1>4. (c \div Block) * Block <= c
  BY <1>1
<1>5. c >= Blocks(old.tokens) * Block
  BY <1>1, <1>2, <1>3, <1>4
<1> QED BY <1>2, <1>5 DEF CoveredBy, c

LEMMA ListOf ==
  ASSUME CachesInv, NEW n \in Node, List(n)
  PROVE  CachesInv'
<1> DEFINE w == store[n].writing
           index == store[n].index
           i == [y \in DOMAIN index \cup {w.name} |-> IF y = w.name THEN w.file ELSE index[y]]
           old == {y \in DOMAIN index \ {w.name} : Covers(w.file, index[y])}
           doomed == Gone(n, w) \cup old
           v == [at |-> "listed", doomed |-> doomed]
           s1 == [store[n] EXCEPT !.index = i]
           s2 == [s1 EXCEPT !.writing = v]
<1>1. TypeOK /\ PoolInv /\ NamesInv /\ DoomedInv /\ LateInv
  BY DEF CachesInv
<1>2. /\ w.at = "placed" /\ kind' = kind /\ pool' = pool
      /\ limit' = limit /\ forget' = forget /\ disk' = disk /\ reply' = reply /\ history' = history
      /\ store' = [store EXCEPT ![n] = s2]
  BY DEF List
<1>3. store[n] \in Store /\ w \in Writing /\ Lists(index)
  BY <1>1, StoreFields DEF TypeOK, NamesInv, Lists
<1>4. /\ w.file \in File /\ w.name \in Nat /\ w.name \in DOMAIN history.saved
      /\ w.file = history.saved[w.name]
  BY <1>1, <1>2, <1>3, WritingFields DEF NamesInv
<1>5. DOMAIN index \in SUBSET Nat /\ \A y \in DOMAIN index : index[y] \in File
  BY <1>3, FilesFields DEF Lists
<1>6. Gone(n, w) \subseteq {w.name} /\ (w.file.tag \in store[n].forgotten <=> Gone(n, w) # {})
  BY DEF Gone
<1> HIDE DEF w, index
<1>7. Lists(i)
  <2>1. DOMAIN i \in SUBSET Nat /\ i \in [DOMAIN i -> File]
    BY <1>4, <1>5
  <2>2. /\ DOMAIN i \subseteq DOMAIN history.saved
        /\ \A x \in DOMAIN i : i[x] = history.saved[x]
    BY <1>3, <1>4 DEF Lists
  <2> HIDE DEF i
  <2>3. i \in Files
    BY <2>1 DEF Files
  <2> QED BY <2>2, <2>3 DEF Lists
<1>8. \A x \in doomed :
        /\ x \in DOMAIN history.saved
        /\ \/ history.saved[x].tag \in store[n].forgotten
           \/ \E y \in DOMAIN history.saved \ {x} : CoveredBy(history.saved[x], history.saved[y])
  <2>1. ASSUME NEW x \in Gone(n, w)
        PROVE  x \in DOMAIN history.saved /\ history.saved[x].tag \in store[n].forgotten
    BY <1>4, <1>6
  <2>2. ASSUME NEW x \in old
        PROVE  /\ x \in DOMAIN history.saved
               /\ \E y \in DOMAIN history.saved \ {x} : CoveredBy(history.saved[x], history.saved[y])
    <3>1. x \in DOMAIN index /\ x # w.name /\ Covers(w.file, index[x])
      OBVIOUS
    <3>2. x \in DOMAIN history.saved /\ index[x] = history.saved[x] /\ index[x] \in File
      BY <1>3, <1>5, <3>1 DEF Lists
    <3>3. CoveredBy(index[x], w.file)
      BY <1>4, <3>1, <3>2, CoversOf
    <3> QED BY <1>4, <3>1, <3>2, <3>3
  <2> HIDE DEF old
  <2> QED BY <2>1, <2>2
<1>9. v \in Writing /\ v.at = "listed" /\ v.doomed = doomed
  <2>1. doomed \in SUBSET Nat
    BY <1>4, <1>5, <1>6
  <2> HIDE DEF doomed
  <2> QED BY <2>1 DEF Writing
<1> HIDE DEF i
<1>10. s1 \in Store /\ s1.index = i /\ s1.forgotten = store[n].forgotten
  BY <1>3, <1>7, StoreFields DEF Store, Lists
<1> HIDE DEF s1, v
<1>11. s2 \in Store /\ s2.writing = v /\ s2.index = i /\ s2.forgotten = store[n].forgotten
  BY <1>9, <1>10, StoreFields DEF Store
<1> HIDE DEF s2, doomed
<1>12. WriterStep(n, w, v, i)
  BY <1>2, <1>7, <1>8, <1>9, <1>11 DEF WriterStep, w
<1>13. /\ store' \in [Node -> Store'] /\ NamesInv' /\ DoomedInv'
       /\ store'[n].writing = v /\ store'[n].index = i
       /\ store'[n].forgotten = store[n].forgotten
       /\ \A m \in Node \ {n} : store'[m] = store[m]
  BY <1>1, <1>12, WriterStepOf
<1>14. LateInv'
  <2>1. ASSUME NEW x \in DOMAIN disk, disk[x].late PROVE GoesSoon(disk[x].by, x)'
    <3>1. GoesSoon(disk[x].by, x) /\ disk[x].by \in Node /\ disk[x] = history.saved[x]
      BY <1>1, <2>1, DiskFields DEF LateInv, NamesInv
    <3>2. CASE disk[x].by = n
      <4>1. CASE w.name = x /\ disk[x].tag \in store[n].forgotten
        <5>1. x \in v.doomed
          BY <1>4, <1>6, <1>9, <3>1, <4>1 DEF doomed
        <5> QED BY <1>2, <1>9, <1>13, <3>2, <5>1 DEF GoesSoon
      <4>2. CASE forget[n].at = "marked" /\ x \in forget[n].names
        BY <1>2, <3>2, <4>2 DEF GoesSoon
      <4>3. CASE /\ disk[x].tag \notin store[n].forgotten
                 /\ forget[n].at = "read" => x \in forget[n].names
                 /\ forget[n].at = "synced" => x \in DOMAIN index
        <5>1. DOMAIN index \subseteq DOMAIN i
          BY DEF i
        <5> QED BY <1>2, <1>13, <3>2, <4>3, <5>1 DEF GoesSoon
      <4> QED BY <1>2, <3>1, <3>2, <4>1, <4>2, <4>3 DEF GoesSoon, w, index
    <3>3. CASE disk[x].by # n
      BY <1>2, <1>13, <3>1, <3>3 DEF GoesSoon
    <3> QED BY <3>2, <3>3
  <2> QED BY <1>2, <2>1 DEF LateInv
<1>15. PoolInv'
  BY <1>1, <1>2, PoolsStay
<1>16. TypeOK'
  BY <1>1, <1>2, <1>13, KeptTypes, NewTypes
<1> QED BY <1>13, <1>14, <1>15, <1>16 DEF CachesInv

LEMMA LateOf ==
  ASSUME NEW f \in File, NEW b \in BOOLEAN
  PROVE  LET g == [f EXCEPT !.late = b]
         IN g \in File /\ g.late = b /\ g.by = f.by /\ g.tag = f.tag
<1> DEFINE g == [tokens |-> f.kv, kv |-> f.kv, clean |-> f.clean, snaps |-> f.snaps,
                 plen |-> f.plen, tag |-> f.tag, by |-> f.by, late |-> b]
<1>1. [f EXCEPT !.late = b] = g
  BY FileFields DEF FileShape
<1>2. g \in File
  <2>1. CleanOK(f.clean, f.kv)
    BY FileFields DEF CleanOK, Exact, Shifted
  <2> QED BY <2>1, FileFields, FileIs
<1> QED BY <1>1, <1>2

LEMMA PlaceOf ==
  ASSUME CachesInv, NEW n \in Node, Place(n)
  PROVE  CachesInv'
<1> DEFINE w == store[n].writing
           x == Len(history.saved) + 1
           late == w.file.late \/ w.file.tag \in store[n].forgotten
           file == [w.file EXCEPT !.late = late]
           v == [at |-> "placed", name |-> x, file |-> file]
           s == [store[n] EXCEPT !.writing = v]
           saved == Append(history.saved, file)
<1>1. TypeOK /\ PoolInv /\ NamesInv /\ DoomedInv /\ LateInv
  BY DEF CachesInv
<1>2. /\ w.at = "encoded" /\ kind' = kind /\ pool' = pool /\ limit' = limit
      /\ forget' = forget /\ reply' = reply /\ store' = [store EXCEPT ![n] = s]
      /\ disk' = [y \in DOMAIN disk \cup {x} |-> IF y = x THEN file ELSE disk[y]]
      /\ history' = [history EXCEPT !.saved = saved]
  BY DEF Place
<1>3. /\ store[n] \in Store /\ w \in Writing /\ w.file \in File /\ w.file.by = n /\ ~w.file.late
  BY <1>1, <1>2, StoreFields, WritingFields DEF TypeOK, NamesInv
<1>4. /\ file \in File /\ file.by = n /\ file.tag = w.file.tag
      /\ file.late => file.tag \in store[n].forgotten
  <2> DEFINE f == w.file
             g == [f EXCEPT !.late = late]
  <2>1. f \in File /\ late \in BOOLEAN
    BY <1>3
  <2> HIDE DEF late, f
  <2>2. g \in File /\ g.late = late /\ g.by = f.by /\ g.tag = f.tag
    BY <2>1, LateOf
  <2>3. file = g
    BY DEF f
  <2> HIDE DEF file, g
  <2> QED BY <1>3, <2>2, <2>3 DEF f, late
<1> HIDE DEF file
<1>5. /\ x \in Nat /\ DOMAIN history.saved = 1..Len(history.saved) /\ x \notin DOMAIN history.saved
      /\ history.saved \in Seq(File)
  BY <1>1, HistoryFields
<1>6. /\ saved \in Seq(File) /\ DOMAIN saved = DOMAIN history.saved \cup {x} /\ saved[x] = file
      /\ \A y \in DOMAIN history.saved : saved[y] = history.saved[y]
  <2>1. /\ saved \in Seq(File) /\ Len(saved) = x /\ saved[x] = file
        /\ \A y \in 1..Len(history.saved) : saved[y] = history.saved[y]
    BY <1>4, <1>5, AppendProperties
  <2>2. DOMAIN saved = 1..x
    BY <2>1, LenProperties
  <2>3. 1..x = (1..Len(history.saved)) \cup {x}
    BY <1>1, HistoryFields
  <2> QED BY <1>5, <2>1, <2>2, <2>3
<1> HIDE DEF x, saved
<1>7. /\ v \in Writing /\ v.at = "placed" /\ v.name = x /\ v.file = file
  BY <1>4, <1>5 DEF Writing
<1> HIDE DEF v
<1>8. /\ s \in Store /\ s.writing = v /\ s.index = store[n].index /\ s.forgotten = store[n].forgotten
  BY <1>3, <1>7, StoreFields DEF Store
<1> HIDE DEF s
<1>9. /\ store' \in [Node -> Store'] /\ store'[n] = s
      /\ \A m \in Node \ {n} : store'[m] = store[m]
  BY <1>1, <1>2, <1>8, StoreStep
<1>10. /\ history'.saved = saved /\ history'.claims = history.claims
       /\ history' \in [saved : Seq(File), claims : SUBSET (Nat \X Node), admin : Nat]
  <2> DEFINE Saves == Seq(File)
  <2>1. history \in [saved : Saves, claims : SUBSET (Nat \X Node), admin : Nat] /\ saved \in Saves
    BY <1>1, <1>6 DEF TypeOK
  <2> HIDE DEF Saves
  <2>2. /\ history'.saved = saved /\ history'.claims = history.claims
        /\ history' \in [saved : Saves, claims : SUBSET (Nat \X Node), admin : Nat]
    BY <1>2, <2>1
  <2> QED BY <2>2 DEF Saves
<1>11. /\ DOMAIN disk' = DOMAIN disk \cup {x} /\ disk'[x] = file
       /\ \A y \in DOMAIN disk : y # x /\ y \in DOMAIN history.saved /\ disk'[y] = disk[y]
  <2>1. \A y \in DOMAIN disk : y # x /\ y \in DOMAIN history.saved
    BY <1>1, <1>5 DEF NamesInv
  <2> QED BY <1>2, <2>1
<1>12. disk' \in Files
  <2>1. DOMAIN disk \in SUBSET Nat /\ \A y \in DOMAIN disk : disk[y] \in File
    BY <1>1, DiskFields
  <2>2. DOMAIN disk' \in SUBSET Nat /\ disk' \in [DOMAIN disk' -> File]
    BY <1>2, <1>4, <1>5, <1>11, <2>1
  <2> QED BY <2>2 DEF Files
<1>13. NamesInv'
  <2>1. /\ DOMAIN disk' \subseteq DOMAIN history'.saved
        /\ \A y \in DOMAIN disk' : disk'[y] = history'.saved[y]
    BY <1>1, <1>6, <1>10, <1>11 DEF NamesInv
  <2>2. \A c \in history'.claims : c[1] \in DOMAIN history'.saved \ DOMAIN disk'
    BY <1>1, <1>5, <1>6, <1>10, <1>11 DEF NamesInv
  <2>3. ASSUME NEW m \in Node
        PROVE  /\ DOMAIN store'[m].index \subseteq DOMAIN history'.saved
               /\ \A y \in DOMAIN store'[m].index : store'[m].index[y] = history'.saved[y]
               /\ store'[m].writing.at = "encoded" =>
                    store'[m].writing.file.by = m /\ ~store'[m].writing.file.late
               /\ store'[m].writing.at = "placed" =>
                    /\ store'[m].writing.file.by = m
                    /\ store'[m].writing.name \in DOMAIN history'.saved
                    /\ store'[m].writing.file = history'.saved[store'[m].writing.name]
    <3>1. /\ DOMAIN store[m].index \subseteq DOMAIN history.saved
          /\ \A y \in DOMAIN store[m].index : store[m].index[y] = history.saved[y]
          /\ store[m].writing.at = "encoded" =>
               store[m].writing.file.by = m /\ ~store[m].writing.file.late
          /\ store[m].writing.at = "placed" =>
               /\ store[m].writing.file.by = m
               /\ store[m].writing.name \in DOMAIN history.saved
               /\ store[m].writing.file = history.saved[store[m].writing.name]
      BY <1>1 DEF NamesInv
    <3>2. CASE m = n
      BY <1>4, <1>6, <1>7, <1>8, <1>9, <1>10, <3>1, <3>2
    <3>3. CASE m # n
      BY <1>6, <1>9, <1>10, <3>1, <3>3
    <3> QED BY <3>2, <3>3
  <2> QED BY <2>1, <2>2, <2>3 DEF NamesInv
<1>14. DoomedInv'
  <2>1. ASSUME NEW m \in Node, store'[m].writing.at = "listed",
               NEW y \in store'[m].writing.doomed
        PROVE  /\ y \in DOMAIN history'.saved
               /\ \/ history'.saved[y].tag \in store'[m].forgotten
                  \/ \E z \in DOMAIN history'.saved \ {y} : CoveredBy(history'.saved[y], history'.saved[z])
    <3>1. store'[m] = store[m]
      BY <1>7, <1>8, <1>9, <2>1
    <3>2. /\ y \in DOMAIN history.saved
          /\ \/ history.saved[y].tag \in store[m].forgotten
             \/ \E z \in DOMAIN history.saved \ {y} : CoveredBy(history.saved[y], history.saved[z])
      BY <1>1, <2>1, <3>1 DEF DoomedInv
    <3> QED BY <1>6, <1>10, <3>1, <3>2
  <2> QED BY <2>1 DEF DoomedInv, CoveredBy
<1>15. LateInv'
  <2>1. ASSUME NEW y \in DOMAIN disk', disk'[y].late PROVE GoesSoon(disk[y].by, y)'
    <3>1. CASE y = x
      BY <1>4, <1>7, <1>8, <1>9, <1>11, <2>1, <3>1 DEF GoesSoon
    <3>2. CASE y # x
      <4>1. y \in DOMAIN disk /\ disk'[y] = disk[y] /\ disk[y].by \in Node /\ GoesSoon(disk[y].by, y)
        BY <1>1, <1>11, <2>1, <3>2, DiskFields DEF LateInv
      <4>2. CASE disk[y].by = n
        BY <1>2, <1>8, <1>9, <4>1, <4>2 DEF GoesSoon
      <4>3. CASE disk[y].by # n
        BY <1>2, <1>9, <4>1, <4>3 DEF GoesSoon
      <4> QED BY <4>2, <4>3
    <3> QED BY <3>1, <3>2
  <2> QED BY <2>1 DEF LateInv
<1>16. PoolInv'
  BY <1>1, <1>2, PoolsStay
<1>17. TypeOK'
  BY <1>1, <1>2, <1>9, <1>10, <1>12, SameKind, KeptTypes, NewTypes
<1> QED BY <1>13, <1>14, <1>15, <1>16, <1>17 DEF CachesInv

LEMMA CleanUpOf ==
  ASSUME CachesInv, NEW n \in Node, CleanUp(n)
  PROVE  CachesInv'
<1> DEFINE w == store[n].writing
           left == Except(store[n].index, w.doomed)
           over == IF n = Cleaner THEN OverBudget(left) ELSE {}
           gone == w.doomed \cup over
           i == Except(left, over)
           s1 == [store[n] EXCEPT !.index = i]
           s == [s1 EXCEPT !.writing = NotWriting]
<1>1. TypeOK /\ PoolInv /\ NamesInv /\ DoomedInv /\ LateInv
  BY DEF CachesInv
<1>2. /\ w.at = "listed" /\ kind' = kind /\ pool' = pool /\ limit' = limit
      /\ forget' = forget /\ reply' = reply /\ history' = history
      /\ store' = [store EXCEPT ![n] = s] /\ disk' = Except(disk, gone)
  BY DEF CleanUp
<1>3. store[n] \in Store /\ store[n].index \in Files /\ disk \in Files /\ Lists(store[n].index)
  BY <1>1, StoreFields DEF TypeOK, NamesInv, Lists
<1> HIDE DEF over
<1>4. /\ left \in Files /\ DOMAIN left = DOMAIN store[n].index \ w.doomed
      /\ \A y \in DOMAIN left : y \in DOMAIN store[n].index /\ left[y] = store[n].index[y]
  BY <1>3, ExceptOf
<1> HIDE DEF left
<1>5. /\ i \in Files /\ DOMAIN i = DOMAIN left \ over
      /\ \A y \in DOMAIN i : y \in DOMAIN left /\ i[y] = left[y]
  BY <1>4, ExceptOf
<1> HIDE DEF i
<1>6. Lists(i) /\ \A y \in DOMAIN store[n].index \ gone : y \in DOMAIN i
  BY <1>3, <1>4, <1>5 DEF Lists
<1>7. gone = w.doomed \cup over
  OBVIOUS
<1> HIDE DEF gone
<1>8. /\ disk' \in Files /\ DOMAIN disk' = DOMAIN disk \ gone
      /\ \A y \in DOMAIN disk' : y \in DOMAIN disk /\ disk'[y] = disk[y]
  <2> DEFINE g == Except(disk, gone)
  <2>1. g \in Files /\ DOMAIN g = DOMAIN disk \ gone /\ \A y \in DOMAIN g : y \in DOMAIN disk /\ g[y] = disk[y]
    BY <1>3, ExceptOf
  <2>2. disk' = g
    BY <1>2
  <2> HIDE DEF g
  <2> QED BY <2>1, <2>2
<1>9. s1 \in Store /\ s1.index = i /\ s1.forgotten = store[n].forgotten
  BY <1>3, <1>5, StoreFields DEF Store
<1> HIDE DEF s1
<1>10. s \in Store /\ s.index = i /\ s.forgotten = store[n].forgotten /\ s.writing = NotWriting
  BY <1>9, StoreFields DEF Store, Writing
<1> HIDE DEF s, w
<1>11. /\ store' \in [Node -> Store'] /\ store'[n] = s
       /\ \A m \in Node \ {n} : store'[m] = store[m]
  BY <1>1, <1>2, <1>10, StoreStep
<1>12. OnlyGo
  <2>1. \A m \in Node : Lists(store[m].index)
    BY <1>1, StoreFields DEF NamesInv, TypeOK, Lists
  <2> QED BY <1>2, <1>6, <1>8, <1>10, <1>11, <2>1 DEF OnlyGo
<1>13. NamesInv' /\ DoomedInv'
  BY <1>1, <1>12, OnlyGoKeeps
<1>14. LateInv'
  <2>1. ASSUME NEW y \in DOMAIN disk', disk'[y].late PROVE GoesSoon(disk[y].by, y)'
    <3>1. /\ y \in DOMAIN disk /\ y \notin gone /\ disk'[y] = disk[y] /\ disk[y].by \in Node
          /\ GoesSoon(disk[y].by, y)
      BY <1>1, <1>8, <2>1, DiskFields DEF LateInv
    <3>2. CASE disk[y].by = n
      BY <1>2, <1>6, <1>7, <1>10, <1>11, <3>1, <3>2 DEF GoesSoon, w
    <3>3. CASE disk[y].by # n
      BY <1>2, <1>11, <3>1, <3>3 DEF GoesSoon
    <3> QED BY <3>2, <3>3
  <2> QED BY <2>1 DEF LateInv
<1>15. PoolInv'
  BY <1>1, <1>2, PoolsStay
<1>16. TypeOK'
  BY <1>1, <1>2, <1>8, <1>11, SameKind, KeptTypes, NewTypes
<1> QED BY <1>13, <1>14, <1>15, <1>16 DEF CachesInv

-----------------------------------------------------------------------------
(* Forgetting a chat, and the end of a process *)

LEMMA ReadDirectoryOf ==
  ASSUME CachesInv, NEW n \in Node, NEW tag \in Tag, NEW on \in BOOLEAN, ReadDirectory(n, tag, on)
  PROVE  CachesInv'
<1> DEFINE s == [store[n] EXCEPT !.enabled = on]
           f == [at |-> "read", names |-> DOMAIN disk, tag |-> tag]
<1>1. TypeOK /\ PoolInv /\ NamesInv /\ DoomedInv /\ LateInv
  BY DEF CachesInv
<1>2. /\ forget[n].at = "no" /\ Admin /\ forget' = [forget EXCEPT ![n] = f]
      /\ store' = [store EXCEPT ![n] = s] /\ kind' = kind /\ pool' = pool /\ limit' = limit
      /\ disk' = disk /\ reply' = reply
  BY DEF ReadDirectory
<1>3. store[n] \in Store /\ forget \in [Node -> Call] /\ DOMAIN disk \in SUBSET Nat
  BY <1>1, DiskFields DEF TypeOK
<1>4. /\ s \in Store /\ s.writing = store[n].writing /\ s.index = store[n].index
      /\ s.forgotten = store[n].forgotten
  BY <1>3, StoreFields DEF Store
<1> HIDE DEF s
<1>5. /\ store' \in [Node -> Store'] /\ store'[n] = s
      /\ \A m \in Node \ {n} : store'[m] = store[m]
  BY <1>1, <1>2, <1>4, StoreStep
<1>6. f \in Call /\ f.at = "read" /\ f.names = DOMAIN disk
  BY <1>3 DEF Call
<1> HIDE DEF f
<1>7. forget' \in [Node -> Call] /\ forget'[n] = f /\ \A m \in Node \ {n} : forget'[m] = forget[m]
  BY <1>2, <1>3, <1>6
<1>8. /\ history'.saved = history.saved /\ history'.claims = history.claims
      /\ history' \in [saved : Seq(File), claims : SUBSET (Nat \X Node), admin : Nat]
  BY <1>1, <1>2, HistoryFields
<1>9. OnlyGo
  <2>1. \A m \in Node : Lists(store[m].index)
    BY <1>1, StoreFields DEF NamesInv, TypeOK, Lists
  <2> QED BY <1>2, <1>4, <1>5, <1>8, <2>1 DEF OnlyGo
<1>10. NamesInv' /\ DoomedInv'
  BY <1>1, <1>9, OnlyGoKeeps
<1>11. LateInv'
  <2>1. ASSUME NEW y \in DOMAIN disk, disk[y].late PROVE GoesSoon(disk[y].by, y)'
    <3>1. disk[y].by \in Node /\ GoesSoon(disk[y].by, y)
      BY <1>1, <2>1, DiskFields DEF LateInv
    <3>2. CASE disk[y].by = n
      BY <1>2, <1>4, <1>5, <1>6, <1>7, <3>1, <3>2 DEF GoesSoon
    <3>3. CASE disk[y].by # n
      BY <1>2, <1>5, <1>7, <3>1, <3>3 DEF GoesSoon
    <3> QED BY <3>2, <3>3
  <2> QED BY <1>2, <2>1 DEF LateInv
<1>12. PoolInv'
  BY <1>1, <1>2, PoolsStay
<1>13. TypeOK'
  BY <1>1, <1>2, <1>5, <1>7, <1>8, KeptTypes, NewTypes
<1> QED BY <1>10, <1>11, <1>12, <1>13 DEF CachesInv

LEMMA SyncOf ==
  ASSUME CachesInv, NEW n \in Node, Sync(n)
  PROVE  CachesInv'
<1> DEFINE seen == forget[n].names
           index == store[n].index
           new == (seen \cap DOMAIN disk) \ DOMAIN index
           kept == seen \cap DOMAIN index
           i == [x \in kept \cup new |-> IF x \in kept THEN index[x] ELSE disk[x]]
           s == [store[n] EXCEPT !.index = i]
           f == [forget[n] EXCEPT !.at = "synced"]
<1>1. TypeOK /\ PoolInv /\ NamesInv /\ DoomedInv /\ LateInv
  BY DEF CachesInv
<1>2. /\ forget[n].at = "read" /\ store' = [store EXCEPT ![n] = s]
      /\ forget' = [forget EXCEPT ![n] = f] /\ kind' = kind /\ pool' = pool /\ limit' = limit
      /\ disk' = disk /\ reply' = reply /\ history' = history
  BY DEF Sync
<1>3. store[n] \in Store /\ forget \in [Node -> Call] /\ Lists(index) /\ Lists(disk)
  BY <1>1, StoreFields DEF TypeOK, NamesInv, Lists
<1>4. /\ DOMAIN index \in SUBSET Nat /\ \A y \in DOMAIN index : index[y] \in File
      /\ DOMAIN disk \in SUBSET Nat /\ \A y \in DOMAIN disk : disk[y] \in File
  BY <1>3, FilesFields DEF Lists
<1>5. Lists(i) /\ \A x \in DOMAIN disk \cap seen : x \in DOMAIN i
  <2>1. DOMAIN i \in SUBSET Nat /\ i \in [DOMAIN i -> File]
    BY <1>4
  <2>2. /\ DOMAIN i \subseteq DOMAIN history.saved
        /\ \A x \in DOMAIN i : i[x] = history.saved[x]
    BY <1>3 DEF Lists
  <2>3. \A x \in DOMAIN disk \cap seen : x \in DOMAIN i
    OBVIOUS
  <2> HIDE DEF i
  <2>4. i \in Files
    BY <2>1 DEF Files
  <2> QED BY <2>2, <2>3, <2>4 DEF Lists
<1> HIDE DEF i
<1>6. /\ s \in Store /\ s.writing = store[n].writing /\ s.index = i
      /\ s.forgotten = store[n].forgotten
  BY <1>3, <1>5, StoreFields DEF Store, Lists
<1> HIDE DEF s
<1>7. /\ store' \in [Node -> Store'] /\ store'[n] = s
      /\ \A m \in Node \ {n} : store'[m] = store[m]
  BY <1>1, <1>2, <1>6, StoreStep
<1>8. f \in Call /\ f.at = "synced"
  BY <1>3 DEF Call
<1> HIDE DEF f
<1>9. forget' \in [Node -> Call] /\ forget'[n] = f /\ \A m \in Node \ {n} : forget'[m] = forget[m]
  BY <1>2, <1>3, <1>8
<1>10. OnlyGo
  <2>1. \A m \in Node : Lists(store[m].index)
    BY <1>1, StoreFields DEF NamesInv, TypeOK, Lists
  <2> QED BY <1>2, <1>5, <1>6, <1>7, <2>1 DEF OnlyGo
<1>11. NamesInv' /\ DoomedInv'
  BY <1>1, <1>10, OnlyGoKeeps
<1>12. LateInv'
  <2>1. ASSUME NEW y \in DOMAIN disk, disk[y].late PROVE GoesSoon(disk[y].by, y)'
    <3>1. disk[y].by \in Node /\ GoesSoon(disk[y].by, y)
      BY <1>1, <2>1, DiskFields DEF LateInv
    <3>2. CASE disk[y].by = n
      BY <1>2, <1>5, <1>6, <1>7, <1>8, <1>9, <2>1, <3>1, <3>2 DEF GoesSoon
    <3>3. CASE disk[y].by # n
      BY <1>2, <1>7, <1>9, <3>1, <3>3 DEF GoesSoon
    <3> QED BY <3>2, <3>3
  <2> QED BY <1>2, <2>1 DEF LateInv
<1>13. PoolInv'
  BY <1>1, <1>2, PoolsStay
<1>14. TypeOK'
  BY <1>1, <1>2, <1>7, <1>9, KeptTypes, NewTypes
<1> QED BY <1>11, <1>12, <1>13, <1>14 DEF CachesInv

LEMMA MarkOf ==
  ASSUME CachesInv, NEW n \in Node, Mark(n)
  PROVE  CachesInv'
<1> DEFINE tag == forget[n].tag
           listed == store[n].index
           all == IF tag = None THEN store[n].forgotten ELSE store[n].forgotten \cup {tag}
           names == {x \in DOMAIN listed : tag = None \/ listed[x].tag = tag}
           s == [store[n] EXCEPT !.forgotten = all]
           f == [at |-> "marked", tag |-> tag, names |-> names]
<1>1. TypeOK /\ PoolInv /\ NamesInv /\ DoomedInv /\ LateInv
  BY DEF CachesInv
<1>2. /\ forget[n].at = "synced" /\ store' = [store EXCEPT ![n] = s]
      /\ forget' = [forget EXCEPT ![n] = f] /\ kind' = kind /\ pool' = pool /\ limit' = limit
      /\ disk' = disk /\ reply' = reply /\ history' = history
  BY DEF Mark
<1>3. /\ store[n] \in Store /\ forget \in [Node -> Call] /\ Lists(listed)
      /\ store[n].forgotten \in SUBSET Tag
  BY <1>1, StoreFields DEF TypeOK, NamesInv, Lists
<1>4. tag \in Tag /\ DOMAIN listed \in SUBSET Nat
  BY <1>3, FilesFields DEF Call, Lists
<1>5. all \in SUBSET Tag /\ store[n].forgotten \subseteq all
  BY <1>3, <1>4
<1>6. /\ s \in Store /\ s.writing = store[n].writing /\ s.index = listed /\ s.forgotten = all
  <2> HIDE DEF all
  <2> QED BY <1>3, <1>5, StoreFields DEF Store
<1> HIDE DEF s
<1>7. /\ store' \in [Node -> Store'] /\ store'[n] = s
      /\ \A m \in Node \ {n} : store'[m] = store[m]
  BY <1>1, <1>2, <1>6, StoreStep
<1>8. f \in Call /\ f.at = "marked" /\ f.names = names
  BY <1>4 DEF Call
<1> HIDE DEF f
<1>9. forget' \in [Node -> Call] /\ forget'[n] = f /\ \A m \in Node \ {n} : forget'[m] = forget[m]
  BY <1>2, <1>3, <1>8
<1>10. OnlyGo
  <2>1. \A m \in Node : Lists(store[m].index)
    BY <1>1, StoreFields DEF NamesInv, TypeOK, Lists
  <2> HIDE DEF all
  <2> QED BY <1>2, <1>5, <1>6, <1>7, <2>1 DEF OnlyGo
<1>11. NamesInv' /\ DoomedInv'
  BY <1>1, <1>10, OnlyGoKeeps
<1>12. LateInv'
  <2>1. ASSUME NEW y \in DOMAIN disk, disk[y].late PROVE GoesSoon(disk[y].by, y)'
    <3>1. disk[y].by \in Node /\ GoesSoon(disk[y].by, y) /\ disk[y] = history.saved[y]
      BY <1>1, <2>1, DiskFields DEF LateInv, NamesInv
    <3>2. CASE disk[y].by = n
      <4>1. \/ store[n].writing.at = "placed" /\ store[n].writing.name = y
               /\ disk[y].tag \in store[n].forgotten
            \/ store[n].writing.at = "listed" /\ y \in store[n].writing.doomed
            \/ disk[y].tag \notin store[n].forgotten /\ y \in DOMAIN listed
        BY <1>2, <3>1, <3>2 DEF GoesSoon
      <4>2. CASE disk[y].tag \in store[n].forgotten
        BY <1>2, <1>5, <1>6, <1>7, <3>2, <4>1, <4>2 DEF GoesSoon
      <4>3. CASE disk[y].tag \notin store[n].forgotten /\ disk[y].tag \in all
        <5>1. tag # None /\ tag = disk[y].tag
          BY <4>3
        <5>2. CASE y \in DOMAIN listed
          <6>1. listed[y] = disk[y]
            BY <1>3, <3>1, <5>2 DEF Lists
          <6>2. y \in names
            BY <5>1, <5>2, <6>1
          <6> QED BY <1>2, <1>8, <1>9, <3>2, <6>2 DEF GoesSoon
        <5>3. CASE store[n].writing.at = "listed" /\ y \in store[n].writing.doomed
          BY <1>2, <1>6, <1>7, <3>2, <5>3 DEF GoesSoon
        <5> QED BY <4>1, <4>3, <5>2, <5>3
      <4>4. CASE disk[y].tag \notin all
        <5> HIDE DEF all
        <5> QED BY <1>2, <1>6, <1>7, <1>8, <1>9, <3>2, <4>4 DEF GoesSoon
      <4> QED BY <4>2, <4>3, <4>4
    <3>3. CASE disk[y].by # n
      BY <1>2, <1>7, <1>9, <3>1, <3>3 DEF GoesSoon
    <3> QED BY <3>2, <3>3
  <2> QED BY <1>2, <2>1 DEF LateInv
<1>13. PoolInv'
  BY <1>1, <1>2, PoolsStay
<1>14. TypeOK'
  BY <1>1, <1>2, <1>7, <1>9, KeptTypes, NewTypes
<1> QED BY <1>11, <1>12, <1>13, <1>14 DEF CachesInv

LEMMA RemoveOf ==
  ASSUME CachesInv, NEW n \in Node, Remove(n)
  PROVE  CachesInv'
<1> DEFINE gone == forget[n].names
           i == Except(store[n].index, gone)
           s == [store[n] EXCEPT !.index = i]
<1>1. TypeOK /\ PoolInv /\ NamesInv /\ DoomedInv /\ LateInv
  BY DEF CachesInv
<1>2. /\ forget[n].at = "marked" /\ kind' = kind /\ pool' = pool /\ limit' = limit
      /\ reply' = reply /\ history' = history /\ store' = [store EXCEPT ![n] = s]
      /\ disk' = Except(disk, gone) /\ forget' = [forget EXCEPT ![n] = NoCall]
  BY DEF Remove
<1>3. /\ store[n] \in Store /\ store[n].index \in Files /\ disk \in Files /\ Lists(store[n].index)
      /\ forget \in [Node -> Call]
  BY <1>1, StoreFields DEF TypeOK, NamesInv, Lists
<1>4. gone = forget[n].names
  OBVIOUS
<1> HIDE DEF gone
<1>5. /\ i \in Files /\ DOMAIN i = DOMAIN store[n].index \ gone
      /\ \A y \in DOMAIN i : y \in DOMAIN store[n].index /\ i[y] = store[n].index[y]
  BY <1>3, ExceptOf
<1> HIDE DEF i
<1>6. Lists(i)
  BY <1>3, <1>5 DEF Lists
<1>7. /\ disk' \in Files /\ DOMAIN disk' = DOMAIN disk \ gone
      /\ \A y \in DOMAIN disk' : y \in DOMAIN disk /\ disk'[y] = disk[y]
  <2> DEFINE g == Except(disk, gone)
  <2>1. g \in Files /\ DOMAIN g = DOMAIN disk \ gone /\ \A y \in DOMAIN g : y \in DOMAIN disk /\ g[y] = disk[y]
    BY <1>3, ExceptOf
  <2>2. disk' = g
    BY <1>2
  <2> HIDE DEF g
  <2> QED BY <2>1, <2>2
<1>8. /\ s \in Store /\ s.index = i /\ s.writing = store[n].writing
      /\ s.forgotten = store[n].forgotten
  BY <1>3, <1>5, StoreFields DEF Store
<1> HIDE DEF s
<1>9. /\ store' \in [Node -> Store'] /\ store'[n] = s
      /\ \A m \in Node \ {n} : store'[m] = store[m]
  BY <1>1, <1>2, <1>8, StoreStep
<1>10. NoCall \in Call /\ NoCall.at = "no"
  BY DEF NoCall, Call, Tag
<1>11. /\ forget' \in [Node -> Call] /\ forget'[n] = NoCall
       /\ \A m \in Node \ {n} : forget'[m] = forget[m]
  BY <1>2, <1>3, <1>10
<1>12. OnlyGo
  <2>1. \A m \in Node : Lists(store[m].index)
    BY <1>1, StoreFields DEF NamesInv, TypeOK, Lists
  <2> QED BY <1>2, <1>6, <1>7, <1>8, <1>9, <2>1 DEF OnlyGo
<1>13. NamesInv' /\ DoomedInv'
  BY <1>1, <1>12, OnlyGoKeeps
<1>14. LateInv'
  <2>1. ASSUME NEW y \in DOMAIN disk', disk'[y].late PROVE GoesSoon(disk[y].by, y)'
    <3>1. /\ y \in DOMAIN disk /\ y \notin gone /\ disk'[y] = disk[y] /\ disk[y].by \in Node
          /\ GoesSoon(disk[y].by, y)
      BY <1>1, <1>7, <2>1, DiskFields DEF LateInv
    <3>2. CASE disk[y].by = n
      BY <1>2, <1>4, <1>8, <1>9, <1>10, <1>11, <3>1, <3>2 DEF GoesSoon
    <3>3. CASE disk[y].by # n
      BY <1>9, <1>11, <3>1, <3>3 DEF GoesSoon
    <3> QED BY <3>2, <3>3
  <2> QED BY <1>7, <2>1 DEF LateInv
<1>15. PoolInv'
  BY <1>1, <1>2, PoolsStay
<1>16. TypeOK'
  BY <1>1, <1>2, <1>7, <1>9, <1>11, SameKind, KeptTypes, NewTypes
<1> QED BY <1>13, <1>14, <1>15, <1>16 DEF CachesInv

LEMMA RestartOf ==
  ASSUME CachesInv, NEW n \in Node, Restart(n)
  PROVE  CachesInv'
<1> DEFINE over == OverBudget(disk)
           i == Except(disk, over)
           s1 == [IdleStore EXCEPT !.index = i]
           s == [s1 EXCEPT !.enabled = store[n].enabled]
           ended == [NewReply EXCEPT !.at = "done"]
<1>1. TypeOK /\ PoolInv /\ NamesInv /\ DoomedInv /\ LateInv
  BY DEF CachesInv
<1>2. /\ Admin /\ kind' = kind /\ limit' = limit
      /\ pool' = [pool EXCEPT ![n] = <<>>] /\ disk' = i
      /\ store' = [store EXCEPT ![n] = s] /\ forget' = [forget EXCEPT ![n] = NoCall]
      /\ reply' = [o \in Reply |-> IF o \in RunningOn(n) THEN ended ELSE reply[o]]
  BY DEF Restart
<1>3. /\ store[n] \in Store /\ disk \in Files /\ Lists(disk) /\ forget \in [Node -> Call]
      /\ pool \in [Node -> Seq(Slot)] /\ reply \in [Reply -> Answer]
  BY <1>1 DEF TypeOK, NamesInv, Lists
<1> HIDE DEF over
<1>4. /\ i \in Files /\ DOMAIN i = DOMAIN disk \ over
      /\ \A y \in DOMAIN i : y \in DOMAIN disk /\ i[y] = disk[y]
  BY <1>3, ExceptOf
<1> HIDE DEF i
<1>5. Lists(i)
  BY <1>3, <1>4 DEF Lists
<1>6. IdleStore \in Store /\ IdleStore.writing = NotWriting /\ IdleStore.forgotten = {}
  <2>1. <<>> \in Seq(Slot)
    BY EmptySeq
  <2>2. <<>> \in [{} -> File]
    OBVIOUS
  <2>3. <<>> \in Files
    BY <2>2 DEF Files
  <2> QED BY <2>1, <2>3 DEF IdleStore, Store, Writing
<1>7. s1 \in Store /\ s1.index = i /\ s1.writing = NotWriting /\ s1.forgotten = {}
  BY <1>4, <1>6, StoreFields DEF Store
<1> HIDE DEF s1
<1>8. s \in Store /\ s.index = i /\ s.writing = NotWriting /\ s.forgotten = {}
  BY <1>3, <1>7, StoreFields DEF Store
<1> HIDE DEF s
<1>9. /\ store' \in [Node -> Store'] /\ store'[n] = s
      /\ \A m \in Node \ {n} : store'[m] = store[m]
  BY <1>1, <1>2, <1>8, StoreStep
<1>10. NoCall \in Call /\ NoCall.at = "no"
  BY DEF NoCall, Call, Tag
<1>11. /\ forget' \in [Node -> Call] /\ forget'[n] = NoCall
       /\ \A m \in Node \ {n} : forget'[m] = forget[m]
  BY <1>2, <1>3, <1>10
<1>12. /\ history'.saved = history.saved /\ history'.claims = history.claims
       /\ history' \in [saved : Seq(File), claims : SUBSET (Nat \X Node), admin : Nat]
  BY <1>1, <1>2, HistoryFields
<1>13. OnlyGo
  <2>1. \A m \in Node : Lists(store[m].index)
    BY <1>1, StoreFields DEF NamesInv, TypeOK, Lists
  <2> QED BY <1>2, <1>4, <1>5, <1>8, <1>9, <1>12, <2>1 DEF OnlyGo
<1>14. NamesInv' /\ DoomedInv'
  BY <1>1, <1>13, OnlyGoKeeps
<1>15. LateInv'
  <2>1. ASSUME NEW y \in DOMAIN disk', disk'[y].late PROVE GoesSoon(disk[y].by, y)'
    <3>1. /\ y \in DOMAIN disk /\ disk'[y] = disk[y] /\ disk[y].by \in Node
          /\ GoesSoon(disk[y].by, y)
      BY <1>1, <1>2, <1>4, <2>1, DiskFields DEF LateInv
    <3>2. CASE disk[y].by = n
      BY <1>8, <1>9, <1>10, <1>11, <3>1, <3>2 DEF GoesSoon
    <3>3. CASE disk[y].by # n
      BY <1>9, <1>11, <3>1, <3>3 DEF GoesSoon
    <3> QED BY <3>2, <3>3
  <2> QED BY <1>2, <1>4, <2>1 DEF LateInv
<1>16. /\ pool' \in [Node -> Seq(Slot')] /\ pool'[n] = <<>>
       /\ \A m \in Node \ {n} : pool'[m] = pool[m]
  BY <1>2, <1>3, EmptySeq, SameKind
<1>17. ended \in Answer /\ ended.at = "done" /\ ReplyOK(ended)
  BY EndedType
<1> HIDE DEF ended
<1>18. /\ reply' \in [Reply -> Answer]
       /\ \A o \in Reply : reply'[o] = ended \/ (o \notin RunningOn(n) /\ reply'[o] = reply[o])
  BY <1>2, <1>3, <1>17
<1>19. PoolInv'
  <2>1. \A m \in Node : OneIdPerSlot(pool'[m])
    BY <1>1, <1>16 DEF PoolInv, OneIdPerSlot
  <2>2. \A o \in Reply : ReplyOK(reply'[o])
    BY <1>1, <1>17, <1>18 DEF PoolInv
  <2>3. ASSUME NEW o \in Reply, Running(reply'[o])
        PROVE  reply'[o] = reply[o] /\ reply[o].node \in Node \ {n}
    <3>1. o \notin RunningOn(n) /\ reply'[o] = reply[o]
      BY <1>17, <1>18, <2>3 DEF Running
    <3>2. reply[o].at \notin {"new", "done"}
      BY <2>3, <3>1 DEF Running
    <3>3. reply[o].node \in Node
      BY <1>1, <3>2 DEF PoolInv, ReplyOK
    <3> QED BY <3>1, <3>2, <3>3 DEF RunningOn
  <2>4. ASSUME NEW o \in Reply, Running(reply'[o])
        PROVE  Serves(pool[reply[o].node], reply[o])'
    <3>1. Serves(pool[reply[o].node], reply[o])
      BY <1>1, <2>3, <2>4 DEF PoolInv
    <3>2. Serves(pool'[reply'[o].node], reply'[o])
      BY <1>16, <2>3, <2>4, <3>1
    <3> QED BY <1>2, <3>2, SameServes
  <2>5. \A o, u \in Reply : Running(reply'[o]) /\ Running(reply'[u]) /\ o # u =>
          reply'[o].node # reply'[u].node \/ reply'[o].id # reply'[u].id
    BY <1>1, <2>3 DEF PoolInv
  <2>6. ASSUME NEW m \in Node, NEW x \in Busy(pool'[m])
        PROVE  \E o \in Reply : Running(reply'[o]) /\ reply'[o].node = m /\ reply'[o].id = x
    <3>1. m # n
      BY <1>16, <2>6 DEF Busy
    <3>2. x \in Busy(pool[m])
      BY <1>16, <2>6, <3>1
    <3>3. PICK o \in Reply : Running(reply[o]) /\ reply[o].node = m /\ reply[o].id = x
      BY <1>1, <3>2 DEF PoolInv
    <3>4. reply'[o] = reply[o]
      BY <1>2, <3>1, <3>3 DEF RunningOn
    <3> QED BY <3>3, <3>4
  <2> QED BY <2>1, <2>2, <2>4, <2>5, <2>6 DEF PoolInv
<1>20. TypeOK'
  BY <1>1, <1>2, <1>4, <1>9, <1>11, <1>12, <1>16, <1>18, SameKind, KeptTypes, NewTypes
<1> QED BY <1>14, <1>15, <1>19, <1>20 DEF CachesInv

-----------------------------------------------------------------------------
(* The invariant *)

LEMMA SavedOf ==
  ASSUME NEW n \in Node, NEW q \in Request
  PROVE  LET f == SavedFile(n, q) IN f \in File /\ f.by = n /\ ~f.late
<1> DEFINE l == Len(q.ids)
           D == IF Hybrid THEN {l} ELSE {}
           snaps == IF Hybrid THEN [p \in {l} |-> q.ids] ELSE <<>>
           f == [tokens |-> q.ids, kv |-> q.ids, clean |-> l, snaps |-> snaps, plen |-> l,
                 tag |-> q.tag, by |-> n, late |-> FALSE]
<1>1. q.ids \in Seq(Nat) /\ l \in Nat /\ q.tag \in Tag
  BY CachesAssumption, LenProperties DEF Tag, Tags
<1>2. q.ids \in Seq(Cell) /\ First(q.ids, l) = q.ids
  BY <1>1, FirstOfAll DEF Cell
<1>3. D \in SUBSET Nat /\ snaps \in [D -> Seq(Cell)]
  BY <1>1, <1>2
<1>4. (\A p \in D : p <= Len(q.ids) /\ snaps[p] = First(q.ids, p)) /\ (~Hybrid => D = {})
  BY <1>1, <1>2
<1> HIDE DEF D, snaps
<1>5. f \in File
  <2>1. CleanOK(l, q.ids)
    BY DEF CleanOK
  <2> QED BY <1>1, <1>3, <1>4, <2>1, FileIs
<1>6. SavedFile(n, q) = f /\ f.by = n /\ ~f.late
  BY DEF SavedFile, snaps
<1> QED BY <1>5, <1>6

LEMMA InitOf ==
  ASSUME Init
  PROVE  CachesInv
<1> DEFINE s == [IdleStore EXCEPT !.index = disk]
<1>1. /\ kind \in Kinds /\ pool = [n \in Node |-> <<>>] /\ limit \in [Node -> MaxSlots]
      /\ disk \in {<<>>} \cup {<<SavedFile(Cleaner, q)>> : q \in Saved}
      /\ store = [n \in Node |-> s] /\ forget = [n \in Node |-> NoCall]
      /\ reply = [r \in Reply |-> NewReply]
      /\ history = [saved |-> disk, claims |-> {}, admin |-> 0]
  BY DEF Init
<1>2. disk \in Seq(File) /\ \A x \in DOMAIN disk : disk[x] \in File /\ ~disk[x].late
  <2>1. CASE disk = <<>>
    BY <2>1, EmptySeq
  <2>2. ASSUME NEW q \in Saved, disk = <<SavedFile(Cleaner, q)>>
        PROVE  disk \in Seq(File) /\ \A x \in DOMAIN disk : disk[x] \in File /\ ~disk[x].late
    <3> DEFINE f == SavedFile(Cleaner, q)
    <3>1. q \in Request /\ Cleaner \in Node
      BY CachesAssumption
    <3>2. f \in File /\ ~f.late
      BY <3>1, SavedOf
    <3>3. disk = <<f>>
      BY <2>2
    <3> HIDE DEF f
    <3> QED BY <3>2, <3>3
  <2> QED BY <1>1, <2>1, <2>2
<1>3. disk \in Files
  <2>1. disk \in [1..Len(disk) -> File] /\ 1..Len(disk) \in SUBSET Nat
    BY <1>2, LenProperties
  <2> QED BY <2>1 DEF Files
<1>4. s \in Store /\ s.writing = NotWriting /\ s.index = disk
  <2>1. <<>> \in Seq(Slot)
    BY EmptySeq
  <2>2. <<>> \in [{} -> File]
    OBVIOUS
  <2>3. <<>> \in Files
    BY <2>2 DEF Files
  <2>4. IdleStore \in Store /\ IdleStore.writing = NotWriting
    BY <2>1, <2>3 DEF IdleStore, Store, Writing
  <2> QED BY <1>3, <2>4, StoreFields DEF Store
<1> HIDE DEF s
<1>5. NoCall \in Call /\ NewReply \in Answer /\ ReplyOK(NewReply) /\ NewReply.at = "new"
  BY EndedType DEF NoCall, Call, Tag, ReplyOK, NewReply
<1>6. TypeOK
  <2>1. pool \in [Node -> Seq(Slot)] /\ store \in [Node -> Store] /\ forget \in [Node -> Call]
    BY <1>1, <1>4, <1>5, EmptySeq
  <2>2. reply \in [Reply -> Answer]
    BY <1>1, <1>5
  <2>3. history \in [saved : Seq(File), claims : SUBSET (Nat \X Node), admin : Nat]
    BY <1>1, <1>2
  <2> QED BY <1>1, <1>3, <2>1, <2>2, <2>3 DEF TypeOK
<1>7. PoolInv
  BY <1>1, <1>5 DEF PoolInv, OneIdPerSlot, Running, Busy
<1>8. NamesInv /\ DoomedInv
  BY <1>1, <1>4 DEF NamesInv, DoomedInv, NotWriting
<1>9. LateInv
  BY <1>2 DEF LateInv
<1> QED BY <1>6, <1>7, <1>8, <1>9 DEF CachesInv

LEMMA StepOf ==
  ASSUME CachesInv, [Next]_vars
  PROVE  CachesInv'
<1>1. ASSUME NEW r \in Reply, NEW n \in Node, NEW q \in Request, Acquire(r, n, q)
      PROVE  CachesInv'
  BY <1>1, AcquireOf
<1>2. ASSUME NEW r \in Reply, Claim(r) PROVE CachesInv'
  BY <1>2, ClaimOf
<1>3. ASSUME NEW r \in Reply, Take(r) PROVE CachesInv'
  BY <1>3, TakeOf
<1>4. ASSUME NEW r \in Reply, Prefill(r) PROVE CachesInv'
  BY <1>4, PrefillOf
<1>5. ASSUME NEW r \in Reply, Finish(r) PROVE CachesInv'
  BY <1>5, FinishOf
<1>6. ASSUME NEW r \in Reply, Stop(r) PROVE CachesInv'
  BY <1>6, StopOf
<1>7. ASSUME NEW r \in Reply, NEW t \in Token, Decode1(r, t) PROVE CachesInv'
  BY <1>7, Decode1Of
<1>8. ASSUME NEW n \in Node, EncodeNext(n) PROVE CachesInv'
  BY <1>8, EncodeNextOf
<1>9. ASSUME NEW n \in Node, Place(n) PROVE CachesInv'
  BY <1>9, PlaceOf
<1>10. ASSUME NEW n \in Node, List(n) PROVE CachesInv'
  BY <1>10, ListOf
<1>11. ASSUME NEW n \in Node, CleanUp(n) PROVE CachesInv'
  BY <1>11, CleanUpOf
<1>12. ASSUME NEW n \in Node, Clear(n) \/ Disable(n) \/ \E t \in Tags : Forget(n, t)
       PROVE  CachesInv'
  <2>1. None \in Tag /\ Tags \subseteq Tag /\ store[n].enabled \in BOOLEAN /\ FALSE \in BOOLEAN
    BY StoreFields DEF CachesInv, TypeOK, Tag
  <2>2. PICK tag \in Tag, on \in BOOLEAN : ReadDirectory(n, tag, on)
    BY <1>12, <2>1 DEF Clear, Disable, Forget
  <2> QED BY <2>2, ReadDirectoryOf
<1>13. ASSUME NEW n \in Node, Sync(n) PROVE CachesInv'
  BY <1>13, SyncOf
<1>14. ASSUME NEW n \in Node, Mark(n) PROVE CachesInv'
  BY <1>14, MarkOf
<1>15. ASSUME NEW n \in Node, Remove(n) PROVE CachesInv'
  BY <1>15, RemoveOf
<1>16. ASSUME NEW n \in Node, Unload(n) PROVE CachesInv'
  BY <1>16, UnloadOf
<1>17. ASSUME NEW n \in Node, Restart(n) PROVE CachesInv'
  BY <1>17, RestartOf
<1>18. ASSUME NEW n \in Node, NEW t \in Tags, SpillChat(n, t) PROVE CachesInv'
  BY <1>18, SpillChatOf
<1>19. ASSUME NEW n \in Node, NEW max \in MaxSlots, SetLimits(n, max) PROVE CachesInv'
  BY <1>19, SetLimitsOf
<1>20. CASE UNCHANGED vars
  <2>1. /\ kind' = kind /\ pool' = pool /\ limit' = limit /\ store' = store /\ forget' = forget
        /\ disk' = disk /\ reply' = reply /\ history' = history
    BY <1>20 DEF vars
  <2>2. TypeOK /\ PoolInv /\ NamesInv /\ DoomedInv /\ LateInv
    BY DEF CachesInv
  <2>3. PoolInv'
    BY <2>1, <2>2, PoolsStay
  <2>4. NamesInv' /\ DoomedInv' /\ LateInv'
    BY <2>1, <2>2, FilesStay
  <2>5. TypeOK'
    BY <2>1, <2>2, KeptTypes, NewTypes, SameKind DEF TypeOK
  <2> QED BY <2>3, <2>4, <2>5 DEF CachesInv
<1> QED BY <1>1, <1>2, <1>3, <1>4, <1>5, <1>6, <1>7, <1>8, <1>9, <1>10, <1>11, <1>12, <1>13,
            <1>14, <1>15, <1>16, <1>17, <1>18, <1>19, <1>20 DEF Next

(* The caches' inductive invariant holds in every reachable state: what    *)
(* the code trusts (a slot's token_ids, a busy slot's owner, a file's name *)
(* and header) is so, however replies, writers, forgets and ends of a      *)
(* process interleave.                                                     *)
THEOREM CachesInvariant == Spec => []CachesInv
<1>1. Init => CachesInv
  BY InitOf
<1>2. CachesInv /\ [Next]_vars => CachesInv'
  BY StepOf
<1> QED BY <1>1, <1>2, PTL DEF Spec

(* The tokens and snapshot positions a slot or a file tells are those of   *)
(* what it holds, in every pool, every queue of spills and the directory.  *)
THEOREM SlotsTellTheirContentHolds == Spec => []SlotsTellTheirContent
<1>1. ASSUME CachesInv PROVE SlotsTellTheirContent
  <2>1. TypeOK
    BY <1>1 DEF CachesInv
  <2>2. \A n \in Node : pool[n] \in Seq(Slot) /\ store[n].queue \in Seq(Slot)
    BY <2>1, StoreFields DEF TypeOK
  <2>3. \A n \in Node : /\ \A i \in DOMAIN pool[n] : pool[n][i] \in Slot
                        /\ \A i \in DOMAIN store[n].queue : store[n].queue[i] \in Slot
    BY <2>2
  <2>4. \A x \in DOMAIN disk : disk[x] \in File
    BY <2>1, DiskFields
  <2> QED BY <2>3, <2>4 DEF SlotsTellTheirContent, Slot, File, Honest
<1> QED BY <1>1, CachesInvariant, PTL

(* A running reply continues from keys and values of its own prompt and    *)
(* tokens, whatever its slot went through before: exactly those that       *)
(* reading them from scratch would have left, up to the first cut of a     *)
(* trimmed chat that it reuses.                                            *)
THEOREM ReuseIsOwnTextHolds == Spec => []ReuseIsOwnText
<1>1. ASSUME CachesInv, NEW r \in Reply, InUse(r)
      PROVE  LET s == SlotOf(r)
                 text == reply[r].ask.ids \o reply[r].made
             IN /\ s.kv = First(text, Len(s.kv)) /\ s.tokens = s.kv
                /\ Hybrid => s.state = s.kv
                /\ reply[r].at = "decode" => s.kv = text
                /\ \/ s.clean = Len(s.kv)
                   \/ kind = "plain" /\ 0 < s.clean /\ s.clean < reply[r].from
  <2> DEFINE s == SlotOf(r)
  <2>1. TypeOK /\ PoolInv /\ Running(reply[r])
    BY <1>1 DEF CachesInv, InUse, Running
  <2>2. s \in Slot /\ ReadSoFar(reply[r], s)
    BY <2>1, MineOf DEF SlotOf
  <2>3. s.tokens = s.kv /\ (Exact(s) \/ Shifted(s))
    BY <2>2, SlotFields
  <2> HIDE DEF s
  <2>4. /\ s.kv = First(reply[r].ask.ids \o reply[r].made, Len(s.kv)) /\ (Hybrid => s.state = s.kv)
        /\ reply[r].at = "decode" => s.kv = reply[r].ask.ids \o reply[r].made
        /\ \/ s.clean = Len(s.kv)
           \/ kind = "plain" /\ 0 < s.clean /\ s.clean < reply[r].from
    BY <2>2, <2>3 DEF ReadSoFar, Exact, Shifted
  <2> QED BY <2>3, <2>4 DEF s
<1>2. CachesInv => ReuseIsOwnText
  BY <1>1 DEF ReuseIsOwnText
<1> QED BY <1>2, CachesInvariant, PTL

(* A spill that a forget of its chat overtook is still being written or    *)
(* removed, or it is gone.                                                 *)
THEOREM OvertakenSpillsGoHolds == Spec => []OvertakenSpillsGo
<1>1. ASSUME CachesInv PROVE OvertakenSpillsGo
  <2>1. LateInv
    BY <1>1 DEF CachesInv
  <2> QED BY <2>1 DEF LateInv, GoesSoon, OvertakenSpillsGo, NotWriting
<1> QED BY <1>1, CachesInvariant, PTL

(* What a step adds to the claims: at most one, of a file that is there.   *)
LEMMA ClaimsGrow ==
  ASSUME CachesInv, [Next]_vars
  PROVE  \/ history'.claims = history.claims
         \/ \E x \in DOMAIN disk, n \in Node : history'.claims = history.claims \cup {<<x, n>>}
<1>1. TypeOK /\ PoolInv /\ history \in [saved : Seq(File), claims : SUBSET (Nat \X Node), admin : Nat]
  BY DEF CachesInv, TypeOK
<1>2. Admin => history'.claims = history.claims
  BY <1>1, HistoryFields
<1>3. ASSUME NEW r \in Reply, Claim(r)
      PROVE  \/ history'.claims = history.claims
             \/ \E x \in DOMAIN disk, n \in Node : history'.claims = history.claims \cup {<<x, n>>}
  <2> DEFINE n == reply[r].node
  <2>1. reply[r].at = "acquiring"
    BY <1>3 DEF Claim
  <2>2. n \in Node
    BY <1>1, <2>1, ReplyFields
  <2>3. \/ history' = history
        \/ \E x \in DOMAIN disk : history' = [history EXCEPT !.claims = @ \cup {<<x, n>>}]
    BY <1>1, <1>3, <2>2, ClaimCases
  <2>4. ASSUME NEW x, history' = [history EXCEPT !.claims = @ \cup {<<x, n>>}]
        PROVE  history'.claims = history.claims \cup {<<x, n>>}
    <3> DEFINE claims == history.claims \cup {<<x, n>>}
    <3>1. history' = [history EXCEPT !.claims = claims]
      BY <2>4
    <3> HIDE DEF claims
    <3>2. history'.claims = claims
      BY <1>1, <3>1
    <3> QED BY <3>2 DEF claims
  <2> HIDE DEF n
  <2> QED BY <2>2, <2>3, <2>4
<1>4. ASSUME NEW r \in Reply,
             \/ \E n \in Node, q \in Request : Acquire(r, n, q)
             \/ Take(r) \/ Prefill(r) \/ Finish(r) \/ Stop(r)
             \/ \E t \in Token : Decode1(r, t)
      PROVE  history'.claims = history.claims
  BY <1>2, <1>4 DEF Acquire, Take, Prefill, Finish, Stop, Decode1
<1>5. ASSUME NEW n \in Node, Place(n)
      PROVE  history'.claims = history.claims
  <2>1. PICK file : history' = [history EXCEPT !.saved = Append(history.saved, file)]
    BY <1>5 DEF Place
  <2> DEFINE saved == Append(history.saved, file)
  <2>2. history' = [history EXCEPT !.saved = saved]
    BY <2>1
  <2> HIDE DEF saved
  <2> QED BY <1>1, <2>2
<1>6. ASSUME NEW n \in Node,
             \/ EncodeNext(n) \/ List(n) \/ CleanUp(n)
             \/ Clear(n) \/ Disable(n) \/ Sync(n) \/ Mark(n) \/ Remove(n)
             \/ Unload(n) \/ Restart(n)
             \/ \E t \in Tags : Forget(n, t) \/ SpillChat(n, t)
             \/ \E max \in MaxSlots : SetLimits(n, max)
      PROVE  history'.claims = history.claims
  BY <1>2, <1>6 DEF EncodeNext, List, CleanUp, Clear, Disable, Forget, ReadDirectory, Sync, Mark,
                   Remove, Unload, Restart, SpillChat, SetLimits
<1>7. CASE UNCHANGED vars
  BY <1>7 DEF vars
<1> QED BY <1>3, <1>4, <1>5, <1>6, <1>7 DEF Next

(* A saved conversation is restored by one node only: the claim renames a  *)
(* file that is there, and a claimed name is never in the directory again. *)
THEOREM OneNodeRestoresHolds == Spec => []OneNodeRestores
<1> DEFINE Inv == CachesInv /\ OneNodeRestores
<1>1. Init => Inv
  <2>1. Init => history.claims = {}
    BY DEF Init
  <2> QED BY <2>1, InitOf DEF OneNodeRestores
<1>2. Inv /\ [Next]_vars => Inv'
  <2> SUFFICES ASSUME CachesInv, OneNodeRestores, [Next]_vars
               PROVE  OneNodeRestores'
    BY StepOf
  <2>1. \A c \in history.claims : c[1] \notin DOMAIN disk
    BY DEF CachesInv, NamesInv
  <2>2. CASE history'.claims = history.claims
    BY <2>2 DEF OneNodeRestores
  <2>3. CASE \E x \in DOMAIN disk, n \in Node : history'.claims = history.claims \cup {<<x, n>>}
    <3>1. PICK x \in DOMAIN disk, n \in Node : history'.claims = history.claims \cup {<<x, n>>}
      BY <2>3
    <3> QED BY <2>1, <3>1 DEF OneNodeRestores
  <2> QED BY <2>2, <2>3, ClaimsGrow
<1>3. Inv => OneNodeRestores
  OBVIOUS
<1> QED BY <1>1, <1>2, <1>3, PTL DEF Spec

(* Why a file x may go in a step.                                          *)
MayGo(x) ==
  \/ \E n \in Node : forget[n].at = "marked" /\ x \in forget[n].names
  \/ history'.claims # history.claims
  \/ x \in OverBudget(disk) \cup OverBudget(store[Cleaner].index)
  \/ \E n \in Node : disk[x].tag \in store[n].forgotten
  \/ \E y \in DOMAIN history.saved :
       /\ y # x /\ history.saved[y].tag = disk[x].tag
       /\ Common(disk[x].tokens, history.saved[y].tokens) >= Blocks(disk[x].tokens) * Block

(* The budget counts the listed files: more files are over it, not fewer,  *)
(* before the doomed ones have been taken out.                             *)
LEMMA OverBudgetGrows ==
  ASSUME NEW f \in Files, NEW gone, IsFiniteSet(DOMAIN f), DiskBudget \in Nat
  PROVE  OverBudget(Except(f, gone)) \subseteq OverBudget(f)
<1> DEFINE g == Except(f, gone)
<1>1. DOMAIN g = DOMAIN f \ gone
  BY DEF Except
<1> HIDE DEF g
<1>2. ASSUME NEW x \in OverBudget(g) PROVE x \in OverBudget(f)
  <2> DEFINE few == {y \in DOMAIN g : y > x}
             many == {y \in DOMAIN f : y > x}
  <2>1. x \in DOMAIN f /\ few \subseteq many /\ many \subseteq DOMAIN f /\ Cardinality(few) >= DiskBudget
    BY <1>1, <1>2 DEF OverBudget
  <2> HIDE DEF few
  <2>2. IsFiniteSet(many) /\ IsFiniteSet(few)
    <3> HIDE DEF many
    <3> QED BY <2>1, FS_Subset
  <2>3. Cardinality(few) <= Cardinality(many) /\ Cardinality(few) \in Nat /\ Cardinality(many) \in Nat
    <3> HIDE DEF many
    <3> QED BY <2>1, <2>2, FS_Subset, FS_CardinalityType
  <2>4. Cardinality(many) >= DiskBudget
    <3> HIDE DEF many
    <3> QED BY <2>1, <2>3
  <2> QED BY <2>1, <2>4 DEF OverBudget
<1> QED BY <1>2 DEF g

LEMMA StepMayGo ==
  ASSUME CachesInv, [Next]_vars, NEW x \in DOMAIN disk, x \notin DOMAIN disk'
  PROVE  MayGo(x)
<1>1. TypeOK /\ NamesInv /\ DoomedInv /\ PoolInv
  BY DEF CachesInv
<1>2. disk' # disk
  OBVIOUS
<1>3. ASSUME NEW r \in Reply, Claim(r) PROVE MayGo(x)
  <2> DEFINE n == reply[r].node
  <2>1. reply[r].at = "acquiring"
    BY <1>3 DEF Claim
  <2>2. n \in Node
    BY <1>1, <2>1, ReplyFields
  <2>3. PICK y \in DOMAIN disk : history' = [history EXCEPT !.claims = @ \cup {<<y, n>>}]
    BY <1>1, <1>2, <1>3, <2>2, ClaimCases
  <2> DEFINE claims == history.claims \cup {<<y, n>>}
  <2>4. history' = [history EXCEPT !.claims = claims] /\ <<y, n>> \in claims
    BY <2>3
  <2>5. history \in [saved : Seq(File), claims : SUBSET (Nat \X Node), admin : Nat]
    BY <1>1 DEF TypeOK
  <2> HIDE DEF claims
  <2>6. history'.claims = claims
    BY <2>4, <2>5
  <2>7. <<y, n>> \notin history.claims
    BY <1>1, <2>3 DEF NamesInv
  <2>8. history'.claims # history.claims
    BY <2>4, <2>6, <2>7
  <2> QED BY <2>8 DEF MayGo
<1>4. ASSUME NEW n \in Node, CleanUp(n) PROVE MayGo(x)
  <2> DEFINE w == store[n].writing
             left == Except(store[n].index, w.doomed)
             over == IF n = Cleaner THEN OverBudget(left) ELSE {}
  <2>1. w.at = "listed" /\ disk' = Except(disk, w.doomed \cup over)
    BY <1>4 DEF CleanUp
  <2>2. x \in w.doomed \/ x \in over
    <3> DEFINE gone == w.doomed \cup over
    <3>1. DOMAIN disk' = DOMAIN disk \ gone
      BY <2>1 DEF Except
    <3> QED BY <3>1
  <2>3. disk[x] = history.saved[x] /\ x \in DOMAIN history.saved
    BY <1>1 DEF NamesInv
  <2>4. CASE x \in w.doomed
    <3>1. \/ history.saved[x].tag \in store[n].forgotten
          \/ \E y \in DOMAIN history.saved \ {x} : CoveredBy(history.saved[x], history.saved[y])
      BY <1>1, <2>1, <2>4 DEF DoomedInv
    <3> QED BY <2>3, <3>1 DEF MayGo, CoveredBy
  <2>5. CASE x \in over
    <3> DEFINE index == store[n].index
               gone == w.doomed
    <3>1. n = Cleaner /\ x \in OverBudget(Except(index, gone))
      BY <2>5
    <3>2. index \in Files /\ DOMAIN index \subseteq DOMAIN history.saved
      BY <1>1, StoreFields DEF TypeOK, NamesInv
    <3>3. IsFiniteSet(DOMAIN index)
      <4>1. IsFiniteSet(DOMAIN history.saved)
        BY <1>1, HistoryFields, FS_Interval
      <4> HIDE DEF index
      <4> QED BY <3>2, <4>1, FS_Subset
    <3> HIDE DEF index, gone
    <3>4. x \in OverBudget(index)
      BY <3>1, <3>2, <3>3, OverBudgetGrows, CachesAssumption
    <3> QED BY <3>1, <3>4 DEF MayGo, index
  <2> QED BY <2>2, <2>4, <2>5
<1>5. ASSUME NEW n \in Node, Remove(n) PROVE MayGo(x)
  <2>1. forget[n].at = "marked" /\ DOMAIN disk' = DOMAIN disk \ forget[n].names
    BY <1>5 DEF Remove, Except
  <2> QED BY <2>1 DEF MayGo
<1>6. ASSUME NEW n \in Node, Restart(n) PROVE MayGo(x)
  <2>1. DOMAIN disk' = DOMAIN disk \ OverBudget(disk)
    BY <1>6 DEF Restart, Except
  <2> QED BY <2>1 DEF MayGo
<1>7. ASSUME NEW n \in Node, Place(n) PROVE FALSE
  <2>1. PICK f, y : disk' = [z \in DOMAIN disk \cup {y} |-> IF z = y THEN f ELSE disk[z]]
    BY <1>7 DEF Place
  <2> QED BY <2>1
<1>8. ASSUME NEW r \in Reply,
             \/ \E n \in Node, q \in Request : Acquire(r, n, q)
             \/ Take(r) \/ Prefill(r) \/ Finish(r) \/ Stop(r)
             \/ \E t \in Token : Decode1(r, t)
      PROVE  FALSE
  BY <1>2, <1>8 DEF Acquire, Take, Prefill, Finish, Stop, Decode1
<1>9. ASSUME NEW n \in Node,
             \/ EncodeNext(n) \/ List(n)
             \/ Clear(n) \/ Disable(n) \/ Sync(n) \/ Mark(n)
             \/ Unload(n)
             \/ \E t \in Tags : Forget(n, t) \/ SpillChat(n, t)
             \/ \E max \in MaxSlots : SetLimits(n, max)
      PROVE  FALSE
  BY <1>2, <1>9 DEF EncodeNext, List, Clear, Disable, Forget, ReadDirectory, Sync, Mark, Unload,
                   SpillChat, SetLimits
<1>10. CASE UNCHANGED vars
  BY <1>2, <1>10 DEF vars
<1> QED BY <1>3, <1>4, <1>5, <1>6, <1>7, <1>8, <1>9, <1>10 DEF Next

(* A saved conversation leaves the directory only when it is restored or   *)
(* forgotten, when the limits drop it, or when a file written later holds  *)
(* all of its whole blocks.                                                *)
THEOREM BranchesAreKeptHolds == Spec => BranchesAreKept
<1>1. CachesInv /\ [Next]_vars => [\A x \in DOMAIN disk \ DOMAIN disk' : MayGo(x)]_vars
  BY StepMayGo
<1>2. CachesInv /\ [Next]_vars =>
        [\A x \in DOMAIN disk \ DOMAIN disk' :
           \/ \E n \in Node : forget[n].at = "marked" /\ x \in forget[n].names
           \/ history'.claims # history.claims
           \/ x \in OverBudget(disk) \cup OverBudget(store[Cleaner].index)
           \/ \E n \in Node : disk[x].tag \in store[n].forgotten
           \/ \E y \in DOMAIN history.saved :
                /\ y # x /\ history.saved[y].tag = disk[x].tag
                /\ Common(disk[x].tokens, history.saved[y].tokens)
                     >= Blocks(disk[x].tokens) * Block]_vars
  BY <1>1 DEF MayGo
<1> QED BY <1>2, CachesInvariant, PTL DEF Spec, BranchesAreKept

-----------------------------------------------------------------------------
(* The limits of a pool: what leaves it only makes it lighter, and evicting *)
(* from a pool nobody uses makes it fit.                                    *)

LEMMA SizeOf ==
  ASSUME NEW s \in Slot
  PROVE  Size(s) \in Nat
<1>1. /\ s.ctx \in Nat /\ DOMAIN s.snaps \in SUBSET Nat /\ Len(s.tokens) \in Nat
      /\ \A p \in DOMAIN s.snaps : p <= Len(s.tokens)
  BY SlotFields
<1>2. DOMAIN s.snaps \subseteq 0..Len(s.tokens)
  BY <1>1
<1>3. IsFiniteSet(DOMAIN s.snaps)
  <2> DEFINE l == Len(s.tokens)
  <2>1. 0 \in Int /\ l \in Int /\ DOMAIN s.snaps \subseteq 0..l
    BY <1>1, <1>2
  <2> HIDE DEF l
  <2>2. IsFiniteSet(0..l)
    BY <2>1, FS_Interval
  <2> QED BY <2>1, <2>2, FS_Subset
<1> QED BY <1>1, <1>3, FS_CardinalityType DEF Size

(* The weight up to every place, by recursion on the place. *)
Weighs(p, f) ==
  /\ f \in [0..Len(p) -> Nat] /\ f[0] = 0
  /\ \A i \in 1..Len(p) : f[i] = f[i - 1] + Size(p[i])

LEMMA WeightOf ==
  ASSUME NEW p \in Seq(Slot)
  PROVE  \E f : Weighs(p, f) /\ Weight(p) = f[Len(p)]
<1> DEFINE Step(f, i) == IF i = 0 THEN 0 ELSE f[i - 1] + Size(p[i])
           Upto(m, f) == f = [i \in 0..m |-> Step(f, i)]
           Defined == {m \in Nat : \E f : Upto(m, f)}
<1>1. Defined = Nat
  <2>1. 0 \in Defined
    <3> DEFINE f == [i \in 0..0 |-> 0]
    <3>1. f = [i \in 0..0 |-> Step(f, i)]
      OBVIOUS
    <3>2. \E u : Upto(0, u)
      BY <3>1
    <3> QED BY <3>2
  <2>2. ASSUME NEW m \in Defined PROVE m + 1 \in Defined
    <3>1. PICK f : Upto(m, f)
      OBVIOUS
    <3> DEFINE h == [i \in 0..m + 1 |-> IF i = m + 1 THEN Step(f, i) ELSE f[i]]
    <3>2. m \in Nat /\ \A i \in 0..m : f[i] = Step(f, i)
      BY <3>1
    <3>3. \A i \in 0..m + 1 : h[i] = Step(h, i)
      <4>1. \A i \in 0..m : h[i] = f[i]
        BY <3>2
      <4>2. ASSUME NEW i \in 0..m + 1 PROVE Step(h, i) = Step(f, i)
        <5>1. i = 0 \/ i - 1 \in 0..m
          BY <3>2
        <5> HIDE DEF h
        <5> QED BY <5>1, <4>1
      <4>3. ASSUME NEW i \in 0..m + 1 PROVE h[i] = Step(f, i)
        <5>1. i = m + 1 \/ (i # m + 1 /\ i \in 0..m)
          BY <3>2
        <5>2. h[i] = IF i = m + 1 THEN Step(f, i) ELSE f[i]
          OBVIOUS
        <5> HIDE DEF h, Step
        <5> QED BY <5>1, <5>2, <3>2
      <4> HIDE DEF h, Step
      <4> QED BY <4>2, <4>3
    <3>4. h = [i \in 0..m + 1 |-> Step(h, i)]
      <4>1. h = [i \in 0..m + 1 |-> h[i]]
        OBVIOUS
      <4> HIDE DEF h, Step
      <4> QED BY <4>1, <3>3
    <3>5. m + 1 \in Nat /\ Upto(m + 1, h)
      BY <3>2, <3>4
    <3> HIDE DEF Upto, h
    <3> QED BY <3>5
  <2>3. Defined \in SUBSET Nat
    OBVIOUS
  <2> HIDE DEF Defined
  <2> QED BY <2>1, <2>2, <2>3, SetInduction
<1>2. Len(p) \in Nat /\ DOMAIN p = 1..Len(p)
  BY PoolFields
<1> DEFINE f == CHOOSE f : Upto(Len(p), f)
<1>3. Upto(Len(p), f)
  BY <1>1, <1>2
<1>4. Weight(p) = f[Len(p)]
  BY DEF Weight
<1>5. DOMAIN f = 0..Len(p) /\ f = [i \in 0..Len(p) |-> f[i]] /\ \A i \in 0..Len(p) : f[i] = Step(f, i)
  <2> HIDE DEF f
  <2> QED BY <1>3
<1> HIDE DEF f
<1> DEFINE Good == {m \in Nat : m <= Len(p) => f[m] \in Nat}
<1>6. \A i \in 1..Len(p) : Size(p[i]) \in Nat
  BY <1>2, PoolFields, SizeOf
<1>7. Good = Nat
  <2>1. 0 \in Good
    BY <1>2, <1>5
  <2>2. ASSUME NEW m \in Good PROVE m + 1 \in Good
    <3>1. m \in Nat /\ (m <= Len(p) => f[m] \in Nat)
      OBVIOUS
    <3> SUFFICES ASSUME m + 1 <= Len(p) PROVE f[m + 1] \in Nat
      BY <3>1
    <3>2. m + 1 \in 0..Len(p) /\ m + 1 # 0 /\ (m + 1) - 1 = m /\ m + 1 \in 1..Len(p) /\ m <= Len(p)
      BY <3>1, <1>2
    <3>3. f[m + 1] = f[m] + Size(p[m + 1])
      BY <3>2, <1>5
    <3> QED BY <3>1, <3>2, <3>3, <1>6
  <2>3. Good \in SUBSET Nat
    OBVIOUS
  <2> HIDE DEF Good
  <2> QED BY <2>1, <2>2, <2>3, SetInduction
<1>8. \A i \in 0..Len(p) : f[i] \in Nat
  BY <1>7, <1>2
<1>9. f[0] = 0 /\ \A i \in 1..Len(p) : f[i] = f[i - 1] + Size(p[i])
  BY <1>2, <1>5
<1>10. Weighs(p, f)
  <2>1. f \in [0..Len(p) -> Nat]
    <3> HIDE DEF Step, Upto, Good
    <3> QED BY <1>5, <1>8
  <2> QED BY <2>1, <1>9 DEF Weighs
<1> QED BY <1>4, <1>10

LEMMA WeightGrows ==
  ASSUME NEW p \in Seq(Slot), NEW f, Weighs(p, f), NEW i \in 0..Len(p), NEW j \in i..Len(p)
  PROVE  f[i] <= f[j]
<1> DEFINE Good == {m \in Nat : i + m <= Len(p) => f[i] <= f[i + m]}
<1>1. Len(p) \in Nat /\ \A k \in 1..Len(p) : Size(p[k]) \in Nat
  BY PoolFields, SizeOf
<1>2. \A k \in 0..Len(p) : f[k] \in Nat
  BY DEF Weighs
<1>3. \A k \in 1..Len(p) : f[k] = f[k - 1] + Size(p[k])
  BY DEF Weighs
<1>4. Good = Nat
  <2>1. 0 \in Good
    BY <1>1, <1>2
  <2>2. ASSUME NEW m \in Good PROVE m + 1 \in Good
    <3>1. m \in Nat /\ (i + m <= Len(p) => f[i] <= f[i + m])
      OBVIOUS
    <3> SUFFICES ASSUME i + (m + 1) <= Len(p) PROVE f[i] <= f[i + (m + 1)]
      BY <3>1
    <3> DEFINE k == i + (m + 1)
    <3>2. k \in 1..Len(p) /\ k - 1 = i + m /\ i + m \in 0..Len(p)
      BY <3>1, <1>1
    <3> HIDE DEF k
    <3>3. f[k] = f[i + m] + Size(p[k]) /\ Size(p[k]) \in Nat /\ f[i + m] \in Nat /\ f[i] \in Nat
      BY <3>2, <1>1, <1>2, <1>3
    <3>4. f[i] <= f[k]
      BY <3>1, <3>2, <3>3, <1>1
    <3> QED BY <3>4 DEF k
  <2>3. Good \in SUBSET Nat
    OBVIOUS
  <2> HIDE DEF Good
  <2> QED BY <2>1, <2>2, <2>3, SetInduction
<1>5. j - i \in Nat /\ i + (j - i) = j
  BY <1>1
<1>6. j - i \in Good
  BY <1>4, <1>5
<1> QED BY <1>1, <1>5, <1>6

(* Slots picked from a pool are no more, and weigh no more, than all.      *)
LEMMA PickedWeigh ==
  ASSUME NEW p \in Seq(Slot), NEW t \in Seq(Slot), NEW places, NEW g, Picks(t, p, places, g)
  PROVE  Len(t) <= Len(p) /\ Weight(t) <= Weight(p)
<1>1. PICK f : Weighs(p, f) /\ Weight(p) = f[Len(p)]
  BY WeightOf
<1>2. PICK h : Weighs(t, h) /\ Weight(t) = h[Len(t)]
  BY WeightOf
<1> DEFINE G(k) == IF k = 0 THEN 0 ELSE g[k]
           Good == {k \in Nat : k <= Len(t) => k <= G(k) /\ h[k] <= f[G(k)]}
<1>3. Len(p) \in Nat /\ Len(t) \in Nat /\ (\A k \in 1..Len(p) : Size(p[k]) \in Nat)
  BY PoolFields, SizeOf
<1>4. /\ \A k \in 1..Len(t) : g[k] \in 1..Len(p) /\ t[k] = p[g[k]]
      /\ \A k, l \in 1..Len(t) : k < l => g[k] < g[l]
  BY DEF Picks
<1>5. \A k \in 0..Len(t) : G(k) \in 0..Len(p)
  BY <1>3, <1>4
<1>6. /\ f[0] = 0 /\ \A k \in 0..Len(p) : f[k] \in Nat
      /\ \A k \in 1..Len(p) : f[k] = f[k - 1] + Size(p[k])
  BY <1>1 DEF Weighs
<1>7. /\ h[0] = 0 /\ \A k \in 0..Len(t) : h[k] \in Nat
      /\ \A k \in 1..Len(t) : h[k] = h[k - 1] + Size(t[k])
  BY <1>2 DEF Weighs
<1>8. Good = Nat
  <2>1. 0 \in Good
    BY <1>6, <1>7
  <2>2. ASSUME NEW m \in Good PROVE m + 1 \in Good
    <3>1. m \in Nat /\ (m <= Len(t) => m <= G(m) /\ h[m] <= f[G(m)])
      OBVIOUS
    <3> DEFINE k == m + 1
    <3> SUFFICES ASSUME k <= Len(t) PROVE k <= G(k) /\ h[k] <= f[G(k)]
      BY <3>1
    <3>2. k \in 1..Len(t) /\ k - 1 = m /\ m \in 0..Len(t) /\ k # 0
      BY <3>1, <1>3
    <3>3. G(m) < g[k]
      <4>1. CASE m = 0
        BY <4>1, <3>2, <1>4
      <4>2. CASE m # 0
        <5>1. m \in 1..Len(t) /\ m < k
          BY <3>1, <3>2, <4>2, <1>3
        <5> QED BY <5>1, <3>2, <4>2, <1>4
      <4> QED BY <4>1, <4>2
    <3> DEFINE a == G(m)
               b == g[k]
    <3>4. a \in 0..Len(p) /\ b \in 1..Len(p) /\ a < b /\ m <= a /\ h[m] <= f[a] /\ G(k) = b
      BY <3>1, <3>2, <3>3, <1>3, <1>4, <1>5
    <3>5. h[k] = h[m] + Size(p[b]) /\ h[m] \in Nat
      BY <3>2, <1>4, <1>7
    <3> HIDE DEF a, b, k, Good, G
    <3>6. f[b] = f[b - 1] + Size(p[b]) /\ Size(p[b]) \in Nat
      BY <3>4, <1>3, <1>6
    <3>7. b - 1 \in a..Len(p) /\ b - 1 \in 0..Len(p)
      BY <3>4, <1>3
    <3>8. f[a] <= f[b - 1]
      <4> DEFINE c == b - 1
      <4>1. Weighs(p, f) /\ a \in 0..Len(p) /\ c \in a..Len(p)
        BY <3>4, <3>7, <1>1
      <4> HIDE DEF c
      <4>2. f[a] <= f[c]
        BY <4>1, WeightGrows
      <4> QED BY <4>2 DEF c
    <3>9. f[a] \in Nat /\ f[b - 1] \in Nat
      BY <3>4, <3>7, <1>6
    <3>10. h[k] <= f[b]
      BY <3>4, <3>5, <3>6, <3>8, <3>9
    <3>11. k <= b
      BY <3>1, <3>4, <1>3 DEF k
    <3> QED BY <3>4, <3>10, <3>11
  <2>3. Good \in SUBSET Nat
    OBVIOUS
  <2> HIDE DEF Good
  <2> QED BY <2>1, <2>2, <2>3, SetInduction
<1> DEFINE l == Len(t)
<1>9. l <= G(l) /\ h[l] <= f[G(l)] /\ l \in 0..l
  <2>1. l \in Good
    BY <1>3, <1>8
  <2> QED BY <2>1, <1>3
<1>10. G(l) \in 0..Len(p) /\ Len(p) \in G(l)..Len(p)
  BY <1>3, <1>5
<1> HIDE DEF G, Good
<1>11. f[G(l)] <= f[Len(p)]
  BY <1>1, <1>10, WeightGrows
<1>12. f[G(l)] \in Nat /\ f[Len(p)] \in Nat /\ h[l] \in Nat
  BY <1>3, <1>6, <1>7, <1>10
<1>13. l <= Len(p) /\ h[l] <= f[Len(p)]
  BY <1>3, <1>9, <1>10, <1>11, <1>12
<1> QED BY <1>1, <1>2, <1>13

LEMMA WithoutFits ==
  ASSUME NEW p \in Seq(Slot), NEW gone, NEW max \in Nat
  PROVE  LET t == Without(p, gone) IN Len(t) <= Len(p) /\ (Fits(p, max) => Fits(t, max))
<1> DEFINE I == {i \in DOMAIN p : p[i].id \notin gone}
           t == At(p, I)
<1>1. Without(p, gone) = t
  BY DEF Without
<1> HIDE DEF I
<1>2. PICK g : t \in Seq(Slot) /\ Picks(t, p, I, g)
  BY AtPicks
<1> HIDE DEF t
<1>3. Len(t) <= Len(p) /\ Weight(t) <= Weight(p)
  BY <1>2, PickedWeigh
<1>4. Len(t) \in Nat /\ Len(p) \in Nat /\ Weight(t) \in Nat /\ Weight(p) \in Nat
  <2>1. Len(t) \in Nat /\ Len(p) \in Nat
    BY <1>2, PoolFields
  <2>2. \A o \in Seq(Slot) : Len(o) \in Nat => Weight(o) \in Nat
    <3>1. ASSUME NEW o \in Seq(Slot), Len(o) \in Nat PROVE Weight(o) \in Nat
      <4>1. PICK f : Weighs(o, f) /\ Weight(o) = f[Len(o)]
        BY WeightOf
      <4> QED BY <3>1, <4>1 DEF Weighs
    <3> QED BY <3>1
  <2> QED BY <1>2, <2>1, <2>2
<1>5. Budget \in Nat
  BY CachesAssumption
<1>6. Fits(p, max) => Fits(t, max)
  BY <1>3, <1>4, <1>5 DEF Fits
<1> QED BY <1>1, <1>3, <1>6

(* Eviction from a pool in which nothing is left that is busy: it fits, or *)
(* one slot at most is left.                                               *)
LEMMA EvictedFits ==
  ASSUME NEW p, PoolOK(p), NEW max, Busy(Evicted(p, None, max)) = {}
  PROVE  LET t == Evicted(p, None, max) IN Fits(t, max) \/ Len(t) <= 1
<1> DEFINE I == {i \in DOMAIN p : ~p[i].busy /\ p[i].id # None}
           idle == At(p, I)
           left(k) == Without(p, Ids(First(idle, k)))
           enough(k) == Fits(left(k), max) \/ k = Len(idle) \/ Len(left(k)) <= 1
           K == {k \in 0..Len(idle) : enough(k)}
<1>1. Evicted(p, None, max) = left(Min(K))
  BY DEF Evicted, Victims
<1>2. p \in Seq(Slot) /\ \A i \in DOMAIN p : p[i].id \in Nat
  BY PoolFields, SlotFields DEF PoolOK
<1> HIDE DEF I, left, enough, K
<1>3. /\ idle \in Seq(Slot)
      /\ \A i \in DOMAIN p \cap I : \E k \in DOMAIN idle : idle[k] = p[i]
  <2>1. p \in Seq(Slot)
    BY <1>2
  <2>2. At(p, I) \in Seq(Slot)
    BY <2>1, AtOf
  <2>3. \A i \in DOMAIN p \cap I : \E k \in DOMAIN At(p, I) : At(p, I)[k] = p[i]
    BY <2>1, AtCovers
  <2> QED BY <2>2, <2>3
<1> HIDE DEF idle
<1>4. Len(idle) \in Nat
  BY <1>3, PoolFields
<1>5. K \in SUBSET Nat /\ Len(idle) \in K
  BY <1>4 DEF K, enough
<1>6. Min(K) \in K
  <2> HIDE DEF K
  <2> QED BY <1>5, MinExists
<1> DEFINE k == Min(K)
<1>7. enough(k)
  BY <1>6 DEF K
<1> USE DEF left, enough
<1> HIDE DEF k
<1>8. CASE k = Len(idle)
  <2>1. First(idle, k) = idle
    BY <1>3, <1>8, FirstOfAll
  <2> DEFINE t == left(k)
             gone == Ids(First(idle, k))
  <2>2. \A i \in DOMAIN p : p[i].id \notin gone => p[i].busy
    <3>1. ASSUME NEW i \in DOMAIN p, ~p[i].busy PROVE p[i].id \in gone
      <4>1. i \in I
        BY <1>2, <3>1, CachesAssumption DEF I
      <4>2. PICK l \in DOMAIN idle : idle[l] = p[i]
        BY <1>3, <4>1
      <4> QED BY <2>1, <4>2 DEF Ids
    <3> QED BY <3>1
  <2>3. t = Without(p, gone)
    OBVIOUS
  <2> HIDE DEF gone, left
  <2>4. PoolOK(t) /\ \A j \in DOMAIN t : t[j].id \notin gone /\ \E i \in DOMAIN p : t[j] = p[i]
    BY <2>3, WithoutOf
  <2>5. \A j \in DOMAIN t : t[j].id \in Busy(t)
    BY <2>2, <2>4 DEF Busy
  <2>6. Busy(t) = {}
    BY <1>1 DEF k
  <2>7. DOMAIN t = {} /\ Len(t) \in Nat /\ DOMAIN t = 1..Len(t)
    BY <2>4, <2>5, <2>6, PoolFields DEF PoolOK
  <2>8. Len(t) <= 1
    BY <2>7
  <2> QED BY <1>1, <2>8 DEF k
<1>9. CASE Fits(left(k), max) \/ Len(left(k)) <= 1
  BY <1>1, <1>9 DEF k
<1> QED BY <1>7, <1>8, <1>9

QuietAt(n) == RunningOn(n) = {} /\ Len(pool[n]) > 1 => Fits(pool[n], limit[n])

LEMMA QuietStays ==
  ASSUME NEW n \in Node, QuietAt(n), pool'[n] = pool[n], limit'[n] = limit[n],
         \A o \in RunningOn(n) : reply'[o] = reply[o]
  PROVE  QuietAt(n)'
<1>1. RunningOn(n)' = {} => RunningOn(n) = {}
  BY DEF RunningOn
<1> QED BY <1>1 DEF QuietAt, Fits, Weight

LEMMA QuietEverywhere ==
  ASSUME QuietPoolFits, NEW n \in Node
  PROVE  QuietAt(n)
BY DEF QuietPoolFits, QuietAt

(* A step of reply r, which is on node m afterwards and has not ended.     *)
GoesOn(r, m, w, p) ==
  /\ reply[r].node \in {m, None} /\ w.node = m /\ w.at # "done" /\ limit' = limit
  /\ pool' = [pool EXCEPT ![m] = p] /\ reply' = [reply EXCEPT ![r] = w]

LEMMA QuietReply ==
  ASSUME TypeOK, QuietPoolFits, NEW r \in Reply, NEW m \in Node, NEW w, NEW p,
         GoesOn(r, m, w, p)
  PROVE  QuietPoolFits'
<1>0. /\ reply[r].node \in {m, None} /\ w.node = m /\ w.at # "done" /\ limit' = limit
      /\ pool' = [pool EXCEPT ![m] = p] /\ reply' = [reply EXCEPT ![r] = w]
  BY DEF GoesOn
<1>1. ASSUME NEW n \in Node PROVE QuietAt(n)'
  <2>1. CASE n = m
    <3>1. reply'[r] = w
      BY <1>0 DEF TypeOK
    <3>2. RunningOn(n)' # {}
      BY <1>0, <2>1, <3>1 DEF RunningOn
    <3> QED BY <3>2 DEF QuietAt
  <2>2. CASE n # m
    <3>1. pool'[n] = pool[n] /\ limit'[n] = limit[n]
      BY <1>0, <2>2 DEF TypeOK
    <3>2. \A o \in RunningOn(n) : o \in Reply /\ o # r
      BY <1>0, <2>2, CachesAssumption DEF RunningOn
    <3>3. \A o \in RunningOn(n) : reply'[o] = reply[o]
      BY <1>0, <3>2 DEF TypeOK
    <3> QED BY <3>1, <3>3, QuietEverywhere, QuietStays
  <2> QED BY <2>1, <2>2
<1> QED BY <1>1 DEF QuietPoolFits, QuietAt

LEMMA QuietAcquire ==
  ASSUME CachesInv, QuietPoolFits, NEW r \in Reply, NEW n \in Node, NEW q \in Request,
         Acquire(r, n, q)
  PROVE  QuietPoolFits'
<1>1. TypeOK /\ PoolInv
  BY DEF CachesInv
<1>2. PICK p \in Trimmed(pool[n], q) : pool' = [pool EXCEPT ![n] = p]
  BY DEF Acquire
<1> DEFINE w1 == [reply[r] EXCEPT !.at = "acquiring"]
           w2 == [w1 EXCEPT !.node = n]
           w == [w2 EXCEPT !.ask = q]
<1>3. reply' = [reply EXCEPT ![r] = w] /\ limit' = limit /\ reply[r].at = "new"
  BY DEF Acquire
<1>4. reply[r] \in Answer /\ reply[r].node = None
  BY <1>1, <1>3, ReplyFields DEF ReplyOK
<1>5. w1 \in Answer /\ w1.at = "acquiring"
  <2>1. "acquiring" \in {"new", "prefill", "decode", "done"} \cup Waiting
    BY DEF Waiting
  <2>2. w1 \in Answer
    BY <1>4, <2>1, AnswerFields
  <2> QED BY <1>4, <2>2 DEF Answer
<1> HIDE DEF w1
<1>6. w2 \in Answer /\ w2.at = "acquiring" /\ w2.node = n
  BY <1>5, AnswerFields DEF Answer
<1> HIDE DEF w2
<1>7. w.at = "acquiring" /\ w.node = n
  BY <1>6, AnswerFields DEF Answer
<1> HIDE DEF w
<1> QED BY <1>1, <1>2, <1>3, <1>4, <1>7, QuietReply DEF GoesOn

LEMMA QuietClaim ==
  ASSUME CachesInv, QuietPoolFits, NEW r \in Reply, Claim(r)
  PROVE  QuietPoolFits'
<1> DEFINE n == reply[r].node
           w == [reply[r] EXCEPT !.at = "claimed"]
<1>1. TypeOK /\ PoolInv
  BY DEF CachesInv
<1>2. /\ reply[r].at = "acquiring" /\ reply' = [reply EXCEPT ![r] = w]
      /\ pool' = pool /\ limit' = limit
  BY DEF Claim
<1>3. reply[r] \in Answer /\ n \in Node
  BY <1>1, <1>2, ReplyFields
<1>4. w.at = "claimed" /\ w.node = n
  BY <1>3 DEF Answer
<1>5. pool' = [pool EXCEPT ![n] = pool[n]]
  BY <1>1, <1>2 DEF TypeOK
<1> HIDE DEF w
<1> QED BY <1>1, <1>2, <1>3, <1>4, <1>5, QuietReply DEF GoesOn

LEMMA QuietTake ==
  ASSUME CachesInv, QuietPoolFits, NEW r \in Reply, Take(r)
  PROVE  QuietPoolFits'
<1> DEFINE n == reply[r].node
           q == reply[r].ask
           back == Restored(n, q)
           more == pool[n] \o back
           keep == IF back = <<>> THEN None ELSE back[1].id
           spare == IF back = <<>> THEN <<>> ELSE Victims(more, keep, limit[n])
           ways == IF back = <<>> THEN {pool[n]} ELSE Trimmed(Without(more, Ids(spare)), q)
           hit(p) == Candidates(n, p, q.ids) # {}
           used(p) == IF hit(p) THEN TakeSlot(n, p, Best(n, p, q.ids), q)
                      ELSE Append(p, NewSlot(FreshId(n, p), q))
           mine(p) == used(p)[Len(used(p))]
           dropped(p) == IF mine(p).id \in Ids(p) THEN <<>>
                         ELSE Victims(used(p), mine(p).id, limit[n])
           end(p) == [used(p) EXCEPT ![Len(used(p))].busy = TRUE, ![Len(used(p))].plen = Len(q.ids),
                                     ![Len(used(p))].tag = IF q.tag = None THEN @ ELSE q.tag]
<1>1. TypeOK /\ PoolInv
  BY DEF CachesInv
<1>2. /\ reply[r].at = "claimed" /\ kind' = kind /\ limit' = limit
      /\ forget' = forget /\ disk' = disk /\ history' = history
  BY Zenon DEF Take
<1>3. PICK p \in ways :
        /\ pool' = [pool EXCEPT ![n] = Without(end(p), Ids(dropped(p)))]
        /\ store' = [store EXCEPT ![n].queue = Spilled(n, spare \o dropped(p)), ![n].claim = None]
        /\ reply' = [reply EXCEPT ![r].at = "prefill", ![r].id = mine(p).id,
                                  ![r].from = Len(mine(p).tokens)]
  BY Zenon DEF Take
<1> HIDE DEF back, more, keep, spare, ways, hit, used, end, dropped
<1> DEFINE id == mine(p).id
           from == Len(mine(p).tokens)
           final == Without(end(p), Ids(dropped(p)))
<1> DEFINE w1 == [reply[r] EXCEPT !.at = "prefill"]
           w2 == [w1 EXCEPT !.id = id]
           w == [w2 EXCEPT !.from = from]
<1>4. reply' = [reply EXCEPT ![r] = w] /\ pool' = [pool EXCEPT ![n] = final]
  BY <1>3
<1> HIDE DEF id, from, final
<1>5. reply[r] \in Answer /\ n \in Node
  BY <1>1, <1>2, ReplyFields
<1>6. w1.at = "prefill" /\ w1.node = n /\ DOMAIN w1 = DOMAIN reply[r]
  BY <1>5 DEF Answer
<1>7. w2.at = "prefill" /\ w2.node = n
  BY <1>5, <1>6 DEF Answer
<1>8. w.at = "prefill" /\ w.node = n
  BY <1>5, <1>7 DEF Answer
<1> HIDE DEF w1, w2, w, n
<1>9. reply[r].node = n /\ limit' = limit
  BY <1>2 DEF n
<1>10. GoesOn(r, n, w, final)
  BY <1>4, <1>8, <1>9 DEF GoesOn
<1> QED BY <1>1, <1>5, <1>10, QuietReply

LEMMA QuietPrefill ==
  ASSUME CachesInv, QuietPoolFits, NEW r \in Reply, Prefill(r)
  PROVE  QuietPoolFits'
<1> DEFINE n == reply[r].node
           i == Mine(r)
<1>1. TypeOK /\ PoolInv
  BY DEF CachesInv
<1>2. /\ reply[r].at = "prefill" /\ limit' = limit
      /\ \E s : IF Hybrid THEN SetPool(n, [pool[n] EXCEPT ![i] = s], s.id)
                ELSE pool' = [pool EXCEPT ![n][i] = s]
      /\ \E at \in {"decode", "prefill"} : reply' = [reply EXCEPT ![r].at = at]
  BY DEF Prefill
<1>3. PICK p : pool' = [pool EXCEPT ![n] = p]
  BY <1>2 DEF SetPool
<1>4. PICK at \in {"decode", "prefill"} : reply' = [reply EXCEPT ![r].at = at]
  BY <1>2
<1> DEFINE w == [reply[r] EXCEPT !.at = at]
<1>5. reply' = [reply EXCEPT ![r] = w]
  BY <1>4
<1>6. reply[r] \in Answer /\ n \in Node
  BY <1>1, <1>2, ReplyFields
<1>7. w.at # "done" /\ w.node = n
  BY <1>6 DEF Answer
<1> HIDE DEF w
<1> QED BY <1>1, <1>2, <1>3, <1>5, <1>6, <1>7, QuietReply DEF GoesOn

LEMMA QuietDecode1 ==
  ASSUME CachesInv, QuietPoolFits, NEW r \in Reply, NEW t \in Token, Decode1(r, t)
  PROVE  QuietPoolFits'
<1> DEFINE n == reply[r].node
           p == [pool[n] EXCEPT ![Mine(r)] = Advanced(@, <<t>>)]
           w == [reply[r] EXCEPT !.made = Append(@, t)]
<1>1. TypeOK /\ PoolInv
  BY DEF CachesInv
<1>2. /\ reply[r].at = "decode" /\ limit' = limit
      /\ pool' = [pool EXCEPT ![n] = p] /\ reply' = [reply EXCEPT ![r] = w]
  BY DEF Decode1
<1>3. reply[r] \in Answer /\ n \in Node
  BY <1>1, <1>2, ReplyFields
<1>4. w.at = "decode" /\ w.node = n
  BY <1>2, <1>3 DEF Answer
<1> HIDE DEF p, w
<1> QED BY <1>1, <1>2, <1>3, <1>4, QuietReply DEF GoesOn

(* No reply is left on the node: nothing is busy in its pool.              *)
LEMMA NothingBusy ==
  ASSUME CachesInv', NEW n \in Node, RunningOn(n)' = {}
  PROVE  Busy(pool'[n]) = {}
<1>1. ASSUME NEW x \in Busy(pool'[n]) PROVE FALSE
  <2>1. PICK r \in Reply : Running(reply'[r]) /\ reply'[r].node = n
    BY <1>1 DEF CachesInv, PoolInv
  <2> QED BY <2>1 DEF RunningOn, Running
<1> QED BY <1>1

(* Evicted to the limit of the node: after that no reply's slot is beyond. *)
LEMMA QuietEvicted ==
  ASSUME CachesInv, CachesInv', NEW n \in Node, NEW p, PoolOK(p),
         pool'[n] = Evicted(p, None, limit'[n])
  PROVE  QuietAt(n)'
<1>1. ASSUME RunningOn(n)' = {}, Len(pool'[n]) > 1 PROVE Fits(pool'[n], limit'[n])
  <2>1. Busy(Evicted(p, None, limit'[n])) = {}
    BY <1>1, NothingBusy
  <2> DEFINE max == limit'[n]
             t == Evicted(p, None, max)
  <2>2. Busy(t) = {} /\ pool'[n] = t
    BY <2>1
  <2> HIDE DEF max
  <2>3. Fits(t, max) \/ Len(t) <= 1
    BY <2>2, EvictedFits
  <2>4. Len(t) \in Nat
    BY EvictedOf, PoolFields DEF PoolOK
  <2> HIDE DEF t
  <2>5. Fits(t, max)
    BY <1>1, <2>2, <2>3, <2>4
  <2> QED BY <2>2, <2>5 DEF max
<1> QED BY <1>1 DEF QuietAt, Fits, Weight

LEMMA QuietRelease ==
  ASSUME CachesInv, CachesInv', QuietPoolFits, NEW r \in Reply, Running(reply[r]),
         NEW s \in Slot, s.id = reply[r].id,
         NEW p, p = [pool[reply[r].node] EXCEPT ![Mine(r)] = s], Release(r, p), limit' = limit
  PROVE  QuietPoolFits'
<1> DEFINE m == reply[r].node
           i == Mine(r)
           t == [s EXCEPT !.busy = FALSE]
           o == [pool[m] EXCEPT ![i] = t]
<1>1. TypeOK /\ PoolInv
  BY DEF CachesInv
<1>2. /\ i \in DOMAIN pool[m] /\ pool[m][i].id = reply[r].id /\ m \in Node /\ PoolOK(pool[m])
  BY <1>1, MineOf, ReplyFields DEF Running
<1>3. /\ pool' = [pool EXCEPT ![m] = Evicted(o, None, limit[m])]
      /\ \A u \in Reply \ {r} : reply'[u] = reply[u]
  <2>1. SetPool(m, [p EXCEPT ![i].busy = FALSE], None)
    BY DEF Release
  <2>2. [p EXCEPT ![i].busy = FALSE] = o
    <3>1. p = [pool[m] EXCEPT ![i] = s] /\ pool[m] \in Seq(Slot)
      BY <1>2 DEF PoolOK
    <3> HIDE DEF m, i
    <3>2. p[i] = s /\ DOMAIN p = DOMAIN pool[m]
      BY <1>2, <3>1
    <3> QED BY <1>2, <3>1, <3>2
  <2>3. \A u \in Reply \ {r} : reply'[u] = reply[u]
    BY <1>1 DEF TypeOK, Release
  <2> QED BY <2>1, <2>2, <2>3 DEF SetPool
<1>4. t \in Slot /\ t.id = reply[r].id
  BY IdleOf
<1> HIDE DEF i, t
<1>5. PoolOK(o)
  BY <1>2, <1>4, ReplaceOf
<1> HIDE DEF o
<1>6. ASSUME NEW n \in Node PROVE QuietAt(n)'
  <2>1. CASE n = m
    <3>1. pool'[n] = Evicted(o, None, limit'[n])
      BY <1>1, <1>2, <1>3, <2>1 DEF TypeOK
    <3> QED BY <1>5, <3>1, QuietEvicted
  <2>2. CASE n # m
    <3>1. pool'[n] = pool[n] /\ limit'[n] = limit[n]
      BY <1>1, <1>3, <2>2 DEF TypeOK
    <3>2. \A u \in RunningOn(n) : reply'[u] = reply[u]
      BY <1>3, <2>2 DEF RunningOn
    <3> QED BY <3>1, <3>2, QuietEverywhere, QuietStays
  <2> QED BY <2>1, <2>2
<1> QED BY <1>6 DEF QuietPoolFits, QuietAt

LEMMA QuietFinish ==
  ASSUME CachesInv, CachesInv', QuietPoolFits, NEW r \in Reply, Finish(r)
  PROVE  QuietPoolFits'
<1> DEFINE p == pool[reply[r].node]
           s == p[Mine(r)]
<1>1. TypeOK /\ PoolInv
  BY DEF CachesInv
<1>2. reply[r].at = "decode" /\ limit' = limit /\ Release(r, p)
  BY DEF Finish
<1>3. Running(reply[r])
  BY <1>2 DEF Running
<1>4. s \in Slot /\ s.id = reply[r].id /\ Mine(r) \in DOMAIN p
  BY <1>1, <1>3, MineOf
<1>5. p = [p EXCEPT ![Mine(r)] = s]
  <2>1. p \in Seq(Slot)
    BY <1>1, <1>2, ReplyFields DEF PoolOK
  <2> HIDE DEF p
  <2> QED BY <1>4, <2>1
<1> HIDE DEF s
<1> QED BY <1>2, <1>3, <1>4, <1>5, QuietRelease

LEMMA QuietStop ==
  ASSUME CachesInv, CachesInv', QuietPoolFits, NEW r \in Reply, Stop(r)
  PROVE  QuietPoolFits'
<1> DEFINE o == pool[reply[r].node]
           i == Mine(r)
           state == IF Hybrid THEN <<"mixed">> ELSE <<>>
           c == o[i]
           s == [c EXCEPT !.state = state]
           p == [o EXCEPT ![i] = s]
<1>1. TypeOK /\ PoolInv
  BY DEF CachesInv
<1>2. reply[r].at \in {"prefill", "decode"} /\ limit' = limit /\ Release(r, p)
  BY DEF Stop
<1>3. Running(reply[r])
  BY <1>2 DEF Running
<1>4. c \in Slot /\ c.id = reply[r].id
  BY <1>1, <1>3, MineOf
<1>5. state \in Seq(Cell)
  <2>1. "mixed" \in Cell /\ <<>> \in Seq(Cell)
    BY EmptySeq DEF Cell
  <2> QED BY <2>1
<1> HIDE DEF state, o, i, c
<1>6. s \in Slot /\ s.id = reply[r].id
  BY <1>4, <1>5, StateOf
<1>7. p = [pool[reply[r].node] EXCEPT ![Mine(r)] = s]
  BY DEF o, i
<1> HIDE DEF p, s
<1> QED BY <1>2, <1>3, <1>6, <1>7, QuietRelease

LEMMA QuietSpillChat ==
  ASSUME CachesInv, QuietPoolFits, NEW m \in Node, NEW tag \in Tags, SpillChat(m, tag)
  PROVE  QuietPoolFits'
<1> DEFINE v == At(pool[m], {i \in DOMAIN pool[m] : pool[m][i].tag = tag /\ ~pool[m][i].busy})
           p == Without(pool[m], Ids(v))
<1>1. /\ pool' = [pool EXCEPT ![m] = p] /\ limit' = limit /\ reply' = reply
  BY DEF SpillChat
<1>2. /\ pool[m] \in Seq(Slot) /\ pool'[m] = p /\ limit[m] \in Nat
      /\ \A n \in Node \ {m} : pool'[n] = pool[n]
  BY <1>1, CachesAssumption DEF CachesInv, TypeOK
<1> HIDE DEF v
<1>3. Len(p) <= Len(pool[m]) /\ (Fits(pool[m], limit[m]) => Fits(p, limit[m]))
  BY <1>2, WithoutFits
<1>4. Len(p) \in Nat /\ Len(pool[m]) \in Nat
  <2>1. PoolOK(pool[m])
    BY DEF CachesInv, TypeOK, PoolInv, PoolOK
  <2>2. p \in Seq(Slot)
    BY <2>1, WithoutOf DEF PoolOK
  <2> HIDE DEF p
  <2> QED BY <1>2, <2>2, PoolFields
<1> HIDE DEF p
<1>5. ASSUME NEW n \in Node PROVE QuietAt(n)'
  <2>1. CASE n = m
    <3>1. RunningOn(n)' = RunningOn(n)
      BY <1>1 DEF RunningOn
    <3>2. ASSUME RunningOn(n) = {}, Len(p) > 1 PROVE Fits(p, limit[m])
      BY <1>3, <1>4, <2>1, <3>2, QuietEverywhere DEF QuietAt
    <3>3. ASSUME RunningOn(n)' = {}, Len(pool'[n]) > 1 PROVE Fits(pool'[n], limit'[n])
      BY <1>1, <1>2, <2>1, <3>1, <3>2, <3>3
    <3> QED BY <3>3 DEF QuietAt, Fits, Weight
  <2>2. CASE n # m
    BY <1>1, <1>2, <2>2, QuietEverywhere, QuietStays
  <2> QED BY <2>1, <2>2
<1> QED BY <1>5 DEF QuietPoolFits, QuietAt

LEMMA QuietSetLimits ==
  ASSUME CachesInv, CachesInv', QuietPoolFits, NEW m \in Node, NEW max \in MaxSlots,
         SetLimits(m, max)
  PROVE  QuietPoolFits'
<1>1. /\ pool' = [pool EXCEPT ![m] = Evicted(pool[m], None, max)]
      /\ limit' = [limit EXCEPT ![m] = max] /\ reply' = reply
  BY DEF SetLimits, Evicted
<1>2. /\ pool \in [Node -> Seq(Slot)] /\ limit \in [Node -> MaxSlots] /\ PoolOK(pool[m])
  BY DEF CachesInv, TypeOK, PoolInv, PoolOK
<1>3. ASSUME NEW n \in Node PROVE QuietAt(n)'
  <2>1. CASE n = m
    <3>1. pool'[n] = Evicted(pool[m], None, limit'[n])
      BY <1>1, <1>2, <2>1
    <3> QED BY <1>2, <3>1, QuietEvicted
  <2>2. CASE n # m
    BY <1>1, <1>2, <2>2, QuietEverywhere, QuietStays
  <2> QED BY <2>1, <2>2
<1> QED BY <1>3 DEF QuietPoolFits, QuietAt

(* The pool of m is emptied: at the end of a process, or to unload.        *)
LEMMA QuietEmptied ==
  ASSUME CachesInv, QuietPoolFits, NEW m \in Node, Unload(m) \/ Restart(m)
  PROVE  QuietPoolFits'
<1>1. /\ pool' = [pool EXCEPT ![m] = <<>>] /\ limit' = limit
      /\ \A o \in Reply \ RunningOn(m) : reply'[o] = reply[o]
  BY DEF Unload, Restart
<1>2. pool \in [Node -> Seq(Slot)]
  BY DEF CachesInv, TypeOK
<1>3. ASSUME NEW n \in Node PROVE QuietAt(n)'
  <2>1. CASE n = m
    <3>1. pool'[n] = <<>> /\ Len(<<>>) = 0
      BY <1>1, <1>2, <2>1, EmptySeq
    <3> QED BY <3>1 DEF QuietAt
  <2>2. CASE n # m
    <3>1. \A o \in RunningOn(n) : reply'[o] = reply[o]
      BY <1>1, <2>2 DEF RunningOn
    <3> QED BY <1>1, <1>2, <2>2, <3>1, QuietEverywhere, QuietStays
  <2> QED BY <2>1, <2>2
<1> QED BY <1>3 DEF QuietPoolFits, QuietAt

LEMMA StepIsQuiet ==
  ASSUME CachesInv, CachesInv', QuietPoolFits, [Next]_vars
  PROVE  QuietPoolFits'
<1>1. CASE pool' = pool /\ limit' = limit /\ reply' = reply
  <2>1. ASSUME NEW n \in Node PROVE QuietAt(n)'
    BY <1>1, QuietEverywhere, QuietStays
  <2> QED BY <2>1 DEF QuietPoolFits, QuietAt
<1>2. CASE \E r \in Reply :
             \/ \E n \in Node, q \in Request : Acquire(r, n, q)
             \/ Claim(r) \/ Take(r) \/ Prefill(r) \/ Finish(r) \/ Stop(r)
             \/ \E t \in Token : Decode1(r, t)
  BY <1>2, QuietAcquire, QuietClaim, QuietTake, QuietPrefill, QuietFinish, QuietStop, QuietDecode1
<1>3. ASSUME NEW n \in Node, EncodeNext(n) \/ Place(n) \/ List(n) \/ CleanUp(n)
      PROVE  QuietPoolFits'
  BY <1>1, <1>3 DEF EncodeNext, Place, List, CleanUp
<1>4. ASSUME NEW n \in Node,
             \/ Clear(n) \/ Disable(n) \/ Sync(n) \/ Mark(n) \/ Remove(n)
             \/ \E t \in Tags : Forget(n, t)
      PROVE  QuietPoolFits'
  BY <1>1, <1>4 DEF Clear, Disable, Forget, ReadDirectory, Sync, Mark, Remove
<1>5. ASSUME NEW n \in Node,
             \/ Unload(n) \/ Restart(n)
             \/ \E t \in Tags : SpillChat(n, t)
             \/ \E max \in MaxSlots : SetLimits(n, max)
      PROVE  QuietPoolFits'
  BY <1>5, QuietEmptied, QuietSpillChat, QuietSetLimits
<1>6. CASE UNCHANGED vars
  BY <1>1, <1>6 DEF vars
<1> QED BY <1>2, <1>3, <1>4, <1>5, <1>6 DEF Next

(* A reply that ends gives its slot back and evicts: once none runs on a   *)
(* node its pool is within the number of slots and the bytes, whatever     *)
(* limits were set, chats moved out or files restored meanwhile.           *)
THEOREM QuietPoolFitsHolds == Spec => []QuietPoolFits
<1>1. Init => QuietPoolFits
  <2> SUFFICES ASSUME Init PROVE QuietPoolFits
    OBVIOUS
  <2>1. pool = [n \in Node |-> <<>>] /\ Len(<<>>) = 0
    BY EmptySeq DEF Init
  <2> QED BY <2>1 DEF QuietPoolFits
<1>2. CachesInv /\ CachesInv' /\ QuietPoolFits /\ [Next]_vars => QuietPoolFits'
  BY StepIsQuiet
<1> QED BY <1>1, <1>2, CachesInvariant, PTL DEF Spec
=============================================================================
