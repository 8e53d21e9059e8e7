--------------------------- MODULE ClusterLogProofs ---------------------------
(***************************************************************************)
(* Proofs about ClusterLog: all replicas go one way through the logs, a    *)
(* caller is told what the command did, two nodes never rely on the lease  *)
(* at once, and the effects of commands are the history OneHistory         *)
(* promises.                                                               *)
(***************************************************************************)
EXTENDS ClusterLogInv, SequenceTheorems, TLAPS

-----------------------------------------------------------------------------
(* What taking in a command does to each field of a replica. *)

Seals(r, c) == ~Applied(r, c.id) /\ c.op = "voters" /\ c.epoch = r.epoch
Takes(r, c) == ~Applied(r, c.id) /\ c.op = "lease" /\ r.lease = c.expected
Effect(r, c) == [id |-> c.id, result |-> Seals(r, c) \/ Takes(r, c) \/ c.op = "marks"]
Recalled(results) == IF Len(results) > Remembered THEN Tail(results) ELSE results

(* An effect that is added stays last; a command without one changes no    *)
(* sequence.                                                               *)
LEMMA RecalledType ==
  ASSUME NEW s \in Seq(Effects), NEW e \in Effects
  PROVE  Recalled(Append(s, e)) \in Seq(Effects)
<1>1. Append(s, e) \in Seq(Effects)
  OBVIOUS
<1>2. Append(s, e) # << >> => Tail(Append(s, e)) \in Seq(Effects)
  BY <1>1
<1>3. Append(s, e) # << >>
  BY AppendProperties
<1>4. QED
  BY <1>1, <1>2, <1>3 DEF Recalled

LEMMA EffectType ==
  ASSUME NEW r \in Replica, NEW c \in CommandSet
  PROVE  Effect(r, c) \in Effects /\ Effect(r, c).id = c.id
BY DEF Effect, Effects, CommandSet, CommandId, Seals, Takes

LEMMA RememberFields ==
  ASSUME NEW r \in Replica, NEW id, NEW result, [id |-> id, result |-> result] \in Effects
  PROVE  LET q == Remember(r, id, result)
             e == [id |-> id, result |-> result]
         IN /\ q \in Replica
            /\ q.epoch = r.epoch /\ q.slot = r.slot /\ q.members = r.members
            /\ q.lease = r.lease /\ q.removed = r.removed
            /\ q.results = Recalled(Append(r.results, e))
            /\ q.passed = Append(r.passed, e)
<1> DEFINE e == [id |-> id, result |-> result]
<1>1. r.results \in Seq(Effects) /\ r.passed \in Seq(Effects)
  BY DEF Replica
<1>2. Recalled(Append(r.results, e)) \in Seq(Effects) /\ Append(r.passed, e) \in Seq(Effects)
  BY <1>1, RecalledType
<1>3. Remember(r, id, result) =
        [r EXCEPT !.results = Recalled(Append(r.results, e)), !.passed = Append(@, e)]
  BY DEF Remember, Recalled
<1> HIDE DEF e
<1>4. QED
  BY <1>2, <1>3 DEF Replica, e

(* One field at a time. *)
LEMMA SetEpoch ==
  ASSUME NEW s \in Replica, NEW v \in Nat, NEW q, q = [s EXCEPT !.epoch = v]
  PROVE  /\ q \in Replica
         /\ q.epoch = v /\ q.slot = s.slot /\ q.members = s.members /\ q.lease = s.lease
         /\ q.removed = s.removed /\ q.results = s.results /\ q.passed = s.passed
BY DEF Replica

LEMMA SetSlot ==
  ASSUME NEW s \in Replica, NEW v \in Nat, NEW q, q = [s EXCEPT !.slot = v]
  PROVE  /\ q \in Replica
         /\ q.epoch = s.epoch /\ q.slot = v /\ q.members = s.members /\ q.lease = s.lease
         /\ q.removed = s.removed /\ q.results = s.results /\ q.passed = s.passed
BY DEF Replica

LEMMA SetMembers ==
  ASSUME NEW s \in Replica, NEW v \in SUBSET Node, NEW q, q = [s EXCEPT !.members = v]
  PROVE  /\ q \in Replica
         /\ q.epoch = s.epoch /\ q.slot = s.slot /\ q.members = v /\ q.lease = s.lease
         /\ q.removed = s.removed /\ q.results = s.results /\ q.passed = s.passed
BY DEF Replica

LEMMA SetLease ==
  ASSUME NEW s \in Replica, NEW v \in Lease, NEW q, q = [s EXCEPT !.lease = v]
  PROVE  /\ q \in Replica
         /\ q.epoch = s.epoch /\ q.slot = s.slot /\ q.members = s.members /\ q.lease = v
         /\ q.removed = s.removed /\ q.results = s.results /\ q.passed = s.passed
BY DEF Replica

LEMMA SetRemoved ==
  ASSUME NEW s \in Replica, NEW v \in SUBSET Node, NEW q, q = [s EXCEPT !.removed = v]
  PROVE  /\ q \in Replica
         /\ q.epoch = s.epoch /\ q.slot = s.slot /\ q.members = s.members /\ q.lease = s.lease
         /\ q.removed = v /\ q.results = s.results /\ q.passed = s.passed
BY DEF Replica

(* Replica._advance, field by field. *)
LEMMA AdvancedFields ==
  ASSUME NEW r \in Replica, NEW c \in CommandSet
  PROVE  LET q == Advanced(r, c)
             new == ~Applied(r, c.id)
         IN /\ q \in Replica
            /\ q.epoch = IF Seals(r, c) THEN r.epoch + 1 ELSE r.epoch
            /\ q.slot = IF Seals(r, c) THEN 0 ELSE r.slot + 1
            /\ q.members = IF Seals(r, c) THEN c.members ELSE r.members
            /\ q.lease = IF Takes(r, c) THEN c.value ELSE r.lease
            /\ q.removed = IF new /\ c.op = "marks" THEN c.marks ELSE r.removed
            /\ q.results = IF new THEN Recalled(Append(r.results, Effect(r, c))) ELSE r.results
            /\ q.passed = IF new THEN Append(r.passed, Effect(r, c)) ELSE r.passed
<1> DEFINE q == Advanced(r, c)
           m(b) == Remember(r, c.id, b)
<1>1. \A b \in BOOLEAN : [id |-> c.id, result |-> b] \in Effects
  BY DEF Effects, CommandSet, CommandId
<1>2. /\ r.epoch \in Nat /\ r.slot \in Nat
      /\ c.members \in SUBSET Node /\ c.marks \in SUBSET Node /\ c.value \in Lease
      /\ c.op \in {"voters", "lease", "marks"}
  BY DEF Replica, CommandSet
<1>3. ASSUME NEW b \in BOOLEAN
      PROVE  /\ m(b) \in Replica
             /\ m(b).epoch = r.epoch /\ m(b).slot = r.slot /\ m(b).members = r.members
             /\ m(b).lease = r.lease /\ m(b).removed = r.removed
             /\ m(b).results = Recalled(Append(r.results, [id |-> c.id, result |-> b]))
             /\ m(b).passed = Append(r.passed, [id |-> c.id, result |-> b])
  BY <1>1, RememberFields
<1>4. CASE Applied(r, c.id)
  <2>1. q = [r EXCEPT !.slot = r.slot + 1] /\ r.slot + 1 \in Nat
    BY <1>2, <1>4 DEF Advanced
  <2> HIDE DEF q
  <2>2. /\ q \in Replica
        /\ q.epoch = r.epoch /\ q.slot = r.slot + 1 /\ q.members = r.members
        /\ q.lease = r.lease /\ q.removed = r.removed
        /\ q.results = r.results /\ q.passed = r.passed
    BY <2>1, SetSlot
  <2>3. QED
    BY <1>4, <2>2 DEF q, Seals, Takes
<1>5. CASE ~Applied(r, c.id) /\ c.op = "voters" /\ c.epoch # r.epoch
  <2> DEFINE s == m(FALSE)
  <2>1. q = [s EXCEPT !.slot = @ + 1]
    BY <1>5 DEF Advanced, Reconfigured
  <2>2. /\ s \in Replica
        /\ s.epoch = r.epoch /\ s.slot = r.slot /\ s.members = r.members
        /\ s.lease = r.lease /\ s.removed = r.removed
        /\ s.results = Recalled(Append(r.results, Effect(r, c)))
        /\ s.passed = Append(r.passed, Effect(r, c))
    <3>1. Effect(r, c) = [id |-> c.id, result |-> FALSE]
      BY <1>5 DEF Effect, Seals, Takes
    <3>2. QED
      BY <1>3, <3>1
  <2> HIDE DEF s
  <2>3. /\ q \in Replica
        /\ q.epoch = s.epoch /\ q.slot = s.slot + 1 /\ q.members = s.members
        /\ q.lease = s.lease /\ q.removed = s.removed
        /\ q.results = s.results /\ q.passed = s.passed
    <3>1. s \in Replica /\ s.slot + 1 \in Nat
      BY <1>2, <2>2
    <3> HIDE DEF q
    <3>2. QED
      BY <2>1, <3>1, SetSlot
  <2> HIDE DEF q
  <2>4. QED
    BY <1>5, <2>2, <2>3 DEF q, Seals, Takes
<1>6. CASE Seals(r, c)
  <2> DEFINE s == m(TRUE)
  <2>1. q = [s EXCEPT !.members = c.members, !.epoch = @ + 1, !.slot = 0]
    BY <1>6 DEF Advanced, Reconfigured, Seals
  <2>2. /\ s \in Replica
        /\ s.epoch = r.epoch /\ s.slot = r.slot /\ s.members = r.members
        /\ s.lease = r.lease /\ s.removed = r.removed
        /\ s.results = Recalled(Append(r.results, Effect(r, c)))
        /\ s.passed = Append(r.passed, Effect(r, c))
    <3>1. Effect(r, c) = [id |-> c.id, result |-> TRUE]
      BY <1>6 DEF Effect, Seals, Takes
    <3>2. QED
      BY <1>3, <3>1
  <2> HIDE DEF s
  <2>3. /\ q \in Replica
        /\ q.epoch = s.epoch + 1 /\ q.slot = 0 /\ q.members = c.members
        /\ q.lease = s.lease /\ q.removed = s.removed
        /\ q.results = s.results /\ q.passed = s.passed
    <3> DEFINE t == [s EXCEPT !.members = c.members]
               u == [t EXCEPT !.epoch = s.epoch + 1]
    <3>1. /\ t \in Replica /\ t.epoch = s.epoch /\ t.slot = s.slot /\ t.members = c.members
          /\ t.lease = s.lease /\ t.removed = s.removed
          /\ t.results = s.results /\ t.passed = s.passed
      <4>1. s \in Replica /\ c.members \in SUBSET Node
        BY <1>2, <2>2
      <4>2. t = [s EXCEPT !.members = c.members]
        OBVIOUS
      <4> HIDE DEF t, u
      <4>3. QED
        BY <4>1, <4>2, SetMembers
    <3>2. s.epoch + 1 \in Nat
      BY <1>2, <2>2
    <3>3. q = [u EXCEPT !.slot = 0]
      BY <2>1
    <3> HIDE DEF q, t
    <3>4. /\ u \in Replica /\ u.epoch = s.epoch + 1 /\ u.slot = t.slot /\ u.members = t.members
          /\ u.lease = t.lease /\ u.removed = t.removed
          /\ u.results = t.results /\ u.passed = t.passed
      BY <3>1, <3>2, SetEpoch
    <3> HIDE DEF u
    <3>5. QED
      BY <3>1, <3>3, <3>4, SetSlot
  <2> HIDE DEF q
  <2>4. QED
    BY <1>6, <2>2, <2>3 DEF q, Seals, Takes
<1>7. CASE Takes(r, c)
  <2> DEFINE s == m(TRUE)
  <2>1. q = [[s EXCEPT !.lease = c.value] EXCEPT !.slot = @ + 1]
    BY <1>7 DEF Advanced, ApplyLease, Takes
  <2>2. /\ s \in Replica
        /\ s.epoch = r.epoch /\ s.slot = r.slot /\ s.members = r.members
        /\ s.lease = r.lease /\ s.removed = r.removed
        /\ s.results = Recalled(Append(r.results, Effect(r, c)))
        /\ s.passed = Append(r.passed, Effect(r, c))
    <3>1. Effect(r, c) = [id |-> c.id, result |-> TRUE]
      BY <1>7 DEF Effect, Seals, Takes
    <3>2. QED
      BY <1>3, <3>1
  <2> HIDE DEF s
  <2>3. /\ q \in Replica
        /\ q.epoch = s.epoch /\ q.slot = s.slot + 1 /\ q.members = s.members
        /\ q.lease = c.value /\ q.removed = s.removed
        /\ q.results = s.results /\ q.passed = s.passed
    <3> DEFINE t == [s EXCEPT !.lease = c.value]
    <3>1. /\ t \in Replica /\ t.epoch = s.epoch /\ t.slot = s.slot /\ t.members = s.members
          /\ t.lease = c.value /\ t.removed = s.removed
          /\ t.results = s.results /\ t.passed = s.passed
      BY <1>2, <2>2, SetLease
    <3>2. q = [t EXCEPT !.slot = @ + 1]
      BY <2>1
    <3>3. t.slot + 1 \in Nat
      BY <1>2, <2>2, <3>1
    <3> HIDE DEF q, t
    <3>4. QED
      BY <3>1, <3>2, <3>3, SetSlot
  <2> HIDE DEF q
  <2>4. QED
    BY <1>7, <2>2, <2>3 DEF q, Seals, Takes
<1>8. CASE ~Applied(r, c.id) /\ c.op = "lease" /\ r.lease # c.expected
  <2> DEFINE s == m(FALSE)
  <2>1. q = [s EXCEPT !.slot = @ + 1]
    BY <1>8 DEF Advanced, ApplyLease
  <2>2. /\ s \in Replica
        /\ s.epoch = r.epoch /\ s.slot = r.slot /\ s.members = r.members
        /\ s.lease = r.lease /\ s.removed = r.removed
        /\ s.results = Recalled(Append(r.results, Effect(r, c)))
        /\ s.passed = Append(r.passed, Effect(r, c))
    <3>1. Effect(r, c) = [id |-> c.id, result |-> FALSE]
      BY <1>8 DEF Effect, Seals, Takes
    <3>2. QED
      BY <1>3, <3>1
  <2> HIDE DEF s
  <2>3. /\ q \in Replica
        /\ q.epoch = s.epoch /\ q.slot = s.slot + 1 /\ q.members = s.members
        /\ q.lease = s.lease /\ q.removed = s.removed
        /\ q.results = s.results /\ q.passed = s.passed
    <3>1. s \in Replica /\ s.slot + 1 \in Nat
      BY <1>2, <2>2
    <3> HIDE DEF q
    <3>2. QED
      BY <2>1, <3>1, SetSlot
  <2> HIDE DEF q
  <2>4. QED
    BY <1>8, <2>2, <2>3 DEF q, Seals, Takes
<1>9. CASE ~Applied(r, c.id) /\ c.op = "marks"
  <2> DEFINE s == m(TRUE)
  <2>1. q = [[s EXCEPT !.removed = c.marks] EXCEPT !.slot = @ + 1]
    BY <1>9 DEF Advanced, ApplyMarks
  <2>2. /\ s \in Replica
        /\ s.epoch = r.epoch /\ s.slot = r.slot /\ s.members = r.members
        /\ s.lease = r.lease /\ s.removed = r.removed
        /\ s.results = Recalled(Append(r.results, Effect(r, c)))
        /\ s.passed = Append(r.passed, Effect(r, c))
    <3>1. Effect(r, c) = [id |-> c.id, result |-> TRUE]
      BY <1>9 DEF Effect, Seals, Takes
    <3>2. QED
      BY <1>3, <3>1
  <2> HIDE DEF s
  <2>3. /\ q \in Replica
        /\ q.epoch = s.epoch /\ q.slot = s.slot + 1 /\ q.members = s.members
        /\ q.lease = s.lease /\ q.removed = c.marks
        /\ q.results = s.results /\ q.passed = s.passed
    <3> DEFINE t == [s EXCEPT !.removed = c.marks]
    <3>1. /\ t \in Replica /\ t.epoch = s.epoch /\ t.slot = s.slot /\ t.members = s.members
          /\ t.lease = s.lease /\ t.removed = c.marks
          /\ t.results = s.results /\ t.passed = s.passed
      <4>1. s \in Replica /\ c.marks \in SUBSET Node
        BY <1>2, <2>2
      <4> HIDE DEF t
      <4>2. QED
        BY <4>1, SetRemoved DEF t
    <3>2. q = [t EXCEPT !.slot = @ + 1]
      BY <2>1
    <3>3. t.slot + 1 \in Nat
      BY <1>2, <2>2, <3>1
    <3> HIDE DEF q, t
    <3>4. QED
      BY <3>1, <3>2, <3>3, SetSlot
  <2> HIDE DEF q
  <2>4. QED
    BY <1>9, <2>2, <2>3 DEF q, Seals, Takes
<1>10. QED
  BY <1>2, <1>4, <1>5, <1>6, <1>7, <1>8, <1>9 DEF Seals, Takes

-----------------------------------------------------------------------------
(* A state is a replica but for the voters it knows. *)

LEMMA ReplicaEqual ==
  ASSUME NEW q \in Replica, NEW r \in Replica,
         q.epoch = r.epoch, q.slot = r.slot, q.members = r.members, q.lease = r.lease,
         q.removed = r.removed, q.results = r.results, q.passed = r.passed
  PROVE  q = r
BY DEF Replica

LEMMA StateFields ==
  ASSUME NEW r \in Replica
  PROVE  /\ State(r) \in Replica
         /\ State(r).epoch = r.epoch /\ State(r).slot = r.slot /\ State(r).members = {}
         /\ State(r).lease = r.lease /\ State(r).removed = r.removed
         /\ State(r).results = r.results /\ State(r).passed = r.passed
<1> DEFINE q == State(r)
<1>1. {} \in SUBSET Node /\ q = [r EXCEPT !.members = {}]
  BY DEF State
<1> HIDE DEF q
<1>2. /\ q \in Replica
      /\ q.epoch = r.epoch /\ q.slot = r.slot /\ q.members = {} /\ q.lease = r.lease
      /\ q.removed = r.removed /\ q.results = r.results /\ q.passed = r.passed
  BY <1>1, SetMembers
<1>3. QED
  BY <1>2 DEF q

(* Where a command takes a replica does not depend on them. *)
LEMMA StateAdvanced ==
  ASSUME NEW r \in Replica, NEW c \in CommandSet
  PROVE  State(Advanced(r, c)) = State(Advanced(State(r), c))
<1> DEFINE s == State(r)
           q == Advanced(r, c)
           p == Advanced(s, c)
<1>1. /\ s \in Replica /\ s.epoch = r.epoch /\ s.slot = r.slot /\ s.lease = r.lease
      /\ s.removed = r.removed /\ s.results = r.results /\ s.passed = r.passed
  BY StateFields
<1>2. /\ Applied(s, c.id) = Applied(r, c.id) /\ Seals(s, c) = Seals(r, c)
      /\ Takes(s, c) = Takes(r, c) /\ Effect(s, c) = Effect(r, c)
  BY <1>1 DEF Applied, Seals, Takes, Effect
<1> HIDE DEF s
<1>3. q \in Replica /\ p \in Replica
  BY <1>1, AdvancedFields
<1>4. q.epoch = p.epoch /\ q.slot = p.slot
  BY <1>1, <1>2, AdvancedFields
<1>5. q.lease = p.lease /\ q.removed = p.removed
  BY <1>1, <1>2, AdvancedFields
<1>6. q.results = p.results /\ q.passed = p.passed
  BY <1>1, <1>2, AdvancedFields
<1> HIDE DEF q, p
<1>7. State(q) = State(p)
  <2>1. State(q) \in Replica /\ State(p) \in Replica
    BY <1>3, StateFields
  <2>2. /\ State(q).epoch = State(p).epoch /\ State(q).slot = State(p).slot
        /\ State(q).members = State(p).members /\ State(q).lease = State(p).lease
        /\ State(q).removed = State(p).removed /\ State(q).results = State(p).results
        /\ State(q).passed = State(p).passed
    BY <1>3, <1>4, <1>5, <1>6, StateFields
  <2>3. QED
    BY <2>1, <2>2, ReplicaEqual
<1>8. QED
  BY <1>7 DEF q, p, s

-----------------------------------------------------------------------------
(* Effects only come behind effects, positions only go up. *)

LEMMA PrefixSelf == \A s \in Seq(Effects) : Prefix(s, s)
BY DEF Prefix

LEMMA PrefixTransitive ==
  ASSUME NEW s \in Seq(Effects), NEW t \in Seq(Effects), NEW u \in Seq(Effects),
         Prefix(s, t), Prefix(t, u)
  PROVE  Prefix(s, u)
BY DEF Prefix

LEMMA PrefixAppend ==
  ASSUME NEW s \in Seq(Effects), NEW e \in Effects
  PROVE  Prefix(s, Append(s, e))
BY DEF Prefix

LEMMA PrefixToSet ==
  ASSUME NEW s \in Seq(Effects), NEW t \in Seq(Effects), Prefix(s, t)
  PROVE  ToSet(s) \subseteq ToSet(t)
BY DEF Prefix, ToSet

LEMMA AdvancedPrefix ==
  ASSUME NEW r \in Replica, NEW c \in CommandSet
  PROVE  Prefix(r.passed, Advanced(r, c).passed)
<1>1. r.passed \in Seq(Effects) /\ Effect(r, c) \in Effects
  BY EffectType DEF Replica
<1>2. Prefix(r.passed, r.passed) /\ Prefix(r.passed, Append(r.passed, Effect(r, c)))
  BY <1>1, PrefixSelf, PrefixAppend
<1>3. QED
  BY <1>2, AdvancedFields

LEMMA AdvancedBefore ==
  ASSUME NEW r \in Replica, NEW c \in CommandSet
  PROVE  Before(r, Advanced(r, c))
<1>1. r.epoch \in Nat /\ r.slot \in Nat
  BY DEF Replica
<1>2. QED
  BY <1>1, AdvancedFields DEF Before

LEMMA BeforeTransitive ==
  ASSUME NEW q \in Replica, NEW r \in Replica, NEW s \in Replica, Before(q, r), Before(r, s)
  PROVE  Before(q, s)
<1>1. /\ q.epoch \in Nat /\ q.slot \in Nat /\ r.epoch \in Nat /\ r.slot \in Nat
      /\ s.epoch \in Nat /\ s.slot \in Nat
  BY DEF Replica
<1>2. QED
  BY <1>1 DEF Before

LEMMA ToSetAppend ==
  ASSUME NEW s \in Seq(Effects), NEW e \in Effects
  PROVE  ToSet(Append(s, e)) = ToSet(s) \cup {e}
<1>1. /\ DOMAIN Append(s, e) = 1..Len(s) + 1 /\ DOMAIN s = 1..Len(s) /\ Len(s) \in Nat
      /\ \A i \in 1..Len(s) : Append(s, e)[i] = s[i]
      /\ Append(s, e)[Len(s) + 1] = e
  BY AppendProperties
<1>2. QED
  BY <1>1 DEF ToSet

(* Forgetting old results keeps the rest as they are. *)
LEMMA RecalledSet ==
  ASSUME NEW s \in Seq(Effects), NEW e \in Effects
  PROVE  ToSet(Recalled(Append(s, e))) \subseteq ToSet(s) \cup {e}
<1> DEFINE t == Append(s, e)
<1>1. t \in Seq(Effects) /\ t # << >>
  BY AppendProperties
<1>2. ToSet(t) = ToSet(s) \cup {e}
  BY ToSetAppend
<1> HIDE DEF t
<1>3. ToSet(Tail(t)) \subseteq ToSet(t)
  BY <1>1, HeadTailProperties DEF ToSet
<1>4. QED
  BY <1>2, <1>3 DEF Recalled, t

LEMMA AdvancedResults ==
  ASSUME NEW r \in Replica, NEW c \in CommandSet, ResultsOK(r)
  PROVE  ResultsOK(Advanced(r, c))
<1> DEFINE q == Advanced(r, c)
           e == Effect(r, c)
<1>1. r.results \in Seq(Effects) /\ r.passed \in Seq(Effects) /\ e \in Effects
  BY EffectType DEF Replica
<1>2. CASE Applied(r, c.id)
  BY <1>2, AdvancedFields DEF ResultsOK
<1>3. CASE ~Applied(r, c.id)
  <2>1. q.results = Recalled(Append(r.results, e)) /\ q.passed = Append(r.passed, e)
    BY <1>3, AdvancedFields
  <2>2. ToSet(q.results) \subseteq ToSet(q.passed)
    BY <1>1, <2>1, ToSetAppend, RecalledSet DEF ResultsOK
  <2>3. ASSUME Len(q.passed) <= Remembered
        PROVE  q.results = q.passed
    <3> HIDE DEF e, q
    <3>1. Len(Append(r.passed, e)) = Len(r.passed) + 1 /\ Len(r.passed) \in Nat
      BY <1>1, AppendProperties
    <3>2. r.results = r.passed
      BY <2>1, <2>3, <3>1, ClusterAssumption DEF ResultsOK
    <3>3. Recalled(Append(r.passed, e)) = Append(r.passed, e)
      BY <2>1, <2>3, <3>1, ClusterAssumption DEF Recalled
    <3>4. QED
      BY <2>1, <3>2, <3>3
  <2>4. QED
    BY <2>2, <2>3 DEF ResultsOK
<1>4. QED
  BY <1>2, <1>3

-----------------------------------------------------------------------------
(* The setting, clocks and leases. *)

LEMMA PlanFacts ==
  ASSUME TypeOK
  PROVE  /\ plan \in Settings
         /\ plan.nodes \subseteq Node /\ plan.genesis \subseteq plan.nodes /\ plan.genesis # {}
         /\ plan.skew \in [Node -> Nat]
         /\ \A c \in Call : /\ Here(c) \in Node /\ Kind(c) \in Tasks
                            /\ Who(c) \in plan.nodes
         /\ \A n, m \in Node : plan.skew[n] <= plan.skew[m] + Margin
<1>1. plan \in Plans
  BY DEF TypeOK
<1>2. /\ plan \in Settings /\ plan.genesis \subseteq plan.nodes
      /\ \A c \in Call : plan.work[c].who \in plan.nodes
      /\ \A n, m \in Node : plan.skew[n] <= plan.skew[m] + Margin
  BY <1>1, ClusterAssumption
<1>3. /\ plan.nodes \subseteq Node /\ plan.genesis # {} /\ plan.skew \in [Node -> Nat]
      /\ plan.work \in [Call -> [kind : Tasks, node : Node, who : Node]]
  BY <1>2 DEF Settings
<1>4. QED
  BY <1>2, <1>3 DEF Here, Kind, Who

LEMMA ClockType ==
  ASSUME TypeOK
  PROVE  \A n, m \in Node : Clock(n) \in Nat /\ Clock(n) <= Clock(m) + Margin
<1>1. plan.skew \in [Node -> Nat] /\ \A n, m \in Node : plan.skew[n] <= plan.skew[m] + Margin
  BY PlanFacts
<1>2. now \in Nat /\ Margin \in Nat
  BY ClusterAssumption DEF TypeOK
<1>3. QED
  BY <1>1, <1>2 DEF Clock

LEMMA LaterTransitive ==
  ASSUME TypeOK, NEW A \in Lease, NEW B \in Lease, NEW C \in Lease, Later(A, B), Later(B, C)
  PROVE  Later(A, C)
<1>1. A.expires \in Nat /\ B.expires \in Nat /\ C.expires \in Nat
  BY DEF Lease
<1>2. \A n \in Node : Clock(n) \in Nat
  BY ClockType
<1>3. QED
  BY <1>1, <1>2 DEF Later, Over

LEMMA LaterStays ==
  ASSUME TypeOK, plan' = plan, now' \in Nat, now <= now', NEW A \in Lease, NEW B \in Lease
  PROVE  /\ Later(A, B) => Later(A, B)'
         /\ Timely(A) => Timely(A)'
<1>1. A.expires \in Nat /\ A.holder \in Node \cup {None}
  BY DEF Lease
<1>2. \A n \in Node : Clock(n) \in Nat /\ Clock(n)' \in Nat /\ Clock(n) <= Clock(n)'
  BY PlanFacts DEF Clock, TypeOK
<1>3. Later(A, B) => Later(A, B)'
  BY <1>1, <1>2 DEF Later, Over
<1>4. Timely(A) => Timely(A)'
  BY <1>1, <1>2, ClusterAssumption DEF Timely
<1>5. QED
  BY <1>3, <1>4

LEMMA CommandStays ==
  ASSUME TypeOK, plan' = plan, now' \in Nat, now <= now', NEW c \in CommandSet, CommandOK(c)
  PROVE  CommandOK(c)'
<1>1. c.expected \in Lease /\ c.value \in Lease
  BY DEF CommandSet
<1>2. QED
  BY <1>1, LaterStays DEF CommandOK

(* A lease is replaced only when its holder gave it up or its time is over. *)
LEMMA AdvancedLease ==
  ASSUME TypeOK, NEW r \in Replica, NEW c \in CommandSet, CommandOK(c), Timely(r.lease)
  PROVE  Later(r.lease, Advanced(r, c).lease) /\ Timely(Advanced(r, c).lease)
<1>1. CASE Takes(r, c)
  <2>1. Advanced(r, c).lease = c.value
    BY <1>1, AdvancedFields
  <2>2. QED
    BY <1>1, <2>1 DEF Takes, CommandOK
<1>2. CASE ~Takes(r, c)
  <2>1. Advanced(r, c).lease = r.lease
    BY <1>2, AdvancedFields
  <2>2. QED
    BY <2>1 DEF Later
<1>3. QED
  BY <1>1, <1>2

-----------------------------------------------------------------------------
(* What the threads do: each step is a new state of one thread and at most *)
(* one new command.                                                        *)

Updated(c) ==
  \E u \in Thread :
    /\ call' = [call EXCEPT ![c] = u]
    /\ u.adds \subseteq plan.nodes
    /\ u.told = None \/ u.told = call[c].told \/ u.told \in ToSet(View(c).results)
Proposes ==
  /\ sent' \subseteq CommandSet
  /\ \A d \in sent' : d \in sent \/ CommandOK(d)

LEMMA ThreadAt ==
  ASSUME NEW t \in Thread, NEW v \in Place
  PROVE  LET u == [t EXCEPT !.at = v]
         IN u \in Thread /\ u.told = t.told /\ u.adds = t.adds
BY DEF Thread

LEMMA ThreadThen ==
  ASSUME NEW t \in Thread, NEW v \in Place
  PROVE  LET u == [t EXCEPT !.then = v]
         IN u \in Thread /\ u.told = t.told /\ u.adds = t.adds
BY DEF Thread

LEMMA ThreadTries ==
  ASSUME NEW t \in Thread, NEW v \in Nat
  PROVE  LET u == [t EXCEPT !.tries = v]
         IN u \in Thread /\ u.told = t.told /\ u.adds = t.adds
BY DEF Thread

LEMMA ThreadId ==
  ASSUME NEW t \in Thread, NEW v \in CommandId \cup {None}
  PROVE  LET u == [t EXCEPT !.id = v]
         IN u \in Thread /\ u.told = t.told /\ u.adds = t.adds
BY DEF Thread

LEMMA ThreadTold ==
  ASSUME NEW t \in Thread, NEW v \in Effects \cup {None}
  PROVE  LET u == [t EXCEPT !.told = v]
         IN u \in Thread /\ u.told = v /\ u.adds = t.adds
BY DEF Thread

LEMMA ThreadAdds ==
  ASSUME NEW t \in Thread, NEW v \in SUBSET Node
  PROVE  LET u == [t EXCEPT !.adds = v]
         IN u \in Thread /\ u.told = t.told /\ u.adds = v
BY DEF Thread

LEMMA ThreadDrops ==
  ASSUME NEW t \in Thread, NEW v \in SUBSET Node
  PROVE  LET u == [t EXCEPT !.drops = v]
         IN u \in Thread /\ u.told = t.told /\ u.adds = t.adds
BY DEF Thread

LEMMA ThreadReplaces ==
  ASSUME NEW t \in Thread, NEW v \in SUBSET Node
  PROVE  LET u == [t EXCEPT !.replaces = v]
         IN u \in Thread /\ u.told = t.told /\ u.adds = t.adds
BY DEF Thread

LEMMA ThreadBefore ==
  ASSUME NEW t \in Thread, NEW v \in SUBSET Node
  PROVE  LET u == [t EXCEPT !.before = v]
         IN u \in Thread /\ u.told = t.told /\ u.adds = t.adds
BY DEF Thread

LEMMA ThreadMarked ==
  ASSUME NEW t \in Thread, NEW v \in BOOLEAN
  PROVE  LET u == [t EXCEPT !.marked = v]
         IN u \in Thread /\ u.told = t.told /\ u.adds = t.adds
BY DEF Thread

LEMMA ThreadOk ==
  ASSUME NEW t \in Thread, NEW v \in BOOLEAN
  PROVE  LET u == [t EXCEPT !.ok = v]
         IN u \in Thread /\ u.told = t.told /\ u.adds = t.adds
BY DEF Thread

LEMMA ThreadEpoch ==
  ASSUME NEW t \in Thread, NEW v \in Nat
  PROVE  LET u == [t EXCEPT !.epoch = v]
         IN u \in Thread /\ u.told = t.told /\ u.adds = t.adds
BY DEF Thread
(* One thread's step changes that thread. *)
LEMMA UpdatedBy ==
  ASSUME TypeOK, MemberInv, NEW c \in Call, NEW u \in Thread,
         call' = [call EXCEPT ![c] = u],
         u.adds = call[c].adds, u.told = call[c].told
  PROVE  Updated(c)
BY DEF Updated, MemberInv

LEMMA CommandType ==
  ASSUME TypeOK, NEW c \in Call, call[c].tries < MaxTries, NEW op \in {"voters", "lease", "marks"}
  PROVE  Command(c, op) \in CommandSet /\ Command(c, op).op = op /\ Command(c, op).members = {}
<1>1. View(c).epoch \in Nat /\ call[c].tries \in Nat
  BY PlanFacts DEF TypeOK, View, Replica, Thread
<1>2. <<c, call[c].tries + 1>> \in CommandId
  BY <1>1, ClusterAssumption DEF CommandId
<1>3. NoLease \in Lease
  BY DEF NoLease, Lease
<1>4. QED
  BY <1>1, <1>2, <1>3 DEF Command, CommandSet

LEMMA MarksCommand ==
  ASSUME TypeOK, NEW c \in Call, call[c].tries < MaxTries, NEW S \in SUBSET Node
  PROVE  Marks(c, S) \in CommandSet /\ CommandOK(Marks(c, S))
<1> DEFINE k == Command(c, "marks")
           d == [k EXCEPT !.marks = S]
<1>1. k \in CommandSet /\ k.op = "marks" /\ k.members = {}
  BY CommandType
<1> HIDE DEF k
<1>2. d \in CommandSet /\ d.op = "marks" /\ d.members = {}
  BY <1>1 DEF CommandSet
<1>3. QED
  BY <1>2 DEF CommandOK, Marks, k

LEMMA VotersCommand ==
  ASSUME TypeOK, NEW c \in Call, call[c].tries < MaxTries, NEW S \in SUBSET plan.nodes,
         NEW d, d = [Command(c, "voters") EXCEPT !.members = S]
  PROVE  d \in CommandSet /\ CommandOK(d)
<1> DEFINE k == Command(c, "voters")
<1>1. k \in CommandSet /\ k.op = "voters" /\ S \in SUBSET Node
  BY CommandType, PlanFacts
<1> HIDE DEF k
<1>2. d = [k EXCEPT !.members = S]
  BY DEF k
<1>3. d \in CommandSet /\ d.op = "voters" /\ d.members = S
  BY <1>1, <1>2 DEF CommandSet
<1>4. QED
  BY <1>3 DEF CommandOK

LEMMA SubmitsUpdate ==
  ASSUME TypeOK, MemberInv, NEW c \in Call, NEW d \in CommandSet, CommandOK(d),
         NEW where \in Place, NEW then \in Place, Submits(c, d, where, then)
  PROVE  Updated(c) /\ Proposes
<1> DEFINE t0 == call[c]
           t1 == [t0 EXCEPT !.at = where]
           t2 == [t1 EXCEPT !.then = then]
           t3 == [t2 EXCEPT !.tries = t0.tries + 1]
           t4 == [t3 EXCEPT !.id = d.id]
           t5 == [t4 EXCEPT !.told = None]
<1>1. call' = [call EXCEPT ![c] = t5]
  BY DEF Submits, TypeOK
<1>2. t0 \in Thread /\ t0.tries + 1 \in Nat /\ d.id \in CommandId \cup {None}
  BY DEF TypeOK, Thread, CommandSet
<1>3. t0.adds \subseteq plan.nodes
  BY DEF MemberInv
<1>4. t5 \in Thread /\ t5.told = None /\ t5.adds = t0.adds
  <2> HIDE DEF t0
  <2>1. t1 \in Thread /\ t1.adds = t0.adds
    BY <1>2, ThreadAt
  <2> HIDE DEF t1
  <2>2. t2 \in Thread /\ t2.adds = t0.adds
    BY <2>1, ThreadThen
  <2> HIDE DEF t2
  <2>3. t3 \in Thread /\ t3.adds = t0.adds
    BY <1>2, <2>2, ThreadTries
  <2> HIDE DEF t3
  <2>4. t4 \in Thread /\ t4.adds = t0.adds
    BY <1>2, <2>3, ThreadId
  <2> HIDE DEF t4
  <2>5. QED
    BY <2>4, ThreadTold
<1>5. Updated(c)
  <2> HIDE DEF t5
  <2>1. QED
    BY <1>1, <1>3, <1>4 DEF Updated
<1>6. Proposes
  BY DEF Submits, Proposes, TypeOK
<1>7. QED
  BY <1>5, <1>6

(* Only the place of a thread changes, or its place and a flag. *)
LEMMA MovesTo ==
  ASSUME TypeOK, MemberInv, NEW c \in Call, NEW p \in Place,
         call' = [call EXCEPT ![c].at = p]
  PROVE  Updated(c)
<1> DEFINE u == [call[c] EXCEPT !.at = p]
<1>1. call' = [call EXCEPT ![c] = u]
  BY DEF TypeOK
<1>2. call[c] \in Thread
  BY DEF TypeOK
<1>3. u \in Thread /\ u.told = call[c].told /\ u.adds = call[c].adds
  BY <1>2, ThreadAt
<1> HIDE DEF u
<1>4. QED
  BY <1>1, <1>3, UpdatedBy

LEMMA ToldStep ==
  ASSUME TypeOK, MemberInv, NEW c \in Call, Told(c)
  PROVE  Updated(c) /\ Proposes
<1> DEFINE t0 == call[c]
           e == Answer(View(c), call[c].id)
           m == Kind(c) = "leave" /\ call[c].then = "looking"
           t1 == [t0 EXCEPT !.at = t0.then]
           t2 == [t1 EXCEPT !.told = e]
           t3 == [t2 EXCEPT !.marked = m]
<1>1. call' = [call EXCEPT ![c] = t3]
  BY DEF Told, TypeOK
<1>2. t0 \in Thread /\ t0.then \in Place /\ m \in BOOLEAN
  BY DEF TypeOK, Thread
<1>3. e \in ToSet(View(c).results)
  BY DEF Told, Applied, Answer
<1>4. e \in Effects \cup {None}
  <2>1. View(c).results \in Seq(Effects)
    BY PlanFacts DEF TypeOK, View, Replica
  <2> HIDE DEF e
  <2>2. QED
    BY <1>3, <2>1 DEF ToSet
<1>5. t3 \in Thread /\ t3.told = e /\ t3.adds = t0.adds
  <2> HIDE DEF t0, e, m
  <2>1. t1 \in Thread /\ t1.adds = t0.adds
    BY <1>2, ThreadAt
  <2> HIDE DEF t1
  <2>2. t2 \in Thread /\ t2.adds = t0.adds /\ t2.told = e
    BY <1>4, <2>1, ThreadTold
  <2> HIDE DEF t2
  <2>3. QED
    BY <1>2, <2>2, ThreadMarked
<1>6. t0.adds \subseteq plan.nodes
  BY DEF MemberInv
<1>7. Updated(c)
  <2> HIDE DEF t3, e
  <2>1. QED
    BY <1>1, <1>3, <1>5, <1>6 DEF Updated
<1>8. Proposes
  BY DEF Told, Proposes, TypeOK
<1>9. QED
  BY <1>7, <1>8

LEMMA GiveUpStep ==
  ASSUME TypeOK, MemberInv, NEW c \in Call, GiveUp(c)
  PROVE  Updated(c) /\ Proposes
<1>1. call[c].then \in Place
  BY DEF TypeOK, Thread
<1>2. Updated(c)
  BY <1>1, MovesTo DEF GiveUp
<1>3. Proposes
  BY DEF GiveUp, Proposes, TypeOK
<1>4. QED
  BY <1>2, <1>3

(* The lease asked for is later than the one it replaces. *)
LEMMA TryAcquireStep ==
  ASSUME TypeOK, MemberInv, NEW c \in Call, TryAcquire(c), Timely(View(c).lease)
  PROVE  Updated(c) /\ Proposes
<1> DEFINE A == View(c).lease
           B == [holder |-> Here(c), expires |-> Clock(Here(c)) + TTL]
           k == Command(c, "lease")
           e == [k EXCEPT !.expected = A]
           d == [e EXCEPT !.value = B]
<1>1. Here(c) \in Node /\ Clock(Here(c)) \in Nat /\ TTL \in Nat
  BY PlanFacts, ClockType, ClusterAssumption
<1>2. A \in Lease /\ B \in Lease
  BY <1>1 DEF TypeOK, View, Replica, Lease
<1>3. call[c].tries < MaxTries
  BY DEF TryAcquire, Submits
<1>4. d \in CommandSet /\ d.members = {} /\ d.expected = A /\ d.value = B
  <2>1. k \in CommandSet /\ k.members = {}
    BY <1>3, CommandType
  <2> HIDE DEF A, B, k
  <2>2. e \in CommandSet /\ e.members = {} /\ e.expected = A
    BY <1>2, <2>1 DEF CommandSet
  <2> HIDE DEF e
  <2>3. QED
    BY <1>2, <2>2 DEF CommandSet
<1>5. Later(A, B) /\ Timely(B)
  <2>1. A.holder \in {None, Here(c)} \/ A.expires <= Clock(Here(c))
    BY DEF TryAcquire
  <2>2. A.expires \in Nat
    BY <1>2 DEF Lease
  <2>3. CASE A.holder = Here(c)
    BY <1>1, <2>2, <2>3, ClusterAssumption DEF Later, Timely
  <2>4. CASE A.holder = None \/ A.expires <= Clock(Here(c))
    BY <1>1, <2>4 DEF Later, Timely, Over
  <2>5. QED
    BY <2>1, <2>3, <2>4
<1>6. CommandOK(d)
  BY <1>4, <1>5 DEF CommandOK
<1>7. Submits(c, d, "waiting", "between")
  BY DEF TryAcquire
<1>8. "waiting" \in Place /\ "between" \in Place
  BY DEF Place
<1> HIDE DEF d
<1>9. QED
  BY <1>4, <1>6, <1>7, <1>8, SubmitsUpdate

LEMMA BeginStep ==
  ASSUME TypeOK, MemberInv, NEW c \in Call, BeginAdd(c) \/ BeginRemove(c) \/ BeginLeave(c)
  PROVE  Updated(c) /\ Proposes
<1> DEFINE t0 == call[c]
           t1 == [t0 EXCEPT !.at = "looking"]
           m1 == [t0 EXCEPT !.at = "marking"]
<1>1. t0 \in Thread /\ "looking" \in Place /\ "marking" \in Place
  BY DEF TypeOK, Place
<1>2. Who(c) \in plan.nodes /\ {Who(c)} \in SUBSET Node
  BY PlanFacts
<1>3. /\ t1 \in Thread /\ t1.told = t0.told /\ t1.adds = t0.adds
      /\ m1 \in Thread /\ m1.told = t0.told /\ m1.adds = t0.adds
  <2> HIDE DEF t0
  <2>1. QED
    BY <1>1, ThreadAt
<1>4. CASE BeginAdd(c)
  <2> DEFINE u == [t1 EXCEPT !.adds = {Who(c)}]
  <2>1. call' = [call EXCEPT ![c] = u]
    BY <1>4 DEF BeginAdd, TypeOK
  <2>2. u \in Thread /\ u.told = t0.told /\ u.adds = {Who(c)}
    <3> HIDE DEF t1
    <3>1. QED
      BY <1>2, <1>3, ThreadAdds
  <2> HIDE DEF u
  <2>3. QED
    BY <1>2, <1>4, <2>1, <2>2 DEF Updated, BeginAdd, Proposes, TypeOK
<1>5. CASE BeginRemove(c)
  <2> DEFINE u == [t1 EXCEPT !.drops = {Who(c)}]
  <2>1. call' = [call EXCEPT ![c] = u]
    BY <1>5 DEF BeginRemove, TypeOK
  <2>2. u \in Thread /\ u.told = t0.told /\ u.adds = t0.adds
    <3> HIDE DEF t1
    <3>1. QED
      BY <1>2, <1>3, ThreadDrops
  <2> HIDE DEF u
  <2>3. QED
    BY <1>5, <2>1, <2>2, UpdatedBy DEF BeginRemove, Proposes, TypeOK
<1>6. CASE BeginLeave(c)
  <2> DEFINE v == [m1 EXCEPT !.drops = {Who(c)}]
             u == [v EXCEPT !.before = View(c).removed]
  <2>1. call' = [call EXCEPT ![c] = u]
    BY <1>6 DEF BeginLeave, TypeOK
  <2>2. View(c).removed \in SUBSET Node
    BY PlanFacts DEF TypeOK, View, Replica
  <2>3. v \in Thread /\ v.told = t0.told /\ v.adds = t0.adds
    <3> HIDE DEF m1
    <3>1. QED
      BY <1>2, <1>3, ThreadDrops
  <2>4. u \in Thread /\ u.told = t0.told /\ u.adds = t0.adds
    <3> HIDE DEF v
    <3>1. QED
      BY <2>2, <2>3, ThreadBefore
  <2> HIDE DEF u
  <2>5. QED
    BY <1>6, <2>1, <2>4, UpdatedBy DEF BeginLeave, Proposes, TypeOK
<1>7. QED
  BY <1>4, <1>5, <1>6

LEMMA MarkStep ==
  ASSUME TypeOK, MemberInv, NEW c \in Call, Mark(c)
  PROVE  Updated(c) /\ Proposes
<1> DEFINE t0 == call[c]
           t1 == [t0 EXCEPT !.at = "looking"]
           u == [t1 EXCEPT !.marked = TRUE]
<1>1. /\ t0 \in Thread /\ "looking" \in Place /\ "waiting" \in Place
      /\ call[c].before \in SUBSET Node /\ {Who(c)} \in SUBSET Node
  BY PlanFacts DEF TypeOK, Place, Thread
<1>2. CASE Who(c) \in call[c].before
  <2>1. call' = [call EXCEPT ![c] = u] /\ sent' = sent
    BY <1>2 DEF Mark, TypeOK
  <2>2. t1 \in Thread /\ t1.told = t0.told /\ t1.adds = t0.adds
    <3> HIDE DEF t0
    <3>1. QED
      BY <1>1, ThreadAt
  <2>3. u \in Thread /\ u.told = t0.told /\ u.adds = t0.adds
    <3> HIDE DEF t1
    <3>1. QED
      BY <2>2, ThreadMarked
  <2> HIDE DEF u
  <2>4. QED
    BY <2>1, <2>3, UpdatedBy DEF Proposes, TypeOK
<1>3. CASE Who(c) \notin call[c].before
  <2> DEFINE S == call[c].before \cup {Who(c)}
  <2>1. Submits(c, Marks(c, S), "waiting", "looking")
    BY <1>3 DEF Mark
  <2>2. S \in SUBSET Node /\ call[c].tries < MaxTries
    BY <1>1, <2>1 DEF Submits
  <2> HIDE DEF S
  <2>3. Marks(c, S) \in CommandSet /\ CommandOK(Marks(c, S))
    BY <2>2, MarksCommand
  <2>4. QED
    BY <1>1, <2>1, <2>3, SubmitsUpdate
<1>4. QED
  BY <1>2, <1>3

LEMMA BeginKeepStep ==
  ASSUME TypeOK, MemberInv, NEW c \in Call, BeginKeep(c)
  PROVE  Updated(c) /\ Proposes
<1> DEFINE t0 == call[c]
           t1 == [t0 EXCEPT !.at = "looking"]
           t2(m) == [t1 EXCEPT !.adds = {m}]
           t3(m, v) == [t2(m) EXCEPT !.replaces = {v}]
<1>1. /\ t0 \in Thread /\ "looking" \in Place
      /\ View(c).members \subseteq Node /\ plan.nodes \subseteq Node
  BY PlanFacts DEF TypeOK, Place, View, Replica
<1>2. t1 \in Thread /\ t1.told = t0.told
  <2> HIDE DEF t0
  <2>1. QED
    BY <1>1, ThreadAt
<1>3. PICK m \in Learners(c) :
        \/ call' = [call EXCEPT ![c].at = "looking", ![c].adds = {m}]
        \/ \E v \in View(c).members \ {Here(c)} :
             call' = [call EXCEPT ![c].at = "looking", ![c].adds = {m}, ![c].replaces = {v}]
  BY DEF BeginKeep
<1>4. m \in plan.nodes /\ {m} \in SUBSET Node
  BY <1>1 DEF Learners, HeardOf
<1>5. t2(m) \in Thread /\ t2(m).told = t0.told /\ t2(m).adds = {m}
  <2> HIDE DEF t1
  <2>1. QED
    BY <1>2, <1>4, ThreadAdds
<1>6. Updated(c)
  <2>1. CASE call' = [call EXCEPT ![c].at = "looking", ![c].adds = {m}]
    <3> DEFINE u == t2(m)
    <3>1. call' = [call EXCEPT ![c] = u]
      BY <2>1 DEF TypeOK
    <3>2. u \in Thread /\ u.told = t0.told /\ u.adds \subseteq plan.nodes
      BY <1>4, <1>5
    <3> HIDE DEF u
    <3>3. QED
      BY <3>1, <3>2 DEF Updated
  <2>2. ASSUME NEW v \in View(c).members \ {Here(c)},
               call' = [call EXCEPT ![c].at = "looking", ![c].adds = {m}, ![c].replaces = {v}]
        PROVE  Updated(c)
    <3> DEFINE w == t2(m)
               u == [w EXCEPT !.replaces = {v}]
    <3>1. call' = [call EXCEPT ![c] = u]
      BY <2>2 DEF TypeOK
    <3>2. w \in Thread /\ w.told = t0.told /\ w.adds = {m} /\ {v} \in SUBSET Node
      BY <1>1, <1>5
    <3>3. u \in Thread /\ u.told = t0.told /\ u.adds = {m}
      <4> HIDE DEF w
      <4>1. QED
        BY <3>2, ThreadReplaces
    <3> HIDE DEF u
    <3>4. QED
      BY <1>4, <3>1, <3>3 DEF Updated
  <2>3. QED
    BY <1>3, <2>1, <2>2
<1>7. Proposes
  BY DEF BeginKeep, Proposes, TypeOK
<1>8. QED
  BY <1>6, <1>7

(* The end of a change: what it came to, and in which epoch. *)
LEMMA EndsChange ==
  ASSUME TypeOK, MemberInv, NEW c \in Call,
         call' = [call EXCEPT ![c].at = "changed", ![c].ok = Done(c), ![c].epoch = View(c).epoch]
  PROVE  Updated(c)
<1> DEFINE t0 == call[c]
           t1 == [t0 EXCEPT !.at = "changed"]
           t2 == [t1 EXCEPT !.ok = Done(c)]
           u == [t2 EXCEPT !.epoch = View(c).epoch]
<1>1. call' = [call EXCEPT ![c] = u]
  BY DEF TypeOK
<1>2. t0 \in Thread /\ "changed" \in Place /\ Done(c) \in BOOLEAN /\ View(c).epoch \in Nat
  BY PlanFacts DEF TypeOK, Place, Done, View, Replica
<1>3. t1 \in Thread /\ t1.told = t0.told /\ t1.adds = t0.adds
  <2> HIDE DEF t0
  <2>1. QED
    BY <1>2, ThreadAt
<1>4. t2 \in Thread /\ t2.told = t0.told /\ t2.adds = t0.adds
  <2> HIDE DEF t1
  <2>1. QED
    BY <1>2, <1>3, ThreadOk
<1>5. u \in Thread /\ u.told = t0.told /\ u.adds = t0.adds
  <2> HIDE DEF t2
  <2>1. QED
    BY <1>2, <1>4, ThreadEpoch
<1> HIDE DEF u
<1>6. QED
  BY <1>1, <1>5, UpdatedBy

LEMMA LookMembersStep ==
  ASSUME TypeOK, MemberInv, NEW c \in Call, LookMembers(c)
  PROVE  Updated(c) /\ Proposes
<1>1. CASE Done(c) \/ Refused(c)
  <2>1. /\ call' = [call EXCEPT ![c].at = "changed", ![c].ok = Done(c), ![c].epoch = View(c).epoch]
        /\ sent' = sent
    BY <1>1 DEF LookMembers
  <2>2. QED
    BY <2>1, EndsChange DEF Proposes, TypeOK
<1>2. CASE ~(Done(c) \/ Refused(c))
  <2> DEFINE S == (View(c).members \cup call[c].adds) \ call[c].drops
             d == [Command(c, "voters") EXCEPT !.members = S]
  <2>1. Submits(c, d, "changing", "looking")
    BY <1>2 DEF LookMembers
  <2>2. S \in SUBSET plan.nodes
    BY PlanFacts DEF MemberInv, View
  <2>3. call[c].tries < MaxTries
    BY <2>1 DEF Submits
  <2>4. d \in CommandSet /\ CommandOK(d)
    <3>1. d = [Command(c, "voters") EXCEPT !.members = S]
      OBVIOUS
    <3> HIDE DEF S, d
    <3>2. QED
      BY <2>2, <2>3, <3>1, VotersCommand
  <2>5. "changing" \in Place /\ "looking" \in Place
    BY DEF Place
  <2> HIDE DEF d
  <2>6. QED
    BY <2>1, <2>4, <2>5, SubmitsUpdate
<1>3. QED
  BY <1>1, <1>2

LEMMA SeeChangeStep ==
  ASSUME TypeOK, MemberInv, NEW c \in Call, SeeChange(c)
  PROVE  Updated(c) /\ Proposes
<1>1. "looking" \in Place
  BY DEF Place
<1>2. Updated(c)
  BY <1>1, MovesTo DEF SeeChange
<1>3. Proposes
  BY DEF SeeChange, Proposes, TypeOK
<1>4. QED
  BY <1>2, <1>3

LEMMA DeadlineStep ==
  ASSUME TypeOK, MemberInv, NEW c \in Call, Deadline(c)
  PROVE  Updated(c) /\ Proposes
<1>1. Updated(c)
  BY EndsChange DEF Deadline
<1>2. Proposes
  BY DEF Deadline, Proposes, TypeOK
<1>3. QED
  BY <1>1, <1>2

LEMMA OnwardStep ==
  ASSUME TypeOK, MemberInv, NEW c \in Call, call' = [call EXCEPT ![c] = Onward(c)]
  PROVE  Updated(c)
<1> DEFINE t0 == call[c]
<1>1. /\ t0 \in Thread /\ "looking" \in Place /\ "ended" \in Place
      /\ call[c].replaces \in SUBSET Node /\ {} \in SUBSET Node
  BY DEF TypeOK, Place, Thread
<1>2. CASE call[c].ok /\ call[c].replaces # {}
  <2> DEFINE t1 == [t0 EXCEPT !.at = "looking"]
             t2 == [t1 EXCEPT !.adds = {}]
             t3 == [t2 EXCEPT !.drops = call[c].replaces]
             t4 == [t3 EXCEPT !.replaces = {}]
             t5 == [t4 EXCEPT !.ok = FALSE]
  <2>1. Onward(c) = t5
    BY <1>2 DEF Onward
  <2>2. t1 \in Thread /\ t1.told = t0.told
    <3> HIDE DEF t0
    <3>1. QED
      BY <1>1, ThreadAt
  <2>3. t2 \in Thread /\ t2.told = t0.told /\ t2.adds = {}
    <3> HIDE DEF t1
    <3>1. QED
      BY <1>1, <2>2, ThreadAdds
  <2>4. t3 \in Thread /\ t3.told = t0.told /\ t3.adds = {}
    <3> HIDE DEF t2
    <3>1. QED
      BY <1>1, <2>3, ThreadDrops
  <2>5. t4 \in Thread /\ t4.told = t0.told /\ t4.adds = {}
    <3> HIDE DEF t3
    <3>1. QED
      BY <1>1, <2>4, ThreadReplaces
  <2>6. t5 \in Thread /\ t5.told = t0.told /\ t5.adds = {}
    <3> HIDE DEF t4
    <3>1. QED
      BY <2>5, ThreadOk
  <2> HIDE DEF t5
  <2>7. QED
    BY <2>1, <2>6 DEF Updated
<1>3. CASE ~(call[c].ok /\ call[c].replaces # {})
  <2> DEFINE u == [t0 EXCEPT !.at = "ended"]
  <2>1. Onward(c) = u
    BY <1>3 DEF Onward
  <2>2. u \in Thread /\ u.told = t0.told /\ u.adds = t0.adds
    <3> HIDE DEF t0
    <3>1. QED
      BY <1>1, ThreadAt
  <2> HIDE DEF u
  <2>3. QED
    BY <2>1, <2>2, UpdatedBy
<1>4. QED
  BY <1>2, <1>3

LEMMA SettleMarksStep ==
  ASSUME TypeOK, MemberInv, NEW c \in Call, SettleMarks(c)
  PROVE  Updated(c) /\ Proposes
<1>1. /\ "waiting" \in Place /\ "ended" \in Place /\ "added" \in Place
      /\ call[c].before \in SUBSET Node /\ View(c).removed \in SUBSET Node
  BY PlanFacts DEF TypeOK, Place, Thread, View, Replica
<1>2. CASE Submits(c, Marks(c, call[c].before), "waiting", "ended")
  <2>1. call[c].tries < MaxTries
    BY <1>2 DEF Submits
  <2>2. Marks(c, call[c].before) \in CommandSet /\ CommandOK(Marks(c, call[c].before))
    BY <1>1, <2>1, MarksCommand
  <2>3. QED
    BY <1>1, <1>2, <2>2, SubmitsUpdate
<1>3. CASE Submits(c, Marks(c, View(c).removed \ call[c].adds), "waiting", "added")
  <2> DEFINE S == View(c).removed \ call[c].adds
  <2>1. S \in SUBSET Node /\ call[c].tries < MaxTries
    BY <1>1, <1>3 DEF Submits
  <2>2. Submits(c, Marks(c, S), "waiting", "added")
    BY <1>3
  <2> HIDE DEF S
  <2>3. Marks(c, S) \in CommandSet /\ CommandOK(Marks(c, S))
    BY <2>1, MarksCommand
  <2>4. QED
    BY <1>1, <2>2, <2>3, SubmitsUpdate
<1>4. CASE call' = [call EXCEPT ![c] = Onward(c)] /\ sent' = sent
  BY <1>4, OnwardStep DEF Proposes, TypeOK
<1>5. QED
  BY <1>2, <1>3, <1>4 DEF SettleMarks

LEMMA ReplaceStep ==
  ASSUME TypeOK, MemberInv, NEW c \in Call, Replace(c)
  PROVE  Updated(c) /\ Proposes
<1>1. Updated(c)
  BY OnwardStep DEF Replace
<1>2. Proposes
  BY DEF Replace, Proposes, TypeOK
<1>3. QED
  BY <1>1, <1>2

CallStep(c) == Told(c) \/ GiveUp(c) \/ TryAcquire(c) \/ ChangeStep(c)

LEMMA CallStill ==
  ASSUME NEW c \in Call, CallStep(c)
  PROVE  Still
<1>1. CASE Told(c) \/ GiveUp(c) \/ TryAcquire(c)
  BY <1>1 DEF Told, GiveUp, TryAcquire
<1>2. CASE BeginAdd(c) \/ BeginRemove(c) \/ BeginLeave(c) \/ Mark(c) \/ BeginKeep(c)
  BY <1>2 DEF BeginAdd, BeginRemove, BeginLeave, Mark, BeginKeep
<1>3. CASE LookMembers(c) \/ SeeChange(c) \/ Deadline(c) \/ SettleMarks(c) \/ Replace(c)
  BY <1>3 DEF LookMembers, SeeChange, Deadline, SettleMarks, Replace
<1>4. QED
  BY <1>1, <1>2, <1>3 DEF CallStep, ChangeStep

(* Whatever a thread does is such a step; a lease it asks for is later than *)
(* the one its node's copy shows.                                          *)
LEMMA ThreadSteps ==
  ASSUME TypeOK, MemberInv, NEW c \in Call, CallStep(c), Timely(View(c).lease)
  PROVE  Updated(c) /\ Proposes /\ Still
<1>1. Still
  BY CallStill
<1>2. CASE Told(c) \/ GiveUp(c) \/ TryAcquire(c)
  BY <1>1, <1>2, ToldStep, GiveUpStep, TryAcquireStep
<1>3. CASE BeginAdd(c) \/ BeginRemove(c) \/ BeginLeave(c) \/ Mark(c) \/ BeginKeep(c)
  BY <1>1, <1>3, BeginStep, MarkStep, BeginKeepStep
<1>4. CASE LookMembers(c) \/ SeeChange(c) \/ Deadline(c) \/ SettleMarks(c) \/ Replace(c)
  BY <1>1, <1>4, LookMembersStep, SeeChangeStep, DeadlineStep, SettleMarksStep, ReplaceStep
<1>5. QED
  BY <1>2, <1>3, <1>4 DEF CallStep, ChangeStep

-----------------------------------------------------------------------------
(* The way through the logs. *)

(* The logs of the epochs have only become longer. *)
Grows ==
  /\ log' \in Seq(Seq(CommandSet)) /\ Len(log) <= Len(log')
  /\ \A e \in 1..Len(log) :
       Len(log[e]) <= Len(log'[e]) /\ \A k \in 1..Len(log[e]) : log'[e][k] = log[e][k]

LEMMA WayElements ==
  ASSUME NEW T, WayType(T)
  PROVE  /\ T \in Seq(Replica) /\ Len(T) \in Nat \ {0}
         /\ \A i \in 1..Len(T) : T[i] \in Replica /\ T[i].epoch \in Nat /\ T[i].slot \in Nat
<1>1. T \in Seq(Replica) /\ Len(T) \in Nat \ {0}
  BY EmptySeq DEF WayType
<1>2. \A i \in 1..Len(T) : T[i] \in Replica
  BY <1>1, ElementOfSeq
<1>3. QED
  BY <1>1, <1>2 DEF Replica

(* The command a state of the way is behind. *)
LEMMA NextCommand ==
  ASSUME TypeOK, CommandInv, NEW r \in Replica, r.epoch < Len(log), r.slot < Len(At(r))
  PROVE  At(r)[r.slot + 1] \in CommandSet /\ CommandOK(At(r)[r.slot + 1])
<1>1. r.epoch \in Nat /\ r.slot \in Nat
  BY DEF Replica
<1>2. log \in Seq(Seq(CommandSet)) /\ r.epoch + 1 \in 1..Len(log) /\ r.epoch + 1 \in DOMAIN log
  BY <1>1 DEF TypeOK
<1>3. At(r) \in Seq(CommandSet)
  BY <1>2 DEF At
<1>4. r.slot + 1 \in 1..Len(At(r)) /\ r.slot + 1 \in DOMAIN At(r)
  BY <1>1, <1>3
<1>5. CommandOK(log[r.epoch + 1][r.slot + 1])
  BY <1>2, <1>4 DEF CommandInv, At
<1>6. QED
  BY <1>3, <1>4, <1>5 DEF At

LEMMA LogStep ==
  ASSUME TypeOK, NEW T, WayType(T), WayInLog(T), WaySteps(T), Grows
  PROVE  WayInLog(T)' /\ WaySteps(T)'
<1>1. /\ Len(T) \in Nat \ {0}
      /\ \A i \in 1..Len(T) : T[i].epoch \in Nat /\ T[i].slot \in Nat
  BY WayElements
<1>2. /\ log \in Seq(Seq(CommandSet)) /\ log' \in Seq(Seq(CommandSet))
      /\ Len(log) \in Nat /\ Len(log') \in Nat /\ Len(log) <= Len(log')
  BY DEF TypeOK, Grows
<1>3. ASSUME NEW i \in 1..Len(T)
      PROVE  /\ T[i].epoch < Len(log) /\ T[i].epoch < Len(log') /\ T[i].slot <= Len(At(T[i]))
             /\ Len(At(T[i])) \in Nat /\ Len(At(T[i])') \in Nat
             /\ Len(At(T[i])) <= Len(At(T[i])')
             /\ \A k \in 1..Len(At(T[i])) : At(T[i])'[k] = At(T[i])[k]
  <2>1. T[i].epoch < Len(log) /\ T[i].slot <= Len(At(T[i]))
    BY DEF WayInLog
  <2>2. T[i].epoch + 1 \in 1..Len(log) /\ T[i].epoch + 1 \in 1..Len(log')
    BY <1>1, <1>2, <2>1
  <2>3. log[T[i].epoch + 1] \in Seq(CommandSet) /\ log'[T[i].epoch + 1] \in Seq(CommandSet)
    BY <1>2, <2>2, ElementOfSeq
  <2>4. /\ Len(log[T[i].epoch + 1]) <= Len(log'[T[i].epoch + 1])
        /\ \A k \in 1..Len(log[T[i].epoch + 1]) :
             log'[T[i].epoch + 1][k] = log[T[i].epoch + 1][k]
    BY <2>2 DEF Grows
  <2>5. T[i].epoch < Len(log')
    BY <1>1, <1>2, <2>1
  <2>6. Len(log[T[i].epoch + 1]) \in Nat /\ Len(log'[T[i].epoch + 1]) \in Nat
    BY <2>3
  <2>7. QED
    BY <2>1, <2>4, <2>5, <2>6 DEF At
<1>4. WayInLog(T)'
  <2>1. \A i \in 1..Len(T) : T[i].epoch < Len(log') /\ T[i].slot <= Len(At(T[i])')
    BY <1>1, <1>3
  <2>2. QED
    BY <2>1 DEF WayInLog
<1>5. WaySteps(T)'
  <2>1. ASSUME NEW i \in 1..Len(T) - 1
        PROVE  /\ T[i].slot < Len(At(T[i])')
               /\ T[i + 1] = State(Advanced(T[i], At(T[i])'[T[i].slot + 1]))
    <3>1. i \in 1..Len(T) /\ T[i].slot \in Nat
      BY <1>1
    <3>2. /\ T[i].slot < Len(At(T[i]))
          /\ T[i + 1] = State(Advanced(T[i], At(T[i])[T[i].slot + 1]))
      BY DEF WaySteps
    <3>3. T[i].slot + 1 \in 1..Len(At(T[i])) /\ T[i].slot < Len(At(T[i])')
      BY <1>3, <3>1, <3>2
    <3>4. At(T[i])'[T[i].slot + 1] = At(T[i])[T[i].slot + 1]
      BY <1>3, <3>1, <3>3
    <3>5. QED
      BY <3>2, <3>3, <3>4
  <2>2. QED
    BY <2>1 DEF WaySteps
<1>6. QED
  BY <1>4, <1>5

(* Time only makes leases end. *)
LEMMA OrderStays ==
  ASSUME TypeOK, plan' = plan, now' \in Nat, now <= now', NEW T, WayType(T)
  PROVE  (WayOrder(T) => WayOrder(T)') /\ (WayStates(T) => WayStates(T)')
<1>1. \A i \in 1..Len(T) : T[i].lease \in Lease
  BY WayElements DEF Replica
<1>2. WayOrder(T) => WayOrder(T)'
  BY <1>1, LaterStays DEF WayOrder
<1>3. WayStates(T) => WayStates(T)'
  BY <1>1, LaterStays DEF WayStates
<1>4. QED
  BY <1>2, <1>3

(* What is known of the replica of a node that is there. *)
LEMMA LiveReplica ==
  ASSUME TypeOK, NEW T, Way(T), NEW n \in Node \ lost
  PROVE  /\ ResultsOK(at[n]) /\ Timely(at[n].lease)
         /\ at[n].epoch < Len(log)
<1>1. PICK i \in 1..Len(T) : State(at[n]) = T[i]
  BY DEF Way, WayNodes
<1>2. at[n] \in Replica
  BY DEF TypeOK
<1>3. /\ T[i].lease = at[n].lease /\ T[i].results = at[n].results
      /\ T[i].passed = at[n].passed /\ T[i].epoch = at[n].epoch
  BY <1>1, <1>2, StateFields
<1>4. ResultsOK(T[i]) /\ Timely(T[i].lease) /\ T[i].epoch < Len(log)
  BY DEF Way, WayStates, WayInLog
<1>5. QED
  BY <1>3, <1>4 DEF ResultsOK

LEMMA InvCall ==
  ASSUME Inv, NEW c \in Call, CallStep(c)
  PROVE  Inv'
<1>1. TypeOK /\ CommandInv /\ MemberInv /\ ToldInv
  BY DEF Inv
<1>2. PICK T : Way(T)
  BY DEF Inv
<1>3. Alive(c) /\ Here(c) \in Node
  <2>1. Here(c) \in Node
    BY <1>1, PlanFacts
  <2>2. CASE Told(c) \/ GiveUp(c) \/ TryAcquire(c)
    BY <2>1, <2>2 DEF Told, GiveUp, TryAcquire
  <2>3. CASE BeginAdd(c) \/ BeginRemove(c) \/ BeginLeave(c) \/ Mark(c) \/ BeginKeep(c)
    BY <2>1, <2>3 DEF BeginAdd, BeginRemove, BeginLeave, Mark, BeginKeep
  <2>4. CASE LookMembers(c) \/ SeeChange(c) \/ Deadline(c) \/ SettleMarks(c) \/ Replace(c)
    BY <2>1, <2>4 DEF LookMembers, SeeChange, Deadline, SettleMarks, Replace
  <2>5. QED
    BY <2>2, <2>3, <2>4 DEF CallStep, ChangeStep
<1>4. ResultsOK(View(c)) /\ Timely(View(c).lease)
  BY <1>1, <1>2, <1>3, LiveReplica DEF Alive, View
<1>5. Updated(c) /\ Proposes /\ Still
  BY <1>1, <1>4, ThreadSteps
<1>6. /\ plan' = plan /\ log' = log /\ at' = at /\ now' = now /\ lost' = lost
  BY <1>5 DEF Still
<1>7. PICK u \in Thread :
        /\ call' = [call EXCEPT ![c] = u]
        /\ u.adds \subseteq plan.nodes
        /\ u.told = None \/ u.told = call[c].told \/ u.told \in ToSet(View(c).results)
  BY <1>5 DEF Updated
<1>8. TypeOK'
  BY <1>1, <1>5, <1>6, <1>7 DEF TypeOK, Proposes
<1>9. CommandInv'
  <2>1. \A d : CommandOK(d)' = CommandOK(d)
    BY <1>6 DEF CommandOK, Later, Over, Timely, Clock
  <2>2. QED
    BY <1>1, <1>5, <1>6, <2>1 DEF CommandInv, Proposes
<1>10. MemberInv'
  BY <1>1, <1>6, <1>7 DEF MemberInv, TypeOK
<1>11. ToldInv'
  <2>1. ASSUME NEW d \in Call, Alive(d)', call'[d].told # None
        PROVE  call'[d].told \in ToSet(View(d).passed)
    <3>1. Alive(d)
      BY <1>6, <2>1 DEF Alive, Here
    <3>2. CASE d # c
      BY <1>1, <1>7, <2>1, <3>1, <3>2 DEF ToldInv, TypeOK
    <3>3. CASE d = c
      <4>1. call'[d] = u
        BY <1>1, <1>7, <3>3 DEF TypeOK
      <4>2. QED
        BY <1>1, <1>4, <1>7, <2>1, <3>1, <3>3, <4>1 DEF ToldInv, ResultsOK
    <3>4. QED
      BY <3>2, <3>3
  <2>2. QED
    BY <1>6, <2>1 DEF ToldInv, View, Here
<1>12. Way(T)'
  BY <1>2, <1>6 DEF Way, WayType, WayInLog, WaySteps, WayOrder, WayStates, WayNodes, At, Later,
       Over, Timely, Clock
<1>13. QED
  BY <1>8, <1>9, <1>10, <1>11, <1>12 DEF Inv

LEMMA InvTick ==
  ASSUME Inv, Tick
  PROVE  Inv'
<1>1. TypeOK /\ CommandInv /\ MemberInv /\ ToldInv
  BY DEF Inv
<1>2. PICK T : Way(T)
  BY DEF Inv
<1>3. /\ plan' = plan /\ log' = log /\ sent' = sent /\ at' = at /\ call' = call /\ lost' = lost
      /\ now' \in Nat /\ now <= now'
  BY <1>1 DEF Tick, TypeOK
<1>4. TypeOK'
  BY <1>1, <1>3 DEF TypeOK
<1>5. CommandInv'
  <2>1. \A d \in CommandSet : CommandOK(d) => CommandOK(d)'
    BY <1>1, <1>3, CommandStays
  <2>2. ASSUME NEW e \in DOMAIN log, NEW i \in DOMAIN log[e]
        PROVE  log[e][i] \in CommandSet
    BY <1>1 DEF TypeOK
  <2>3. QED
    BY <1>1, <1>3, <2>1, <2>2 DEF CommandInv, TypeOK
<1>6. MemberInv' /\ ToldInv'
  BY <1>1, <1>3 DEF MemberInv, ToldInv, Alive, View, Here
<1>7. Way(T)'
  <2>1. WayOrder(T)' /\ WayStates(T)'
    BY <1>1, <1>2, <1>3, OrderStays DEF Way
  <2>2. WayType(T)' /\ WayInLog(T)' /\ WaySteps(T)' /\ WayNodes(T)'
    BY <1>2, <1>3 DEF Way, WayType, WayInLog, WaySteps, WayNodes, At
  <2>3. QED
    BY <2>1, <2>2 DEF Way
<1>8. QED
  BY <1>4, <1>5, <1>6, <1>7 DEF Inv

LEMMA InvChoose ==
  ASSUME Inv, NEW n \in Node, NEW c \in sent, Choose(n, c)
  PROVE  Inv'
<1>1. TypeOK /\ CommandInv /\ MemberInv /\ ToldInv
  BY DEF Inv
<1>2. PICK T : Way(T)
  BY DEF Inv
<1> DEFINE e == at[n].epoch + 1
<1>3. e \in 1..Len(log) /\ e \in DOMAIN log /\ log \in Seq(Seq(CommandSet)) /\ c \in CommandSet
  <2>1. n \in Node \ lost
    BY DEF Choose, Leads
  <2>2. at[n].epoch < Len(log) /\ at[n].epoch \in Nat
    BY <1>1, <1>2, <2>1, LiveReplica DEF TypeOK, Replica
  <2>3. QED
    BY <1>1, <2>2 DEF TypeOK
<1>4. /\ plan' = plan /\ sent' = sent /\ at' = at /\ call' = call /\ now' = now /\ lost' = lost
      /\ log' = [log EXCEPT ![e] = Append(log[e], c)]
  BY DEF Choose
<1> HIDE DEF e
<1>5. log[e] \in Seq(CommandSet) /\ Append(log[e], c) \in Seq(CommandSet)
  BY <1>3
<1>6. /\ log' \in Seq(Seq(CommandSet)) /\ Len(log') = Len(log)
      /\ \A f \in 1..Len(log) : log'[f] = IF f = e THEN Append(log[e], c) ELSE log[f]
  BY <1>3, <1>4, <1>5
<1>7. /\ Len(Append(log[e], c)) = Len(log[e]) + 1 /\ Len(log[e]) \in Nat
      /\ \A k \in 1..Len(log[e]) : Append(log[e], c)[k] = log[e][k]
      /\ Append(log[e], c)[Len(log[e]) + 1] = c
  BY <1>3, <1>5, AppendProperties
<1>8. Grows
  <2>1. Len(log) \in Nat /\ \A f \in 1..Len(log) : Len(log[f]) \in Nat
    BY <1>3
  <2>2. ASSUME NEW f \in 1..Len(log)
        PROVE  /\ Len(log[f]) <= Len(log'[f])
               /\ \A k \in 1..Len(log[f]) : log'[f][k] = log[f][k]
    <3>1. CASE f = e
      <4>1. log'[f] = Append(log[e], c)
        BY <1>6, <3>1
      <4>2. QED
        BY <1>7, <3>1, <4>1
    <3>2. CASE f # e
      <4>1. log'[f] = log[f]
        BY <1>6, <3>2
      <4>2. QED
        BY <2>1, <4>1
    <3>3. QED
      BY <3>1, <3>2
  <2>3. QED
    BY <1>6, <2>1, <2>2 DEF Grows
<1>9. TypeOK'
  BY <1>1, <1>4, <1>6 DEF TypeOK
<1>10. CommandInv'
  <2>1. \A d : CommandOK(d)' = CommandOK(d)
    BY <1>4 DEF CommandOK, Later, Over, Timely, Clock
  <2>2. CommandOK(c)
    BY <1>1 DEF CommandInv
  <2>3. ASSUME NEW f \in DOMAIN log', NEW k \in DOMAIN log'[f]
        PROVE  CommandOK(log'[f][k])
    <3>1. f \in 1..Len(log) /\ f \in DOMAIN log
      BY <1>3, <1>6
    <3>2. CASE f # e
      BY <1>1, <1>6, <3>1, <3>2 DEF CommandInv
    <3>3. CASE f = e
      <4>1. log'[f] = Append(log[e], c) /\ k \in 1..Len(log[e]) + 1
        <5>1. log'[f] = Append(log[e], c)
          BY <1>6, <3>1, <3>3
        <5>2. DOMAIN Append(log[e], c) = 1..Len(log[e]) + 1
          BY <1>5, <1>7
        <5>3. QED
          BY <2>3, <5>1, <5>2
      <4>2. CASE k = Len(log[e]) + 1
        BY <1>7, <2>2, <4>1, <4>2
      <4>3. CASE k \in 1..Len(log[e])
        <5>1. log'[f][k] = log[e][k] /\ k \in DOMAIN log[e]
          BY <1>5, <1>7, <4>1, <4>3
        <5>2. QED
          BY <1>1, <1>3, <5>1 DEF CommandInv
      <4>4. QED
        BY <1>7, <4>1, <4>2, <4>3
    <3>4. QED
      BY <3>2, <3>3
  <2>4. QED
    BY <1>1, <1>4, <2>1, <2>3 DEF CommandInv
<1>11. MemberInv' /\ ToldInv'
  BY <1>1, <1>4 DEF MemberInv, ToldInv, Alive, View, Here
<1>12. Way(T)'
  <2>1. WayInLog(T)' /\ WaySteps(T)'
    BY <1>1, <1>2, <1>8, LogStep DEF Way
  <2>2. WayType(T)' /\ WayOrder(T)' /\ WayStates(T)' /\ WayNodes(T)'
    BY <1>2, <1>4 DEF Way, WayType, WayOrder, WayStates, WayNodes, Later, Over, Timely, Clock
  <2>3. QED
    BY <2>1, <2>2 DEF Way
<1>13. QED
  BY <1>9, <1>10, <1>11, <1>12 DEF Inv

(* Taking in a command: the replica, and the log of a new epoch. *)
LEMMA LearnFacts ==
  ASSUME TypeOK, CommandInv, NEW T, Way(T), NEW n \in Node, Learn(n)
  PROVE  LET r == at[n]
             c == At(r)[r.slot + 1]
             q == Advanced(r, c)
         IN /\ r \in Replica /\ q \in Replica /\ c \in CommandSet /\ CommandOK(c)
            /\ n \notin lost /\ r.epoch < Len(log) /\ r.slot < Len(At(r))
            /\ at' = [at EXCEPT ![n] = q]
            /\ Grows /\ q.epoch < Len(log')
            /\ \/ q.epoch = r.epoch /\ q.slot = r.slot + 1
               \/ q.epoch = r.epoch + 1 /\ q.slot = 0
            /\ plan' = plan /\ sent' = sent /\ call' = call /\ now' = now /\ lost' = lost
            /\ log' = log \/ log' = Append(log, << >>)
<1> DEFINE r == at[n]
           c == At(r)[r.slot + 1]
           q == Advanced(r, c)
<1>1. /\ n \notin lost /\ r.slot < Len(At(r)) /\ at' = [at EXCEPT ![n] = q]
      /\ plan' = plan /\ sent' = sent /\ call' = call /\ now' = now /\ lost' = lost
      /\ log' = IF at'[n].epoch = Len(log) THEN Append(log, << >>) ELSE log
  BY DEF Learn, At
<1>2. r \in Replica /\ at \in [Node -> Replica] /\ log \in Seq(Seq(CommandSet)) /\ Len(log) \in Nat
  BY DEF TypeOK
<1>3. r.epoch < Len(log) /\ r.epoch \in Nat /\ r.slot \in Nat
  BY <1>1, <1>2, LiveReplica DEF Replica
<1>4. c \in CommandSet /\ CommandOK(c)
  BY <1>1, <1>2, <1>3, NextCommand
<1> HIDE DEF c
<1>5. /\ q \in Replica
      /\ \/ q.epoch = r.epoch /\ q.slot = r.slot + 1
         \/ q.epoch = r.epoch + 1 /\ q.slot = 0
  BY <1>2, <1>4, AdvancedFields
<1>6. at'[n] = q
  BY <1>1, <1>2
<1> HIDE DEF q
<1>7. CASE q.epoch = Len(log)
  <2>1. log' = Append(log, << >>)
    BY <1>1, <1>6, <1>7
  <2>2. << >> \in Seq(CommandSet)
    BY EmptySeq
  <2>3. /\ log' \in Seq(Seq(CommandSet)) /\ Len(log') = Len(log) + 1
        /\ \A e \in 1..Len(log) : log'[e] = log[e] /\ Len(log[e]) \in Nat
    BY <1>2, <2>1, <2>2, AppendProperties
  <2>4. Grows
    BY <1>2, <2>3 DEF Grows
  <2>5. q.epoch < Len(log')
    BY <1>2, <1>7, <2>3
  <2>6. QED
    BY <1>1, <1>2, <1>3, <1>4, <1>5, <2>1, <2>4, <2>5 DEF c, q
<1>8. CASE q.epoch # Len(log)
  <2>1. log' = log
    BY <1>1, <1>6, <1>8
  <2>2. Grows /\ q.epoch < Len(log')
    BY <1>2, <1>3, <1>5, <1>8, <2>1 DEF Grows
  <2>3. QED
    BY <1>1, <1>2, <1>3, <1>4, <1>5, <2>1, <2>2 DEF c, q
<1>9. QED
  BY <1>7, <1>8

(* A node behind another one goes where that one went. *)
LEMMA LearnBehind ==
  ASSUME TypeOK, CommandInv, NEW T, Way(T), NEW n \in Node, Learn(n),
         NEW i \in 1..Len(T), State(at[n]) = T[i], i < Len(T)
  PROVE  Way(T)' /\ State(at'[n]) = T[i + 1]
<1> DEFINE r == at[n]
           c == At(r)[r.slot + 1]
           q == Advanced(r, c)
<1>1. /\ r \in Replica /\ q \in Replica /\ c \in CommandSet /\ n \notin lost
      /\ at' = [at EXCEPT ![n] = q] /\ Grows
      /\ plan' = plan /\ now' = now /\ lost' = lost
  BY LearnFacts
<1>2. /\ Len(T) \in Nat \ {0} /\ \A j \in 1..Len(T) : T[j] \in Replica
      /\ WayType(T) /\ WayInLog(T) /\ WaySteps(T) /\ WayOrder(T) /\ WayStates(T) /\ WayNodes(T)
  BY WayElements DEF Way
<1>3. T[i].epoch = r.epoch /\ T[i].slot = r.slot
  BY <1>1, StateFields
<1>4. i \in 1..Len(T) - 1
  BY <1>2
<1>5. T[i + 1] = State(Advanced(State(r), c))
  BY <1>2, <1>3, <1>4 DEF WaySteps, At
<1>6. State(q) = T[i + 1]
  BY <1>1, <1>5, StateAdvanced
<1>7. at'[n] = q /\ \A m \in Node \ {n} : at'[m] = at[m]
  BY <1>1 DEF TypeOK
<1> HIDE DEF q, c
<1>8. i + 1 \in 1..Len(T)
  BY <1>2, <1>4
<1>9. WayNodes(T)'
  <2>1. \A m \in Node \ lost : \E j \in 1..Len(T) : State(at'[m]) = T[j]
    BY <1>2, <1>6, <1>7, <1>8 DEF WayNodes
  <2>2. PICK m \in Node \ lost : State(at[m]) = T[Len(T)]
    BY <1>2 DEF WayNodes
  <2>3. T[i] # T[Len(T)]
    <3>1. Before(T[i], T[Len(T)])
      BY <1>2 DEF WayOrder
    <3>2. T[i].epoch \in Nat /\ T[i].slot \in Nat
      BY <1>2 DEF Replica
    <3>3. QED
      BY <3>1, <3>2 DEF Before
  <2>4. State(at'[m]) = T[Len(T)]
    BY <1>7, <2>2, <2>3
  <2>5. QED
    BY <1>1, <2>1, <2>2, <2>4 DEF WayNodes
<1>10. WayInLog(T)' /\ WaySteps(T)'
  BY <1>1, <1>2, LogStep
<1>11. WayType(T)' /\ WayOrder(T)' /\ WayStates(T)'
  BY <1>1, <1>2 DEF WayType, WayOrder, WayStates, Later, Over, Timely, Clock
<1>12. QED
  BY <1>6, <1>7, <1>9, <1>10, <1>11 DEF Way

(* A node that has gone as far as any other adds a state to the way. *)
LEMMA LearnAhead ==
  ASSUME TypeOK, CommandInv, NEW T, Way(T), NEW n \in Node, Learn(n), State(at[n]) = T[Len(T)]
  PROVE  \E U : Way(U)' /\ U = Append(T, State(at'[n]))
<1>0. PICK r, c, q, new, U :
        /\ r = at[n] /\ c = At(at[n])[at[n].slot + 1] /\ q = Advanced(r, c)
        /\ new = State(q) /\ U = Append(T, new)
  OBVIOUS
<1> DEFINE k == Len(T)
           p == Advanced(T[k], c)
<1>1. /\ r \in Replica /\ q \in Replica /\ c \in CommandSet /\ CommandOK(c) /\ n \notin lost
      /\ r.epoch < Len(log) /\ r.slot < Len(At(r))
      /\ at' = [at EXCEPT ![n] = q] /\ Grows /\ q.epoch < Len(log')
      /\ plan' = plan /\ now' = now /\ lost' = lost
  BY <1>0, LearnFacts
<1>2. \/ q.epoch = r.epoch /\ q.slot = r.slot + 1
      \/ q.epoch = r.epoch + 1 /\ q.slot = 0
  BY <1>0, LearnFacts
<1>3. /\ T \in Seq(Replica) /\ k \in Nat \ {0} /\ k \in 1..k
      /\ \A j \in 1..k : T[j] \in Replica
      /\ WayType(T) /\ WayInLog(T) /\ WaySteps(T) /\ WayOrder(T) /\ WayStates(T) /\ WayNodes(T)
  BY WayElements DEF Way
<1>4. /\ T[k] \in Replica /\ T[k].epoch = r.epoch /\ T[k].slot = r.slot
      /\ new \in Replica /\ new.epoch = q.epoch /\ new.slot = q.slot
  BY <1>0, <1>1, <1>3, StateFields
<1>5. at'[n] = q /\ \A m \in Node \ {n} : at'[m] = at[m]
  BY <1>1 DEF TypeOK
<1>6. new = State(p)
  BY <1>0, <1>1, StateAdvanced
<1>7. /\ p \in Replica /\ Before(T[k], p) /\ Prefix(T[k].passed, p.passed)
      /\ Later(T[k].lease, p.lease) /\ Timely(p.lease) /\ ResultsOK(p)
  <2>1. ResultsOK(T[k]) /\ Timely(T[k].lease)
    BY <1>3 DEF WayStates
  <2>2. QED
    BY <1>1, <1>4, <2>1, AdvancedFields, AdvancedBefore, AdvancedPrefix, AdvancedResults, AdvancedLease
<1>8. /\ new.epoch = p.epoch /\ new.slot = p.slot /\ new.lease = p.lease
      /\ new.results = p.results /\ new.passed = p.passed
  BY <1>6, <1>7, StateFields
<1> HIDE DEF p
<1>9. WayInLog(T)' /\ WaySteps(T)'
  BY <1>1, <1>3, LogStep
<1>10. /\ U \in Seq(Replica) /\ Len(U) = k + 1 /\ U # << >>
       /\ \A j \in 1..k : U[j] = T[j]
       /\ U[k + 1] = new
  BY <1>0, <1>3, <1>4, AppendProperties
<1> HIDE DEF k
<1>11. WayType(U)'
  BY <1>3, <1>10 DEF WayType
<1>12. new.slot <= Len(At(new)') /\ T[k].slot < Len(At(T[k])')
  <2>1. r.epoch \in Nat /\ r.slot \in Nat /\ q.epoch \in Nat
    BY <1>1 DEF Replica
  <2>2. log \in Seq(Seq(CommandSet)) /\ log' \in Seq(Seq(CommandSet)) /\ Len(log) <= Len(log')
    BY <1>1 DEF TypeOK, Grows
  <2>3. Len(log) \in Nat /\ Len(log') \in Nat /\ r.epoch < Len(log) /\ q.epoch < Len(log')
    BY <1>1, <2>2
  <2>4. r.epoch + 1 \in 1..Len(log) /\ r.epoch + 1 \in 1..Len(log') /\ q.epoch + 1 \in 1..Len(log')
    <3>1. Len(log) <= Len(log')
      BY <2>2
    <3>2. QED
      BY <2>1, <2>3, <3>1
  <2>5. /\ Len(log[r.epoch + 1]) \in Nat /\ Len(log'[r.epoch + 1]) \in Nat
        /\ Len(log'[q.epoch + 1]) \in Nat
    <3>1. ASSUME NEW s \in Seq(Seq(CommandSet)), NEW e \in 1..Len(s)
          PROVE  Len(s[e]) \in Nat
      <4>1. s[e] \in Seq(CommandSet)
        BY ElementOfSeq
      <4>2. QED
        BY <4>1
    <3>2. QED
      BY <2>2, <2>4, <3>1
  <2>6. Len(log[r.epoch + 1]) <= Len(log'[r.epoch + 1])
    BY <1>1, <2>4 DEF Grows
  <2>7. r.slot < Len(log[r.epoch + 1])
    BY <1>1 DEF At
  <2>8. r.slot < Len(log'[r.epoch + 1])
    BY <2>1, <2>5, <2>6, <2>7
  <2>9. q.slot <= Len(log'[q.epoch + 1])
    <3>1. CASE q.epoch = r.epoch /\ q.slot = r.slot + 1
      <4>1. q.slot <= Len(log'[r.epoch + 1])
        BY <2>1, <2>5, <2>8, <3>1
      <4>2. QED
        BY <3>1, <4>1
    <3>2. CASE q.epoch = r.epoch + 1 /\ q.slot = 0
      BY <2>5, <3>2
    <3>3. QED
      BY <1>2, <3>1, <3>2
  <2>10. QED
    BY <1>4, <2>8, <2>9 DEF At
<1>13. WayInLog(U)'
  <2>1. ASSUME NEW j \in 1..Len(U)
        PROVE  U[j].epoch < Len(log') /\ U[j].slot <= Len(At(U[j])')
    <3>1. CASE j \in 1..k
      BY <1>9, <1>10, <3>1 DEF WayInLog, k
    <3>2. CASE j = k + 1
      BY <1>1, <1>4, <1>10, <1>12, <3>2
    <3>3. QED
      BY <1>3, <1>10, <3>1, <3>2 DEF k
  <2>2. QED
    BY <2>1 DEF WayInLog
<1>14. WaySteps(U)'
  <2>1. ASSUME NEW j \in 1..Len(U) - 1
        PROVE  /\ U[j].slot < Len(At(U[j])')
               /\ U[j + 1] = State(Advanced(U[j], At(U[j])'[U[j].slot + 1]))
    <3>1. CASE j \in 1..k - 1
      <4>1. j \in 1..Len(T) - 1 /\ j \in 1..k /\ j + 1 \in 1..k
        BY <1>3, <3>1 DEF k
      <4>2. /\ T[j].slot < Len(At(T[j])')
            /\ T[j + 1] = State(Advanced(T[j], At(T[j])'[T[j].slot + 1]))
        BY <1>9, <4>1 DEF WaySteps
      <4>3. U[j] = T[j] /\ U[j + 1] = T[j + 1]
        BY <1>10, <4>1
      <4>4. QED
        BY <4>2, <4>3
    <3>2. CASE j = k
      <4>1. U[j] = T[k] /\ U[j + 1] = new
        BY <1>3, <1>10, <3>2 DEF k
      <4>2. At(T[k])'[T[k].slot + 1] = c
        <5>1. /\ log \in Seq(Seq(CommandSet)) /\ r.epoch + 1 \in 1..Len(log)
              /\ r.slot + 1 \in 1..Len(log[r.epoch + 1])
          <6>1. log \in Seq(Seq(CommandSet)) /\ r.epoch \in Nat /\ r.slot \in Nat
            BY <1>1 DEF TypeOK, Replica
          <6>2. r.epoch < Len(log) /\ r.slot < Len(log[r.epoch + 1])
            BY <1>1 DEF At
          <6>3. r.epoch + 1 \in 1..Len(log)
            BY <6>1, <6>2
          <6>4. Len(log[r.epoch + 1]) \in Nat
            BY <6>1, <6>3, ElementOfSeq
          <6>5. QED
            BY <6>1, <6>2, <6>3, <6>4
        <5>2. log'[r.epoch + 1][r.slot + 1] = log[r.epoch + 1][r.slot + 1]
          BY <1>1, <5>1 DEF Grows
        <5>3. QED
          BY <1>0, <1>4, <5>2 DEF At
      <4>3. QED
        BY <1>6, <1>12, <4>1, <4>2 DEF p
    <3>3. QED
      BY <1>3, <1>10, <3>1, <3>2 DEF k
  <2>2. QED
    BY <2>1 DEF WaySteps
<1>15. WayOrder(U)
  <2>1. ASSUME NEW i \in 1..Len(U), NEW j \in 1..Len(U), i < j
        PROVE  /\ Before(U[i], U[j]) /\ Prefix(U[i].passed, U[j].passed)
               /\ Later(U[i].lease, U[j].lease)
    <3>1. CASE j \in 1..k
      <4>1. i \in 1..k
        BY <1>3, <2>1, <3>1 DEF k
      <4>2. QED
        BY <1>3, <1>10, <2>1, <3>1, <4>1 DEF WayOrder, k
    <3>2. CASE j = k + 1 /\ i = k
      <4>1. U[i] = T[k] /\ U[j] = new
        BY <1>3, <1>10, <3>2 DEF k
      <4>2. QED
        BY <1>7, <1>8, <4>1 DEF Before
    <3>3. CASE j = k + 1 /\ i \in 1..k - 1
      <4>1. i \in 1..k /\ i < k /\ U[i] = T[i] /\ U[j] = new
        BY <1>3, <1>10, <3>3 DEF k
      <4>2. /\ Before(T[i], T[k]) /\ Prefix(T[i].passed, T[k].passed)
            /\ Later(T[i].lease, T[k].lease)
        BY <1>3, <4>1 DEF WayOrder, k
      <4>3. T[i] \in Replica
        BY <1>3, <4>1 DEF k
      <4>4. Before(T[i], p)
        BY <1>4, <1>7, <4>2, <4>3, BeforeTransitive
      <4>5. Prefix(T[i].passed, p.passed)
        <5>1. T[i].passed \in Seq(Effects) /\ T[k].passed \in Seq(Effects) /\ p.passed \in Seq(Effects)
          BY <1>4, <1>7, <4>3 DEF Replica
        <5>2. QED
          BY <1>7, <4>2, <5>1, PrefixTransitive
      <4>6. Later(T[i].lease, p.lease)
        <5>1. T[i].lease \in Lease /\ T[k].lease \in Lease /\ p.lease \in Lease
          BY <1>4, <1>7, <4>3 DEF Replica
        <5>2. QED
          BY <1>7, <4>2, <5>1, LaterTransitive
      <4>7. QED
        BY <1>8, <4>1, <4>4, <4>5, <4>6 DEF Before
    <3>4. QED
      BY <1>3, <1>10, <2>1, <3>1, <3>2, <3>3 DEF k
  <2>2. QED
    BY <2>1 DEF WayOrder
<1>16. WayStates(U)
  <2>1. ASSUME NEW j \in 1..Len(U)
        PROVE  ResultsOK(U[j]) /\ Timely(U[j].lease)
    <3>1. CASE j \in 1..k
      BY <1>3, <1>10, <3>1 DEF WayStates, k
    <3>2. CASE j = k + 1
      BY <1>7, <1>8, <1>10, <3>2 DEF ResultsOK
    <3>3. QED
      BY <1>3, <1>10, <3>1, <3>2 DEF k
  <2>2. QED
    BY <2>1 DEF WayStates
<1>17. WayOrder(U)' /\ WayStates(U)'
  BY <1>1, <1>15, <1>16 DEF WayOrder, WayStates, Later, Over, Timely, Clock
<1>18. WayNodes(U)'
  <2>1. State(at'[n]) = U[Len(U)] /\ Len(U) \in 1..Len(U)
    BY <1>0, <1>3, <1>5, <1>10
  <2>2. ASSUME NEW m \in Node \ lost, m # n
        PROVE  \E j \in 1..Len(U) : State(at'[m]) = U[j]
    <3>1. PICK j \in 1..k : State(at[m]) = T[j]
      BY <1>3 DEF WayNodes, k
    <3>2. j \in 1..Len(U) /\ U[j] = T[j]
      BY <1>3, <1>10
    <3>3. QED
      BY <1>5, <2>2, <3>1, <3>2
  <2>3. n \in Node \ lost
    BY <1>1
  <2>4. QED
    BY <1>1, <2>1, <2>2, <2>3 DEF WayNodes
<1>19. Way(U)'
  BY <1>11, <1>13, <1>14, <1>17, <1>18 DEF Way
<1>20. QED
  BY <1>0, <1>5, <1>19

LEMMA InvLearn ==
  ASSUME Inv, NEW n \in Node, Learn(n)
  PROVE  Inv'
<1>1. TypeOK /\ CommandInv /\ MemberInv /\ ToldInv
  BY DEF Inv
<1>2. PICK T : Way(T)
  BY DEF Inv
<1>3. PICK r, c, q : r = at[n] /\ c = At(at[n])[at[n].slot + 1] /\ q = Advanced(r, c)
  OBVIOUS
<1>4. /\ r \in Replica /\ q \in Replica /\ c \in CommandSet /\ CommandOK(c) /\ n \notin lost
      /\ at' = [at EXCEPT ![n] = q] /\ Grows
      /\ plan' = plan /\ sent' = sent /\ call' = call /\ now' = now /\ lost' = lost
      /\ log' = log \/ log' = Append(log, << >>)
  BY <1>1, <1>2, <1>3, LearnFacts
<1>5. at'[n] = q /\ \A m \in Node \ {n} : at'[m] = at[m]
  BY <1>1, <1>4 DEF TypeOK
<1>6. TypeOK'
  BY <1>1, <1>4 DEF TypeOK, Grows
<1>7. CommandInv'
  <2>1. \A d : CommandOK(d)' = CommandOK(d)
    BY <1>4 DEF CommandOK, Later, Over, Timely, Clock
  <2>2. ASSUME NEW e \in DOMAIN log', NEW i \in DOMAIN log'[e]
        PROVE  CommandOK(log'[e][i])
    <3>1. CASE log' = log
      BY <1>1, <2>2, <3>1 DEF CommandInv
    <3>2. CASE log' = Append(log, << >>)
      <4>1. /\ DOMAIN log' = 1..Len(log) + 1 /\ DOMAIN log = 1..Len(log) /\ Len(log) \in Nat
            /\ \A f \in 1..Len(log) : log'[f] = log[f]
            /\ log'[Len(log) + 1] = << >>
        BY <1>1, <3>2, AppendProperties DEF TypeOK
      <4>2. e \in 1..Len(log)
        BY <2>2, <4>1
      <4>3. QED
        BY <1>1, <2>2, <4>1, <4>2 DEF CommandInv
    <3>3. QED
      BY <1>4, <3>1, <3>2
  <2>3. QED
    BY <1>1, <1>4, <2>1, <2>2 DEF CommandInv
<1>8. MemberInv'
  <2>1. q.members = c.members \/ q.members = r.members
    BY <1>3, <1>4, AdvancedFields
  <2>2. q.members \subseteq plan.nodes
    BY <1>1, <1>3, <1>4, <2>1 DEF CommandOK, MemberInv
  <2>3. QED
    BY <1>1, <1>4, <1>5, <2>2 DEF MemberInv
<1>9. ToldInv'
  <2>1. ToSet(r.passed) \subseteq ToSet(q.passed)
    <3>1. Prefix(r.passed, q.passed)
      BY <1>3, <1>4, AdvancedPrefix
    <3>2. r.passed \in Seq(Effects) /\ q.passed \in Seq(Effects)
      BY <1>4 DEF Replica
    <3>3. QED
      BY <3>1, <3>2, PrefixToSet
  <2>2. ASSUME NEW d \in Call, Alive(d), call[d].told # None
        PROVE  call[d].told \in ToSet(View(d)'.passed)
    <3>1. call[d].told \in ToSet(View(d).passed)
      BY <1>1, <2>2 DEF ToldInv
    <3>2. Here(d) \in Node
      BY <1>1, PlanFacts
    <3>3. CASE Here(d) = n
      BY <1>3, <1>4, <1>5, <2>1, <3>1, <3>3 DEF View, Here
    <3>4. CASE Here(d) # n
      BY <1>4, <1>5, <3>1, <3>2, <3>4 DEF View, Here
    <3>5. QED
      BY <3>3, <3>4
  <2>3. QED
    BY <1>4, <2>2 DEF ToldInv, Alive, Here, View
<1>10. \E U : Way(U)'
  <2>1. PICK i \in 1..Len(T) : State(at[n]) = T[i]
    BY <1>2, <1>4 DEF Way, WayNodes
  <2>2. CASE i = Len(T)
    BY <1>1, <1>2, <2>1, <2>2, LearnAhead
  <2>3. CASE i < Len(T)
    BY <1>1, <1>2, <2>1, <2>3, LearnBehind
  <2>4. Len(T) \in Nat
    BY <1>2, WayElements DEF Way
  <2>5. QED
    BY <2>1, <2>2, <2>3, <2>4
<1>11. QED
  BY <1>6, <1>7, <1>8, <1>9, <1>10 DEF Inv

-----------------------------------------------------------------------------
(* The first state. *)
LEMMA InvInit ==
  ASSUME Init
  PROVE  Inv
<1>1. plan \in Settings /\ plan.genesis \subseteq plan.nodes
  BY ClusterAssumption DEF Init
<1>2. plan.nodes \subseteq Node /\ plan.genesis # {} /\ plan.genesis \subseteq Node
  BY <1>1 DEF Settings
<1>3. NoLease \in Lease /\ << >> \in Seq(Effects)
  BY EmptySeq DEF NoLease, Lease
<1>4. \A n, G : G \subseteq Node => NewReplica(n, G) \in Replica
  BY <1>3 DEF NewReplica, Replica
<1>5. NewCall \in Thread
  BY DEF NewCall, Thread, Place
<1>6. TypeOK
  <2>1. << >> \in Seq(CommandSet) /\ log = << << >> >>
    BY EmptySeq DEF Init
  <2>2. log \in Seq(Seq(CommandSet))
    BY <2>1
  <2>3. at \in [Node -> Replica]
    BY <1>2, <1>4 DEF Init
  <2>4. call \in [Call -> Thread]
    BY <1>5 DEF Init
  <2>5. QED
    BY <2>2, <2>3, <2>4 DEF Init, TypeOK
<1>7. CommandInv
  <2>1. sent = {} /\ log = << << >> >>
    BY DEF Init
  <2>2. \A e \in DOMAIN log : log[e] = << >>
    BY <2>1
  <2>3. QED
    BY <2>1, <2>2 DEF CommandInv
<1>8. MemberInv /\ ToldInv
  BY <1>1 DEF Init, MemberInv, ToldInv, NewReplica, NewCall
<1>9. PICK T : T = << First >>
  OBVIOUS
<1>10. Way(T)
  <2>1. /\ First \in Replica
        /\ First.epoch = 0 /\ First.slot = 0 /\ First.lease = NoLease
        /\ First.results = << >> /\ First.passed = << >>
    <3> DEFINE r == NewReplica(None, {})
    <3>1. r \in Replica
      BY <1>4
    <3>2. /\ r.epoch = 0 /\ r.slot = 0 /\ r.lease = NoLease /\ r.results = << >>
          /\ r.passed = << >>
      BY DEF NewReplica
    <3> HIDE DEF r
    <3>3. QED
      BY <3>1, <3>2, StateFields DEF First, r
  <2>2. T \in Seq(Replica) /\ Len(T) = 1 /\ T[1] = First
    BY <1>9, <2>1
  <2>3. WayType(T)
    BY <2>2 DEF WayType
  <2>4. Len(log) = 1 /\ Len(log[1]) = 0
    BY DEF Init
  <2>5. WayInLog(T)
    BY <2>1, <2>2, <2>4 DEF WayInLog, At
  <2>6. WaySteps(T) /\ WayOrder(T)
    BY <2>2 DEF WaySteps, WayOrder
  <2>7. WayStates(T)
    BY <2>1, <2>2, ClusterAssumption DEF WayStates, ResultsOK, Timely, NoLease
  <2>8. \A n \in Node : State(at[n]) = First
    <3>1. ASSUME NEW n \in Node
          PROVE  State(NewReplica(n, plan.genesis)) = State(NewReplica(None, {}))
      <4> DEFINE r == NewReplica(n, plan.genesis)
                 s == NewReplica(None, {})
      <4>1. r \in Replica /\ s \in Replica
        BY <1>2, <1>4
      <4>2. /\ r.epoch = s.epoch /\ r.slot = s.slot /\ r.lease = s.lease
            /\ r.removed = s.removed /\ r.results = s.results /\ r.passed = s.passed
        BY DEF NewReplica
      <4> HIDE DEF r, s
      <4>3. State(r) \in Replica /\ State(s) \in Replica
        BY <4>1, StateFields
      <4>4. /\ State(r).epoch = State(s).epoch /\ State(r).slot = State(s).slot
            /\ State(r).members = State(s).members /\ State(r).lease = State(s).lease
            /\ State(r).removed = State(s).removed /\ State(r).results = State(s).results
            /\ State(r).passed = State(s).passed
        BY <4>1, <4>2, StateFields
      <4>5. State(r) = State(s)
        BY <4>3, <4>4, ReplicaEqual
      <4>6. QED
        BY <4>5 DEF r, s
    <3>2. QED
      BY <3>1 DEF Init, First
  <2>9. \E n \in Node : n \notin lost
    BY <1>1, <1>2 DEF Init
  <2>10. WayNodes(T)
    BY <2>2, <2>8, <2>9 DEF WayNodes
  <2>11. QED
    BY <2>3, <2>5, <2>6, <2>7, <2>10 DEF Way
<1>11. QED
  BY <1>6, <1>7, <1>8, <1>10 DEF Inv

-----------------------------------------------------------------------------
(* A group forced from one survivor goes back to where the survivor is.    *)

LEMMA ForceFacts ==
  ASSUME TypeOK, MemberInv, CommandInv, NEW T, Way(T), NEW n \in Node, ForceNewGroup(n)
  PROVE  LET r == at[n]
         IN /\ n \notin lost /\ lost = Node \ plan.nodes /\ plan.nodes # {n}
            /\ plan' = plan /\ at' = at /\ now' = now /\ lost' = Node \ {n} /\ sent' = {}
            /\ r \in Replica /\ r.epoch \in Nat /\ r.slot \in Nat
            /\ r.epoch < Len(log) /\ r.slot <= Len(At(r))
            /\ log' \in Seq(Seq(CommandSet)) /\ Len(log') = r.epoch + 1
            /\ \A e \in 1..r.epoch : log'[e] = log[e]
            /\ Len(log'[r.epoch + 1]) = r.slot + 1
            /\ \A k \in 1..r.slot : log'[r.epoch + 1][k] = At(r)[k]
            /\ CommandOK(log'[r.epoch + 1][r.slot + 1])
<1> DEFINE r == at[n]
           old == At(r)
           d == [id |-> <<n, 0>>, op |-> "voters", epoch |-> r.epoch, members |-> {n},
                 marks |-> {}, expected |-> NoLease, value |-> NoLease]
           new == Append(SubSeq(old, 1, r.slot), d)
<1>1. /\ lost = Node \ plan.nodes /\ n \in r.members /\ r.members # {n}
      /\ log' = Append(SubSeq(log, 1, r.epoch), new)
      /\ lost' = Node \ {n} /\ sent' = {} /\ plan' = plan /\ at' = at /\ now' = now
  BY DEF ForceNewGroup, At
<1>2. r.members \subseteq plan.nodes /\ n \notin lost /\ plan.nodes # {n}
  BY <1>1 DEF MemberInv
<1>3. r \in Replica /\ r.epoch \in Nat /\ r.slot \in Nat
  BY DEF TypeOK, Replica
<1>4. PICK i \in 1..Len(T) : State(r) = T[i]
  BY <1>2 DEF Way, WayNodes
<1>5. r.epoch < Len(log) /\ r.slot <= Len(old)
  BY <1>3, <1>4, StateFields DEF Way, WayInLog, At
<1>6. d \in CommandSet /\ CommandOK(d)
  <2>1. NoLease \in Lease
    BY DEF NoLease, Lease
  <2>2. d \in CommandSet
    BY <1>3, <2>1 DEF CommandSet, CommandId
  <2>3. CommandOK(d)
    BY <1>1, <1>2 DEF CommandOK
  <2>4. QED
    BY <2>2, <2>3
<1> HIDE DEF d
<1>7. old \in Seq(CommandSet) /\ log \in Seq(Seq(CommandSet))
  <2>1. log \in Seq(Seq(CommandSet)) /\ r.epoch + 1 \in 1..Len(log)
    BY <1>3, <1>5 DEF TypeOK
  <2>2. QED
    BY <2>1 DEF At
<1>8. /\ SubSeq(old, 1, r.slot) \in Seq(CommandSet) /\ Len(SubSeq(old, 1, r.slot)) = r.slot
      /\ \A k \in 1..r.slot : SubSeq(old, 1, r.slot)[k] = old[k]
  <2> HIDE DEF r, old
  <2>1. QED
    BY <1>3, <1>5, <1>7
<1>9. /\ new \in Seq(CommandSet) /\ Len(new) = r.slot + 1 /\ new[r.slot + 1] = d
      /\ \A k \in 1..r.slot : new[k] = old[k]
  <2> HIDE DEF r, old
  <2>1. QED
    BY <1>3, <1>6, <1>8, AppendProperties
<1>10. /\ SubSeq(log, 1, r.epoch) \in Seq(Seq(CommandSet))
       /\ Len(SubSeq(log, 1, r.epoch)) = r.epoch
       /\ \A e \in 1..r.epoch : SubSeq(log, 1, r.epoch)[e] = log[e]
  <2> HIDE DEF r
  <2>1. QED
    BY <1>3, <1>5, <1>7
<1>11. /\ log' \in Seq(Seq(CommandSet)) /\ Len(log') = r.epoch + 1
       /\ log'[r.epoch + 1] = new
       /\ \A e \in 1..r.epoch : log'[e] = log[e]
  <2> HIDE DEF r, new
  <2>1. QED
    BY <1>1, <1>3, <1>9, <1>10, AppendProperties
<1> HIDE DEF new, old
<1>12. QED
  BY <1>1, <1>2, <1>3, <1>5, <1>6, <1>9, <1>11 DEF old

LEMMA InvForce ==
  ASSUME Inv, NEW n \in Node, ForceNewGroup(n)
  PROVE  Inv'
<1>1. TypeOK /\ CommandInv /\ MemberInv /\ ToldInv
  BY DEF Inv
<1>2. PICK T : Way(T)
  BY DEF Inv
<1>3. PICK r : r = at[n]
  OBVIOUS
<1>4. /\ n \notin lost /\ plan' = plan /\ at' = at /\ now' = now /\ lost' = Node \ {n} /\ sent' = {}
      /\ r \in Replica /\ r.epoch \in Nat /\ r.slot \in Nat
      /\ r.epoch < Len(log) /\ r.slot <= Len(At(r))
      /\ log' \in Seq(Seq(CommandSet)) /\ Len(log') = r.epoch + 1
      /\ \A e \in 1..r.epoch : log'[e] = log[e]
      /\ Len(log'[r.epoch + 1]) = r.slot + 1
      /\ \A k \in 1..r.slot : log'[r.epoch + 1][k] = At(r)[k]
      /\ CommandOK(log'[r.epoch + 1][r.slot + 1])
  BY <1>1, <1>2, <1>3, ForceFacts
<1>5. /\ r.epoch \in Nat /\ r.slot \in Nat /\ r.epoch < Len(log)
      /\ Len(log') = r.epoch + 1 /\ Len(log'[r.epoch + 1]) = r.slot + 1
  BY <1>4
<1>6. ASSUME NEW e \in Nat, e < r.epoch
      PROVE  log'[e + 1] = log[e + 1] /\ e < Len(log')
  <2>1. r.epoch \in Nat
    BY <1>4
  <2>2. e + 1 \in 1..r.epoch /\ e < r.epoch + 1
    BY <1>6, <2>1
  <2>3. QED
    BY <1>4, <2>2
<1>7. /\ call' \in [Call -> Thread]
      /\ \A c \in Call : call'[c].told = call[c].told /\ call'[c].adds = call[c].adds
  <2>1. ASSUME NEW c \in Call
        PROVE  /\ [call[c] EXCEPT !.at = "new"] \in Thread
               /\ [call[c] EXCEPT !.at = "ended"] \in Thread
               /\ [call[c] EXCEPT !.at = "new"].told = call[c].told
               /\ [call[c] EXCEPT !.at = "new"].adds = call[c].adds
               /\ [call[c] EXCEPT !.at = "ended"].told = call[c].told
               /\ [call[c] EXCEPT !.at = "ended"].adds = call[c].adds
    <3>1. call[c] \in Thread /\ "new" \in Place /\ "ended" \in Place
      BY <1>1 DEF TypeOK, Place
    <3>2. QED
      BY <3>1, ThreadAt
  <2>2. call' = [c \in Call |-> IF call[c].at = "new" \/ Kind(c) = "lease"
                                THEN [call[c] EXCEPT !.at = "new"]
                                ELSE [call[c] EXCEPT !.at = "ended"]]
    BY DEF ForceNewGroup
  <2>3. QED
    BY <2>1, <2>2
<1>8. TypeOK'
  BY <1>1, <1>4, <1>7 DEF TypeOK
<1>9. CommandInv'
  <2>1. \A d : CommandOK(d)' = CommandOK(d)
    BY <1>4 DEF CommandOK, Later, Over, Timely, Clock
  <2>2. ASSUME NEW e \in DOMAIN log', NEW k \in DOMAIN log'[e]
        PROVE  CommandOK(log'[e][k])
    <3>1. e \in 1..r.epoch + 1 /\ log \in Seq(Seq(CommandSet)) /\ Len(log) \in Nat
      <4>1. log' \in Seq(Seq(CommandSet)) /\ log \in Seq(Seq(CommandSet))
        BY <1>1, <1>4 DEF TypeOK
      <4>2. DOMAIN log' = 1..Len(log') /\ Len(log) \in Nat
        BY <4>1
      <4>3. QED
        BY <1>5, <2>2, <4>1, <4>2
    <3>2. CASE e \in 1..r.epoch
      <4>1. log'[e] = log[e] /\ e \in DOMAIN log
        <5>1. e \in DOMAIN log
          BY <1>5, <3>1, <3>2
        <5>2. QED
          BY <1>4, <3>2, <5>1
      <4>2. QED
        BY <1>1, <2>2, <4>1 DEF CommandInv
    <3>3. CASE e = r.epoch + 1
      <4>1. log'[e] \in Seq(CommandSet) /\ At(r) \in Seq(CommandSet) /\ e \in DOMAIN log
        <5>1. e \in 1..Len(log') /\ e \in 1..Len(log)
          BY <1>4, <3>1, <3>3
        <5>2. QED
          BY <1>4, <3>1, <3>3, <5>1, ElementOfSeq DEF At
      <4>2. k \in 1..r.slot + 1
        BY <1>4, <2>2, <3>3, <4>1
      <4>3. CASE k \in 1..r.slot
        <5>1. log'[e][k] = log[e][k] /\ k \in DOMAIN log[e]
          <6>1. Len(At(r)) \in Nat
            BY <4>1
          <6>2. k \in DOMAIN At(r)
            BY <1>4, <4>1, <4>3, <6>1
          <6>3. QED
            BY <1>4, <3>3, <4>3, <6>2 DEF At
        <5>2. QED
          BY <1>1, <4>1, <5>1 DEF CommandInv
      <4>4. CASE k = r.slot + 1
        BY <1>4, <3>3, <4>4
      <4>5. QED
        BY <1>4, <4>2, <4>3, <4>4
    <3>4. QED
      BY <1>4, <3>1, <3>2, <3>3
  <2>3. QED
    BY <1>4, <2>1, <2>2 DEF CommandInv
<1>10. MemberInv' /\ ToldInv'
  <2>1. MemberInv'
    BY <1>1, <1>4, <1>7 DEF MemberInv
  <2>2. \A c \in Call : (Alive(c))' => Alive(c)
    <3>1. \A c \in Call : Here(c) \in Node
      BY <1>1, PlanFacts
    <3>2. QED
      BY <1>4, <3>1 DEF Alive, Here
  <2>3. ToldInv'
    BY <1>1, <1>4, <1>7, <2>2 DEF ToldInv, View, Here
  <2>4. QED
    BY <2>1, <2>3
<1>11. PICK i \in 1..Len(T) : State(at[n]) = T[i]
  BY <1>2, <1>4 DEF Way, WayNodes
<1>12. PICK U : U = SubSeq(T, 1, i)
  OBVIOUS
<1>13. /\ T \in Seq(Replica) /\ Len(T) \in Nat \ {0}
       /\ \A j \in 1..Len(T) : T[j] \in Replica /\ T[j].epoch \in Nat /\ T[j].slot \in Nat
       /\ WayType(T) /\ WayInLog(T) /\ WaySteps(T) /\ WayOrder(T) /\ WayStates(T)
  BY <1>2, WayElements DEF Way
<1>14. /\ U \in Seq(Replica) /\ Len(U) = i /\ i \in Nat \ {0} /\ i <= Len(T)
       /\ \A j \in 1..i : U[j] = T[j] /\ j \in 1..Len(T)
  BY <1>12, <1>13
<1>15. T[i].epoch = r.epoch /\ T[i].slot = r.slot
  BY <1>3, <1>4, <1>11, StateFields
<1>16. WayType(U)'
  <2>1. U # << >> /\ U[1] = First
    BY <1>13, <1>14 DEF WayType
  <2>2. QED
    BY <1>14, <2>1 DEF WayType
<1>17. WayOrder(U)' /\ WayStates(U)'
  <2>1. WayOrder(U) /\ WayStates(U)
    BY <1>13, <1>14 DEF WayOrder, WayStates
  <2>2. QED
    BY <1>4, <2>1 DEF WayOrder, WayStates, Later, Over, Timely, Clock
<1>18. ASSUME NEW j \in 1..i
       PROVE  \/ T[j].epoch < r.epoch
              \/ T[j].epoch = r.epoch /\ T[j].slot < r.slot
              \/ j = i
  <2>1. CASE j < i
    <3>1. Before(T[j], T[i])
      BY <1>13, <1>14, <2>1 DEF WayOrder
    <3>2. QED
      BY <1>15, <3>1 DEF Before
  <2>2. QED
    BY <1>14, <2>1
<1>19. WayInLog(U)'
  <2>1. ASSUME NEW j \in 1..i
        PROVE  T[j].epoch < Len(log') /\ T[j].slot <= Len(At(T[j])')
    <3>1. T[j].epoch \in Nat /\ T[j].slot \in Nat /\ T[j].slot <= Len(At(T[j]))
      BY <1>13, <1>14 DEF WayInLog
    <3>2. CASE T[j].epoch < r.epoch
      <4>1. log'[T[j].epoch + 1] = log[T[j].epoch + 1] /\ T[j].epoch < Len(log')
        BY <1>6, <3>1, <3>2
      <4>2. QED
        BY <3>1, <4>1 DEF At
    <3>3. CASE T[j].epoch = r.epoch /\ T[j].slot <= r.slot
      <4>1. T[j].slot <= Len(log'[r.epoch + 1]) /\ T[j].epoch < Len(log')
        BY <1>5, <3>1, <3>3
      <4>2. QED
        BY <3>3, <4>1 DEF At
    <3>4. QED
      BY <1>4, <1>15, <1>18, <3>1, <3>2, <3>3
  <2>2. QED
    BY <1>14, <2>1 DEF WayInLog
<1>20. WaySteps(U)'
  <2>1. ASSUME NEW j \in 1..i - 1
        PROVE  /\ T[j].slot < Len(At(T[j])')
               /\ T[j + 1] = State(Advanced(T[j], At(T[j])'[T[j].slot + 1]))
    <3>1. j \in 1..i /\ j # i /\ j \in 1..Len(T) - 1 /\ T[j].epoch \in Nat /\ T[j].slot \in Nat
      BY <1>13, <1>14
    <3>2. /\ T[j].slot < Len(At(T[j]))
          /\ T[j + 1] = State(Advanced(T[j], At(T[j])[T[j].slot + 1]))
      BY <1>13, <3>1 DEF WaySteps
    <3>3. CASE T[j].epoch < r.epoch
      <4>1. log'[T[j].epoch + 1] = log[T[j].epoch + 1]
        BY <1>6, <3>1, <3>3
      <4>2. QED
        BY <3>2, <4>1 DEF At
    <3>4. CASE T[j].epoch = r.epoch /\ T[j].slot < r.slot
      <4>1. T[j].slot + 1 \in 1..r.slot /\ T[j].slot < r.slot + 1
        BY <1>5, <3>1, <3>4
      <4>2. log'[r.epoch + 1][T[j].slot + 1] = At(r)[T[j].slot + 1]
        BY <1>4, <4>1
      <4>3. QED
        BY <1>4, <3>2, <3>4, <4>1, <4>2 DEF At
    <3>5. QED
      BY <1>18, <3>1, <3>3, <3>4
  <2>2. ASSUME NEW j \in 1..Len(U) - 1
        PROVE  j \in 1..i - 1 /\ U[j] = T[j] /\ U[j + 1] = T[j + 1]
    BY <1>14
  <2>3. QED
    BY <2>1, <2>2 DEF WaySteps
<1>21. WayNodes(U)'
  <2>1. State(at'[n]) = U[Len(U)] /\ Len(U) \in 1..Len(U)
    BY <1>4, <1>11, <1>14
  <2>2. QED
    BY <1>4, <2>1 DEF WayNodes
<1>22. Way(U)'
  BY <1>16, <1>17, <1>19, <1>20, <1>21 DEF Way
<1>23. QED
  BY <1>8, <1>9, <1>10, <1>22 DEF Inv

LEMMA InvNext ==
  ASSUME Inv, [Next]_vars
  PROVE  Inv'
<1>1. CASE Next
  <2>1. \/ \E n \in Node : Learn(n) \/ ForceNewGroup(n) \/ \E c \in sent : Choose(n, c)
        \/ \E c \in Call : CallStep(c)
        \/ Tick
    BY <1>1 DEF Next, CallStep
  <2>2. QED
    BY <2>1, InvLearn, InvForce, InvChoose, InvCall, InvTick
<1>2. CASE UNCHANGED vars
  <2>1. /\ plan' = plan /\ log' = log /\ sent' = sent /\ at' = at /\ call' = call
        /\ now' = now /\ lost' = lost
    BY <1>2 DEF vars
  <2>2. TypeOK' /\ CommandInv' /\ MemberInv' /\ ToldInv'
    BY <2>1 DEF Inv, TypeOK, CommandInv, CommandOK, MemberInv, ToldInv, Later, Over, Timely,
         Clock, Alive, View, Here
  <2>3. PICK T : Way(T)
    BY DEF Inv
  <2>4. Way(T)'
    BY <2>1, <2>3 DEF Way, WayType, WayInLog, WaySteps, WayOrder, WayStates, WayNodes, At,
         Later, Over, Timely, Clock
  <2>5. QED
    BY <2>2, <2>4 DEF Inv
<1>3. QED
  BY <1>1, <1>2

(* The inductive invariant: the states of all replicas, of whatever epoch, *)
(* lie on one way through the logs (Inv).                                  *)
THEOREM ClusterInvariant == Spec => []Inv
<1>1. Init => Inv
  BY InvInit
<1>2. Inv /\ [Next]_vars => Inv'
  BY InvNext
<1> QED BY <1>1, <1>2, PTL DEF Spec

-----------------------------------------------------------------------------
(* The end of the way is the history. *)

(* Of sequences of effects that are all prefixes of one of them, a longest *)
(* is that one.                                                            *)
LEMMA Longest ==
  ASSUME NEW T, WayType(T),
         \A i, j \in 1..Len(T) : i < j => Prefix(T[i].passed, T[j].passed),
         NEW P,
         \A n \in Node : P[n] = << >> \/ \E i \in 1..Len(T) : P[n] = T[i].passed,
         \E n \in Node : P[n] = T[Len(T)].passed
  PROVE  /\ T[Len(T)].passed \in Seq(Effects)
         /\ \A n \in Node : P[n] \in Seq(Effects) /\ Prefix(P[n], T[Len(T)].passed)
         /\ \E n \in Node : \A m \in Node : Len(P[m]) <= Len(P[n])
         /\ \A n \in Node : (\A m \in Node : Len(P[m]) <= Len(P[n])) => P[n] = T[Len(T)].passed
<1> DEFINE L == T[Len(T)].passed
<1>1. /\ Len(T) \in Nat \ {0} /\ Len(T) \in 1..Len(T)
      /\ \A i \in 1..Len(T) : T[i] \in Replica
  BY WayElements
<1>2. L \in Seq(Effects) /\ \A i \in 1..Len(T) : T[i].passed \in Seq(Effects)
  BY <1>1 DEF Replica
<1>3. \A i \in 1..Len(T) : Prefix(T[i].passed, L)
  <2>1. ASSUME NEW i \in 1..Len(T)
        PROVE  Prefix(T[i].passed, L)
    <3>1. CASE i < Len(T)
      BY <1>1, <3>1
    <3>2. CASE i = Len(T)
      BY <1>2, <3>2, PrefixSelf
    <3>3. QED
      BY <1>1, <3>1, <3>2
  <2>2. QED
    BY <2>1
<1>4. ASSUME NEW n \in Node
      PROVE  P[n] \in Seq(Effects) /\ Prefix(P[n], L)
  <2>1. << >> \in Seq(Effects) /\ Prefix(<< >>, L)
    <3>1. << >> \in Seq(Effects) /\ Len(<< >>) = 0 /\ 1..0 = {} /\ Len(L) \in Nat
      BY <1>2, EmptySeq
    <3> HIDE DEF L
    <3>2. QED
      BY <3>1 DEF Prefix
  <2>2. QED
    BY <1>2, <1>3, <2>1
<1>5. PICK e \in Node : P[e] = L
  OBVIOUS
<1> HIDE DEF L
<1>6. \A m \in Node : Len(P[m]) \in Nat /\ Len(P[m]) <= Len(L)
  BY <1>4 DEF Prefix
<1>7. \A m \in Node : Len(P[m]) <= Len(P[e])
  BY <1>5, <1>6
<1>8. ASSUME NEW k \in Node, \A m \in Node : Len(P[m]) <= Len(P[k])
      PROVE  P[k] = L
  <2>1. Len(P[k]) = Len(L)
    BY <1>5, <1>6, <1>8
  <2>2. Prefix(P[k], L) /\ P[k] \in Seq(Effects)
    BY <1>4
  <2>3. P[k] \in Seq(Effects) /\ L \in Seq(Effects) /\ \A i \in 1..Len(L) : P[k][i] = L[i]
    BY <1>2, <2>1, <2>2 DEF Prefix
  <2>4. QED
    BY <2>1, <2>3, SeqEqual
<1>9. QED
  BY <1>2, <1>4, <1>7, <1>8 DEF L

LEMMA HistoryNow ==
  ASSUME TypeOK, NEW T, Way(T)
  PROVE  /\ History = T[Len(T)].passed /\ History \in Seq(Effects)
         /\ \A n \in Node : Passed[n] \in Seq(Effects) /\ Prefix(Passed[n], History)
<1>1. WayType(T) /\ \A i, j \in 1..Len(T) : i < j => Prefix(T[i].passed, T[j].passed)
  BY DEF Way, WayOrder
<1>2. \A n \in Node \ lost : Passed[n] = State(at[n]).passed
  BY StateFields DEF TypeOK, Passed
<1>3. /\ \A n \in Node : Passed[n] = << >> \/ \E i \in 1..Len(T) : Passed[n] = T[i].passed
      /\ \E n \in Node : Passed[n] = T[Len(T)].passed
  <2>1. \A n \in Node : n \in lost => Passed[n] = << >>
    BY DEF Passed
  <2>2. QED
    BY <1>2, <2>1 DEF Way, WayNodes
<1>4. /\ T[Len(T)].passed \in Seq(Effects)
      /\ \A n \in Node : Passed[n] \in Seq(Effects) /\ Prefix(Passed[n], T[Len(T)].passed)
      /\ \E n \in Node : \A m \in Node : Len(Passed[m]) <= Len(Passed[n])
      /\ \A n \in Node : (\A m \in Node : Len(Passed[m]) <= Len(Passed[n]))
                         => Passed[n] = T[Len(T)].passed
  BY <1>1, <1>3, Longest
<1>5. History = T[Len(T)].passed
  BY <1>4 DEF History
<1>6. QED
  BY <1>4, <1>5

LEMMA HistoryNext ==
  ASSUME TypeOK', NEW T, Way(T)'
  PROVE  History' = T[Len(T)].passed
<1>1. WayType(T) /\ \A i, j \in 1..Len(T) : i < j => Prefix(T[i].passed, T[j].passed)
  BY DEF Way, WayType, WayOrder
<1>2. \A n \in Node \ lost' : Passed'[n] = State(at'[n]).passed
  BY StateFields DEF TypeOK, Passed
<1>3. /\ \A n \in Node : Passed'[n] = << >> \/ \E i \in 1..Len(T) : Passed'[n] = T[i].passed
      /\ \E n \in Node : Passed'[n] = T[Len(T)].passed
  <2>1. \A n \in Node : n \in lost' => Passed'[n] = << >>
    BY DEF Passed
  <2>2. QED
    BY <1>2, <2>1 DEF Way, WayNodes
<1>4. /\ \E n \in Node : \A m \in Node : Len(Passed'[m]) <= Len(Passed'[n])
      /\ \A n \in Node : (\A m \in Node : Len(Passed'[m]) <= Len(Passed'[n]))
                         => Passed'[n] = T[Len(T)].passed
  BY <1>1, <1>3, Longest
<1>5. QED
  BY <1>4 DEF History

(* What submit tells a caller is what its command did for everyone         *)
(* (ToldIsTrue), however often it was sent and in whichever epoch it took  *)
(* effect.                                                                 *)
THEOREM ToldIsTrueHolds == Spec => []ToldIsTrue
<1>1. Inv => ToldIsTrue
  <2> SUFFICES ASSUME Inv, NEW c \in Call, Alive(c), call[c].told # None
               PROVE  call[c].told \in ToSet(History)
    BY DEF ToldIsTrue
  <2>1. TypeOK /\ ToldInv
    BY DEF Inv
  <2>2. PICK T : Way(T)
    BY DEF Inv
  <2>3. Here(c) \in Node
    BY <2>1, PlanFacts
  <2>4. Passed[Here(c)] = View(c).passed
    BY <2>3 DEF Passed, View, Alive
  <2>5. /\ View(c).passed \in Seq(Effects) /\ History \in Seq(Effects)
        /\ Prefix(View(c).passed, History)
    BY <2>1, <2>2, <2>3, <2>4, HistoryNow
  <2>6. ToSet(View(c).passed) \subseteq ToSet(History)
    BY <2>5, PrefixToSet
  <2>7. QED
    BY <2>1, <2>6 DEF ToldInv
<1> QED BY <1>1, ClusterInvariant, PTL

(* Two nodes never rely on the lease at once (OneLeaseHolder): of two      *)
(* states of the way, the later one's lease took the place of the earlier  *)
(* one's when that was over on some clock, and no clock differs from the   *)
(* holder's by more than the margin.                                       *)
THEOREM OneLeaseHolderHolds == Spec => []OneLeaseHolder
<1>1. Inv => OneLeaseHolder
  <2> SUFFICES ASSUME Inv, NEW n \in Node \ lost, NEW m \in Node \ lost,
                      Holds(n, Margin), Holds(m, Margin)
               PROVE  n = m
    BY DEF OneLeaseHolder
  <2>1. TypeOK
    BY DEF Inv
  <2>2. PICK T : Way(T)
    BY DEF Inv
  <2>3. PICK i \in 1..Len(T) : State(at[n]) = T[i]
    BY <2>2 DEF Way, WayNodes
  <2>4. PICK j \in 1..Len(T) : State(at[m]) = T[j]
    BY <2>2 DEF Way, WayNodes
  <2>5. T[i].lease = at[n].lease /\ T[j].lease = at[m].lease
    BY <2>1, <2>3, <2>4, StateFields DEF TypeOK
  <2>6. \A A, B, a, b : a \in Node /\ b \in Node /\ A \in Lease
          /\ A.holder = a /\ A.expires > Clock(a) + Margin /\ B.holder = b /\ Later(A, B) => a = b
    <3> SUFFICES ASSUME NEW A \in Lease, NEW B, NEW a \in Node, NEW b \in Node,
                        A.holder = a, A.expires > Clock(a) + Margin, B.holder = b, Later(A, B)
                 PROVE  a = b
      OBVIOUS
    <3>1. ~Over(A)
      <4>1. A.expires \in Nat /\ Margin \in Nat
        BY ClusterAssumption DEF Lease
      <4>2. \A k \in Node : Clock(k) \in Nat /\ Clock(a) \in Nat /\ Clock(k) <= Clock(a) + Margin
        BY <2>1, ClockType
      <4>3. QED
        BY <4>1, <4>2 DEF Over
    <3>2. A.holder # None
      BY ClusterAssumption
    <3>3. QED
      BY <3>1, <3>2 DEF Later
  <2>7. /\ at[n].lease \in Lease /\ at[n].lease.holder = n /\ at[n].lease.expires > Clock(n) + Margin
        /\ at[m].lease \in Lease /\ at[m].lease.holder = m /\ at[m].lease.expires > Clock(m) + Margin
    BY <2>1 DEF Holds, TypeOK, Replica
  <2>8. i < j => Later(at[n].lease, at[m].lease)
    BY <2>2, <2>5 DEF Way, WayOrder
  <2>9. j < i => Later(at[m].lease, at[n].lease)
    BY <2>2, <2>5 DEF Way, WayOrder
  <2>10. CASE i < j
    BY <2>6, <2>7, <2>8, <2>10
  <2>11. CASE j < i
    BY <2>6, <2>7, <2>9, <2>11
  <2>12. CASE i = j
    BY <2>5, <2>7, <2>12
  <2>13. Len(T) \in Nat
    BY <2>2, WayElements DEF Way
  <2>14. QED
    BY <2>10, <2>11, <2>12, <2>13
<1> QED BY <1>1, ClusterInvariant, PTL

-----------------------------------------------------------------------------
(* Every step of the control plane is one of the history's, or none.       *)

Mapped == <<History, Passed, lost # Node \ plan.nodes>>

(* A command that had its effect before has none again. *)
LEMMA FreshEffect ==
  ASSUME NEW r \in Replica, NEW c \in CommandSet, ResultsOK(r), Len(r.passed) <= Remembered,
         ~Applied(r, c.id)
  PROVE  \A i \in DOMAIN r.passed : r.passed[i].id # Effect(r, c).id
<1>1. r.results = r.passed /\ Effect(r, c).id = c.id
  BY EffectType DEF ResultsOK
<1>2. QED
  BY <1>1 DEF Applied, ToSet

LEMMA PromiseInit ==
  ASSUME Init
  PROVE  Promise!Init
<1>1. Inv
  BY InvInit
<1>2. TypeOK
  BY <1>1 DEF Inv
<1>3. \A n \in Node : at[n].passed = << >>
  BY DEF Init, NewReplica
<1>4. Passed = [n \in Node |-> << >>]
  BY <1>3 DEF Passed
<1>5. PICK T : Way(T)
  BY <1>1 DEF Inv
<1>6. PICK n \in Node : State(at[n]) = T[Len(T)]
  BY <1>5 DEF Way, WayNodes
<1>7. History = at[n].passed
  BY <1>2, <1>5, <1>6, HistoryNow, StateFields DEF TypeOK
<1>8. lost = Node \ plan.nodes
  BY DEF Init
<1>9. QED
  BY <1>3, <1>4, <1>7, <1>8 DEF Promise!Init

LEMMA PromiseLearn ==
  ASSUME Inv, Inv', Short, NEW n \in Node, Learn(n)
  PROVE  [Promise!Next]_Mapped
<1>1. TypeOK /\ CommandInv /\ TypeOK'
  BY DEF Inv
<1>2. PICK T : Way(T)
  BY DEF Inv
<1>3. PICK r, c, q : r = at[n] /\ c = At(at[n])[at[n].slot + 1] /\ q = Advanced(r, c)
  OBVIOUS
<1>4. /\ r \in Replica /\ q \in Replica /\ c \in CommandSet /\ n \notin lost
      /\ at' = [at EXCEPT ![n] = q] /\ plan' = plan /\ lost' = lost
  BY <1>1, <1>2, <1>3, LearnFacts
<1>5. at'[n] = q /\ \A m \in Node \ {n} : at'[m] = at[m]
  BY <1>1, <1>4 DEF TypeOK
<1>6. /\ Passed[n] = r.passed /\ Passed'[n] = q.passed
      /\ Passed \in [Node -> Seq(Effects)] /\ Passed' = [Passed EXCEPT ![n] = q.passed]
  <2>1. Passed[n] = r.passed /\ Passed'[n] = q.passed
    BY <1>3, <1>4, <1>5 DEF Passed
  <2>2. \A m \in Node \ {n} : Passed'[m] = Passed[m]
    BY <1>4, <1>5 DEF Passed
  <2>3. /\ Passed = [m \in Node |-> Passed[m]] /\ DOMAIN Passed = Node
        /\ Passed' = [m \in Node |-> Passed'[m]] /\ DOMAIN Passed' = Node
    BY DEF Passed
  <2>4. \A m \in Node : Passed[m] \in Seq(Effects)
    BY <1>1, <1>2, HistoryNow
  <2>5. QED
    BY <2>1, <2>2, <2>3, <2>4
<1>7. r.passed \in Seq(Effects) /\ Effect(r, c) \in Effects
  BY <1>4, EffectType DEF Replica
<1>8. q.passed = IF ~Applied(r, c.id) THEN Append(r.passed, Effect(r, c)) ELSE r.passed
  BY <1>3, <1>4, AdvancedFields
<1>9. History = T[Len(T)].passed /\ History \in Seq(Effects)
  BY <1>1, <1>2, HistoryNow
<1>10. PICK i \in 1..Len(T) : State(at[n]) = T[i]
  BY <1>2, <1>4 DEF Way, WayNodes
<1>11. T[i].passed = r.passed /\ Len(T) \in Nat
  BY <1>2, <1>3, <1>4, <1>10, StateFields, WayElements DEF Way
<1>12. CASE i = Len(T)
  <2>1. PICK U : Way(U)' /\ U = Append(T, State(at'[n]))
    BY <1>1, <1>2, <1>10, <1>12, LearnAhead
  <2>2. Len(U) = Len(T) + 1 /\ U[Len(U)] = State(q)
    <3>1. T \in Seq(Replica) /\ State(q) \in Replica
      BY <1>2, <1>4, WayElements, StateFields DEF Way
    <3>2. QED
      BY <1>5, <2>1, <3>1, AppendProperties
  <2>3. History' = q.passed /\ History = r.passed
    <3>1. State(q).passed = q.passed
      BY <1>4, StateFields
    <3>2. History' = U[Len(U)].passed
      BY <1>1, <2>1, HistoryNext
    <3>3. QED
      BY <1>9, <1>11, <1>12, <2>2, <3>1, <3>2
  <2>4. CASE Applied(r, c.id)
    BY <1>4, <1>6, <1>8, <2>3, <2>4 DEF Mapped
  <2>5. CASE ~Applied(r, c.id)
    <3>1. Len(r.passed) <= Remembered /\ ResultsOK(r)
      BY <1>1, <1>2, <1>3, <1>4, LiveReplica DEF Short
    <3>2. \A k \in DOMAIN History : History[k].id # Effect(r, c).id
      BY <1>4, <2>3, <2>5, <3>1, FreshEffect
    <3>3. History' = Append(History, Effect(r, c)) /\ Passed' = [Passed EXCEPT ![n] = History']
      BY <1>6, <1>8, <2>3, <2>5
    <3>4. Promise!Extend(n)
      BY <1>4, <1>6, <1>7, <2>3, <3>2, <3>3 DEF Promise!Extend
    <3>5. QED
      BY <3>4 DEF Promise!Next
  <2>6. QED
    BY <2>4, <2>5
<1>13. CASE i < Len(T)
  <2>1. Way(T)' /\ State(at'[n]) = T[i + 1]
    BY <1>1, <1>2, <1>10, <1>13, LearnBehind
  <2>2. History' = History
    BY <1>1, <1>9, <2>1, HistoryNext
  <2>3. CASE Applied(r, c.id)
    BY <1>4, <1>6, <1>8, <2>2, <2>3 DEF Mapped
  <2>4. CASE ~Applied(r, c.id)
    <3>1. Prefix(q.passed, History)
      <4>1. i + 1 \in 1..Len(T) /\ Len(T) \in 1..Len(T)
        BY <1>11, <1>13
      <4>2. T[i + 1].passed = q.passed
        BY <1>4, <1>5, <2>1, StateFields
      <4>3. CASE i + 1 < Len(T)
        BY <1>2, <1>9, <4>1, <4>2, <4>3 DEF Way, WayOrder
      <4>4. CASE i + 1 = Len(T)
        BY <1>9, <4>2, <4>4, PrefixSelf
      <4>5. QED
        BY <1>11, <4>1, <4>3, <4>4
    <3>2. /\ Len(q.passed) = Len(r.passed) + 1 /\ Len(r.passed) \in Nat
          /\ q.passed \in Seq(Effects)
      BY <1>4, <1>7, <1>8, <2>4, AppendProperties DEF Replica
    <3>3. /\ Len(r.passed) + 1 <= Len(History)
          /\ \A k \in 1..Len(r.passed) + 1 : q.passed[k] = History[k]
      BY <3>1, <3>2 DEF Prefix
    <3>4. /\ SubSeq(History, 1, Len(r.passed) + 1) \in Seq(Effects)
          /\ Len(SubSeq(History, 1, Len(r.passed) + 1)) = Len(r.passed) + 1
          /\ \A k \in 1..Len(r.passed) + 1 : SubSeq(History, 1, Len(r.passed) + 1)[k] = History[k]
      BY <1>9, <3>2, <3>3
    <3>5. q.passed = SubSeq(History, 1, Len(r.passed) + 1)
      BY <3>2, <3>3, <3>4, SeqEqual
    <3>6. Len(r.passed) < Len(History)
      BY <1>9, <3>2, <3>3
    <3>7. Promise!Follow(n)
      BY <1>4, <1>6, <2>2, <3>5, <3>6 DEF Promise!Follow
    <3>8. QED
      BY <3>7 DEF Promise!Next
  <2>5. QED
    BY <2>3, <2>4
<1>14. QED
  BY <1>11, <1>12, <1>13

LEMMA PromiseForce ==
  ASSUME Inv, Inv', NEW n \in Node, ForceNewGroup(n)
  PROVE  Promise!Force(n)
<1>1. TypeOK /\ CommandInv /\ MemberInv /\ TypeOK'
  BY DEF Inv
<1>2. PICK T : Way(T)
  BY DEF Inv
<1>3. /\ n \notin lost /\ lost = Node \ plan.nodes /\ plan.nodes # {n}
      /\ plan' = plan /\ at' = at /\ lost' = Node \ {n}
  BY <1>1, <1>2, ForceFacts
<1>4. lost' # Node \ plan'.nodes
  BY <1>1, <1>3, PlanFacts
<1>5. Passed' = [m \in Node |-> IF m = n THEN Passed[n] ELSE << >>]
  BY <1>3 DEF Passed
<1>6. History' = Passed[n]
  <2>1. PICK U : Way(U)'
    BY DEF Inv
  <2>2. State(at[n]) = U[Len(U)]
    BY <1>3, <2>1 DEF Way, WayNodes
  <2>3. History' = U[Len(U)].passed
    BY <1>1, <2>1, HistoryNext
  <2>4. QED
    BY <1>1, <1>3, <2>2, <2>3, StateFields DEF Passed, TypeOK
<1>7. QED
  BY <1>3, <1>4, <1>5, <1>6 DEF Promise!Force

LEMMA PromiseNext ==
  ASSUME Inv, Inv', Short, [Next]_vars
  PROVE  [Promise!Next]_Mapped
<1>1. ASSUME plan' = plan, at' = at, lost' = lost
      PROVE  Mapped' = Mapped
  BY <1>1 DEF Mapped, History, Passed
<1>2. ASSUME NEW n \in Node, Learn(n)
      PROVE  [Promise!Next]_Mapped
  BY <1>2, PromiseLearn
<1>3. ASSUME NEW n \in Node, ForceNewGroup(n)
      PROVE  [Promise!Next]_Mapped
  BY <1>3, PromiseForce DEF Promise!Next
<1>4. ASSUME NEW n \in Node, NEW c \in sent, Choose(n, c)
      PROVE  Mapped' = Mapped
  BY <1>1, <1>4 DEF Choose
<1>5. ASSUME NEW c \in Call, CallStep(c)
      PROVE  Mapped' = Mapped
  <2>1. Still
    BY <1>5, CallStill
  <2>2. QED
    BY <1>1, <2>1 DEF Still
<1>6. ASSUME Tick \/ UNCHANGED vars
      PROVE  Mapped' = Mapped
  BY <1>1, <1>6 DEF Tick, vars
<1>7. QED
  BY <1>2, <1>3, <1>4, <1>5, <1>6 DEF Next, CallStep

(* While no replica has gone through more commands than it remembers the   *)
(* results of, every command takes effect at most once, in one order over  *)
(* all nodes and epochs; only a forced group gives up the end of it        *)
(* (OneHistorySpec).  Past that number a command that is chosen again may  *)
(* take effect again, so the hypothesis cannot be left out.                *)
THEOREM OneHistoryHolds == Spec /\ []Short => OneHistorySpec
<1>1. Init => Promise!Init
  BY PromiseInit
<1>2. Inv /\ Inv' /\ Short /\ [Next]_vars
        => [Promise!Next]_<<History, Passed, lost # Node \ plan.nodes>>
  BY PromiseNext DEF Mapped
<1> QED BY <1>1, <1>2, ClusterInvariant, PTL DEF Spec, OneHistorySpec, Promise!Spec
=============================================================================
