------------------------------ MODULE ClusterLog ------------------------------
(***************************************************************************)
(* The control plane above Paxos: the log of one epoch after another, the  *)
(* replicas that go through it (Replica, ClusterStateMachine), and what    *)
(* hangs on it: submit with its timeout (ConsensusRuntime), leases on      *)
(* clocks that differ (Leases, LeaseKeeper), voter changes (VoterChanges)  *)
(* and their keeper (VoterKeeper), and a group forced by hand              *)
(* (GroupRecovery).                                                        *)
(*                                                                         *)
(* One epoch's Paxos is what ChosenLog says: here the gapless sequence it  *)
(* has chosen, extended while a majority of its voters is still in it.  A  *)
(* message that is lost or late is a step not taken; what a node knows is  *)
(* durable, so a crash is its threads taking no step.                      *)
(***************************************************************************)
EXTENDS Naturals, Sequences, FiniteSets, SequencesExt, FiniteSetsExt

CONSTANTS
  Node, Call,     \* nodes; threads that ask the cluster for something
  Plans,          \* settings to look at: records with nodes, genesis, work, skew, force, and
                  \* two bounds: repeats, commands chosen again, and until, the clock
  TTL, Margin,    \* length of a lease, and what must be left of it to rely on it
  Target,         \* voters the keeper wants
  Remembered,     \* results a replica remembers
  MaxTries,       \* bound: commands one thread submits
  None

Tasks == {"lease", "add", "remove", "leave", "keep"}
Settings ==
  [nodes : SUBSET Node, genesis : (SUBSET Node) \ {{}}, skew : [Node -> Nat], force : BOOLEAN,
   work : [Call -> [kind : Tasks, node : Node, who : Node]], repeats : Nat, until : Nat]

ASSUME ClusterAssumption ==
  /\ None \notin Node /\ Margin <= TTL
  /\ TTL \in Nat /\ Margin \in Nat /\ Target \in Nat /\ Remembered \in Nat /\ MaxTries \in Nat
  /\ \A p \in Plans : /\ p \in Settings /\ p.genesis \subseteq p.nodes
                      /\ \A c \in Call : p.work[c].who \in p.nodes
                      /\ \A n, m \in Node : p.skew[n] <= p.skew[m] + Margin

VARIABLES
  plan,   \* the setting
  log,    \* sequence of the epochs' chosen commands: log[e + 1] is epoch e's
  sent,   \* commands some leader may still propose: also abandoned ones
  at,     \* [Node -> its replica]
  call,   \* [Call -> its thread]
  now,
  lost    \* nodes that are gone for good

vars == <<plan, log, sent, at, call, now, lost>>

NoLease == [holder |-> None, expires |-> 0]
NewReplica(n, genesis) ==
  [epoch |-> 0, slot |-> 0, members |-> IF n \in genesis THEN genesis ELSE {},
   lease |-> NoLease, removed |-> {}, results |-> << >>, passed |-> << >>]
NewCall == [at |-> "new", then |-> "new", tries |-> 0, id |-> None, told |-> None, adds |-> {},
            drops |-> {}, replaces |-> {}, before |-> {}, marked |-> FALSE, ok |-> FALSE, epoch |-> 0]

Init ==
  /\ plan \in Plans
  /\ log = << << >> >> /\ sent = {}
  /\ at = [n \in Node |-> NewReplica(n, plan.genesis)]
  /\ call = [c \in Call |-> NewCall]
  /\ now = 0 /\ lost = Node \ plan.nodes

Kind(c) == plan.work[c].kind
Here(c) == plan.work[c].node
View(c) == at[Here(c)]
Alive(c) == Here(c) \notin lost
Clock(n) == now + plan.skew[n]

-----------------------------------------------------------------------------
(* Replicas. *)

Applied(r, id) == \E e \in ToSet(r.results) : e.id = id
Answer(r, id) == CHOOSE e \in ToSet(r.results) : e.id = id
Remember(r, id, result) ==
  LET all == Append(r.results, [id |-> id, result |-> result])
  IN [r EXCEPT !.results = IF Len(all) > Remembered THEN Tail(all) ELSE all,
               !.passed = Append(@, [id |-> id, result |-> result])]

(* ClusterStateMachine.apply: the new state and the result. *)
ApplyLeaseBlindly(r, c) ==  \* a mutant
  [Remember(r, c.id, TRUE) EXCEPT !.lease = c.value]
ApplyLease(r, c) ==
  IF r.lease = c.expected
  THEN [Remember(r, c.id, TRUE) EXCEPT !.lease = c.value]
  ELSE Remember(r, c.id, FALSE)
ApplyMarks(r, c) == [Remember(r, c.id, TRUE) EXCEPT !.removed = c.marks]

ReconfiguredAnew(r, c) ==                  (* Mutant: results forgotten at the end of an epoch *)
  IF c.epoch # r.epoch
  THEN [Remember(r, c.id, FALSE) EXCEPT !.slot = @ + 1]
  ELSE [Remember(r, c.id, TRUE) EXCEPT
          !.members = c.members, !.epoch = @ + 1, !.slot = 0, !.results = << >>]
(* A change computed in another epoch is refused; one of this epoch seals it. *)
Reconfigured(r, c) ==
  IF c.epoch # r.epoch
  THEN [Remember(r, c.id, FALSE) EXCEPT !.slot = @ + 1]
  ELSE [Remember(r, c.id, TRUE) EXCEPT !.members = c.members, !.epoch = @ + 1, !.slot = 0]

Advanced(r, c) ==
  CASE Applied(r, c.id) -> [r EXCEPT !.slot = @ + 1]
    [] ~Applied(r, c.id) /\ c.op = "voters" -> Reconfigured(r, c)
    [] ~Applied(r, c.id) /\ c.op = "lease" -> [ApplyLease(r, c) EXCEPT !.slot = @ + 1]
    [] ~Applied(r, c.id) /\ c.op = "marks" -> [ApplyMarks(r, c) EXCEPT !.slot = @ + 1]

(* A node takes in the next chosen command of its epoch.  What was chosen  *)
(* behind the command that sealed an epoch is never looked at.             *)
Learn(n) ==
  LET r == at[n]
  IN /\ n \notin lost /\ r.slot < Len(log[r.epoch + 1])
     /\ at' = [at EXCEPT ![n] = Advanced(r, log[r.epoch + 1][r.slot + 1])]
     /\ log' = IF at'[n].epoch = Len(log) THEN Append(log, << >>) ELSE log
     /\ UNCHANGED <<plan, sent, call, now, lost>>

-----------------------------------------------------------------------------
(* Choosing. *)

(* A voter takes part in the Paxos of the epoch it is in, and no other. *)
InTouch(n) ==
  Cardinality({m \in at[n].members \ lost : at[m].epoch = at[n].epoch}) * 2
    > Cardinality(at[n].members)
Leads(n) == n \in at[n].members \ lost /\ InTouch(n)
Chosen == FlattenSeq(log)
Choose(n, c) ==
  /\ Leads(n) /\ ~Applied(at[n], c.id)
  /\ c \in ToSet(Chosen) => Len(Chosen) < Cardinality(ToSet(Chosen)) + plan.repeats
  /\ log' = [log EXCEPT ![at[n].epoch + 1] = Append(@, c)]
  /\ UNCHANGED <<plan, sent, at, call, now, lost>>

-----------------------------------------------------------------------------
(* submit: the command is on its way to some leader, now or later. *)

Command(c, op) ==
  [id |-> <<c, call[c].tries + 1>>, op |-> op, epoch |-> View(c).epoch, members |-> {},
   marks |-> {}, expected |-> NoLease, value |-> NoLease]
Submits(c, command, where, then) ==
  /\ call[c].tries < MaxTries
  /\ sent' = sent \cup {command}
  /\ call' = [call EXCEPT ![c].at = where, ![c].then = then, ![c].tries = @ + 1,
                ![c].id = command.id, ![c].told = None]
Still == UNCHANGED <<plan, log, at, now, lost>>

ToldOnceChosen(c) ==  \* a mutant
  /\ Alive(c) /\ call[c].at = "waiting" /\ \E d \in ToSet(Chosen) : d.id = call[c].id
  /\ call' = [call EXCEPT ![c].at = call[c].then, ![c].told = [id |-> call[c].id, result |-> TRUE]]
  /\ UNCHANGED sent /\ Still

Told(c) ==
  /\ Alive(c) /\ call[c].at = "waiting" /\ Applied(View(c), call[c].id)
  /\ call' = [call EXCEPT ![c].at = call[c].then, ![c].told = Answer(View(c), call[c].id),
                ![c].marked = (Kind(c) = "leave" /\ call[c].then = "looking")]
  /\ UNCHANGED sent /\ Still

(* The command is abandoned, and may be chosen all the same. *)
GiveUp(c) ==
  /\ Alive(c) /\ call[c].at = "waiting"
  /\ call' = [call EXCEPT ![c].at = call[c].then]
  /\ UNCHANGED sent /\ Still

-----------------------------------------------------------------------------
(* Leases. *)

Holds(n, margin) == at[n].lease.holder = n /\ at[n].lease.expires > Clock(n) + margin

(* LeaseKeeper.tick: takes the lease if this node's copy says it is free, *)
(* expired or its own. *)
TryAcquire(c) ==
  LET lease == View(c).lease
  IN /\ Alive(c) /\ Kind(c) = "lease" /\ call[c].at \in {"new", "between"}
     /\ lease.holder \in {None, Here(c)} \/ lease.expires <= Clock(Here(c))
     /\ Submits(c, [Command(c, "lease") EXCEPT !.expected = lease,
                      !.value = [holder |-> Here(c), expires |-> Clock(Here(c)) + TTL]],
                "waiting", "between")
     /\ Still

Tick ==
  /\ now < plan.until
  /\ now' = now + 1
  /\ UNCHANGED <<plan, log, sent, at, call, lost>>

-----------------------------------------------------------------------------
(* Voter changes. *)

Marks(c, removed) == [Command(c, "marks") EXCEPT !.marks = removed]
Who(c) == plan.work[c].who

BeginAdd(c) ==
  /\ Alive(c) /\ Kind(c) = "add" /\ call[c].at = "new"
  /\ call' = [call EXCEPT ![c].at = "looking", ![c].adds = {Who(c)}]
  /\ UNCHANGED sent /\ Still

BeginRemove(c) ==
  /\ Alive(c) /\ Kind(c) = "remove" /\ call[c].at = "new"
  /\ call' = [call EXCEPT ![c].at = "looking", ![c].drops = {Who(c)}]
  /\ UNCHANGED sent /\ Still

(* remove(leave=True): first the mark, on top of the marks in this copy. *)
BeginLeave(c) ==
  /\ Alive(c) /\ Kind(c) = "leave" /\ call[c].at = "new"
  /\ call' = [call EXCEPT ![c].at = "marking", ![c].drops = {Who(c)},
                ![c].before = View(c).removed]
  /\ UNCHANGED sent /\ Still
Mark(c) ==
  /\ Alive(c) /\ call[c].at = "marking"
  /\ \/ /\ Who(c) \in call[c].before
        /\ call' = [call EXCEPT ![c].at = "looking", ![c].marked = TRUE] /\ UNCHANGED sent
     \/ /\ Who(c) \notin call[c].before
        /\ Submits(c, Marks(c, call[c].before \cup {Who(c)}), "waiting", "looking")
  /\ Still

(* VoterKeeper.step, on a voter that leads, or still believes it does: a   *)
(* learner last heard of in this epoch, that nobody took out on purpose,   *)
(* becomes a voter, if voters are wanted or one is silent; that one is     *)
(* then removed.                                                           *)
HeardOf(c) == {m \in plan.nodes \ View(c).members : at[m].epoch >= View(c).epoch}
LearnersBack(c) == HeardOf(c)  \* a mutant
Learners(c) == HeardOf(c) \ View(c).removed
BeginKeep(c) ==
  /\ Alive(c) /\ Kind(c) = "keep" /\ call[c].at = "new" /\ Here(c) \in View(c).members
  /\ \E m \in Learners(c) :
       \/ /\ Cardinality(View(c).members) < Target
          /\ call' = [call EXCEPT ![c].at = "looking", ![c].adds = {m}]
       \/ \E v \in View(c).members \ {Here(c)} :
            call' = [call EXCEPT ![c].at = "looking", ![c].adds = {m}, ![c].replaces = {v}]
  /\ UNCHANGED sent /\ Still

(* VoterChanges._change *)
Done(c) == call[c].adds \subseteq View(c).members /\ call[c].drops \cap View(c).members = {}
Refused(c) ==
  View(c).members = {} \/ (call[c].drops # {} /\ Cardinality(View(c).members) <= 1)

LookMembers(c) ==
  /\ Alive(c) /\ call[c].at = "looking"
  /\ \/ /\ Done(c) \/ Refused(c)
        /\ call' = [call EXCEPT ![c].at = "changed", ![c].ok = Done(c), ![c].epoch = View(c).epoch]
        /\ UNCHANGED sent
     \/ /\ ~Done(c) /\ ~Refused(c)
        /\ Submits(c, [Command(c, "voters") EXCEPT
                          !.members = (View(c).members \cup call[c].adds) \ call[c].drops],
                   "changing", "looking")
  /\ Still

SeeChange(c) ==
  /\ Alive(c) /\ call[c].at = "changing" /\ Applied(View(c), call[c].id)
  /\ call' = [call EXCEPT ![c].at = "looking"]
  /\ UNCHANGED sent /\ Still

(* The wait is over; the command stays with the node and may yet be chosen. *)
Deadline(c) ==
  /\ Alive(c) /\ call[c].at \in {"looking", "changing"}
  /\ call' = [call EXCEPT ![c].at = "changed", ![c].ok = Done(c), ![c].epoch = View(c).epoch]
  /\ UNCHANGED sent /\ Still

(* What is left: the marks of before if it failed to take the node out,    *)
(* the mark of a node that was added, the voter the keeper replaces.       *)
Unmarks(c) == call[c].ok /\ call[c].adds \cap View(c).removed # {}
Restores(c) == Kind(c) = "leave" /\ ~call[c].ok
Onward(c) ==
  IF call[c].ok /\ call[c].replaces # {}
  THEN [call[c] EXCEPT !.at = "looking", !.adds = {}, !.drops = call[c].replaces,
          !.replaces = {}, !.ok = FALSE]
  ELSE [call[c] EXCEPT !.at = "ended"]
SettleMarks(c) ==
  /\ Alive(c) /\ call[c].at = "changed"
  /\ \/ Restores(c) /\ Submits(c, Marks(c, call[c].before), "waiting", "ended")
     \/ Unmarks(c) /\ Submits(c, Marks(c, View(c).removed \ call[c].adds), "waiting", "added")
     \/ ~Restores(c) /\ ~Unmarks(c) /\ call' = [call EXCEPT ![c] = Onward(c)] /\ UNCHANGED sent
  /\ Still
Replace(c) ==
  /\ Alive(c) /\ call[c].at = "added"
  /\ call' = [call EXCEPT ![c] = Onward(c)]
  /\ UNCHANGED sent /\ Still

-----------------------------------------------------------------------------
(* GroupRecovery.force_new_group: the other nodes are gone for good; the   *)
(* survivor's journal gets a command that ends the epoch with it as the    *)
(* only voter, behind what it has gone through.  Its server restarts.       *)
ForceNewGroup(n) ==
  LET r == at[n]
      recover == [id |-> <<n, 0>>, op |-> "voters", epoch |-> r.epoch, members |-> {n},
                  marks |-> {}, expected |-> NoLease, value |-> NoLease]
  IN /\ plan.force /\ lost = Node \ plan.nodes
     /\ n \in r.members /\ r.members # {n}
     /\ log' = Append(SubSeq(log, 1, r.epoch), Append(SubSeq(log[r.epoch + 1], 1, r.slot), recover))
     /\ lost' = Node \ {n} /\ sent' = {}
     /\ call' = [c \in Call |-> IF call[c].at = "new" \/ Kind(c) = "lease"
                               THEN [call[c] EXCEPT !.at = "new"]
                               ELSE [call[c] EXCEPT !.at = "ended"]]
     /\ UNCHANGED <<plan, at, now>>

ChangeStep(c) ==
  BeginAdd(c) \/ BeginRemove(c) \/ BeginLeave(c) \/ Mark(c) \/ BeginKeep(c)
    \/ LookMembers(c) \/ SeeChange(c) \/ Deadline(c)
    \/ SettleMarks(c) \/ Replace(c)

Next ==
  \/ \E n \in Node : Learn(n) \/ ForceNewGroup(n) \/ \E c \in sent : Choose(n, c)
  \/ \E c \in Call : Told(c) \/ GiveUp(c) \/ TryAcquire(c) \/ ChangeStep(c)
  \/ Tick

Spec == Init /\ [][Next]_vars

-----------------------------------------------------------------------------
(* The effects of commands, over all nodes and epochs, are one history. *)
Passed == [n \in Node |-> IF n \in lost THEN << >> ELSE at[n].passed]
History ==
  Passed[CHOOSE n \in Node : \A m \in Node : Len(Passed[m]) <= Len(Passed[n])]
Effects == [id : (Call \X (1..MaxTries)) \cup (Node \X {0}), result : BOOLEAN]

Promise == INSTANCE OneHistory WITH
  Effect <- Effects, history <- History, passed <- Passed, forced <- lost # Node \ plan.nodes
OneHistorySpec == Promise!Spec

(* What submit tells its caller is what the command did, for everyone: a   *)
(* command chosen behind the end of its epoch is told of only once it took *)
(* effect in a later one.                                                  *)
ToldIsTrue ==
  \A c \in Call : Alive(c) /\ call[c].told # None => call[c].told \in ToSet(History)

(* Two nodes never rely on the lease at the same time, as long as their *)
(* clocks differ by no more than the margin. *)
OneLeaseHolder ==
  \A n, m \in Node \ lost : Holds(n, Margin) /\ Holds(m, Margin) => n = m

(* A node taken out on purpose is not made a voter again by the keeper. *)
LeaverStaysOut ==
  \A c \in Call :
    Alive(c) /\ Kind(c) = "leave" /\ call[c].at = "ended" /\ call[c].ok /\ call[c].marked =>
      \A n \in Node : at[n].epoch >= call[c].epoch => Who(c) \notin at[n].members
=============================================================================
