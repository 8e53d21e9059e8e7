------------------------------ MODULE ChosenLog ------------------------------
(***************************************************************************)
(* What one epoch of the control plane promises its replicas: a log in     *)
(* which every slot is decided at most once, on a command a client         *)
(* submitted or on the filler, and from which the replicas learn.          *)
(* Replica.commit relies on exactly this.                                  *)
(***************************************************************************)
CONSTANTS Node, Slot, Command, NOOP, None

VARIABLES
  submitted,  \* the commands clients handed in
  decided,    \* slot -> its command, None while undecided
  learned     \* node -> slot -> the command it knows to be decided, or None

Init ==
  /\ submitted = {}
  /\ decided = [s \in Slot |-> None]
  /\ learned = [n \in Node |-> [s \in Slot |-> None]]

Submit(c) ==
  /\ submitted' = submitted \cup {c}
  /\ UNCHANGED <<decided, learned>>

Decide(s, c) ==
  /\ decided[s] = None
  /\ decided' = [decided EXCEPT ![s] = c]
  /\ UNCHANGED <<submitted, learned>>

(* A replica learns a slot, or from another's snapshot several at once. *)
Learn(n, S) ==
  /\ \A s \in S : decided[s] # None
  /\ learned' = [learned EXCEPT ![n] = [s \in Slot |-> IF s \in S THEN decided[s] ELSE @[s]]]
  /\ UNCHANGED <<submitted, decided>>

Next ==
  \/ \E c \in Command : Submit(c)
  \/ \E s \in Slot, c \in submitted \cup {NOOP} : Decide(s, c)
  \/ \E n \in Node, S \in SUBSET Slot : Learn(n, S)

Spec == Init /\ [][Next]_<<submitted, decided, learned>>
=============================================================================
