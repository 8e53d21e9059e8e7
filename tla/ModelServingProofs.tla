-------------------------- MODULE ModelServingProofs --------------------------
(***************************************************************************)
(* Proofs about ModelServing: no loaded model is lost, no weights are      *)
(* unmapped under a reply that was there first, and only the reply or the  *)
(* model a stop is aimed at stops.                                         *)
(***************************************************************************)
EXTENDS ModelServingInv, SequenceTheorems, TLAPS

-----------------------------------------------------------------------------
(* Typing *)

LEMMA InitType == Init => TypeOK /\ CallInv
<1> SUFFICES ASSUME Init PROVE TypeOK /\ CallInv
  OBVIOUS
<1>1. NewCall \in Call /\ NewCall.at = "new" /\ NewCall.handle = None /\ NewCall.victims = {}
  BY DEF NewCall, Call, Place
<1>2. NewWorker \in Worker
  BY DEF NewWorker, Worker
<1>3. TypeOK
  BY <1>1, <1>2 DEF Init, TypeOK
<1>4. CallInv
  BY <1>1 DEF Init, CallInv, Loading, HasModel, OnWorker
<1> QED BY <1>3, <1>4

Queue == Seq(Request \cup {Close})
Phase == {"idle", "admit", "advance", "ended"}

(* The fields of a worker, and of a request, that a step sets keep their types. *)
LEMMA JobFields ==
  ASSUME NEW r \in Worker
  PROVE  /\ \A q \in Queue : [r EXCEPT !.queue = q] \in Worker
         /\ \A a \in SUBSET Request : [r EXCEPT !.active = a] \in Worker
         /\ \A a \in SUBSET Request : [r EXCEPT !.todo = a] \in Worker
         /\ \A p \in Phase : [r EXCEPT !.phase = p] \in Worker
         /\ \A b \in BOOLEAN : [r EXCEPT !.stop = b] \in Worker
         /\ \A b \in BOOLEAN : [r EXCEPT !.closing = b] \in Worker
<1>1. ASSUME NEW q \in Queue PROVE [r EXCEPT !.queue = q] \in Worker
  BY DEF Worker, Queue
<1>2. ASSUME NEW a \in SUBSET Request PROVE [r EXCEPT !.active = a] \in Worker
  BY DEF Worker
<1>3. ASSUME NEW a \in SUBSET Request PROVE [r EXCEPT !.todo = a] \in Worker
  BY DEF Worker
<1>4. ASSUME NEW p \in Phase PROVE [r EXCEPT !.phase = p] \in Worker
  BY DEF Worker, Phase
<1>5. ASSUME NEW b \in BOOLEAN PROVE [r EXCEPT !.stop = b] \in Worker
  BY DEF Worker
<1>6. ASSUME NEW b \in BOOLEAN PROVE [r EXCEPT !.closing = b] \in Worker
  BY DEF Worker
<1> QED BY <1>1, <1>2, <1>3, <1>4, <1>5, <1>6

LEMMA PickedType ==
  ASSUME NEW r \in Worker, NEW q \in Queue, NEW p \in Phase, NEW s \in BOOLEAN,
         NEW a \in SUBSET Request
  PROVE  [r EXCEPT !.queue = q, !.phase = p, !.stop = s, !.active = a] \in Worker
<1>1. PICK r1 \in Worker : r1 = [r EXCEPT !.queue = q]
  BY JobFields
<1>2. PICK r2 \in Worker : r2 = [r1 EXCEPT !.phase = p]
  BY JobFields
<1>3. PICK r3 \in Worker : r3 = [r2 EXCEPT !.stop = s]
  BY JobFields
<1>4. [r EXCEPT !.queue = q, !.phase = p, !.stop = s, !.active = a] = [r3 EXCEPT !.active = a]
  BY <1>1, <1>2, <1>3 DEF Worker
<1> QED BY <1>4, JobFields

LEMMA AdmittedType ==
  ASSUME NEW r \in Worker, NEW q \in Queue, NEW b \in BOOLEAN, NEW p \in Phase,
         NEW a \in SUBSET Request, NEW t \in SUBSET Request, NEW s \in BOOLEAN
  PROVE  [r EXCEPT !.queue = q, !.closing = b, !.phase = p, !.active = a, !.todo = t,
                   !.stop = s] \in Worker
<1>1. PICK r1 \in Worker : r1 = [r EXCEPT !.queue = q]
  BY JobFields
<1>2. PICK r2 \in Worker : r2 = [r1 EXCEPT !.closing = b]
  BY JobFields
<1>3. PICK r3 \in Worker : r3 = [r2 EXCEPT !.phase = p]
  BY JobFields
<1>4. PICK r4 \in Worker : r4 = [r3 EXCEPT !.active = a]
  BY JobFields
<1>5. PICK r5 \in Worker : r5 = [r4 EXCEPT !.todo = t]
  BY JobFields
<1>6. [r EXCEPT !.queue = q, !.closing = b, !.phase = p, !.active = a, !.todo = t,
                !.stop = s] = [r5 EXCEPT !.stop = s]
  BY <1>1, <1>2, <1>3, <1>4, <1>5 DEF Worker
<1> QED BY <1>6, JobFields

LEMMA FieldTypes ==
  ASSUME NEW f \in [Request -> Call], NEW c \in Request
  PROVE  /\ \A p \in Place : [f EXCEPT ![c].at = p] \in [Request -> Call]
         /\ \A t \in Tag : [f EXCEPT ![c].tag = t] \in [Request -> Call]
         /\ \A h \in Handle : [f EXCEPT ![c].handle = h] \in [Request -> Call]
         /\ \A v \in SUBSET Tag : [f EXCEPT ![c].victims = v] \in [Request -> Call]
         /\ [f EXCEPT ![c].how = "stopped"] \in [Request -> Call]
         /\ [f EXCEPT ![c].how = "finished"] \in [Request -> Call]
<1>1. \A p \in Place : [f EXCEPT ![c].at = p] \in [Request -> Call]
  BY DEF Call
<1>2. \A t \in Tag : [f EXCEPT ![c].tag = t] \in [Request -> Call]
  BY DEF Call
<1>3. \A h \in Handle : [f EXCEPT ![c].handle = h] \in [Request -> Call]
  BY DEF Call
<1>4. \A v \in SUBSET Tag : [f EXCEPT ![c].victims = v] \in [Request -> Call]
  BY DEF Call
<1>5. /\ [f EXCEPT ![c].how = "stopped"] \in [Request -> Call]
      /\ [f EXCEPT ![c].how = "finished"] \in [Request -> Call]
  BY DEF Call
<1> QED BY <1>1, <1>2, <1>3, <1>4, <1>5

LEMMA RoomType ==
  ASSUME NEW f \in [Request -> Call], NEW c \in Request, NEW p \in Place, NEW v \in SUBSET Tag
  PROVE  [f EXCEPT ![c].at = p, ![c].victims = v] \in [Request -> Call]
<1>1. PICK g : g = [f EXCEPT ![c].at = p]
  OBVIOUS
<1>2. [f EXCEPT ![c].at = p, ![c].victims = v] = [g EXCEPT ![c].victims = v]
  BY <1>1 DEF Call
<1> QED BY <1>1, <1>2, FieldTypes

LEMMA GotType ==
  ASSUME NEW f \in [Request -> Call], NEW c \in Request, NEW p \in Place, NEW h \in Handle
  PROVE  [f EXCEPT ![c].at = p, ![c].handle = h] \in [Request -> Call]
<1>1. PICK g : g = [f EXCEPT ![c].at = p]
  OBVIOUS
<1>2. [f EXCEPT ![c].at = p, ![c].handle = h] = [g EXCEPT ![c].handle = h]
  BY <1>1 DEF Call
<1> QED BY <1>1, <1>2, FieldTypes

LEMMA EnterType ==
  ASSUME NEW f \in [Request -> Call], NEW c \in Request, NEW p \in Place, NEW t \in Tag,
         NEW v \in SUBSET Tag
  PROVE  [f EXCEPT ![c].at = p, ![c].tag = t, ![c].victims = v] \in [Request -> Call]
<1>1. PICK g : g = [f EXCEPT ![c].tag = t]
  OBVIOUS
<1>2. [f EXCEPT ![c].at = p, ![c].tag = t, ![c].victims = v]
        = [g EXCEPT ![c].at = p, ![c].victims = v]
  BY <1>1 DEF Call
<1>3. g \in [Request -> Call]
  BY <1>1, FieldTypes
<1> QED BY <1>2, <1>3, RoomType

(* A step that only moves request c on. *)
LEMMA GoesType ==
  ASSUME TypeOK, NEW c \in Request, NEW p \in Place, Goes(c, p)
  PROVE  /\ call' \in [Request -> Call]
         /\ call'[c].at = p
         /\ \A d \in Request : /\ d # c => call'[d] = call[d]
                               /\ call'[d].tag = call[d].tag /\ call'[d].handle = call[d].handle
                               /\ call'[d].victims = call[d].victims /\ call'[d].stop = call[d].stop
                               /\ call'[d].how = call[d].how
BY DEF TypeOK, Goes, Call

LEMMA RetireType ==
  ASSUME TypeOK, NEW h \in Handle, Retire(h)
  PROVE  worker' \in [Handle -> Worker] /\ closed' \in SUBSET Handle
<1>1. worker[h].queue \in Seq(Request \cup {Close}) /\ Close \in Request \cup {Close}
  BY DEF TypeOK, Worker
<1>2. Append(worker[h].queue, Close) \in Queue
  BY <1>1, AppendProperties DEF Queue
<1>3. worker' = [worker EXCEPT ![h] = [worker[h] EXCEPT !.queue = Append(worker[h].queue, Close)]]
  BY DEF Retire, TypeOK
<1>4. worker' \in [Handle -> Worker]
  BY <1>2, <1>3, JobFields DEF TypeOK
<1> QED BY <1>4 DEF Retire, TypeOK

(* What the load lock is entered with, and the victims that were picked. *)
LEMMA EnterLoadType ==
  ASSUME TypeOK, CallInv, NEW c \in Request, NEW t \in Tag, EnterLoad(c, t)
  PROVE  TypeOK' /\ CallInv'
<1>1. PICK expired \in SUBSET Tag :
        /\ call' = [call EXCEPT ![c].at = "evicting", ![c].tag = t, ![c].victims = expired]
        /\ CountExpiry(expired)
  BY DEF EnterLoad, Expired, Idle, Resident
<1>2. call' \in [Request -> Call]
  BY <1>1, EnterType DEF TypeOK, Place, Loading
<1>3. history' \in [late : SUBSET Request, aimed : SUBSET Handle, made : Nat, expiries : Nat]
  BY <1>1 DEF CountExpiry, TypeOK
<1>4. TypeOK'
  BY <1>2, <1>3 DEF EnterLoad, TypeOK
<1>5. /\ call'[c].at = "evicting" /\ call'[c].tag = t /\ call'[c].handle = call[c].handle
      /\ \A d \in Request \ {c} : call'[d] = call[d]
  BY <1>1 DEF TypeOK, Call
<1>6. call[c].at = "new"
  BY DEF EnterLoad
<1>7. CallInv'
  BY <1>5, <1>6 DEF CallInv, Loading, HasModel, OnWorker
<1> QED BY <1>4, <1>7

(* Once the eviction at the start is over, the model is there or room is made. *)
LEMMA EvictType ==
  ASSUME TypeOK, CallInv, NEW c \in Request, Evict(c)
  PROVE  TypeOK' /\ CallInv'
<1>1. PICK t \in call[c].victims :
       \/ /\ resident[t] # None
          /\ Retire(resident[t]) /\ Pop(t)
          /\ call' = [call EXCEPT ![c].victims = call[c].victims \ {t}]
       \/ /\ resident[t] = None
          /\ call' = [call EXCEPT ![c].at = "answered", ![c].victims = {}]
          /\ UNCHANGED <<worker, closed, resident>>
  BY DEF Evict
<1>2. t \in Tag /\ call[c].victims \in SUBSET Tag
  BY DEF TypeOK, Call
<1>3. CASE /\ resident[t] # None
           /\ Retire(resident[t]) /\ Pop(t)
           /\ call' = [call EXCEPT ![c].victims = call[c].victims \ {t}]
  <2>1. worker' \in [Handle -> Worker] /\ closed' \in SUBSET Handle
    BY <1>2, <1>3, RetireType DEF TypeOK
  <2>2. call' \in [Request -> Call] /\ resident' \in [Tag -> Handle \cup {None}]
    BY <1>2, <1>3, FieldTypes DEF TypeOK, Pop
  <2>3. TypeOK'
    BY <2>1, <2>2 DEF Evict, TypeOK
  <2>4. \A d \in Request : /\ call'[d].at = call[d].at /\ call'[d].tag = call[d].tag
                           /\ call'[d].handle = call[d].handle
                           /\ call'[d].victims \subseteq call[d].victims
    BY <1>3 DEF TypeOK, Call
  <2>5. CallInv'
    BY <2>4 DEF CallInv
  <2> QED BY <2>3, <2>5
<1>4. CASE /\ resident[t] = None
           /\ call' = [call EXCEPT ![c].at = "answered", ![c].victims = {}]
           /\ UNCHANGED <<worker, closed, resident>>
  <2>1. call' \in [Request -> Call]
    BY <1>4, RoomType DEF TypeOK, Place
  <2>2. TypeOK'
    BY <1>4, <2>1 DEF Evict, TypeOK
  <2>3. call'[c].at = "answered" /\ call'[c].victims = {}
        /\ \A d \in Request \ {c} : call'[d] = call[d]
    BY <1>4 DEF TypeOK, Call
  <2>4. CallInv'
    BY <2>3 DEF CallInv, Loading, HasModel, OnWorker
  <2> QED BY <2>2, <2>4
<1> QED BY <1>1, <1>3, <1>4

LEMMA LookupType ==
  ASSUME TypeOK, CallInv, NEW c \in Request, Lookup(c)
  PROVE  TypeOK' /\ CallInv'
<1>1. call[c].tag \in Tag /\ call[c].at = "evicting" /\ call[c].victims = {}
      /\ call[c].handle = None
  BY DEF Lookup, CallInv, Loading
<1>2. CASE /\ call[c].tag \in Resident
           /\ call' = [call EXCEPT ![c].at = "got", ![c].handle = resident[call[c].tag]]
  <2>1. resident[call[c].tag] \in Handle
    BY <1>1, <1>2 DEF Resident, TypeOK
  <2>2. call' \in [Request -> Call]
    BY <1>2, <2>1, GotType DEF TypeOK, Place, HasModel
  <2>3. TypeOK'
    BY <2>2 DEF Lookup, TypeOK
  <2>4. /\ call'[c].at = "got" /\ call'[c].handle \in Handle
        /\ call'[c].tag = call[c].tag /\ call'[c].victims = {}
        /\ \A d \in Request \ {c} : call'[d] = call[d]
    BY <1>1, <1>2, <2>1 DEF TypeOK, Call
  <2>5. CallInv'
    BY <1>1, <2>4 DEF CallInv, Loading, HasModel, OnWorker
  <2> QED BY <2>3, <2>5
<1>3. ASSUME NEW v \in SUBSET Tag,
             call' = [call EXCEPT ![c].at = "making room", ![c].victims = v]
      PROVE  TypeOK' /\ CallInv'
  <2>1. call' \in [Request -> Call]
    BY <1>3, RoomType DEF TypeOK, Place, Loading
  <2>2. TypeOK'
    BY <2>1 DEF Lookup, TypeOK
  <2>3. /\ call'[c].at = "making room" /\ call'[c].handle = call[c].handle
        /\ call'[c].tag = call[c].tag
        /\ \A d \in Request \ {c} : call'[d] = call[d]
    BY <1>3 DEF TypeOK, Call
  <2>4. CallInv'
    BY <1>1, <2>3 DEF CallInv, Loading, HasModel, OnWorker
  <2> QED BY <2>2, <2>4
<1>4. LeastRecent \subseteq SUBSET Tag
  BY DEF LeastRecent, Idle, Resident
<1> QED BY <1>2, <1>3, <1>4 DEF Lookup

LEMMA LoadType ==
  ASSUME TypeOK, CallInv, NEW c \in Request, Load(c)
  PROVE  TypeOK' /\ CallInv'
<1>1. call[c].tag \in Tag /\ call[c].at = "loading" /\ call[c].victims = {}
  BY DEF Load, CallInv, Loading
<1>2. history.made \in Nat /\ history.made < MaxHandles /\ MaxHandles \in Nat
  BY ServingAssumption DEF Load, TypeOK
<1>3. PICK h \in Handle : h = history.made + 1
  BY <1>2 DEF Handle
<1>4. /\ resident' = [resident EXCEPT ![call[c].tag] = h]
      /\ call' = [call EXCEPT ![c].at = "got", ![c].handle = h]
      /\ history' = [history EXCEPT !.made = h]
  BY <1>3 DEF Load
<1>5. call' \in [Request -> Call]
  BY <1>4, GotType DEF TypeOK, Place, HasModel
<1>6. h \in Nat
  BY <1>2, <1>3
<1>7. TypeOK'
  <2>1. resident' \in [Tag -> Handle \cup {None}]
    BY <1>4 DEF TypeOK
  <2>2. history' \in [late : SUBSET Request, aimed : SUBSET Handle, made : Nat, expiries : Nat]
    BY <1>4, <1>6 DEF TypeOK
  <2> QED BY <1>5, <2>1, <2>2 DEF Load, TypeOK
<1>8. /\ call'[c].at = "got" /\ call'[c].handle = h
      /\ call'[c].tag = call[c].tag /\ call'[c].victims = {}
      /\ \A d \in Request \ {c} : call'[d] = call[d]
  BY <1>1, <1>4 DEF TypeOK, Call
<1>9. CallInv'
  BY <1>1, <1>8 DEF CallInv, Loading, HasModel, OnWorker
<1> QED BY <1>7, <1>9

-----------------------------------------------------------------------------
(* Steps that only move a request on, or run a worker *)

(* Nothing is loaded, picked, popped or closed: requests that hold a model  *)
(* go on, to where they hold one or need none.                              *)
Onward(d) ==
  /\ call'[d].tag = call[d].tag /\ call'[d].handle = call[d].handle
  /\ call'[d].victims = call[d].victims
  /\ \/ call'[d].at = call[d].at
     \/ /\ call[d].at \in {"loading"} \cup HasModel
        /\ call'[d].at \in {"answered", "dropped"} \cup HasModel
        /\ call[d].at = "loading" => call'[d].at = "answered"
OnwardStep ==
  /\ UNCHANGED <<resident, closed, unload>>
  /\ history'.made = history.made
  /\ \A d \in Request : Onward(d)

(* Once on a worker, a reply stays there, with its model; none is submitted. *)
Stays(d) ==
  /\ call[d].at \in OnWorker => call'[d].at \in OnWorker /\ call'[d].handle = call[d].handle
  /\ call'[d].at = "submitted" => call[d].at = "submitted" /\ call'[d].handle = call[d].handle

LEMMA OnwardCall ==
  ASSUME CallInv, OnwardStep
  PROVE  CallInv'
BY DEF CallInv, OnwardStep, Onward, Loading, HasModel, OnWorker

LEMMA OnwardLock ==
  ASSUME LockInv, OnwardStep
  PROVE  LockInv'
<1>1. \A d \in Request : /\ call'[d].tag = call[d].tag
                         /\ call'[d].at \in Loading => call'[d].at = call[d].at
  BY DEF OnwardStep, Onward, Loading, HasModel, OnWorker
<1>2. {"making room", "loading"} \subseteq Loading
  BY DEF Loading
<1> QED BY <1>1, <1>2 DEF LockInv, OnwardStep

LEMMA HandleKept ==
  ASSUME HandleInv, UNCHANGED <<resident, closed, unload>>, history'.made = history.made,
         \A c \in Request : call'[c].tag = call[c].tag /\ call'[c].handle = call[c].handle
  PROVE  HandleInv'
BY DEF HandleInv

LEMMA OnwardHandle ==
  ASSUME HandleInv, OnwardStep
  PROVE  HandleInv'
BY HandleKept DEF OnwardStep, Onward

LEMMA OnwardLost ==
  ASSUME NoModelIsLost, OnwardStep
  PROVE  NoModelIsLost'
BY DEF NoModelIsLost, OnwardStep

(* A request that goes on by itself. *)
LEMMA MovesOn ==
  ASSUME TypeOK, NEW c \in Request, NEW p \in {"answered", "dropped"} \cup HasModel, Goes(c, p),
         call[c].at \in {"loading"} \cup HasModel, call[c].at = "loading" => p = "answered"
  PROVE  call' \in [Request -> Call] /\ \A d \in Request : Onward(d)
<1>1. p \in Place
  BY DEF Place
<1> QED BY <1>1, GoesType DEF Onward

LEMMA LoadFailsType ==
  ASSUME TypeOK, NEW c \in Request, LoadFails(c)
  PROVE  TypeOK' /\ OnwardStep
<1>1. call' \in [Request -> Call] /\ \A d \in Request : Onward(d)
  BY MovesOn DEF LoadFails
<1> QED BY <1>1 DEF LoadFails, TypeOK, OnwardStep

LEMMA CheckType ==
  ASSUME TypeOK, NEW c \in Request, CheckChat(c) \/ CheckGenerate(c) \/ CheckEmbed(c)
  PROVE  TypeOK' /\ OnwardStep
<1>1. call[c].at = "got" /\ \E p \in {"ready", "answered", "dropped"} : Goes(c, p)
  BY DEF CheckChat, CheckGenerate, CheckEmbed, GoesOn
<1>2. call' \in [Request -> Call] /\ \A d \in Request : Onward(d)
  BY <1>1, MovesOn DEF HasModel
<1>3. stoppedLoads' \in SUBSET Tag /\ noted' \in SUBSET Chat
  BY DEF CheckChat, CheckGenerate, CheckEmbed, TypeOK
<1>4. UNCHANGED <<resident, worker, closed, unload, cancel, sweep, history>>
  BY DEF CheckChat, CheckGenerate, CheckEmbed
<1> QED BY <1>2, <1>3, <1>4 DEF TypeOK, OnwardStep

LEMMA BeginType ==
  ASSUME TypeOK, NEW c \in Request, BeginChat(c) \/ BeginOther(c)
  PROVE  TypeOK' /\ OnwardStep
<1>1. call[c].at = "ready" /\ \E p \in {"starting", "dropped"} : Goes(c, p)
  BY DEF BeginChat, BeginOther
<1>2. call' \in [Request -> Call] /\ \A d \in Request : Onward(d)
  BY <1>1, MovesOn DEF HasModel
<1>3. noted' \in SUBSET Chat
  BY DEF BeginChat, BeginOther, TypeOK
<1>4. UNCHANGED <<resident, stoppedLoads, worker, closed, unload, cancel, sweep, history>>
  BY DEF BeginChat, BeginOther
<1> QED BY <1>2, <1>3, <1>4 DEF TypeOK, OnwardStep

LEMMA SubmitType ==
  ASSUME TypeOK, CallInv, NEW c \in Request, Submit(c)
  PROVE  TypeOK' /\ OnwardStep
<1>1. call[c].at = "starting" /\ Goes(c, "submitted") /\ call[c].handle \in Handle
  BY DEF Submit, CallInv, HasModel
<1>2. call' \in [Request -> Call] /\ \A d \in Request : Onward(d)
  BY <1>1, MovesOn DEF HasModel, OnWorker
<1>3. PICK h \in Handle :
        /\ h = call[c].handle
        /\ worker' = [worker EXCEPT ![h] = [worker[h] EXCEPT !.queue = Append(worker[h].queue, c)]]
  BY <1>1 DEF Submit, TypeOK
<1>4. worker[h].queue \in Seq(Request \cup {Close}) /\ c \in Request \cup {Close}
  BY DEF TypeOK, Worker
<1>5. Append(worker[h].queue, c) \in Queue
  BY <1>4, AppendProperties DEF Queue
<1>6. worker' \in [Handle -> Worker]
  BY <1>3, <1>5, JobFields DEF TypeOK
<1>7. history'.made = history.made
      /\ history' \in [late : SUBSET Request, aimed : SUBSET Handle, made : Nat, expiries : Nat]
  BY DEF Submit, TypeOK
<1>8. UNCHANGED <<resident, stoppedLoads, noted, closed, unload, cancel, sweep>>
  BY DEF Submit
<1> QED BY <1>2, <1>6, <1>7, <1>8 DEF TypeOK, OnwardStep

(***************************************************************************)
(* The worker's steps.                                                     *)
(***************************************************************************)
LEMMA EndedCall ==
  ASSUME TypeOK, NEW cs \in SUBSET Request, NEW how \in {"stopped", "finished"}, Ended(cs, how)
  PROVE  /\ call' \in [Request -> Call]
         /\ \A d \in Request \ cs : call'[d] = call[d]
         /\ \A d \in cs : /\ call'[d].at = "ended" /\ call'[d].how = how
                         /\ call'[d].tag = call[d].tag /\ call'[d].handle = call[d].handle
                         /\ call'[d].victims = call[d].victims /\ call'[d].stop = call[d].stop
<1>1. ASSUME NEW r \in Call
      PROVE  LET q == [r EXCEPT !.at = "ended", !.how = how] IN
             /\ q \in Call /\ q.at = "ended" /\ q.how = how /\ q.tag = r.tag
             /\ q.handle = r.handle /\ q.victims = r.victims /\ q.stop = r.stop
  <2> DEFINE q == [r EXCEPT !.at = "ended", !.how = how]
  <2>1. PICK s \in Call : s = [r EXCEPT !.at = "ended"]
    BY DEF Call, Place, HasModel, OnWorker
  <2>2. q = [s EXCEPT !.how = how]
    BY <2>1 DEF Call
  <2>3. [s EXCEPT !.how = how] \in Call
    BY DEF Call
  <2>4. /\ q.at = "ended" /\ q.how = how /\ q.tag = r.tag
        /\ q.handle = r.handle /\ q.victims = r.victims /\ q.stop = r.stop
    BY DEF Call
  <2> QED BY <2>2, <2>3, <2>4
<1>2. \A d \in Request : call[d] \in Call
  BY DEF TypeOK
<1> QED BY <1>1, <1>2 DEF Ended

(* What a worker does next it has been asked to do, and a stop is spent, not made. *)
Works ==
  \A h \in Handle : Jobs(h)' \subseteq Jobs(h) /\ (worker'[h].stop => worker[h].stop)

LEMMA WorksAt ==
  ASSUME TypeOK, NEW h \in Handle, NEW w \in Worker, worker' = [worker EXCEPT ![h] = w],
         \A i \in 1..Len(w.queue) : \E j \in 1..Len(worker[h].queue) : w.queue[i] = worker[h].queue[j],
         w.active \subseteq Jobs(h), w.todo \subseteq Jobs(h), w.stop => worker[h].stop
  PROVE  worker' \in [Handle -> Worker] /\ Works
<1>1. worker' \in [Handle -> Worker] /\ worker'[h] = w
      /\ \A g \in Handle \ {h} : worker'[g] = worker[g]
  BY DEF TypeOK
<1>2. ASSUME NEW g \in Handle \ {h} PROVE Jobs(g)' = Jobs(g)
  BY <1>1 DEF Jobs, Queued
<1>3. Queued(h)' \subseteq Queued(h)
  BY <1>1 DEF Queued
<1>4. Jobs(h)' \subseteq Jobs(h)
  BY <1>1, <1>3 DEF Jobs
<1> QED BY <1>1, <1>2, <1>4 DEF Works

LEMMA PickType ==
  ASSUME TypeOK, NEW h \in Handle, Pick(h)
  PROVE  TypeOK' /\ OnwardStep /\ Works
<1> DEFINE next == Head(worker[h].queue)
           q == Tail(worker[h].queue)
           p == IF next = Close THEN "ended" ELSE "admit"
           s == worker[h].stop /\ next = Close
           a == IF next = Close THEN {} ELSE {next}
           w == [worker[h] EXCEPT !.queue = q, !.phase = p, !.stop = s, !.active = a]
<1>1. /\ worker[h] \in Worker /\ worker[h].queue \in Seq(Request \cup {Close})
      /\ worker[h].queue # <<>> /\ worker[h].stop \in BOOLEAN
  BY DEF TypeOK, Worker, Pick
<1>2. /\ next \in Request \cup {Close} /\ q \in Queue /\ next = worker[h].queue[1]
      /\ 1 \in 1..Len(worker[h].queue)
      /\ \A i \in 1..Len(q) : i + 1 \in 1..Len(worker[h].queue) /\ q[i] = worker[h].queue[i + 1]
  BY <1>1, HeadTailProperties DEF Queue
<1>3. p \in Phase /\ s \in BOOLEAN /\ a \in SUBSET Request /\ a \subseteq Jobs(h)
  BY <1>2 DEF Phase, Jobs, Queued
<1>4. worker' = [worker EXCEPT ![h] = w]
  BY DEF Pick
<1>5. w \in Worker
  BY <1>1, <1>2, <1>3, PickedType
<1>6. w.queue = q /\ w.active = a /\ w.todo = worker[h].todo /\ w.stop = s
  BY <1>1 DEF Worker
<1>7. s => worker[h].stop
  OBVIOUS
<1> HIDE DEF q, p, s, a, w
<1>8. worker[h].todo \subseteq Jobs(h)
  BY DEF Jobs
<1>9. \A i \in 1..Len(w.queue) : \E j \in 1..Len(worker[h].queue) : w.queue[i] = worker[h].queue[j]
  BY <1>2, <1>6
<1>10. worker' \in [Handle -> Worker] /\ Works
  BY <1>3, <1>4, <1>5, <1>6, <1>7, <1>8, <1>9, WorksAt
<1>11. TypeOK' /\ OnwardStep
  BY <1>10 DEF Pick, TypeOK, OnwardStep, Onward
<1> QED BY <1>10, <1>11

LEMMA EndsOnward ==
  ASSUME TypeOK, NEW cs \in SUBSET Request, NEW how \in {"stopped", "finished"}, Ended(cs, how),
         \A d \in cs : call[d].at \in OnWorker
  PROVE  \A d \in Request : Onward(d) /\ Stays(d)
<1>1. ASSUME NEW d \in cs PROVE Onward(d) /\ Stays(d)
  BY <1>1, EndedCall DEF Onward, Stays, OnWorker, HasModel
<1>2. ASSUME NEW d \in Request \ cs PROVE Onward(d) /\ Stays(d)
  BY <1>2, EndedCall DEF Onward, Stays
<1> QED BY <1>1, <1>2

LEMMA AdmitType ==
  ASSUME TypeOK, JobInv, NEW h \in Handle, Admit(h)
  PROVE  /\ TypeOK' /\ OnwardStep /\ Works
         /\ \A d \in Request : Stays(d)
         /\ \/ UNCHANGED call
            \/ worker[h].stop /\ \E cs \in SUBSET Jobs(h) : Ended(cs, "stopped")
<1> DEFINE w == worker[h]
<1>1. /\ w \in Worker /\ w.queue \in Seq(Request \cup {Close})
      /\ w.stop \in BOOLEAN /\ w.closing \in BOOLEAN /\ w.active \in SUBSET Request
  BY DEF TypeOK, Worker
<1>2. PICK n \in 0..Len(w.queue) :
       LET active == w.active \cup {w.queue[i] : i \in 1..n}
           sentinel == n < Len(w.queue) /\ Cardinality(active) < MaxActive
       IN /\ Admitted(w, n)
          /\ worker' = [worker EXCEPT ![h] =
               [w EXCEPT !.queue = SubSeq(w.queue, (IF sentinel THEN n + 2 ELSE n + 1),
                                          Len(w.queue)),
                         !.closing = w.closing \/ sentinel, !.phase = "advance", !.active = active,
                         !.todo = active, !.stop = FALSE]]
          /\ IF w.stop THEN Ended(active, "stopped") ELSE UNCHANGED call
  BY DEF Admit
<1> DEFINE a == w.active \cup {w.queue[i] : i \in 1..n}
           sentinel == n < Len(w.queue) /\ Cardinality(a) < MaxActive
           m == IF sentinel THEN n + 2 ELSE n + 1
           q == SubSeq(w.queue, m, Len(w.queue))
           b == w.closing \/ sentinel
           v == [w EXCEPT !.queue = q, !.closing = b, !.phase = "advance", !.active = a,
                          !.todo = a, !.stop = FALSE]
<1>3. worker' = [worker EXCEPT ![h] = v] /\ (IF w.stop THEN Ended(a, "stopped") ELSE UNCHANGED call)
  BY <1>2
<1>4. m \in Nat \ {0}
  OBVIOUS
<1>5. /\ q \in Queue
      /\ \A i \in 1..Len(q) : \E j \in 1..Len(w.queue) : q[i] = w.queue[j]
  <2> HIDE DEF m
  <2>1. Len(w.queue) \in Nat /\ \A i \in m..Len(w.queue) : w.queue[i] \in Request \cup {Close}
    BY <1>1, <1>4, ElementOfSeq, LenProperties
  <2>2. /\ q \in Seq(Request \cup {Close})
        /\ Len(q) = IF m <= Len(w.queue) THEN Len(w.queue) - m + 1 ELSE 0
        /\ \A i \in 1..Len(w.queue) - m + 1 : q[i] = w.queue[m + i - 1]
    BY <1>4, <2>1, SubSeqProperties
  <2>3. ASSUME NEW i \in 1..Len(q) PROVE \E j \in 1..Len(w.queue) : q[i] = w.queue[j]
    <3>1. m + i - 1 \in 1..Len(w.queue) /\ i \in 1..Len(w.queue) - m + 1
      BY <1>4, <2>1, <2>2
    <3> QED BY <2>2, <3>1
  <2> QED BY <2>2, <2>3 DEF Queue
<1>6. a \subseteq Jobs(h)
  BY <1>1, <1>2 DEF Admitted, Jobs, Queued
<1>7. Jobs(h) \subseteq Request
  <2>1. \A i \in 1..Len(w.queue) : w.queue[i] \in Request \cup {Close}
    BY <1>1, ElementOfSeq
  <2> QED BY <1>1, <2>1 DEF Jobs, Queued, TypeOK, Worker
<1>8. b \in BOOLEAN /\ "advance" \in Phase
  BY DEF Phase
<1>9. v.queue = q /\ v.active = a /\ v.todo = a /\ v.stop = FALSE
  BY <1>1 DEF Worker
<1> HIDE DEF m, q, b, sentinel
<1>10. v \in Worker
  BY <1>1, <1>5, <1>6, <1>7, <1>8, AdmittedType
<1> HIDE DEF a, v
<1>11. worker' \in [Handle -> Worker] /\ Works
  BY <1>3, <1>5, <1>6, <1>9, <1>10, WorksAt
<1>12. a \in SUBSET Request /\ \A d \in a : call[d].at \in OnWorker
  BY <1>6, <1>7 DEF JobInv
<1>13. /\ call' \in [Request -> Call]
       /\ \A d \in Request : Onward(d) /\ Stays(d)
       /\ UNCHANGED call \/ (w.stop /\ Ended(a, "stopped"))
  <2>1. CASE w.stop
    BY <1>3, <1>12, <2>1, EndedCall, EndsOnward
  <2>2. CASE ~w.stop
    BY <1>3, <2>2 DEF Onward, Stays, TypeOK
  <2> QED BY <2>1, <2>2
<1>14. UNCHANGED <<resident, stoppedLoads, noted, closed, unload, cancel, sweep, history>>
  BY DEF Admit
<1> QED BY <1>6, <1>11, <1>13, <1>14 DEF TypeOK, OnwardStep

LEMMA AdvanceType ==
  ASSUME TypeOK, JobInv, NEW h \in Handle, NEW c \in Request, Advance(h, c)
  PROVE  /\ TypeOK' /\ OnwardStep /\ Works
         /\ c \in Jobs(h)
         /\ \A d \in Request : Stays(d)
         /\ \/ \A d \in Request : call'[d].how = call[d].how /\ call'[d].stop = call[d].stop
            \/ Ended({c}, "finished")
            \/ Stopped(h, c) /\ Ended({c}, "stopped")
<1> DEFINE w == [worker[h] EXCEPT !.todo = worker[h].todo \ {c}]
<1>1. worker[h] \in Worker /\ worker[h].todo \in SUBSET Request /\ c \in worker[h].todo
  BY DEF TypeOK, Worker, Advance
<1>2. c \in Jobs(h) /\ call[c].at \in OnWorker
  BY <1>1 DEF Jobs, JobInv
<1>3. w \in Worker
  BY <1>1, JobFields
<1>4. /\ w.queue = worker[h].queue /\ w.active = worker[h].active /\ w.stop = worker[h].stop
      /\ w.todo \subseteq worker[h].todo
  BY <1>1 DEF Worker
<1>5. worker' = [worker EXCEPT ![h] = w]
  BY DEF Advance
<1> HIDE DEF w
<1>6. w.active \subseteq Jobs(h) /\ w.todo \subseteq Jobs(h)
  BY <1>4 DEF Jobs
<1>7. worker' \in [Handle -> Worker] /\ Works
  BY <1>3, <1>4, <1>5, <1>6, WorksAt
<1>8. /\ call' \in [Request -> Call]
      /\ \A d \in Request : Onward(d) /\ Stays(d)
      /\ \/ \A d \in Request : call'[d].how = call[d].how /\ call'[d].stop = call[d].stop
         \/ Ended({c}, "finished")
         \/ Stopped(h, c) /\ Ended({c}, "stopped")
  <2>1. CASE Stopped(h, c) /\ Ended({c}, "stopped")
    BY <1>2, <2>1, EndedCall, EndsOnward
  <2>2. CASE Ended({c}, "finished")
    BY <1>2, <2>2, EndedCall, EndsOnward
  <2>3. CASE call' = [call EXCEPT ![c].tokens = call[c].tokens + 1]
    <3>1. call[c].tokens + 1 \in Nat
      BY DEF TypeOK, Call
    <3>2. \A k \in Nat : [call EXCEPT ![c].tokens = k] \in [Request -> Call]
      BY DEF TypeOK, Call
    <3>3. call' \in [Request -> Call]
      BY <2>3, <3>1, <3>2
    <3>4. \A d \in Request :
            /\ call'[d].at = call[d].at /\ call'[d].tag = call[d].tag
            /\ call'[d].handle = call[d].handle /\ call'[d].victims = call[d].victims
            /\ call'[d].how = call[d].how /\ call'[d].stop = call[d].stop
      BY <2>3 DEF TypeOK, Call
    <3> QED BY <3>3, <3>4 DEF Onward, Stays
  <2>4. CASE UNCHANGED call
    BY <2>4 DEF TypeOK, Onward, Stays
  <2> QED BY <2>1, <2>2, <2>3, <2>4 DEF Advance
<1>9. UNCHANGED <<resident, stoppedLoads, noted, closed, unload, cancel, sweep, history>>
  BY DEF Advance
<1> QED BY <1>2, <1>7, <1>8, <1>9 DEF TypeOK, OnwardStep

LEMMA RoundType ==
  ASSUME TypeOK, NEW h \in Handle, Round(h)
  PROVE  TypeOK' /\ OnwardStep /\ Works
<1> DEFINE a == {c \in worker[h].active : call[c].at = "submitted"}
           p == CASE a # {} -> "admit"
                  [] a = {} /\ worker[h].closing -> "ended"
                  [] OTHER -> "idle"
<1>1. worker[h] \in Worker /\ a \in SUBSET Request /\ a \subseteq Jobs(h)
  BY DEF TypeOK, Worker, Jobs
<1>2. p \in Phase
  BY DEF Phase
<1>3. worker' = [worker EXCEPT ![h].active = a, ![h].phase = p]
  BY DEF Round
<1> HIDE DEF a, p
<1>4. PICK r \in Worker : r = [worker[h] EXCEPT !.active = a]
  BY <1>1, JobFields
<1>5. PICK w \in Worker : w = [r EXCEPT !.phase = p]
  BY <1>2, <1>4, JobFields
<1>6. /\ w.queue = worker[h].queue /\ w.active = a /\ w.todo = worker[h].todo
      /\ w.stop = worker[h].stop
  BY <1>1, <1>4, <1>5 DEF Worker
<1>7. worker' = [worker EXCEPT ![h] = w]
  BY <1>3, <1>4, <1>5 DEF TypeOK, Worker
<1>8. worker[h].todo \subseteq Jobs(h)
  BY DEF Jobs
<1>9. worker' \in [Handle -> Worker] /\ Works
  BY <1>1, <1>6, <1>7, <1>8, WorksAt
<1> QED BY <1>9 DEF Round, TypeOK, OnwardStep, Onward

LEMMA SetStopType ==
  ASSUME TypeOK, NEW c \in Request, SetStop(c)
  PROVE  /\ call' \in [Request -> Call]
         /\ \A d \in Request :
              /\ call'[d].at = call[d].at /\ call'[d].tag = call[d].tag
              /\ call'[d].handle = call[d].handle /\ call'[d].victims = call[d].victims
              /\ call'[d].how = call[d].how /\ (d # c => call'[d].stop = call[d].stop)
         /\ call'[c].stop
<1>1. ASSUME NEW r \in Call
      PROVE  LET q == [r EXCEPT !.stop = TRUE] IN
             /\ q \in Call /\ q.at = r.at /\ q.tag = r.tag /\ q.handle = r.handle
             /\ q.victims = r.victims /\ q.how = r.how /\ q.stop
  BY DEF Call
<1>2. call \in [Request -> Call] /\ call' = [call EXCEPT ![c] = [call[c] EXCEPT !.stop = TRUE]]
  BY DEF TypeOK, SetStop
<1> QED BY <1>1, <1>2

LEMMA CancelType ==
  ASSUME TypeOK, NEW c \in Chat, CancelReply(c) \/ NoteCancel(c)
  PROVE  /\ TypeOK' /\ OnwardStep
         /\ \A d \in Request : /\ call'[d].at = call[d].at /\ call'[d].how = call[d].how
                               /\ call'[d].stop => call[d].stop \/ (d = c /\ cancel'[c] = "done")
                               /\ call[d].stop => call'[d].stop
         /\ \A d \in Chat : cancel[d] = "done" => cancel'[d] = "done"
<1>1. c \in Request
  BY ServingAssumption
<1>2. CASE SetStop(c) /\ cancel' = [cancel EXCEPT ![c] = "done"] /\ CancelReply(c)
  <2>1. call' \in [Request -> Call]
    BY <1>1, <1>2, SetStopType
  <2>2. \A d \in Request :
          /\ call'[d].at = call[d].at /\ call'[d].tag = call[d].tag
          /\ call'[d].handle = call[d].handle /\ call'[d].victims = call[d].victims
          /\ call'[d].how = call[d].how /\ (d # c => call'[d].stop = call[d].stop)
          /\ d = c => call'[d].stop
    BY <1>1, <1>2, SetStopType
  <2>3. /\ cancel' \in [Chat -> {"no", "missed", "done"}] /\ cancel'[c] = "done"
        /\ \A d \in Chat \ {c} : cancel'[d] = cancel[d]
    BY <1>2 DEF TypeOK
  <2>4. UNCHANGED <<resident, stoppedLoads, noted, worker, closed, unload, sweep, history>>
    BY <1>2 DEF CancelReply, SetStop
  <2> QED BY <2>1, <2>2, <2>3, <2>4 DEF TypeOK, OnwardStep, Onward
<1>3. CASE /\ UNCHANGED <<resident, stoppedLoads, call, worker, closed, unload, sweep, history>>
           /\ noted' \in {noted, noted \cup {c}}
           /\ \/ cancel[c] = "no" /\ cancel' = [cancel EXCEPT ![c] = "missed"]
              \/ cancel' = [cancel EXCEPT ![c] = "done"]
  BY <1>3 DEF TypeOK, OnwardStep, Onward
<1> QED BY <1>2, <1>3 DEF CancelReply, NoteCancel

LEMMA BeginSweepType ==
  ASSUME TypeOK, BeginSweep
  PROVE  TypeOK' /\ OnwardStep
<1>1. sweep' \in SUBSET Tag
  BY DEF BeginSweep, Expired, Idle, Resident
<1>2. /\ history' \in [late : SUBSET Request, aimed : SUBSET Handle, made : Nat, expiries : Nat]
      /\ history'.made = history.made
  BY DEF BeginSweep, CountExpiry, TypeOK
<1> QED BY <1>1, <1>2 DEF BeginSweep, TypeOK, OnwardStep, Onward

(***************************************************************************)
(* Unloading and sweeping.                                                 *)
(***************************************************************************)
LEMMA StopModelType ==
  ASSUME TypeOK, NEW u \in Unload, NEW t \in Tag, StopModel(u, t)
  PROVE  TypeOK'
<1>1. CASE /\ resident[t] # None
           /\ Pop(t)
           /\ worker' = [worker EXCEPT ![resident[t]].stop = TRUE]
           /\ history' = [history EXCEPT !.aimed = history.aimed \cup {resident[t]}]
           /\ unload' = [unload EXCEPT ![u] = [at |-> "waiting", handle |-> resident[t]]]
           /\ UNCHANGED stoppedLoads
  <2>1. PICK h \in Handle : h = resident[t]
    BY <1>1 DEF TypeOK
  <2>2. worker' = [worker EXCEPT ![h] = [worker[h] EXCEPT !.stop = TRUE]]
    BY <1>1, <2>1 DEF TypeOK
  <2>3. worker' \in [Handle -> Worker]
    BY <2>2, JobFields DEF TypeOK
  <2>4. resident' \in [Tag -> Handle \cup {None}]
    BY <1>1 DEF Pop, TypeOK
  <2>5. history' \in [late : SUBSET Request, aimed : SUBSET Handle, made : Nat, expiries : Nat]
    BY <1>1, <2>1 DEF TypeOK
  <2>6. unload' \in [Unload -> [at : {"new", "waiting", "retiring", "done"},
                               handle : Handle \cup {None}]]
    BY <1>1, <2>1 DEF TypeOK
  <2> QED BY <1>1, <2>3, <2>4, <2>5, <2>6 DEF StopModel, TypeOK
<1>2. CASE /\ stoppedLoads' = stoppedLoads \cup {t}
           /\ unload' = [unload EXCEPT ![u].at = "done"]
           /\ UNCHANGED <<resident, worker, history>>
  BY <1>2 DEF StopModel, TypeOK
<1> QED BY <1>1, <1>2 DEF StopModel

LEMMA WaitUntilIdleType ==
  ASSUME TypeOK, NEW u \in Unload, WaitUntilIdle(u)
  PROVE  TypeOK'
BY DEF WaitUntilIdle, TypeOK

LEMMA RetireUnloadedType ==
  ASSUME TypeOK, HandleInv, NEW u \in Unload, RetireUnloaded(u)
  PROVE  TypeOK'
<1>1. unload[u].handle \in Handle
  BY DEF RetireUnloaded, HandleInv, TypeOK
<1>2. worker' \in [Handle -> Worker] /\ closed' \in SUBSET Handle
  BY <1>1, RetireType DEF RetireUnloaded
<1>3. unload' \in [Unload -> [at : {"new", "waiting", "retiring", "done"},
                             handle : Handle \cup {None}]]
  BY DEF RetireUnloaded, TypeOK
<1> QED BY <1>2, <1>3 DEF RetireUnloaded, TypeOK

LEMMA SweepType ==
  ASSUME TypeOK, Sweep
  PROVE  TypeOK'
<1>1. PICK t \in sweep :
       \/ /\ resident[t] # None
          /\ Retire(resident[t]) /\ Pop(t)
          /\ sweep' = sweep \ {t}
       \/ /\ resident[t] = None /\ sweep' = {}
          /\ UNCHANGED <<worker, closed, resident>>
  BY DEF Sweep
<1>2. t \in Tag /\ sweep' \in SUBSET Tag
  BY <1>1 DEF TypeOK
<1>3. /\ worker' \in [Handle -> Worker] /\ closed' \in SUBSET Handle
      /\ resident' \in [Tag -> Handle \cup {None}]
  <2>1. CASE resident[t] # None /\ Retire(resident[t]) /\ Pop(t)
    BY <1>2, <2>1, RetireType DEF TypeOK, Pop
  <2>2. CASE UNCHANGED <<worker, closed, resident>>
    BY <2>2 DEF TypeOK
  <2> QED BY <1>1, <2>1, <2>2
<1> QED BY <1>2, <1>3 DEF Sweep, TypeOK

LEMMA StartLoadingType ==
  ASSUME TypeOK, CallInv, NEW c \in Request, StartLoading(c)
  PROVE  TypeOK' /\ CallInv'
<1>1. call[c].at = "making room" /\ call[c].victims = {} /\ Goes(c, "loading")
      /\ "loading" \in Place
  BY DEF StartLoading, Place, Loading
<1>2. call' \in [Request -> Call] /\ call'[c].at = "loading"
      /\ \A d \in Request : /\ d # c => call'[d] = call[d]
                            /\ call'[d].tag = call[d].tag /\ call'[d].handle = call[d].handle
                            /\ call'[d].victims = call[d].victims
  BY <1>1, GoesType
<1>3. stoppedLoads' \in SUBSET Tag
  BY DEF StartLoading, TypeOK
<1>4. TypeOK'
  BY <1>2, <1>3 DEF StartLoading, TypeOK
<1>5. CallInv'
  BY <1>1, <1>2 DEF CallInv, Loading, HasModel, OnWorker
<1> QED BY <1>4, <1>5

-----------------------------------------------------------------------------
(* Models that are popped, closed or handed to an unload *)

Leaving(u) == unload[u].at \in {"waiting", "retiring"}

(* What such a step may do to residents, closed models and unloads. *)
ReleaseStep ==
  /\ history'.made = history.made
  /\ \A t \in Tag :
       \/ resident'[t] = resident[t]
       \/ /\ resident'[t] = None
          /\ \/ resident[t] \in closed'
             \/ \E u \in Unload : unload'[u].handle = resident[t] /\ Leaving(u)'
  /\ closed \subseteq closed'
  /\ \A h \in closed' \ closed : h \in 1..history.made /\ \A t \in Tag : resident'[t] # h
  /\ \A u \in Unload :
       /\ \/ unload'[u].handle = unload[u].handle
          \/ /\ unload'[u].handle \in 1..history.made
             /\ \A t \in Tag : resident'[t] # unload'[u].handle
             /\ ~Leaving(u)
       /\ Leaving(u)' => unload'[u].handle # None
       /\ Leaving(u) => Leaving(u)' \/ unload[u].handle \in closed'

(* No request takes the load lock, or finds its tag unloaded. *)
NoNewHolder ==
  \A d \in Request :
    /\ call'[d].tag = call[d].tag /\ call'[d].handle = call[d].handle
    /\ call'[d].at \in Loading => call[d].at \in Loading
    /\ call'[d].at \in {"making room", "loading"} => call[d].at \in {"making room", "loading"}

LEMMA NoNewHolderLock ==
  ASSUME LockInv, NoNewHolder, \A t \in Tag : resident'[t] \in {resident[t], None},
         \A d \in Request : call[d].at \in Loading => call[d].tag \in Tag
  PROVE  LockInv'
<1>1. \A d \in Request : call[d].at \in {"making room", "loading"} => call[d].tag \in Tag
  BY DEF Loading
<1>2. ASSUME NEW c \in Request, NEW d \in Request, call'[c].at \in Loading, call'[d].at \in Loading,
             call'[c].tag = call'[d].tag
      PROVE  c = d
  BY <1>2 DEF LockInv, NoNewHolder
<1>3. ASSUME NEW c \in Request, call'[c].at \in {"making room", "loading"}
      PROVE  resident'[call'[c].tag] = None
  <2>1. call[c].at \in {"making room", "loading"} /\ call'[c].tag = call[c].tag
    BY <1>3 DEF NoNewHolder
  <2>2. PICK t \in Tag : t = call[c].tag /\ resident[t] = None
    BY <1>1, <2>1 DEF LockInv
  <2>3. resident'[t] = None
    BY <2>2
  <2> QED BY <2>1, <2>2, <2>3
<1> QED BY <1>2, <1>3 DEF LockInv

LEMMA ReleaseHandle ==
  ASSUME TypeOK, HandleInv, ReleaseStep, NoNewHolder
  PROVE  HandleInv'
<1>1. closed' \subseteq 1..history'.made
  BY DEF HandleInv, ReleaseStep
<1>2. ASSUME NEW t \in Tag, resident'[t] # None
      PROVE  /\ resident'[t] = resident[t] /\ resident[t] <= history'.made
             /\ resident[t] \notin closed'
             /\ \A u \in Tag : resident'[u] = resident[t] => u = t
             /\ \A c \in Request : call'[c].handle = resident[t] => call'[c].tag = t
             /\ \A u \in Unload : unload'[u].handle # resident[t]
  <2>1. resident'[t] = resident[t] /\ resident[t] <= history'.made /\ resident[t] \notin closed'
    BY <1>2 DEF HandleInv, ReleaseStep
  <2>2. \A u \in Tag : resident'[u] = resident[t] => u = t
    BY <1>2, <2>1 DEF HandleInv, ReleaseStep
  <2>3. \A c \in Request : call'[c].handle = resident[t] => call'[c].tag = t
    <3>1. \A c \in Request : call[c].handle = resident[t] => call[c].tag = t
      BY <1>2, <2>1 DEF HandleInv
    <3> QED BY <3>1 DEF NoNewHolder
  <2>4. \A u \in Unload : unload'[u].handle # resident[t]
    BY <1>2, <2>1 DEF HandleInv, ReleaseStep
  <2> QED BY <2>1, <2>2, <2>3, <2>4
<1>3. \A c \in Request : call'[c].handle # None => call'[c].handle <= history'.made
  BY DEF HandleInv, ReleaseStep, NoNewHolder
<1>4. \A u \in Unload :
        /\ unload'[u].handle # None => unload'[u].handle <= history'.made
        /\ unload'[u].at \in {"waiting", "retiring"} => unload'[u].handle # None
  BY DEF HandleInv, ReleaseStep, Leaving
<1> QED BY <1>1, <1>2, <1>3, <1>4 DEF HandleInv

LEMMA ReleaseLost ==
  ASSUME NoModelIsLost, ReleaseStep
  PROVE  NoModelIsLost'
<1> SUFFICES ASSUME NEW h \in 1..history.made
             PROVE  \/ \E t \in Tag : resident'[t] = h
                    \/ h \in closed'
                    \/ \E u \in Unload : unload'[u].handle = h /\ Leaving(u)'
  BY DEF NoModelIsLost, ReleaseStep, Leaving
<1>1. CASE \E t \in Tag : resident[t] = h
  BY <1>1 DEF ReleaseStep
<1>2. CASE h \in closed
  BY <1>2 DEF ReleaseStep
<1>3. CASE \E u \in Unload : unload[u].handle = h /\ Leaving(u)
  BY <1>3 DEF ReleaseStep
<1> QED BY <1>1, <1>2, <1>3 DEF NoModelIsLost, Leaving

LEMMA PopsRelease ==
  ASSUME TypeOK, HandleInv, NEW t \in Tag, resident[t] # None, Retire(resident[t]), Pop(t),
         UNCHANGED <<unload, history>>
  PROVE  ReleaseStep /\ \A s \in Tag : resident'[s] \in {resident[s], None}
<1>1. resident[t] \in 1..history.made /\ \A s \in Tag \ {t} : resident[s] # resident[t]
  BY DEF TypeOK, HandleInv, Handle
<1>2. resident'[t] = None /\ \A s \in Tag \ {t} : resident'[s] = resident[s]
  BY DEF Pop, TypeOK
<1>3. closed' = closed \cup {resident[t]} /\ \A s \in Tag : resident'[s] # resident[t]
  BY <1>1, <1>2 DEF Retire
<1> QED BY <1>1, <1>2, <1>3 DEF ReleaseStep, HandleInv, Leaving

LEMMA EvictRelease ==
  ASSUME TypeOK, CallInv, HandleInv, NEW c \in Request, Evict(c)
  PROVE  ReleaseStep /\ NoNewHolder /\ \A t \in Tag : resident'[t] \in {resident[t], None}
<1>1. PICK t \in call[c].victims :
       \/ /\ resident[t] # None
          /\ Retire(resident[t]) /\ Pop(t)
          /\ call' = [call EXCEPT ![c].victims = call[c].victims \ {t}]
       \/ /\ resident[t] = None
          /\ call' = [call EXCEPT ![c].at = "answered", ![c].victims = {}]
          /\ UNCHANGED <<worker, closed, resident>>
  BY DEF Evict
<1>2. t \in Tag /\ UNCHANGED <<unload, history>>
  BY DEF TypeOK, Call, Evict
<1>3. NoNewHolder
  <2>1. CASE call' = [call EXCEPT ![c].victims = call[c].victims \ {t}]
    BY <2>1 DEF TypeOK, Call, NoNewHolder
  <2>2. CASE call' = [call EXCEPT ![c].at = "answered", ![c].victims = {}]
    <3>1. \A d \in Request : /\ call'[d].tag = call[d].tag /\ call'[d].handle = call[d].handle
                             /\ call'[d].at = call[d].at \/ call'[d].at = "answered"
      BY <2>2 DEF TypeOK, Call
    <3> QED BY <3>1 DEF NoNewHolder, Loading
  <2> QED BY <1>1, <2>1, <2>2
<1>4. CASE resident[t] # None /\ Retire(resident[t]) /\ Pop(t)
  BY <1>2, <1>3, <1>4, PopsRelease
<1>5. CASE UNCHANGED <<worker, closed, resident>>
  BY <1>2, <1>3, <1>5 DEF ReleaseStep, HandleInv, Leaving
<1> QED BY <1>1, <1>4, <1>5

LEMMA SweepRelease ==
  ASSUME TypeOK, HandleInv, Sweep
  PROVE  ReleaseStep /\ NoNewHolder /\ \A t \in Tag : resident'[t] \in {resident[t], None}
<1>1. PICK t \in sweep :
       \/ /\ resident[t] # None
          /\ Retire(resident[t]) /\ Pop(t)
       \/ UNCHANGED <<worker, closed, resident>>
  BY DEF Sweep
<1>2. t \in Tag /\ UNCHANGED <<unload, history, call>>
  BY DEF TypeOK, Sweep
<1>3. NoNewHolder
  BY <1>2 DEF NoNewHolder
<1>4. CASE resident[t] # None /\ Retire(resident[t]) /\ Pop(t)
  BY <1>2, <1>3, <1>4, PopsRelease
<1>5. CASE UNCHANGED <<worker, closed, resident>>
  BY <1>2, <1>3, <1>5 DEF ReleaseStep, HandleInv, Leaving
<1> QED BY <1>1, <1>4, <1>5

LEMMA UnloadRelease ==
  ASSUME TypeOK, HandleInv, NEW u \in Unload,
         (\E t \in Tag : StopModel(u, t)) \/ WaitUntilIdle(u) \/ RetireUnloaded(u)
  PROVE  ReleaseStep /\ NoNewHolder /\ \A t \in Tag : resident'[t] \in {resident[t], None}
<1>1. NoNewHolder
  BY DEF NoNewHolder, StopModel, WaitUntilIdle, RetireUnloaded
<1>2. ASSUME NEW t \in Tag, StopModel(u, t)
      PROVE  ReleaseStep /\ \A s \in Tag : resident'[s] \in {resident[s], None}
  <2>1. unload[u].at = "new" /\ closed' = closed
    BY <1>2 DEF StopModel
  <2>2. CASE /\ resident[t] # None /\ Pop(t)
             /\ history' = [history EXCEPT !.aimed = history.aimed \cup {resident[t]}]
             /\ unload' = [unload EXCEPT ![u] = [at |-> "waiting", handle |-> resident[t]]]
    <3>1. resident[t] \in 1..history.made /\ \A s \in Tag \ {t} : resident[s] # resident[t]
      BY <2>2 DEF TypeOK, HandleInv, Handle
    <3>2. resident'[t] = None /\ \A s \in Tag \ {t} : resident'[s] = resident[s]
      BY <2>2 DEF Pop, TypeOK
    <3>3. unload'[u].at = "waiting" /\ unload'[u].handle = resident[t]
          /\ \A v \in Unload \ {u} : unload'[v] = unload[v]
      BY <2>2 DEF TypeOK
    <3>4. history'.made = history.made
      BY <2>2 DEF TypeOK
    <3>5. \A s \in Tag : resident'[s] # resident[t]
      BY <2>2, <3>1, <3>2
    <3> QED BY <2>1, <2>2, <3>1, <3>2, <3>3, <3>4, <3>5 DEF ReleaseStep, HandleInv, Leaving
  <2>3. CASE /\ unload' = [unload EXCEPT ![u].at = "done"]
             /\ UNCHANGED <<resident, worker, history>>
    <3>1. /\ unload'[u].at = "done" /\ unload'[u].handle = unload[u].handle
          /\ \A v \in Unload \ {u} : unload'[v] = unload[v]
      BY <2>3 DEF TypeOK
    <3> QED BY <2>1, <2>3, <3>1 DEF ReleaseStep, HandleInv, Leaving
  <2> QED BY <1>2, <2>2, <2>3 DEF StopModel
<1>3. CASE WaitUntilIdle(u)
  <2>1. /\ unload[u].at = "waiting" /\ unload'[u].at = "retiring"
        /\ unload'[u].handle = unload[u].handle
        /\ \A v \in Unload \ {u} : unload'[v] = unload[v]
    BY <1>3 DEF WaitUntilIdle, TypeOK
  <2> QED BY <1>1, <1>3, <2>1 DEF WaitUntilIdle, ReleaseStep, HandleInv, Leaving
<1>4. CASE RetireUnloaded(u)
  <2>1. /\ unload[u].at = "retiring" /\ unload'[u].at = "done"
        /\ unload'[u].handle = unload[u].handle
        /\ \A v \in Unload \ {u} : unload'[v] = unload[v]
    BY <1>4 DEF RetireUnloaded, TypeOK
  <2>2. unload[u].handle \in 1..history.made /\ \A t \in Tag : resident[t] # unload[u].handle
    BY <2>1 DEF HandleInv, TypeOK, Handle
  <2>3. closed' = closed \cup {unload[u].handle} /\ UNCHANGED <<resident, history>>
    BY <1>4 DEF RetireUnloaded, Retire
  <2> QED BY <1>1, <2>1, <2>2, <2>3 DEF ReleaseStep, HandleInv, Leaving
<1> QED BY <1>1, <1>2, <1>3, <1>4

-----------------------------------------------------------------------------
(* Taking the load lock, looking the model up, loading it *)

LEMMA EnterLoadKeeps ==
  ASSUME TypeOK, CallInv, LockInv, HandleInv, NoModelIsLost,
         NEW c \in Request, NEW t \in Tag, EnterLoad(c, t)
  PROVE  LockInv' /\ HandleInv' /\ NoModelIsLost'
<1>1. PICK expired \in Expired :
        /\ call' = [call EXCEPT ![c].at = "evicting", ![c].tag = t, ![c].victims = expired]
        /\ CountExpiry(expired)
  BY DEF EnterLoad
<1>2. /\ call[c].at = "new" /\ call[c].handle = None
      /\ \A d \in Request : call[d].at \in Loading => call[d].tag # t
      /\ UNCHANGED <<resident, closed, unload>>
  BY DEF EnterLoad, CallInv
<1>3. history'.made = history.made
  BY <1>1 DEF CountExpiry, TypeOK
<1>4. /\ call'[c].at = "evicting" /\ call'[c].tag = t /\ call'[c].handle = None
      /\ \A d \in Request \ {c} : call'[d] = call[d]
  BY <1>1, <1>2 DEF TypeOK, Call
<1>5. LockInv'
  BY <1>2, <1>4 DEF LockInv
<1>6. HandleInv'
  <2>1. \A d \in Request : call'[d].handle # None =>
          call'[d].tag = call[d].tag /\ call'[d].handle = call[d].handle
    BY <1>4
  <2> QED BY <1>2, <1>3, <2>1 DEF HandleInv
<1>7. NoModelIsLost'
  BY <1>2, <1>3 DEF NoModelIsLost
<1> QED BY <1>5, <1>6, <1>7

LEMMA LookupKeeps ==
  ASSUME TypeOK, CallInv, LockInv, HandleInv, NoModelIsLost, NEW c \in Request, Lookup(c)
  PROVE  LockInv' /\ HandleInv' /\ NoModelIsLost'
<1>1. /\ call[c].at = "evicting" /\ call[c].tag \in Tag /\ call[c].handle = None
      /\ UNCHANGED <<resident, closed, unload, history>>
  BY DEF Lookup, CallInv, Loading
<1>2. NoModelIsLost'
  BY <1>1 DEF NoModelIsLost
<1>3. CASE /\ call[c].tag \in Resident
           /\ call' = [call EXCEPT ![c].at = "got", ![c].handle = resident[call[c].tag]]
  <2>1. PICK t \in Tag : t = call[c].tag /\ resident[t] # None /\ resident[t] \in Handle
    BY <1>1, <1>3 DEF Resident, TypeOK
  <2>2. /\ call'[c].at = "got" /\ call'[c].tag = t /\ call'[c].handle = resident[t]
        /\ \A d \in Request \ {c} : call'[d] = call[d]
    BY <1>3, <2>1 DEF TypeOK, Call
  <2>3. LockInv'
    BY <1>1, <2>2 DEF LockInv, Loading
  <2>4. \A s \in Tag : resident[s] # None =>
          \A d \in Request : call'[d].handle = resident[s] => call'[d].tag = s
    BY <2>1, <2>2 DEF HandleInv
  <2>5. \A d \in Request : call'[d].handle # None => call'[d].handle <= history.made
    BY <2>1, <2>2 DEF HandleInv
  <2>6. HandleInv'
    BY <1>1, <2>4, <2>5 DEF HandleInv
  <2> QED BY <1>2, <2>3, <2>6
<1>4. ASSUME NEW v \in SUBSET Tag, call[c].tag \notin Resident,
             call' = [call EXCEPT ![c].at = "making room", ![c].victims = v]
      PROVE  LockInv' /\ HandleInv'
  <2>1. /\ call'[c].at = "making room" /\ call'[c].tag = call[c].tag
        /\ call'[c].handle = call[c].handle /\ \A d \in Request \ {c} : call'[d] = call[d]
    <3>1. call \in [Request -> Call] /\ call' = [call EXCEPT ![c].at = "making room", ![c].victims = v]
      BY <1>4 DEF TypeOK
    <3> QED BY <3>1 DEF Call
  <2>2. resident[call[c].tag] = None
    BY <1>1, <1>4 DEF Resident
  <2>3. LockInv'
    <3>1. \A d \in Request : /\ call'[d].tag = call[d].tag
                             /\ call'[d].at \in Loading => call[d].at \in Loading
      BY <1>1, <2>1 DEF Loading
    <3>2. ASSUME NEW d \in Request, call'[d].at \in {"making room", "loading"}
          PROVE  resident'[call'[d].tag] = None
      BY <1>1, <2>1, <2>2, <3>2 DEF LockInv
    <3> QED BY <3>1, <3>2 DEF LockInv
  <2>4. \A d \in Request : call'[d].tag = call[d].tag /\ call'[d].handle = call[d].handle
    BY <2>1
  <2>5. HandleInv'
    BY <1>1, <2>4 DEF HandleInv
  <2> QED BY <2>3, <2>5
<1>5. LeastRecent \subseteq SUBSET Tag
  BY DEF LeastRecent, Idle, Resident
<1> QED BY <1>2, <1>3, <1>4, <1>5 DEF Lookup

LEMMA StartLoadingKeeps ==
  ASSUME TypeOK, CallInv, LockInv, HandleInv, NoModelIsLost, NEW c \in Request, StartLoading(c)
  PROVE  LockInv' /\ HandleInv' /\ NoModelIsLost'
<1>1. call[c].at = "making room" /\ Goes(c, "loading") /\ "loading" \in Place
      /\ UNCHANGED <<resident, closed, unload, history>>
  BY DEF StartLoading, Place, Loading
<1>2. /\ call'[c].at = "loading" /\ \A d \in Request \ {c} : call'[d] = call[d]
      /\ \A d \in Request : call'[d].tag = call[d].tag /\ call'[d].handle = call[d].handle
  BY <1>1, GoesType
<1>3. NoNewHolder
  BY <1>1, <1>2 DEF NoNewHolder, Loading
<1>4. LockInv'
  BY <1>1, <1>3, NoNewHolderLock DEF CallInv
<1>5. HandleInv'
  <2>1. \A d \in Request : call'[d].tag = call[d].tag /\ call'[d].handle = call[d].handle
    BY <1>2
  <2> QED BY <1>1, <2>1, HandleKept
<1>6. NoModelIsLost'
  BY <1>1 DEF NoModelIsLost
<1> QED BY <1>4, <1>5, <1>6

LEMMA LoadKeeps ==
  ASSUME TypeOK, CallInv, LockInv, HandleInv, NoModelIsLost, NEW c \in Request, Load(c)
  PROVE  LockInv' /\ HandleInv' /\ NoModelIsLost'
<1>1. call[c].at = "loading" /\ call[c].tag \in Tag /\ UNCHANGED <<closed, unload>>
  BY DEF Load, CallInv, Loading
<1>2. history.made \in Nat /\ history.made < MaxHandles /\ MaxHandles \in Nat
  BY ServingAssumption DEF Load, TypeOK
<1>3. PICK h \in Handle : h = history.made + 1
  BY <1>2 DEF Handle
<1>4. PICK t \in Tag : t = call[c].tag /\ resident[t] = None
  BY <1>1 DEF LockInv
<1>5. /\ resident'[t] = h /\ \A s \in Tag \ {t} : resident'[s] = resident[s]
      /\ history'.made = h
  BY <1>3, <1>4 DEF Load, TypeOK
<1>6. /\ call'[c].at = "got" /\ call'[c].tag = t /\ call'[c].handle = h
      /\ \A d \in Request \ {c} : call'[d] = call[d]
  BY <1>3, <1>4 DEF Load, TypeOK, Call
<1>7. LockInv'
  <2>1. ASSUME NEW d \in Request, call'[d].at \in Loading
        PROVE  d # c /\ call'[d] = call[d] /\ call[d].tag # t /\ call[d].tag \in Tag
    BY <1>1, <1>4, <1>6, <2>1 DEF LockInv, CallInv, Loading
  <2>2. ASSUME NEW d \in Request, call'[d].at \in {"making room", "loading"}
        PROVE  resident'[call'[d].tag] = None
    BY <1>5, <2>1, <2>2 DEF LockInv, Loading
  <2> QED BY <2>1, <2>2 DEF LockInv
(* The new handle is the largest so far: nothing refers to it yet. *)
<1>8. /\ \A s \in Tag : resident[s] # None => resident[s] # h /\ resident[s] <= h
      /\ \A d \in Request : call[d].handle # h /\ (call[d].handle # None => call[d].handle <= h)
      /\ \A u \in Unload : unload[u].handle # h /\ (unload[u].handle # None => unload[u].handle <= h)
      /\ h \notin closed /\ closed \subseteq 1..h
      /\ h # None
  <2>1. ASSUME NEW x \in Handle, x <= history.made PROVE x # h /\ x <= h
    BY <1>2, <1>3, <2>1 DEF Handle
  <2>2. h # None
    BY SentinelAssumption
  <2>3. h \notin closed /\ closed \subseteq 1..h
    BY <1>2, <1>3 DEF HandleInv
  <2>4. \A s \in Tag : resident[s] # None => resident[s] # h /\ resident[s] <= h
    BY <2>1 DEF HandleInv, TypeOK
  <2>5. \A d \in Request : call[d].handle # h /\ (call[d].handle # None => call[d].handle <= h)
    BY <2>1, <2>2 DEF HandleInv, TypeOK, Call
  <2>6. \A u \in Unload : unload[u].handle # h /\ (unload[u].handle # None => unload[u].handle <= h)
    BY <2>1, <2>2 DEF HandleInv, TypeOK
  <2> QED BY <2>2, <2>3, <2>4, <2>5, <2>6
<1>9. HandleInv'
  <2>1. ASSUME NEW s \in Tag, resident'[s] # None
        PROVE  /\ resident'[s] <= history'.made /\ resident'[s] \notin closed'
               /\ \A r \in Tag : resident'[r] = resident'[s] => r = s
               /\ \A d \in Request : call'[d].handle = resident'[s] => call'[d].tag = s
               /\ \A u \in Unload : unload'[u].handle # resident'[s]
    <3>1. CASE s = t
      BY <1>1, <1>3, <1>5, <1>6, <1>8, <3>1 DEF Handle
    <3>2. CASE s # t
      <4>1. resident'[s] = resident[s] /\ resident[s] # None /\ resident[s] # h
        BY <1>5, <1>8, <2>1, <3>2
      <4>2. /\ resident'[s] <= history'.made /\ resident'[s] \notin closed'
            /\ \A u \in Unload : unload'[u].handle # resident'[s]
        BY <1>1, <1>5, <1>8, <4>1 DEF HandleInv
      <4>3. \A r \in Tag : resident'[r] = resident'[s] => r = s
        BY <1>5, <4>1 DEF HandleInv
      <4>4. \A d \in Request : call'[d].handle = resident'[s] => call'[d].tag = s
        BY <1>6, <4>1 DEF HandleInv
      <4> QED BY <4>2, <4>3, <4>4
    <3> QED BY <3>1, <3>2
  <2>2. \A d \in Request : call'[d].handle # None => call'[d].handle <= history'.made
    BY <1>3, <1>5, <1>6, <1>8 DEF Handle
  <2>3. \A u \in Unload :
          /\ unload'[u].handle # None => unload'[u].handle <= history'.made
          /\ unload'[u].at \in {"waiting", "retiring"} => unload'[u].handle # None
    BY <1>1, <1>5, <1>8 DEF HandleInv
  <2>4. closed' \subseteq 1..history'.made
    BY <1>1, <1>5, <1>8
  <2> QED BY <2>1, <2>2, <2>3, <2>4 DEF HandleInv
<1>10. NoModelIsLost'
  <2>1. ASSUME NEW g \in 1..h PROVE g = h \/ g \in 1..history.made
    BY <1>2, <1>3
  <2>2. \A s \in Tag : resident[s] # None => resident'[s] = resident[s]
    BY <1>4, <1>5
  <2>3. \A g \in 1..history.made : g # None
    BY <1>2, SentinelAssumption DEF Handle
  <2> QED BY <1>1, <1>5, <2>1, <2>2, <2>3 DEF NoModelIsLost
<1> QED BY <1>7, <1>9, <1>10

-----------------------------------------------------------------------------
(* What a worker holds: the jobs it was given, and those stay on it. *)
LEMMA WorksJobs ==
  ASSUME JobInv, Works, \A d \in Request : Stays(d), \A h \in Handle : Jobs(h) \subseteq Request
  PROVE  JobInv'
BY DEF JobInv, Works, Stays

LEMMA JobsType ==
  ASSUME TypeOK
  PROVE  \A h \in Handle : Jobs(h) \subseteq Request
<1> SUFFICES ASSUME NEW h \in Handle PROVE Jobs(h) \subseteq Request
  OBVIOUS
<1>1. /\ worker[h].queue \in Seq(Request \cup {Close})
      /\ worker[h].active \subseteq Request /\ worker[h].todo \subseteq Request
  BY DEF TypeOK, Worker
<1>2. \A i \in 1..Len(worker[h].queue) : worker[h].queue[i] \in Request \cup {Close}
  BY <1>1, ElementOfSeq
<1> QED BY <1>1, <1>2 DEF Jobs, Queued

LEMMA SameWorker ==
  ASSUME UNCHANGED worker
  PROVE  Works
BY DEF Works, Jobs, Queued

(* The sentinel adds no job, nor does a stop. *)
LEMMA RetireWorks ==
  ASSUME TypeOK, NEW h \in Handle, Retire(h)
  PROVE  Works
<1> DEFINE q == Append(worker[h].queue, Close)
           w == [worker[h] EXCEPT !.queue = q]
<1>1. /\ worker[h] \in Worker /\ worker[h].queue \in Seq(Request \cup {Close})
      /\ Close \in Request \cup {Close}
  BY DEF TypeOK, Worker
<1>2. /\ q \in Queue /\ Len(q) = Len(worker[h].queue) + 1 /\ Len(worker[h].queue) \in Nat
      /\ \A i \in 1..Len(worker[h].queue) : q[i] = worker[h].queue[i]
      /\ q[Len(worker[h].queue) + 1] = Close
  BY <1>1, AppendProperties, LenProperties DEF Queue
<1>3. w.queue = q /\ w.active = worker[h].active /\ w.todo = worker[h].todo /\ w.stop = worker[h].stop
  BY <1>1 DEF Worker
<1>4. worker' = [worker EXCEPT ![h] = w]
  BY DEF Retire, TypeOK
<1> HIDE DEF q, w
<1>5. worker'[h] = w /\ \A g \in Handle \ {h} : worker'[g] = worker[g]
  BY <1>4 DEF TypeOK
<1>6. Queued(h)' \subseteq Queued(h)
  BY <1>2, <1>3, <1>5 DEF Queued
<1>7. Jobs(h)' \subseteq Jobs(h)
  BY <1>3, <1>5, <1>6 DEF Jobs
<1>8. \A g \in Handle \ {h} : Jobs(g)' = Jobs(g)
  BY <1>5 DEF Jobs, Queued
<1> QED BY <1>3, <1>5, <1>7, <1>8 DEF Works

LEMMA SubmitJobs ==
  ASSUME TypeOK, CallInv, JobInv, NEW c \in Request, Submit(c)
  PROVE  JobInv' /\ \A h \in Handle : worker'[h].stop = worker[h].stop
<1>1. call[c].at = "starting" /\ Goes(c, "submitted") /\ call[c].handle \in Handle
      /\ "submitted" \in Place
  BY DEF Submit, CallInv, HasModel, Place, OnWorker
<1>2. PICK h \in Handle :
        /\ h = call[c].handle
        /\ worker' = [worker EXCEPT ![h] = [worker[h] EXCEPT !.queue = Append(worker[h].queue, c)]]
  BY <1>1 DEF Submit, TypeOK
<1>3. /\ worker[h] \in Worker /\ worker[h].queue \in Seq(Request \cup {Close})
      /\ c \in Request \cup {Close}
  BY DEF TypeOK, Worker
<1> DEFINE q == Append(worker[h].queue, c)
           w == [worker[h] EXCEPT !.queue = q]
<1>4. /\ Len(q) = Len(worker[h].queue) + 1 /\ Len(worker[h].queue) \in Nat
      /\ \A i \in 1..Len(worker[h].queue) : q[i] = worker[h].queue[i]
      /\ q[Len(worker[h].queue) + 1] = c
  BY <1>3, AppendProperties, LenProperties
<1>5. w.queue = q /\ w.active = worker[h].active /\ w.todo = worker[h].todo /\ w.stop = worker[h].stop
  BY <1>3 DEF Worker
<1>6. worker' = [worker EXCEPT ![h] = w]
  BY <1>2
<1> HIDE DEF q, w
<1>7. worker'[h] = w /\ \A g \in Handle \ {h} : worker'[g] = worker[g]
  BY <1>6 DEF TypeOK
<1>8. Queued(h)' \subseteq Queued(h) \cup {c}
  BY <1>4, <1>5, <1>7 DEF Queued
<1>9. Jobs(h)' \subseteq Jobs(h) \cup {c} /\ \A g \in Handle \ {h} : Jobs(g)' = Jobs(g)
  BY <1>5, <1>7, <1>8 DEF Jobs, Queued
<1>10. /\ call'[c].at = "submitted" /\ call'[c].handle = h
       /\ \A d \in Request \ {c} : call'[d] = call[d]
  BY <1>1, <1>2, GoesType
<1>11. \A d \in Request : call[d].at \in OnWorker => d # c
  BY <1>1 DEF OnWorker
<1>12. JobInv'
  <2>1. ASSUME NEW g \in Handle, NEW d \in Jobs(g)'
        PROVE  call'[d].at \in OnWorker /\ call'[d].handle = g
    <3>1. CASE d \in Jobs(g)
      BY <1>10, <1>11, <3>1, JobsType DEF JobInv
    <3>2. CASE d = c /\ g = h
      BY <1>10, <3>2 DEF OnWorker
    <3> QED BY <1>9, <3>1, <3>2
  <2> QED BY <2>1 DEF JobInv
<1> QED BY <1>5, <1>7, <1>12

-----------------------------------------------------------------------------
(* A stop is for whom it was meant *)

(* Request c moves on before it is on a worker, and nobody else does. *)
Moves(c) ==
  /\ call[c].at \notin OnWorker /\ call'[c].at # "submitted"
  /\ call'[c].how = call[c].how /\ call'[c].stop = call[c].stop
  /\ call'[c].handle = call[c].handle \/ call[c].handle = None
  /\ \A d \in Request \ {c} : call'[d] = call[d]
BeforeWork(c) ==
  \/ (\E t \in Tag : EnterLoad(c, t)) \/ Evict(c) \/ Lookup(c) \/ StartLoading(c) \/ Load(c)
  \/ LoadFails(c) \/ CheckChat(c) \/ CheckGenerate(c) \/ CheckEmbed(c)
  \/ BeginChat(c) \/ BeginOther(c)

LEMMA BeforeWorkMoves ==
  ASSUME TypeOK, CallInv, NEW c \in Request, BeforeWork(c)
  PROVE  Moves(c)
<1>1. call \in [Request -> Call]
  BY DEF TypeOK
<1>2. ASSUME NEW t \in Tag, EnterLoad(c, t) PROVE Moves(c)
  <2>1. PICK v : call' = [call EXCEPT ![c].at = "evicting", ![c].tag = t, ![c].victims = v]
    BY <1>2 DEF EnterLoad
  <2>2. call[c].at = "new"
    BY <1>2 DEF EnterLoad
  <2> QED BY <1>1, <2>1, <2>2 DEF Moves, Call, OnWorker
<1>3. CASE Evict(c)
  <2>1. call[c].at \notin OnWorker /\ call[c].at # "submitted"
    BY <1>3 DEF Evict, CallInv, OnWorker
  <2>2. ASSUME NEW v, call' = [call EXCEPT ![c].victims = v] PROVE Moves(c)
    BY <1>1, <2>1, <2>2 DEF Moves, Call
  <2>3. ASSUME NEW v, call' = [call EXCEPT ![c].at = "answered", ![c].victims = v] PROVE Moves(c)
    BY <1>1, <2>1, <2>3 DEF Moves, Call
  <2> QED BY <1>3, <2>2, <2>3 DEF Evict
<1>4. CASE Lookup(c)
  <2>1. call[c].at = "evicting" /\ call[c].handle = None
    BY <1>4 DEF Lookup, CallInv, Loading
  <2>2. ASSUME NEW h, call' = [call EXCEPT ![c].at = "got", ![c].handle = h] PROVE Moves(c)
    BY <1>1, <2>1, <2>2 DEF Moves, Call, OnWorker
  <2>3. ASSUME NEW v, call' = [call EXCEPT ![c].at = "making room", ![c].victims = v] PROVE Moves(c)
    BY <1>1, <2>1, <2>3 DEF Moves, Call, OnWorker
  <2> QED BY <1>4, <2>2, <2>3 DEF Lookup
<1>5. CASE Load(c)
  <2>1. call[c].at = "loading" /\ call[c].handle = None
    BY <1>5 DEF Load, CallInv, Loading
  <2>2. call' = [call EXCEPT ![c].at = "got", ![c].handle = history.made + 1]
    BY <1>5 DEF Load
  <2> QED BY <1>1, <2>1, <2>2 DEF Moves, Call, OnWorker
<1>6. ASSUME NEW p \in Place \ {"submitted"}, Goes(c, p), call[c].at \notin OnWorker PROVE Moves(c)
  BY <1>6, GoesType DEF Moves
<1>7. CASE \/ StartLoading(c) \/ LoadFails(c) \/ CheckChat(c) \/ CheckGenerate(c)
           \/ CheckEmbed(c) \/ BeginChat(c) \/ BeginOther(c)
  <2>1. /\ call[c].at \notin OnWorker
        /\ \E p \in {"loading", "answered", "dropped", "ready", "starting"} : Goes(c, p)
    BY <1>7 DEF StartLoading, LoadFails, CheckChat, CheckGenerate, CheckEmbed, BeginChat,
                BeginOther, GoesOn, OnWorker
  <2>2. {"loading", "answered", "dropped", "ready", "starting"} \subseteq Place \ {"submitted"}
    BY DEF Place, Loading, HasModel
  <2> QED BY <1>6, <2>1, <2>2
<1> QED BY <1>2, <1>3, <1>4, <1>5, <1>7 DEF BeforeWork

LEMMA MovesStays ==
  ASSUME NEW c \in Request, Moves(c)
  PROVE  \A d \in Request : Stays(d)
BY DEF Moves, Stays

LEMMA StopKept ==
  ASSUME TypeOK, StopInv, history.aimed \subseteq history'.aimed,
         \A h \in Handle : worker'[h].stop => worker[h].stop \/ h \in history'.aimed,
         \A d \in Request : call'[d].stop => call[d].stop \/ (d \in Chat /\ cancel'[d] = "done"),
         \A d \in Request : call[d].stop => call'[d].stop,
         \A d \in Chat : cancel[d] = "done" => cancel'[d] = "done",
         \A d \in Request : call'[d].how = "stopped" =>
           \/ /\ call[d].how = "stopped"
              /\ call'[d].handle = call[d].handle \/ call[d].handle = None
           \/ call'[d].handle \in history'.aimed \/ call'[d].stop
  PROVE  StopInv'
<1>1. None \notin history.aimed
  BY SentinelAssumption DEF TypeOK
<1> QED BY <1>1 DEF StopInv

LEMMA MovesStop ==
  ASSUME TypeOK, StopInv, NEW c \in Request, Moves(c), Works,
         UNCHANGED cancel, history'.aimed = history.aimed
  PROVE  StopInv'
BY StopKept DEF Moves, Works

LEMMA WorkerStop ==
  ASSUME TypeOK, CallInv, JobInv, StopInv, NEW h \in Handle,
         Pick(h) \/ Admit(h) \/ Round(h) \/ \E c \in Request : Advance(h, c)
  PROVE  StopInv'
<1>1. UNCHANGED <<cancel, history>> /\ Jobs(h) \subseteq Request
  BY JobsType DEF Pick, Admit, Round, Advance
<1>2. Works
  BY PickType, AdmitType, RoundType, AdvanceType
<1>3. /\ \A d \in Request : call'[d].stop = call[d].stop
      /\ \A d \in Request : call'[d].how = "stopped" =>
           \/ call[d].how = "stopped" /\ call'[d].handle = call[d].handle
           \/ call'[d].handle \in history.aimed
           \/ call'[d].stop
  <2>1. CASE Pick(h) \/ Round(h)
    BY <2>1 DEF Pick, Round
  <2>2. CASE Admit(h)
    <3>1. CASE UNCHANGED call
      BY <3>1
    <3>2. ASSUME NEW cs \in SUBSET Jobs(h), worker[h].stop, Ended(cs, "stopped")
          PROVE  <1>3!1 /\ <1>3!2
      <4>1. cs \in SUBSET Request /\ h \in history.aimed /\ \A d \in cs : call[d].handle = h
        BY <1>1, <3>2 DEF StopInv, JobInv
      <4> QED BY <3>2, <4>1, EndedCall
    <3> QED BY <2>2, <3>1, <3>2, AdmitType
  <2>3. ASSUME NEW c \in Request, Advance(h, c)
        PROVE  <1>3!1 /\ <1>3!2
    <3>1. c \in Jobs(h) /\ call[c].handle = h
      BY <2>3, AdvanceType DEF JobInv
    <3>2. CASE \A d \in Request : call'[d].how = call[d].how /\ call'[d].stop = call[d].stop
      <4>1. \A d \in Request : call'[d].handle = call[d].handle
        BY <2>3, AdvanceType DEF OnwardStep, Onward
      <4> QED BY <3>2, <4>1
    <3>3. CASE Ended({c}, "finished")
      BY <3>3, EndedCall
    <3>4. CASE Stopped(h, c) /\ Ended({c}, "stopped")
      <4>1. h \in history.aimed \/ call[c].stop
        BY <3>4 DEF Stopped, StopInv
      <4> QED BY <3>1, <3>4, <4>1, EndedCall
    <3> QED BY <2>3, <3>2, <3>3, <3>4, AdvanceType
  <2> QED BY <2>1, <2>2, <2>3
<1> QED BY <1>1, <1>2, <1>3, StopKept DEF Works

LEMMA UnloadStop ==
  ASSUME TypeOK, StopInv, NEW u \in Unload, NEW t \in Tag, StopModel(u, t)
  PROVE  StopInv' /\ \A h \in Handle : Jobs(h)' = Jobs(h)
<1>1. CASE /\ resident[t] # None
           /\ worker' = [worker EXCEPT ![resident[t]].stop = TRUE]
           /\ history' = [history EXCEPT !.aimed = history.aimed \cup {resident[t]}]
  <2>1. PICK h \in Handle : h = resident[t]
    BY <1>1 DEF TypeOK
  <2>2. \A g \in Handle : /\ worker'[g].queue = worker[g].queue
                          /\ worker'[g].active = worker[g].active /\ worker'[g].todo = worker[g].todo
                          /\ worker'[g].stop => worker[g].stop \/ g = h
    BY <1>1, <2>1 DEF TypeOK, Worker
  <2>3. history'.aimed = history.aimed \cup {h}
    BY <1>1, <2>1 DEF TypeOK
  <2>4. StopInv'
    BY <2>2, <2>3, StopKept DEF StopModel
  <2> QED BY <2>2, <2>4 DEF Jobs, Queued
<1>2. CASE UNCHANGED <<worker, history>>
  BY <1>2, StopKept DEF StopModel, Jobs, Queued
<1> QED BY <1>1, <1>2 DEF StopModel

-----------------------------------------------------------------------------
(* Weights are unmapped only past the replies that were there *)

(* Models are picked, or let go, while no reply is on their worker. *)
OnNext(h) == {c \in Request : call'[c].at = "submitted" /\ call'[c].handle = h}
RetireStep ==
  /\ history.late \subseteq history'.late
  /\ \A h \in Handle : OnNext(h) \subseteq On(h)
  /\ \A h \in closed' \ closed : On(h) \subseteq history.late
  /\ \A t \in Doomed' : resident'[t] # None =>
       (t \in Doomed /\ resident'[t] = resident[t]) \/ On(resident'[t]) = {}
  /\ \A u \in Unload : unload'[u].at = "retiring" =>
       \/ unload[u].at = "retiring" /\ unload'[u].handle = unload[u].handle
       \/ On(unload'[u].handle) = {}

LEMMA DoomedType ==
  ASSUME TypeOK
  PROVE  Doomed \subseteq Tag
BY DEF TypeOK, Call, Doomed

LEMMA DoomedTypeNext ==
  ASSUME TypeOK'
  PROVE  Doomed' \subseteq Tag
BY DEF TypeOK, Call, Doomed

LEMMA RetireKept ==
  ASSUME TypeOK, TypeOK', HandleInv', RetireInv, RetireStep
  PROVE  RetireInv'
<1>1. ASSUME NEW h \in closed' PROVE OnNext(h) \subseteq history'.late
  <2>1. h \in Handle
    BY DEF TypeOK
  <2>2. On(h) \subseteq history.late
    BY DEF RetireInv, RetireStep
  <2> QED BY <2>1, <2>2 DEF RetireStep
<1>2. ASSUME NEW t \in Doomed', resident'[t] # None
      PROVE  OnNext(resident'[t]) \subseteq history'.late
  <2>1. PICK h \in Handle : h = resident'[t]
    <3>1. t \in Tag /\ resident' \in [Tag -> Handle \cup {None}]
      BY DoomedTypeNext DEF TypeOK
    <3> QED BY <1>2, <3>1
  <2>2. On(h) \subseteq history.late
    BY <1>2, <2>1 DEF RetireInv, RetireStep
  <2> QED BY <2>1, <2>2 DEF RetireStep
<1>3. ASSUME NEW u \in Unload, unload'[u].at = "retiring"
      PROVE  OnNext(unload'[u].handle) \subseteq history'.late
  <2>1. PICK h \in Handle : h = unload'[u].handle
    BY <1>3 DEF HandleInv, TypeOK
  <2>2. On(h) \subseteq history.late
    BY <1>3, <2>1 DEF RetireInv, RetireStep
  <2> QED BY <2>1, <2>2 DEF RetireStep
<1> QED BY <1>1, <1>2, <1>3 DEF RetireInv, On, OnNext

(* Nobody is submitted and nothing is picked or let go. *)
LEMMA StaysRetire ==
  ASSUME TypeOK, TypeOK', HandleInv', RetireInv, UNCHANGED <<resident, closed, unload, sweep>>,
         history'.late = history.late,
         \A d \in Request : Stays(d) /\ call'[d].victims = call[d].victims
  PROVE  RetireInv'
<1>1. \A h \in Handle : OnNext(h) \subseteq On(h)
  BY DEF Stays, On, OnNext
<1>2. Doomed' = Doomed
  BY DEF Doomed
<1> QED BY <1>1, <1>2, RetireKept DEF RetireStep

LEMMA MovesOnWorker ==
  ASSUME NEW c \in Request, Moves(c)
  PROVE  \A h : OnNext(h) \subseteq On(h)
BY DEF Moves, On, OnNext

LEMMA ExpiredIdle ==
  ASSUME NEW v \in Expired, NEW t \in v
  PROVE  t \in Tag /\ On(resident[t]) = {}
BY DEF Expired, Idle, Resident, Busy

LEMMA EnterLoadRetire ==
  ASSUME TypeOK, TypeOK', CallInv, HandleInv', RetireInv,
         NEW c \in Request, NEW t \in Tag, EnterLoad(c, t)
  PROVE  RetireInv'
<1>1. PICK v \in Expired :
        /\ call' = [call EXCEPT ![c].at = "evicting", ![c].tag = t, ![c].victims = v]
        /\ CountExpiry(v)
  BY DEF EnterLoad
<1>2. Moves(c) /\ UNCHANGED <<resident, closed, unload, sweep>>
  BY BeforeWorkMoves DEF BeforeWork, EnterLoad
<1>3. call'[c].victims = v /\ \A d \in Request \ {c} : call'[d].victims = call[d].victims
  BY <1>1 DEF TypeOK, Call
<1>4. Doomed' \subseteq Doomed \cup v
  BY <1>2, <1>3 DEF Doomed
<1>5. history'.late = history.late
  BY <1>1 DEF CountExpiry, TypeOK
<1>6. \A s \in v : On(resident[s]) = {}
  BY ExpiredIdle
<1>7. RetireStep
  BY <1>2, <1>4, <1>5, <1>6, MovesOnWorker DEF RetireStep
<1> QED BY <1>7, RetireKept

LEMMA BeginSweepRetire ==
  ASSUME TypeOK, TypeOK', HandleInv', RetireInv, BeginSweep
  PROVE  RetireInv'
<1>1. /\ sweep' \in Expired /\ CountExpiry(sweep')
      /\ UNCHANGED <<resident, closed, unload, call>>
  BY DEF BeginSweep
<1>2. Doomed' \subseteq Doomed \cup sweep'
  BY <1>1 DEF Doomed
<1>3. history'.late = history.late
  BY <1>1 DEF CountExpiry, TypeOK
<1>4. \A s \in sweep' : On(resident[s]) = {}
  BY <1>1, ExpiredIdle
<1>5. \A h : OnNext(h) = On(h)
  BY <1>1 DEF On, OnNext
<1>6. RetireStep
  BY <1>1, <1>2, <1>3, <1>4, <1>5 DEF RetireStep
<1> QED BY <1>6, RetireKept

LEMMA LookupRetire ==
  ASSUME TypeOK, TypeOK', CallInv, HandleInv', RetireInv, NEW c \in Request, Lookup(c)
  PROVE  RetireInv'
<1>1. Moves(c) /\ UNCHANGED <<resident, closed, unload, sweep, history>> /\ call[c].victims = {}
  BY BeforeWorkMoves DEF BeforeWork, Lookup
<1>2. \A s \in Idle : On(resident[s]) = {}
  BY DEF Idle, Busy
<1>3. PICK v \in SUBSET Idle :
        call'[c].victims = v /\ \A d \in Request \ {c} : call'[d].victims = call[d].victims
  <2>1. CASE call' = [call EXCEPT ![c].at = "got", ![c].handle = resident[call[c].tag]]
    <3>1. call'[c].victims = {} /\ \A d \in Request \ {c} : call'[d].victims = call[d].victims
      BY <1>1, <2>1 DEF TypeOK, Call
    <3> QED BY <3>1
  <2>2. ASSUME NEW v \in SUBSET Idle,
               call' = [call EXCEPT ![c].at = "making room", ![c].victims = v]
        PROVE  call'[c].victims = v /\ \A d \in Request \ {c} : call'[d].victims = call[d].victims
    BY <2>2 DEF TypeOK, Call
  <2>3. LeastRecent \subseteq SUBSET Idle
    BY DEF LeastRecent
  <2> QED BY <2>1, <2>2, <2>3 DEF Lookup
<1>4. Doomed' \subseteq Doomed \cup v
  BY <1>1, <1>3 DEF Doomed
<1>5. RetireStep
  BY <1>1, <1>2, <1>4, MovesOnWorker DEF RetireStep
<1> QED BY <1>5, RetireKept

LEMMA EvictRetire ==
  ASSUME TypeOK, TypeOK', CallInv, HandleInv', RetireInv, NEW c \in Request, Evict(c)
  PROVE  RetireInv'
<1>1. Moves(c) /\ UNCHANGED <<unload, sweep, history>>
  BY BeforeWorkMoves DEF BeforeWork, Evict
<1>2. PICK t \in call[c].victims :
       \/ /\ resident[t] # None
          /\ Retire(resident[t]) /\ Pop(t)
          /\ call' = [call EXCEPT ![c].victims = call[c].victims \ {t}]
       \/ /\ resident[t] = None
          /\ call' = [call EXCEPT ![c].at = "answered", ![c].victims = {}]
          /\ UNCHANGED <<worker, closed, resident>>
  BY DEF Evict
<1>3. t \in Doomed /\ t \in Tag
  BY DEF Doomed, TypeOK, Call
<1>4. call'[c].victims \subseteq call[c].victims
  BY <1>2 DEF TypeOK, Call
<1>5. Doomed' \subseteq Doomed
  BY <1>1, <1>4 DEF Moves, Doomed
<1>6. /\ \A h \in closed' \ closed : On(h) \subseteq history.late
      /\ \A s \in Tag : resident'[s] \in {resident[s], None}
  BY <1>2, <1>3 DEF Retire, Pop, TypeOK, RetireInv
<1>7. RetireStep
  BY <1>1, <1>5, <1>6, MovesOnWorker, DoomedType DEF RetireStep
<1> QED BY <1>7, RetireKept

LEMMA SweepRetire ==
  ASSUME TypeOK, TypeOK', HandleInv', RetireInv, Sweep
  PROVE  RetireInv'
<1>1. PICK t \in sweep :
       \/ /\ resident[t] # None
          /\ Retire(resident[t]) /\ Pop(t)
          /\ sweep' = sweep \ {t}
       \/ /\ resident[t] = None /\ sweep' = {}
          /\ UNCHANGED <<worker, closed, resident>>
  BY DEF Sweep
<1>2. t \in Doomed /\ t \in Tag /\ UNCHANGED <<call, unload, history>>
  BY DEF Doomed, TypeOK, Sweep
<1>3. Doomed' \subseteq Doomed
  BY <1>1, <1>2 DEF Doomed
<1>4. /\ \A h \in closed' \ closed : On(h) \subseteq history.late
      /\ \A s \in Tag : resident'[s] \in {resident[s], None}
  BY <1>1, <1>2 DEF Retire, Pop, TypeOK, RetireInv
<1>5. \A h : OnNext(h) = On(h)
  BY <1>2 DEF On, OnNext
<1>6. RetireStep
  BY <1>2, <1>3, <1>4, <1>5, DoomedType DEF RetireStep
<1> QED BY <1>6, RetireKept

LEMMA UnloadRetire ==
  ASSUME TypeOK, TypeOK', HandleInv', RetireInv, NEW u \in Unload,
         (\E t \in Tag : StopModel(u, t)) \/ WaitUntilIdle(u) \/ RetireUnloaded(u)
  PROVE  RetireInv'
<1>1. UNCHANGED <<call, sweep>> /\ history'.late = history.late
  BY DEF StopModel, WaitUntilIdle, RetireUnloaded, TypeOK
<1>2. Doomed' = Doomed /\ \A h : OnNext(h) = On(h)
  BY <1>1 DEF Doomed, On, OnNext
<1>3. \A s \in Tag : resident'[s] \in {resident[s], None}
  BY DEF StopModel, WaitUntilIdle, RetireUnloaded, Pop, TypeOK
<1>4. \A h \in closed' \ closed : On(h) \subseteq history.late
  BY DEF StopModel, WaitUntilIdle, RetireUnloaded, Retire, RetireInv
<1>5. \A v \in Unload : unload'[v].at = "retiring" =>
        \/ unload[v].at = "retiring" /\ unload'[v].handle = unload[v].handle
        \/ On(unload'[v].handle) = {}
  <2>1. ASSUME NEW t \in Tag, StopModel(u, t) PROVE \A v \in Unload : unload'[v].at = "retiring" =>
          unload[v].at = "retiring" /\ unload'[v].handle = unload[v].handle
    BY <2>1 DEF StopModel, TypeOK
  <2>2. CASE WaitUntilIdle(u)
    <3>1. unload'[u].handle = unload[u].handle /\ \A v \in Unload \ {u} : unload'[v] = unload[v]
      BY <2>2 DEF WaitUntilIdle, TypeOK
    <3>2. On(unload[u].handle) = {}
      BY <2>2 DEF WaitUntilIdle, Busy
    <3> QED BY <3>1, <3>2
  <2>3. CASE RetireUnloaded(u)
    <3>1. unload'[u].at = "done" /\ \A v \in Unload \ {u} : unload'[v] = unload[v]
      BY <2>3 DEF RetireUnloaded, TypeOK
    <3> QED BY <3>1
  <2> QED BY <2>1, <2>2, <2>3
<1>6. RetireStep
  BY <1>1, <1>2, <1>3, <1>4, <1>5, DoomedType DEF RetireStep
<1> QED BY <1>6, RetireKept

LEMMA LoadRetire ==
  ASSUME TypeOK, TypeOK', CallInv, HandleInv, HandleInv', RetireInv, NEW c \in Request, Load(c)
  PROVE  RetireInv'
<1>1. Moves(c) /\ UNCHANGED <<closed, unload, sweep>> /\ history'.late = history.late
      /\ call[c].tag \in Tag
  BY BeforeWorkMoves DEF BeforeWork, Load, TypeOK, CallInv, Loading
<1>2. history.made \in Nat /\ history.made < MaxHandles /\ MaxHandles \in Nat
  BY ServingAssumption DEF Load, TypeOK
<1>3. PICK h \in Handle : h = history.made + 1
  BY <1>2 DEF Handle
<1>4. On(h) = {}
  <2>1. ASSUME NEW d \in Request, call[d].handle = h PROVE FALSE
    <3>1. call[d].handle <= history.made
      BY <2>1, SentinelAssumption DEF HandleInv
    <3> QED BY <1>2, <1>3, <2>1, <3>1
  <2> QED BY <2>1 DEF On
<1>5. \A d \in Request : call'[d].victims = call[d].victims
  BY DEF Load, TypeOK, Call
<1>6. Doomed' = Doomed
  BY <1>1, <1>5 DEF Doomed
<1>7. \A s \in Tag : resident'[s] \in {resident[s], h}
  BY <1>1, <1>3 DEF Load, TypeOK
<1>8. RetireStep
  BY <1>1, <1>4, <1>6, <1>7, MovesOnWorker, DoomedType DEF RetireStep
<1> QED BY <1>8, RetireKept

(* A submission to a model that nobody has picked is in time; any other is late. *)
LEMMA SubmitRetire ==
  ASSUME TypeOK, TypeOK', CallInv, HandleInv, HandleInv', RetireInv, NEW c \in Request, Submit(c)
  PROVE  RetireInv'
<1>1. /\ call[c].at = "starting" /\ Goes(c, "submitted") /\ "submitted" \in Place
      /\ call[c].handle \in Handle /\ call[c].tag \in Tag
      /\ UNCHANGED <<resident, closed, unload, sweep>>
  BY DEF Submit, CallInv, HasModel, Place, OnWorker
<1>2. PICK g \in Handle : g = call[c].handle
  BY <1>1
<1>3. \A d \in Request : /\ d # c => call'[d] = call[d]
                         /\ call'[d].handle = call[d].handle /\ call'[d].victims = call[d].victims
  BY <1>1, GoesType
<1>4. Doomed' = Doomed
  BY <1>1, <1>3 DEF Doomed
<1>5. \A h : OnNext(h) \subseteq On(h) \cup (IF h = g THEN {c} ELSE {})
  BY <1>2, <1>3 DEF On, OnNext
<1>6. \/ c \in history'.late /\ history.late \subseteq history'.late
      \/ resident[call[c].tag] = g /\ call[c].tag \notin Doomed /\ history'.late = history.late
  BY <1>2 DEF Submit, TypeOK
<1>7. history.late \subseteq history'.late
  BY <1>6
(* In time: the model is resident, so neither closed nor being unloaded, and its tag is *)
(* not picked.                                                                          *)
<1>8. \/ c \in history'.late
      \/ /\ g \notin closed
         /\ \A t \in Doomed : resident[t] # g
         /\ \A u \in Unload : unload[u].handle # g
  <2>1. ASSUME NEW t \in Tag, t = call[c].tag, resident[t] = g, t \notin Doomed
        PROVE  /\ g \notin closed
               /\ \A s \in Doomed : resident[s] # g
               /\ \A u \in Unload : unload[u].handle # g
    <3>1. resident[t] # None
      BY <2>1, SentinelAssumption
    <3>2. g \notin closed /\ \A u \in Unload : unload[u].handle # g
      BY <2>1, <3>1 DEF HandleInv
    <3>3. \A s \in Tag : resident[s] = g => s = t
      BY <2>1, <3>1 DEF HandleInv
    <3> QED BY <2>1, <3>2, <3>3, DoomedType
  <2> QED BY <1>1, <1>6, <2>1
<1>9. ASSUME NEW h \in Handle, On(h) \subseteq history.late, h # g \/ c \in history'.late
      PROVE  OnNext(h) \subseteq history'.late
  BY <1>5, <1>7, <1>9
<1>10. \A h \in closed' : OnNext(h) \subseteq history'.late
  BY <1>1, <1>8, <1>9 DEF RetireInv, TypeOK
<1>11. ASSUME NEW t \in Doomed', resident'[t] # None
       PROVE  OnNext(resident'[t]) \subseteq history'.late
  <2>1. t \in Doomed /\ t \in Tag
    BY <1>4, DoomedType
  <2>2. PICK h \in Handle : h = resident[t] /\ h = resident'[t]
    BY <1>1, <1>11, <2>1 DEF TypeOK
  <2>3. On(h) \subseteq history.late
    BY <1>11, <2>1, <2>2 DEF RetireInv
  <2> QED BY <1>8, <1>9, <2>1, <2>2, <2>3
<1>12. ASSUME NEW u \in Unload, unload'[u].at = "retiring"
       PROVE  OnNext(unload'[u].handle) \subseteq history'.late
  <2>1. PICK h \in Handle : h = unload[u].handle /\ h = unload'[u].handle
    BY <1>1, <1>12 DEF HandleInv, TypeOK
  <2>2. On(h) \subseteq history.late
    BY <1>1, <1>12, <2>1 DEF RetireInv
  <2> QED BY <1>8, <1>9, <2>1, <2>2
<1> QED BY <1>10, <1>11, <1>12 DEF RetireInv, On, OnNext

-----------------------------------------------------------------------------
(* The invariant is inductive *)

LEMMA InitServing == Init => ServingInv
<1> SUFFICES ASSUME Init PROVE ServingInv
  OBVIOUS
<1>1. TypeOK /\ CallInv
  BY InitType
<1>2. /\ \A c \in Request : /\ call[c].at = "new" /\ call[c].handle = None /\ call[c].victims = {}
                           /\ ~call[c].stop /\ call[c].how = None
      /\ \A h \in Handle : worker[h] = NewWorker
      /\ \A u \in Unload : unload[u].at = "new" /\ unload[u].handle = None
      /\ \A t \in Tag : resident[t] = None
      /\ history.made = 0 /\ sweep = {} /\ closed = {}
  BY DEF Init, NewCall
<1>3. LockInv
  BY <1>2 DEF LockInv, Loading
<1>4. HandleInv
  BY <1>2 DEF HandleInv
<1>5. NoModelIsLost
  BY <1>2 DEF NoModelIsLost
<1>6. JobInv
  BY <1>2 DEF JobInv, Jobs, Queued, NewWorker
<1>7. StopInv
  BY <1>2, SentinelAssumption DEF StopInv, NewWorker
<1>8. RetireInv
  BY <1>2 DEF RetireInv, Doomed
<1> QED BY <1>1, <1>3, <1>4, <1>5, <1>6, <1>7, <1>8 DEF ServingInv

(* The invariants that every step which only goes onward keeps. *)
LEMMA OnwardKeeps ==
  ASSUME ServingInv, OnwardStep
  PROVE  CallInv' /\ LockInv' /\ HandleInv' /\ NoModelIsLost'
BY OnwardCall, OnwardLock, OnwardHandle, OnwardLost DEF ServingInv

LEMMA BeforeWorkServing ==
  ASSUME ServingInv, NEW c \in Request, BeforeWork(c)
  PROVE  ServingInv'
<1> USE DEF ServingInv
<1>1. Moves(c) /\ (\A d \in Request : Stays(d)) /\ \A h \in Handle : Jobs(h) \subseteq Request
  BY BeforeWorkMoves, MovesStays, JobsType
<1>2. Works /\ UNCHANGED cancel /\ history'.aimed = history.aimed
  <2>1. CASE Evict(c)
    <3>1. UNCHANGED <<cancel, history>>
      BY <2>1 DEF Evict
    <3>2. UNCHANGED worker \/ \E t \in call[c].victims : resident[t] # None /\ Retire(resident[t])
      BY <2>1 DEF Evict
    <3>3. \A t \in call[c].victims : resident[t] # None => resident[t] \in Handle
      BY DEF TypeOK, Call
    <3> QED BY <3>1, <3>2, <3>3, SameWorker, RetireWorks
  <2>2. CASE ~Evict(c)
    <3>1. UNCHANGED <<worker, cancel>>
      BY <2>2 DEF BeforeWork, EnterLoad, Lookup, StartLoading, Load, LoadFails, CheckChat,
                  CheckGenerate, CheckEmbed, BeginChat, BeginOther
    <3>2. history'.aimed = history.aimed
      BY <2>2 DEF BeforeWork, EnterLoad, CountExpiry, Lookup, StartLoading, Load, LoadFails, CheckChat,
                  CheckGenerate, CheckEmbed, BeginChat, BeginOther, TypeOK
    <3> QED BY <3>1, <3>2, SameWorker
  <2> QED BY <2>1, <2>2
<1>3. JobInv' /\ StopInv'
  BY <1>1, <1>2, WorksJobs, MovesStop
<1>4. CASE \E t \in Tag : EnterLoad(c, t)
  BY <1>3, <1>4, EnterLoadType, EnterLoadKeeps, EnterLoadRetire
<1>5. CASE Evict(c)
  <2>1. TypeOK' /\ CallInv' /\ ReleaseStep /\ NoNewHolder
        /\ \A t \in Tag : resident'[t] \in {resident[t], None}
    BY <1>5, EvictType, EvictRelease
  <2>2. \A d \in Request : call[d].at \in Loading => call[d].tag \in Tag
    BY DEF CallInv
  <2>3. LockInv' /\ HandleInv' /\ NoModelIsLost'
    BY <2>1, <2>2, NoNewHolderLock, ReleaseHandle, ReleaseLost
  <2> QED BY <1>3, <1>5, <2>1, <2>3, EvictRetire
<1>6. CASE Lookup(c)
  BY <1>3, <1>6, LookupType, LookupKeeps, LookupRetire
<1>7. CASE Load(c)
  BY <1>3, <1>7, LoadType, LoadKeeps, LoadRetire
<1>8. CASE StartLoading(c)
  <2>1. TypeOK' /\ CallInv' /\ LockInv' /\ HandleInv' /\ NoModelIsLost'
    BY <1>8, StartLoadingType, StartLoadingKeeps
  <2>2. \A d \in Request : call'[d].victims = call[d].victims
    BY <1>8, GoesType DEF StartLoading, Place, Loading
  <2>3. UNCHANGED <<resident, closed, unload, sweep, history>>
    BY <1>8 DEF StartLoading
  <2> QED BY <1>1, <1>3, <2>1, <2>2, <2>3, StaysRetire
<1>9. CASE LoadFails(c) \/ CheckChat(c) \/ CheckGenerate(c) \/ CheckEmbed(c) \/ BeginChat(c)
           \/ BeginOther(c)
  <2>1. TypeOK' /\ OnwardStep
    BY <1>9, LoadFailsType, CheckType, BeginType
  <2>2. CallInv' /\ LockInv' /\ HandleInv' /\ NoModelIsLost'
    BY <2>1, OnwardKeeps
  <2>3. UNCHANGED <<resident, closed, unload, sweep, history>>
    BY <1>9 DEF LoadFails, CheckChat, CheckGenerate, CheckEmbed, BeginChat, BeginOther
  <2>4. \A d \in Request : call'[d].victims = call[d].victims
    BY <2>1 DEF OnwardStep, Onward
  <2> QED BY <1>1, <1>3, <2>1, <2>2, <2>3, <2>4, StaysRetire
<1> QED BY <1>4, <1>5, <1>6, <1>7, <1>8, <1>9 DEF BeforeWork

LEMMA SubmitServing ==
  ASSUME ServingInv, NEW c \in Request, Submit(c)
  PROVE  ServingInv'
<1> USE DEF ServingInv
<1>1. TypeOK' /\ OnwardStep /\ JobInv' /\ \A h \in Handle : worker'[h].stop = worker[h].stop
  BY SubmitType, SubmitJobs
<1>2. CallInv' /\ LockInv' /\ HandleInv' /\ NoModelIsLost'
  BY <1>1, OnwardKeeps
<1>3. UNCHANGED cancel /\ history'.aimed = history.aimed
  BY DEF Submit, TypeOK
<1>4. \A d \in Request : /\ call'[d].how = call[d].how /\ call'[d].stop = call[d].stop
                         /\ call'[d].handle = call[d].handle
  BY GoesType DEF Submit, Place, HasModel, OnWorker
<1>5. StopInv'
  BY <1>1, <1>3, <1>4, StopKept
<1>6. RetireInv'
  BY <1>1, <1>2, SubmitRetire
<1> QED BY <1>1, <1>2, <1>5, <1>6

LEMMA WorkerServing ==
  ASSUME ServingInv, NEW h \in Handle, WorkerStep(h)
  PROVE  ServingInv'
<1> USE DEF ServingInv
<1>1. Pick(h) \/ Admit(h) \/ Round(h) \/ \E c \in Request : Advance(h, c)
  BY DEF WorkerStep
<1>2. StopInv' /\ UNCHANGED <<resident, closed, unload, sweep, history>>
  BY <1>1, WorkerStop DEF Pick, Admit, Round, Advance
<1>3. TypeOK' /\ OnwardStep /\ Works /\ \A d \in Request : Stays(d)
  <2>1. CASE Pick(h) \/ Round(h)
    <3>1. \A d \in Request : Stays(d)
      BY <2>1 DEF Pick, Round, Stays
    <3> QED BY <2>1, <3>1, PickType, RoundType
  <2>2. CASE Admit(h)
    BY <2>2, AdmitType
  <2>3. CASE \E c \in Request : Advance(h, c)
    BY <2>3, AdvanceType
  <2> QED BY <1>1, <2>1, <2>2, <2>3
<1>4. CallInv' /\ LockInv' /\ HandleInv' /\ NoModelIsLost'
  BY <1>3, OnwardKeeps
<1>5. JobInv'
  BY <1>3, WorksJobs, JobsType
<1>6. \A d \in Request : call'[d].victims = call[d].victims
  BY <1>3 DEF OnwardStep, Onward
<1>7. RetireInv'
  BY <1>2, <1>3, <1>4, <1>6, StaysRetire
<1> QED BY <1>2, <1>3, <1>4, <1>5, <1>7

LEMMA UnloadServing ==
  ASSUME ServingInv, NEW u \in Unload,
         (\E t \in Tag : StopModel(u, t)) \/ WaitUntilIdle(u) \/ RetireUnloaded(u)
  PROVE  ServingInv'
<1> USE DEF ServingInv
<1>1. TypeOK'
  BY StopModelType, WaitUntilIdleType, RetireUnloadedType
<1>2. ReleaseStep /\ NoNewHolder /\ \A t \in Tag : resident'[t] \in {resident[t], None}
  BY UnloadRelease
<1>3. \A d \in Request : call[d].at \in Loading => call[d].tag \in Tag
  BY DEF CallInv
<1>4. LockInv' /\ HandleInv' /\ NoModelIsLost'
  BY <1>2, <1>3, NoNewHolderLock, ReleaseHandle, ReleaseLost
<1>5. UNCHANGED <<call, cancel>>
  BY DEF StopModel, WaitUntilIdle, RetireUnloaded
<1>6. CallInv' /\ (\A d \in Request : Stays(d)) /\ \A h \in Handle : Jobs(h) \subseteq Request
  BY <1>5, JobsType DEF CallInv, Stays
<1>7. JobInv' /\ StopInv'
  <2>1. ASSUME NEW t \in Tag, StopModel(u, t) PROVE JobInv' /\ StopInv'
    BY <1>5, <2>1, UnloadStop DEF JobInv
  <2>2. CASE WaitUntilIdle(u)
    <3>1. Works /\ UNCHANGED history
      BY <2>2, SameWorker DEF WaitUntilIdle
    <3> QED BY <1>5, <1>6, <3>1, WorksJobs, StopKept DEF Works
  <2>3. CASE RetireUnloaded(u)
    <3>1. unload[u].handle \in Handle /\ Retire(unload[u].handle) /\ UNCHANGED history
      BY <2>3 DEF RetireUnloaded, HandleInv, TypeOK
    <3>2. Works
      BY <3>1, RetireWorks
    <3> QED BY <1>5, <1>6, <3>1, <3>2, WorksJobs, StopKept DEF Works
  <2> QED BY <2>1, <2>2, <2>3
<1>8. RetireInv'
  BY <1>1, <1>4, UnloadRetire
<1> QED BY <1>1, <1>4, <1>6, <1>7, <1>8

LEMMA CancelServing ==
  ASSUME ServingInv, NEW c \in Chat, CancelReply(c) \/ NoteCancel(c)
  PROVE  ServingInv'
<1> USE DEF ServingInv
<1>1. /\ TypeOK' /\ OnwardStep
      /\ \A d \in Request : /\ call'[d].at = call[d].at /\ call'[d].how = call[d].how
                            /\ call'[d].stop => call[d].stop \/ (d = c /\ cancel'[c] = "done")
                            /\ call[d].stop => call'[d].stop
      /\ \A d \in Chat : cancel[d] = "done" => cancel'[d] = "done"
  BY CancelType
<1>2. CallInv' /\ LockInv' /\ HandleInv' /\ NoModelIsLost'
  BY <1>1, OnwardKeeps
<1>3. UNCHANGED <<resident, worker, closed, unload, sweep, history>>
  BY DEF CancelReply, NoteCancel, SetStop
<1>4. \A d \in Request : call'[d].victims = call[d].victims /\ call'[d].handle = call[d].handle
  BY <1>1 DEF OnwardStep, Onward
<1>5. (\A d \in Request : Stays(d)) /\ Works /\ \A h \in Handle : Jobs(h) \subseteq Request
  BY <1>1, <1>3, <1>4, SameWorker, JobsType DEF Stays
<1>6. JobInv'
  BY <1>5, WorksJobs
<1>7. StopInv'
  <2>1. \A d \in Request : call'[d].stop => call[d].stop \/ (d \in Chat /\ cancel'[d] = "done")
    BY <1>1
  <2>2. \A d \in Request : call[d].stop => call'[d].stop
    BY <1>1
  <2>3. \A d \in Request : call'[d].how = call[d].how /\ call'[d].handle = call[d].handle
    BY <1>1, <1>4
  <2>4. \A d \in Chat : cancel[d] = "done" => cancel'[d] = "done"
    BY <1>1
  <2> QED BY <1>3, <2>1, <2>2, <2>3, <2>4, StopKept
<1>8. RetireInv'
  BY <1>1, <1>2, <1>3, <1>4, <1>5, StaysRetire
<1> QED BY <1>1, <1>2, <1>6, <1>7, <1>8

LEMMA SweepServing ==
  ASSUME ServingInv, BeginSweep \/ Sweep
  PROVE  ServingInv'
<1> USE DEF ServingInv
<1>1. UNCHANGED <<call, cancel>> /\ history'.aimed = history.aimed
  BY DEF BeginSweep, Sweep, CountExpiry, TypeOK
<1>2. CallInv' /\ (\A d \in Request : Stays(d)) /\ \A h \in Handle : Jobs(h) \subseteq Request
  BY <1>1, JobsType DEF CallInv, Stays
<1>3. Works
  <2>1. UNCHANGED worker \/ \E t \in sweep : resident[t] # None /\ Retire(resident[t])
    BY DEF BeginSweep, Sweep
  <2>2. \A t \in sweep : resident[t] # None => resident[t] \in Handle
    BY DEF TypeOK
  <2> QED BY <2>1, <2>2, SameWorker, RetireWorks
<1>4. JobInv' /\ StopInv'
  BY <1>1, <1>2, <1>3, WorksJobs, StopKept DEF Works
<1>5. CASE BeginSweep
  <2>1. TypeOK' /\ OnwardStep
    BY <1>5, BeginSweepType
  <2> QED BY <1>4, <1>5, <2>1, OnwardKeeps, BeginSweepRetire
<1>6. CASE Sweep
  <2>1. TypeOK' /\ ReleaseStep /\ NoNewHolder /\ \A t \in Tag : resident'[t] \in {resident[t], None}
    BY <1>6, SweepType, SweepRelease
  <2>2. \A d \in Request : call[d].at \in Loading => call[d].tag \in Tag
    BY DEF CallInv
  <2>3. LockInv' /\ HandleInv' /\ NoModelIsLost'
    BY <2>1, <2>2, NoNewHolderLock, ReleaseHandle, ReleaseLost
  <2> QED BY <1>2, <1>4, <1>6, <2>1, <2>3, SweepRetire
<1> QED BY <1>5, <1>6

LEMMA StutterServing ==
  ASSUME ServingInv, UNCHANGED vars
  PROVE  ServingInv'
<1> USE DEF vars
<1>1. TypeOK'
  BY DEF ServingInv, TypeOK
<1>2. CallInv' /\ LockInv'
  BY DEF ServingInv, CallInv, LockInv
<1>3. HandleInv'
  BY DEF ServingInv, HandleInv
<1>4. NoModelIsLost'
  BY DEF ServingInv, NoModelIsLost
<1>5. JobInv'
  BY DEF ServingInv, JobInv, Jobs, Queued
<1>6. StopInv'
  BY DEF ServingInv, StopInv
<1>7. RetireInv'
  BY DEF ServingInv, RetireInv, Doomed, On
<1> QED BY <1>1, <1>2, <1>3, <1>4, <1>5, <1>6, <1>7 DEF ServingInv

LEMMA NextServing ==
  ASSUME ServingInv, [Next]_vars
  PROVE  ServingInv'
<1>1. ASSUME NEW c \in Request, RequestStep(c) \/ \E t \in Tag : EnterLoad(c, t)
      PROVE  ServingInv'
  BY <1>1, BeforeWorkServing, SubmitServing DEF RequestStep, BeforeWork
<1>2. ASSUME NEW u \in Unload, UnloadStep(u) \/ \E t \in Tag : StopModel(u, t)
      PROVE  ServingInv'
  BY <1>2, UnloadServing DEF UnloadStep
<1> QED BY <1>1, <1>2, WorkerServing, CancelServing, SweepServing, StutterServing DEF Next

-----------------------------------------------------------------------------
(* The types and every invariant above hold in every reachable state, for any *)
(* number of models, requests, unloads and of replies a worker runs.          *)
THEOREM ServingInvariant == Spec => []ServingInv
BY InitServing, NextServing, PTL DEF Spec

(* Every model that get_or_load put into memory is resident, closed, or being *)
(* seen to by an unload: the load lock of a tag has one holder, and a model   *)
(* is popped only by the thread that then retires it.                         *)
THEOREM NoModelIsLostHolds == Spec => []NoModelIsLost
<1>1. ServingInv => NoModelIsLost
  BY DEF ServingInv
<1> QED BY <1>1, ServingInvariant, PTL

(* The weights of a model are unmapped only past the replies that were on its *)
(* worker when the model was chosen: eviction picks idle models, and an       *)
(* unload waits until its model is idle; whoever is submitted in between      *)
(* looked the model up before.  A worker runs no piece of an ended reply but  *)
(* of one that an unload of this very model has stopped, so under an evicted  *)
(* model there is none.                                                       *)
THEOREM RetiredPastItsRepliesHolds == Spec => []RetiredPastItsReplies
<1>1. ServingInv => RetiredPastItsReplies
  <2> SUFFICES ASSUME ServingInv, NEW h \in closed
               PROVE  /\ On(h) \subseteq history.late
                      /\ h \notin history.aimed => Leftover(h) = {}
    BY DEF RetiredPastItsReplies
  <2>1. On(h) \subseteq history.late
    BY DEF ServingInv, RetireInv
  <2>2. ASSUME NEW c \in Leftover(h) PROVE h \in history.aimed
    <3>1. h \in Handle
      BY DEF ServingInv, TypeOK
    <3>2. c \in Jobs(h) /\ c \in Request /\ call[c].how = "stopped" /\ ~call[c].stop
      BY <2>2, <3>1 DEF Leftover, Jobs, ServingInv, TypeOK, Worker
    <3>3. call[c].handle = h
      BY <3>1, <3>2 DEF ServingInv, JobInv
    <3> QED BY <3>2, <3>3 DEF ServingInv, StopInv
  <2> QED BY <2>1, <2>2
<1> QED BY <1>1, ServingInvariant, PTL

(* A reply is cut short by a cancel of its own id or an unload of its model,  *)
(* and by nothing else: the stop of a worker is spent with the replies that   *)
(* were on it, the stop of a reply is set by its own cancel.                  *)
THEOREM OnlyTheAimedStopHolds == Spec => []OnlyTheAimedStop
<1>1. ServingInv => OnlyTheAimedStop
  BY DEF ServingInv, StopInv, OnlyTheAimedStop
<1> QED BY <1>1, ServingInvariant, PTL
=============================================================================
