----------------------------- MODULE ModelServing -----------------------------
(***************************************************************************)
(* One node's models: ModelManager loads them on demand and retires them,  *)
(* each has a ModelWorker thread that runs the replies, and requests       *)
(* (chats, embeddings) come from the server's thread pool.  Everything     *)
(* that happens between two steps of one thread can interleave with the    *)
(* others: a handle is looked up, checked and only later used.             *)
(*                                                                         *)
(* Time is abstracted: an idle model may have outlived its keep-alive at   *)
(* any moment, and any idle model may be the least recently used one.      *)
(***************************************************************************)
EXTENDS Naturals, Sequences, FiniteSets

CONSTANTS
  Tag,          \* models
  Request,      \* replies asked for, each under its own id
  Chat,         \* those of /api/chat: they can be cancelled and heed a stop
  Unload,       \* calls of ModelManager.unload
  MaxLoaded,    \* models kept resident
  MaxActive,    \* replies one worker runs at once
  MaxTokens,    \* bound: tokens of a reply (num_predict)
  MaxHandles,   \* bound: loads
  MaxExpiries,  \* bound: times that models are found to have expired
  None

ASSUME ServingAssumption ==
  /\ Chat \subseteq Request
  /\ {MaxLoaded, MaxActive, MaxHandles} \subseteq Nat \ {0}
  /\ {MaxTokens, MaxExpiries} \subseteq Nat

Handle == 1..MaxHandles
Close == "close"    \* the sentinel ModelWorker.shutdown puts into the queue

ASSUME SentinelAssumption ==
  /\ Close \notin Request
  /\ None \notin Tag /\ None \notin Handle /\ None \notin {"stopped", "finished"}

VARIABLES
  resident,     \* [Tag -> Handle or None]: ModelManager._handles
  stoppedLoads, \* tags: ModelManager._cancelled_loads
  noted,        \* requests: ModelManager._cancelled_requests
  call,         \* [Request -> where the request's thread is]
  worker,       \* [Handle -> the worker thread's state]
  closed,       \* handles whose weights are unmapped
  unload,       \* [Unload -> where the call is]
  cancel,       \* [Chat -> where a cancel of that reply is]
  sweep,        \* evictions of a list_loaded in progress
  history       \* late: submitted to a model chosen for retirement before;
                \* aimed: models told to stop; made, expiries: how many so far

vars == <<resident, stoppedLoads, noted, call, worker, closed, unload, cancel, sweep, history>>

NewCall == [at |-> "new", tag |-> None, handle |-> None, victims |-> {}, tokens |-> 0,
            stop |-> FALSE, how |-> None]
NewWorker == [queue |-> <<>>, active |-> {}, todo |-> {}, phase |-> "idle",
              stop |-> FALSE, closing |-> FALSE]

Init ==
  /\ resident = [t \in Tag |-> None]
  /\ stoppedLoads = {} /\ noted = {} /\ closed = {}
  /\ call = [c \in Request |-> NewCall]
  /\ worker = [h \in Handle |-> NewWorker]
  /\ unload = [u \in Unload |-> [at |-> "new", handle |-> None]]
  /\ cancel = [c \in Chat |-> "no"]
  /\ sweep = {}
  /\ history = [late |-> {}, aimed |-> {}, made |-> 0, expiries |-> 0]

Resident == {t \in Tag : resident[t] # None}
On(h) == {c \in Request : call[c].at = "submitted" /\ call[c].handle = h}
(* Replies a stop has ended before their generator ever ran, and which the *)
(* round in progress will still run for a piece (_run: _finish, then       *)
(* _advance); a reply with a stop of its own, or one that had started, is  *)
(* left alone there.                                                       *)
Leftover(h) ==
  {c \in worker[h].todo : call[c].how = "stopped" /\ call[c].tokens = 0 /\ ~call[c].stop}
BusyUntilFinished(h) ==                                  (* Mutant of Busy *)
  \E c \in Request :
    call[c].handle = h /\ (call[c].at = "submitted" \/ call[c].how = "stopped")
Busy(h) == On(h) # {}
AnyResident == Resident                                  (* Mutant of Idle *)
Idle == {t \in Resident : ~Busy(resident[t])}
Loading == {"evicting", "making room", "loading"}   \* the tag's load lock is held

(* Tags an eviction has picked and will pop. *)
Doomed == sweep \cup UNION {call[c].victims : c \in Request}
Goes(c, at) == call' = [call EXCEPT ![c].at = at]

(***************************************************************************)
(* Retiring a model: its worker gets the sentinel, its weights are closed. *)
(***************************************************************************)
Retire(h) ==
  /\ worker' = [worker EXCEPT ![h].queue = Append(@, Close)]
  /\ closed' = closed \cup {h}

Pop(t) == resident' = [resident EXCEPT ![t] = None]

(* Which idle models have outlived their keep-alive just now. *)
Expired == IF history.expiries < MaxExpiries THEN SUBSET Idle ELSE {{}}
CountExpiry(tags) ==
  history' = IF tags = {} THEN history ELSE [history EXCEPT !.expiries = @ + 1]

(***************************************************************************)
(* ModelManager.get_or_load, one thread per request.                       *)
(***************************************************************************)
EnterUnlocked(c, t) ==                                   (* Mutant of EnterLoad *)
  /\ call[c].at = "new"
  /\ call' = [call EXCEPT ![c].at = "evicting", ![c].tag = t]
  /\ UNCHANGED <<resident, stoppedLoads, noted, worker, closed, unload, cancel, sweep, history>>

EnterLoad(c, t) ==
  /\ call[c].at = "new"
  /\ ~\E d \in Request : call[d].tag = t /\ call[d].at \in Loading
  /\ \E expired \in Expired :
       /\ call' = [call EXCEPT ![c].at = "evicting", ![c].tag = t, ![c].victims = expired]
       /\ CountExpiry(expired)
  /\ UNCHANGED <<resident, stoppedLoads, noted, worker, closed, unload, cancel, sweep>>

(* The next of the tags listed before is popped, whatever it holds by now; *)
(* if another thread popped it first the KeyError ends this request.       *)
Evict(c) ==
  /\ \E t \in call[c].victims :
       \/ /\ resident[t] # None
          /\ Retire(resident[t]) /\ Pop(t)
          /\ call' = [call EXCEPT ![c].victims = @ \ {t}]
       \/ /\ resident[t] = None
          /\ call' = [call EXCEPT ![c].at = "answered", ![c].victims = {}]
          /\ UNCHANGED <<worker, closed, resident>>
  /\ UNCHANGED <<stoppedLoads, noted, unload, cancel, sweep, history>>

LeastRecent == IF Idle = {} THEN {{}} ELSE {{t} : t \in Idle}

Lookup(c) ==
  /\ call[c].at = "evicting" /\ call[c].victims = {}
  /\ \/ /\ call[c].tag \in Resident
        /\ call' = [call EXCEPT ![c].at = "got", ![c].handle = resident[call[c].tag]]
     \/ /\ call[c].tag \notin Resident
        /\ \E v \in IF Cardinality(Resident) >= MaxLoaded THEN LeastRecent ELSE {{}} :
             call' = [call EXCEPT ![c].at = "making room", ![c].victims = v]
  /\ UNCHANGED <<resident, stoppedLoads, noted, worker, closed, unload, cancel, sweep, history>>

StartLoading(c) ==
  /\ call[c].at = "making room" /\ call[c].victims = {}
  /\ stoppedLoads' = stoppedLoads \ {call[c].tag}
  /\ Goes(c, "loading")
  /\ UNCHANGED <<resident, noted, worker, closed, unload, cancel, sweep, history>>

Load(c) ==
  /\ call[c].at = "loading" /\ history.made < MaxHandles
  /\ LET h == history.made + 1 IN
       /\ resident' = [resident EXCEPT ![call[c].tag] = h]
       /\ call' = [call EXCEPT ![c].at = "got", ![c].handle = h]
       /\ history' = [history EXCEPT !.made = h]
  /\ UNCHANGED <<stoppedLoads, noted, worker, closed, unload, cancel, sweep>>

LoadFails(c) ==
  /\ call[c].at = "loading"
  /\ Goes(c, "answered")
  /\ UNCHANGED <<resident, stoppedLoads, noted, worker, closed, unload, cancel, sweep, history>>

(***************************************************************************)
(* The request has its model.  A chat first looks for a stop that came     *)
(* while the model was loading, then for a cancel of its own id; a         *)
(* completion looks for the stop only, an embedding or a ranking for       *)
(* neither.  An invalid prompt is answered here.                           *)
(***************************************************************************)
GoesOn(c) == Goes(c, "ready") \/ Goes(c, "answered")

CheckChat(c) ==
  /\ call[c].at = "got" /\ c \in Chat
  /\ LET loadStopped == call[c].tag \in stoppedLoads
         own == c \in noted /\ ~loadStopped
     IN /\ stoppedLoads' = stoppedLoads \ {call[c].tag}
        /\ noted' = IF own THEN noted \ {c} ELSE noted
        /\ IF loadStopped \/ own THEN Goes(c, "dropped") ELSE GoesOn(c)
  /\ UNCHANGED <<resident, worker, closed, unload, cancel, sweep, history>>

CheckGenerate(c) ==
  /\ call[c].at = "got" /\ c \notin Chat
  /\ stoppedLoads' = stoppedLoads \ {call[c].tag}
  /\ IF call[c].tag \in stoppedLoads THEN Goes(c, "dropped") ELSE GoesOn(c)
  /\ UNCHANGED <<resident, noted, worker, closed, unload, cancel, sweep, history>>

CheckEmbed(c) ==
  /\ call[c].at = "got" /\ c \notin Chat
  /\ GoesOn(c)
  /\ UNCHANGED <<resident, stoppedLoads, noted, worker, closed, unload, cancel, sweep, history>>

(* The stream of a chat starts on the event loop, later. *)
BeginChat(c) ==
  /\ call[c].at = "ready" /\ c \in Chat
  /\ noted' = noted \ {c}
  /\ Goes(c, IF c \in noted THEN "dropped" ELSE "starting")
  /\ UNCHANGED <<resident, stoppedLoads, worker, closed, unload, cancel, sweep, history>>

BeginOther(c) ==
  /\ call[c].at = "ready" /\ c \notin Chat
  /\ Goes(c, "starting")
  /\ UNCHANGED <<resident, stoppedLoads, noted, worker, closed, unload, cancel, sweep, history>>

Submit(c) ==
  /\ call[c].at = "starting"
  /\ LET h == call[c].handle IN
       /\ worker' = [worker EXCEPT ![h].queue = Append(@, c)]
       /\ history' = IF resident[call[c].tag] # h \/ call[c].tag \in Doomed
                     THEN [history EXCEPT !.late = @ \cup {c}] ELSE history
  /\ Goes(c, "submitted")
  /\ UNCHANGED <<resident, stoppedLoads, noted, closed, unload, cancel, sweep>>

(***************************************************************************)
(* ModelWorker._run, the thread of handle h.                               *)
(***************************************************************************)
Pick(h) ==
  /\ worker[h].phase = "idle" /\ worker[h].queue # <<>>
  /\ LET w == worker[h]
         next == Head(w.queue)
     IN worker' = [worker EXCEPT ![h] =
          [w EXCEPT !.queue = Tail(w.queue),
                    !.phase = IF next = Close THEN "ended" ELSE "admit",
                    !.stop = w.stop /\ next = Close,
                    !.active = IF next = Close THEN {} ELSE {next}]]
  /\ UNCHANGED <<resident, stoppedLoads, noted, call, closed, unload, cancel, sweep, history>>

Ended(cs, how) ==
  call' = [c \in Request |->
             IF c \in cs THEN [call[c] EXCEPT !.at = "ended", !.how = how] ELSE call[c]]

(* get_nowait takes n jobs: up to MaxActive replies, none behind a sentinel. *)
Admitted(w, n) ==
  /\ n + Cardinality(w.active) <= MaxActive
  /\ \A i \in 1..n : w.queue[i] # Close
  /\ \/ n + Cardinality(w.active) = MaxActive
     \/ n = Len(w.queue)
     \/ n < Len(w.queue) /\ w.queue[n + 1] = Close

(* A stop ends every active reply; the round goes on over all of them. *)
Admit(h) ==
  /\ worker[h].phase = "admit"
  /\ \E n \in 0..Len(worker[h].queue) :
       LET w == worker[h]
           active == w.active \cup {w.queue[i] : i \in 1..n}
           sentinel == n < Len(w.queue) /\ Cardinality(active) < MaxActive
       IN /\ Admitted(w, n)
          /\ worker' = [worker EXCEPT ![h] =
               [w EXCEPT !.queue = SubSeq(w.queue, (IF sentinel THEN n + 2 ELSE n + 1),
                                          Len(w.queue)),
                         !.closing = w.closing \/ sentinel, !.phase = "advance", !.active = active,
                         !.todo = active, !.stop = FALSE]]
          /\ IF w.stop THEN Ended(active, "stopped") ELSE UNCHANGED call
  /\ UNCHANGED <<resident, stoppedLoads, noted, closed, unload, cancel, sweep, history>>

Stopped(h, c) == worker[h].stop \/ call[c].stop

SkipStopped(h, c) ==                                     (* Mutant of Advance *)
  /\ worker[h].phase = "advance" /\ c \in worker[h].todo
  /\ worker' = [worker EXCEPT ![h].todo = @ \ {c}]
  /\ \/ (Stopped(h, c) \/ call[c].at = "ended") /\ UNCHANGED call
     \/ ~Stopped(h, c) /\ call[c].at = "submitted" /\ Ended({c}, "finished")
  /\ UNCHANGED <<resident, stoppedLoads, noted, closed, unload, cancel, sweep, history>>

(* One piece of a reply.  Of a reply that has ended nothing is recorded any *)
(* more; if it is a leftover, this is where its first piece runs.           *)
Advance(h, c) ==
  /\ worker[h].phase = "advance" /\ c \in worker[h].todo
  /\ worker' = [worker EXCEPT ![h].todo = @ \ {c}]
  /\ \/ call[c].at = "ended" /\ UNCHANGED call
     \/ call[c].at = "submitted" /\ Stopped(h, c) /\ Ended({c}, "stopped")
     \/ /\ call[c].at = "submitted" /\ ~Stopped(h, c)
        /\ \/ /\ call[c].tokens < MaxTokens
              /\ call' = [call EXCEPT ![c].tokens = @ + 1]
           \/ Ended({c}, "finished")    \* or raised: the caller is told either way
  /\ UNCHANGED <<resident, stoppedLoads, noted, closed, unload, cancel, sweep, history>>

(* The batched decode, after which the replies that ended leave. *)
Round(h) ==
  /\ worker[h].phase = "advance" /\ worker[h].todo = {}
  /\ LET active == {c \in worker[h].active : call[c].at = "submitted"} IN
       worker' = [worker EXCEPT ![h].active = active,
                    ![h].phase = CASE active # {} -> "admit"
                                   [] active = {} /\ worker[h].closing -> "ended"
                                   [] OTHER -> "idle"]
  /\ UNCHANGED <<resident, stoppedLoads, noted, call, closed, unload, cancel, sweep, history>>

StopWorker(c) ==                                         (* Mutant of SetStop *)
  worker' = [worker EXCEPT ![call[c].handle].stop = TRUE] /\ UNCHANGED call
SetStop(c) == call' = [call EXCEPT ![c].stop = TRUE] /\ UNCHANGED worker

(***************************************************************************)
(* ModelManager.unload, cancel_request and list_loaded, from other threads. *)
(***************************************************************************)
StopModel(u, t) ==
  LET h == resident[t] IN
  /\ unload[u].at = "new"
  /\ \/ /\ h # None
        /\ Pop(t)
        /\ worker' = [worker EXCEPT ![h].stop = TRUE]
        /\ history' = [history EXCEPT !.aimed = @ \cup {h}]
        /\ unload' = [unload EXCEPT ![u] = [at |-> "waiting", handle |-> h]]
        /\ UNCHANGED stoppedLoads
     \/ /\ h = None
        /\ stoppedLoads' = stoppedLoads \cup {t}
        /\ unload' = [unload EXCEPT ![u].at = "done"]
        /\ UNCHANGED <<resident, worker, history>>
  /\ UNCHANGED <<noted, call, closed, cancel, sweep>>

WaitUntilIdle(u) ==
  /\ unload[u].at = "waiting" /\ ~Busy(unload[u].handle)
  /\ unload' = [unload EXCEPT ![u].at = "retiring"]
  /\ UNCHANGED <<resident, stoppedLoads, noted, call, worker, closed, cancel, sweep, history>>

RetireUnloaded(u) ==
  /\ unload[u].at = "retiring"
  /\ Retire(unload[u].handle)
  /\ unload' = [unload EXCEPT ![u].at = "done"]
  /\ UNCHANGED <<resident, stoppedLoads, noted, call, cancel, sweep, history>>

(* cancel_job: the reply's own stop event, if its id is registered with the *)
(* worker its tag has now; a reply that is starting may be registered yet.  *)
CancelReply(c) ==
  LET onWorker(at) == call[c].at = at /\ \E t \in Resident : resident[t] = call[c].handle IN
  /\ cancel[c] = "no"
  /\ \/ /\ onWorker("submitted") \/ onWorker("starting")
        /\ SetStop(c)
        /\ cancel' = [cancel EXCEPT ![c] = "done"]
     \/ /\ ~onWorker("submitted")
        /\ cancel' = [cancel EXCEPT ![c] = "missed"]
        /\ UNCHANGED <<call, worker>>
  /\ UNCHANGED <<resident, stoppedLoads, noted, closed, unload, sweep, history>>

NoteCancel(c) ==
  /\ cancel[c] = "missed"
  /\ noted' = noted \cup {c}
  /\ cancel' = [cancel EXCEPT ![c] = "done"]
  /\ UNCHANGED <<resident, stoppedLoads, call, worker, closed, unload, sweep, history>>

BeginSweep ==
  /\ sweep = {}
  /\ sweep' \in Expired \ {{}} /\ CountExpiry(sweep')
  /\ UNCHANGED <<resident, stoppedLoads, noted, call, worker, closed, unload, cancel>>

Sweep ==
  /\ \E t \in sweep :
       \/ /\ resident[t] # None
          /\ Retire(resident[t]) /\ Pop(t)
          /\ sweep' = sweep \ {t}
       \/ /\ resident[t] = None /\ sweep' = {}
          /\ UNCHANGED <<worker, closed, resident>>
  /\ UNCHANGED <<stoppedLoads, noted, call, unload, cancel, history>>

-----------------------------------------------------------------------------
RequestStep(c) ==
  Evict(c) \/ Lookup(c) \/ StartLoading(c) \/ Load(c) \/ LoadFails(c)
    \/ CheckChat(c) \/ CheckGenerate(c) \/ CheckEmbed(c)
    \/ BeginChat(c) \/ BeginOther(c) \/ Submit(c)
WorkerStep(h) == Pick(h) \/ Admit(h) \/ Round(h) \/ \E c \in Request : Advance(h, c)
UnloadStep(u) == WaitUntilIdle(u) \/ RetireUnloaded(u)

Next ==
  \/ \E c \in Request : RequestStep(c) \/ \E t \in Tag : EnterLoad(c, t)
  \/ \E h \in Handle : WorkerStep(h)
  \/ \E u \in Unload : UnloadStep(u) \/ \E t \in Tag : StopModel(u, t)
  \/ \E c \in Chat : CancelReply(c) \/ NoteCancel(c)
  \/ BeginSweep \/ Sweep

Spec == Init /\ [][Next]_vars

(* Every thread that can go on does: request threads once the load lock is *)
(* theirs, the worker threads, and callers of unload that are not waiting. *)
Fairness ==
  /\ \A c \in Request : WF_vars(RequestStep(c))
  /\ \A h \in Handle : WF_vars(WorkerStep(h))
  /\ \A u \in Unload : WF_vars(UnloadStep(u))
  /\ WF_vars(Sweep)
FairSpec == Spec /\ Fairness
-----------------------------------------------------------------------------
(* Every model in memory can be found again: it is resident, or closed, or *)
(* an unload is seeing to it.  Two loads of one tag, or an eviction that   *)
(* pops a model without retiring it, would leave one nobody can stop.      *)
NoModelIsLost ==
  \A h \in 1..history.made :
    \/ \E t \in Tag : resident[t] = h
    \/ h \in closed
    \/ \E u \in Unload : unload[u].handle = h /\ unload[u].at \in {"waiting", "retiring"}

(* Eviction and expiry never unmap weights that a reply submitted before   *)
(* is still to read, and an unload waits for all of them but those that    *)
(* its own stop has ended before they started (WeightsOutliveTheirReaders).*)
RetiredPastItsReplies ==
  \A h \in closed :
    /\ On(h) \subseteq history.late
    /\ h \notin history.aimed => Leftover(h) = {}

(* `close` runs after the worker has stopped touching the weights, says    *)
(* ModelManager.unload of its wait for an idle worker.                     *)
WeightsOutliveTheirReaders ==
  \A h \in closed : On(h) \cup Leftover(h) \subseteq history.late

(* A reply is cut short only by a cancel of its own id or an unload of its *)
(* model: never by an eviction or by a stop meant for another reply.       *)
OnlyTheAimedStop ==
  \A c \in Request : call[c].how = "stopped" =>
    call[c].handle \in history.aimed \/ (c \in Chat /\ cancel[c] = "done")

(* Every request that has the load lock gets through: it is answered, is   *)
(* dropped or its reply ends, unless its model was retiring when it was    *)
(* submitted.                                                              *)
Settled(c) == call[c].at \in {"ended", "answered", "dropped"} \/ c \in history.late
EveryRequestSettles == \A c \in Request : call[c].at # "new" ~> Settled(c)

(* unload comes back: the replies it waits for end. *)
UnloadReturns == \A u \in Unload : unload[u].at = "waiting" ~> unload[u].at = "done"

(* ModelWorker.stream: each item, then a final None, reaches the caller. *)
EverySubmittedReplyEnds == \A c \in Request : call[c].at = "submitted" ~> call[c].at = "ended"
=============================================================================
