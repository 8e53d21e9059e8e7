-------------------------- MODULE ModelLibraryProofs --------------------------
(***************************************************************************)
(* Proofs about ModelLibrary: one pull at a time works on a file, what is  *)
(* installed is whole while the lease stays, a success is one, and aliases *)
(* keep their models while requests do not overtake each other.            *)
(***************************************************************************)
EXTENDS ModelLibraryInv, FiniteSetTheorems, TLAPS

-----------------------------------------------------------------------------
(* Typing *)

LEMMA AskFields ==
  ASSUME NEW a \in Ask
  PROVE  /\ a.tag \in Name /\ a.kind \in {"pull", "delete", "copy"}
         /\ a.kind = "pull" => a.tag \in Tag
         /\ a.kind = "copy" => a.from \in Name
BY LibraryAssumption DEF Ask

(* The field of a request that a step sets keeps its type, the others stay. *)
LEMMA ReqFields ==
  ASSUME NEW r \in Req
  PROVE  /\ \A p \in Place : [r EXCEPT !.at = p] \in Req
         /\ \A n \in Node : [r EXCEPT !.node = n] \in Req
         /\ \A a \in Ask : [r EXCEPT !.ask = a] \in Req
         /\ \A k \in Job \cup {None} : [r EXCEPT !.lock = k] \in Req
         /\ \A k \in Job : [r EXCEPT !.fd = k] \in Req
         /\ \A i \in Nat : [r EXCEPT !.pos = i] \in Req
         /\ \A b \in BOOLEAN : [r EXCEPT !.sound = b] \in Req
         /\ \A d \in {"no", "found", "downloaded"} : [r EXCEPT !.done = d] \in Req
         /\ \A t \in Tag : [r EXCEPT !.found = t] \in Req
         /\ \A x \in Name : [r EXCEPT !.target = x] \in Req
<1>1. ASSUME NEW p \in Place PROVE [r EXCEPT !.at = p] \in Req
  BY DEF Req
<1>2. ASSUME NEW n \in Node PROVE [r EXCEPT !.node = n] \in Req
  BY DEF Req
<1>3. ASSUME NEW a \in Ask PROVE [r EXCEPT !.ask = a] \in Req
  BY DEF Req
<1>4. ASSUME NEW k \in Job \cup {None} PROVE [r EXCEPT !.lock = k] \in Req
  BY DEF Req
<1>5. ASSUME NEW k \in Job PROVE [r EXCEPT !.fd = k] \in Req
  BY DEF Req
<1>6. ASSUME NEW i \in Nat PROVE [r EXCEPT !.pos = i] \in Req
  BY DEF Req
<1>7. ASSUME NEW b \in BOOLEAN PROVE [r EXCEPT !.sound = b] \in Req
  BY DEF Req
<1>8. ASSUME NEW t \in Tag PROVE [r EXCEPT !.found = t] \in Req
  BY DEF Req
<1>9. ASSUME NEW x \in Name PROVE [r EXCEPT !.target = x] \in Req
  BY DEF Req
<1>10. ASSUME NEW d \in {"no", "found", "downloaded"} PROVE [r EXCEPT !.done = d] \in Req
  BY DEF Req
<1> QED BY <1>1, <1>2, <1>3, <1>4, <1>5, <1>6, <1>7, <1>8, <1>9, <1>10

LEMMA FreshType == Fresh \in Req /\ Ended \in Req /\ Ended.at = "ended"
<1>1. Fresh \in Req
  BY DEF Fresh, Req, Place
<1>2. "ended" \in Place
  BY DEF Place
<1> QED BY <1>1, <1>2, ReqFields DEF Ended, Req

(* The steps of job j leave the other requests alone. *)
Others(j) == \A k \in Job \ {j} : req'[k] = req[k]

LEMMA OthersReq ==
  ASSUME ReqInv, NEW j \in Job, Others(j), ReqOK(req'[j])
  PROVE  ReqInv'
BY DEF ReqInv, Others

LEMMA GoesType ==
  ASSUME TypeOK, NEW j \in Job, NEW p \in Place, Goes(j, p)
  PROVE  /\ req' \in [Job -> Req] /\ Others(j) /\ req'[j].at = p
         /\ req'[j].node = req[j].node /\ req'[j].ask = req[j].ask /\ req'[j].lock = req[j].lock
         /\ req'[j].fd = req[j].fd /\ req'[j].pos = req[j].pos /\ req'[j].sound = req[j].sound
         /\ req'[j].done = req[j].done /\ req'[j].found = req[j].found
         /\ req'[j].target = req[j].target
<1>1. req \in [Job -> Req] /\ req[j] \in Req
  BY DEF TypeOK
<1>2. req' = [req EXCEPT ![j] = [req[j] EXCEPT !.at = p]]
  BY <1>1 DEF Goes
<1> DEFINE q == [req[j] EXCEPT !.at = p]
<1>3. q \in Req
  BY <1>1, ReqFields
<1>4. /\ q.at = p /\ q.node = req[j].node /\ q.ask = req[j].ask /\ q.lock = req[j].lock
      /\ q.fd = req[j].fd /\ q.pos = req[j].pos /\ q.sound = req[j].sound
      /\ q.done = req[j].done /\ q.found = req[j].found /\ q.target = req[j].target
  BY <1>1 DEF Req
<1> HIDE DEF q
<1>5. req' = [req EXCEPT ![j] = q]
  BY <1>2 DEF q
<1> QED BY <1>1, <1>3, <1>4, <1>5 DEF Others

LEMMA EndsType ==
  ASSUME TypeOK, NEW j \in Job, Ends(j)
  PROVE  req' \in [Job -> Req] /\ Others(j) /\ req'[j] = Ended /\ req'[j].at = "ended"
BY FreshType DEF TypeOK, Ends, Others

LEMMA LeavesGuardType ==
  ASSUME TypeOK, NEW j \in Job, NEW done \in {"no", "found", "downloaded"}, LeavesGuard(j, done),
         req[j].node \in Node, req[j].ask \in Ask
  PROVE  /\ req' \in [Job -> Req] /\ Others(j) /\ req'[j].at = "unlocking" /\ req'[j].done = done
         /\ req'[j].node = req[j].node /\ req'[j].ask = req[j].ask /\ req'[j].lock = req[j].lock
<1> DEFINE q == [Fresh EXCEPT !.at = "unlocking", !.node = req[j].node,
                               !.ask = req[j].ask, !.lock = req[j].lock, !.done = done]
<1>1. req \in [Job -> Req] /\ req[j] \in Req /\ req[j].lock \in Job \cup {None}
  BY DEF TypeOK, Req
<1>2. "unlocking" \in Place
  BY DEF Place, PullPlace, InSlot, Guarded
<1>3. q \in Req
  <2>1. PICK r1 \in Req : r1 = [Fresh EXCEPT !.at = "unlocking"]
    BY <1>2, FreshType, ReqFields
  <2>2. PICK r2 \in Req : r2 = [r1 EXCEPT !.node = req[j].node]
    BY ReqFields
  <2>3. PICK r3 \in Req : r3 = [r2 EXCEPT !.ask = req[j].ask]
    BY ReqFields
  <2>4. PICK r4 \in Req : r4 = [r3 EXCEPT !.lock = req[j].lock]
    BY <1>1, ReqFields
  <2>5. q = [r4 EXCEPT !.done = done]
    BY <2>1, <2>2, <2>3, <2>4, Zenon
  <2> QED BY <2>5, ReqFields
<1>4. /\ q.at = "unlocking" /\ q.node = req[j].node /\ q.ask = req[j].ask /\ q.lock = req[j].lock
      /\ q.done = done
  BY FreshType DEF Req
<1>5. req' = [req EXCEPT ![j] = q]
  BY DEF LeavesGuard
<1> HIDE DEF q
<1> QED BY <1>1, <1>3, <1>4, <1>5 DEF Others

(* A request that goes on, to a place that fits what it holds. *)
Fits(r, p) ==
  /\ p \in Place \ {"streaming", "checking"} /\ r.at \notin {"new", "ended"}
  /\ p \in PullPlace => r.at \in PullPlace
  /\ p \in Before => r.at \in Before
  /\ p \in CatalogPlace => r.at \in CatalogPlace
  /\ p \in CopyPlace => r.ask.kind = "copy"
  /\ p \in {"unlinking", "unlinking file"} => r.found \in Tag
  /\ p \in CatalogPlace \ {"finding source", "finding target"} /\ r.ask.kind = "copy" =>
       r.target \in Name

LEMMA GoesReq ==
  ASSUME TypeOK, ReqInv, NEW j \in Job, NEW p, Goes(j, p), Fits(req[j], p)
  PROVE  req' \in [Job -> Req] /\ ReqInv' /\ Others(j)
<1>1. /\ req' \in [Job -> Req] /\ Others(j) /\ req'[j].at = p
      /\ req'[j].node = req[j].node /\ req'[j].ask = req[j].ask
      /\ req'[j].found = req[j].found /\ req'[j].target = req[j].target /\ req'[j].pos = req[j].pos
  BY GoesType DEF Fits
<1>2. ReqOK(req[j])
  BY DEF ReqInv
<1>3. ReqOK(req'[j])
  BY <1>1, <1>2 DEF ReqOK, Fits
<1> QED BY <1>1, <1>3, OthersReq

LEMMA EndsReq ==
  ASSUME TypeOK, ReqInv, NEW j \in Job, Ends(j)
  PROVE  req' \in [Job -> Req] /\ ReqInv' /\ Others(j) /\ req'[j].at = "ended"
<1>1. req' \in [Job -> Req] /\ Others(j) /\ req'[j].at = "ended"
  BY EndsType
<1>2. ReqOK(req'[j])
  BY <1>1 DEF ReqOK, Before, PullPlace, CatalogPlace, CopyPlace, InSlot, Guarded
<1> QED BY <1>1, <1>2, OthersReq

LEMMA LeavesGuardReq ==
  ASSUME TypeOK, ReqInv, NEW j \in Job, NEW done \in {"no", "found", "downloaded"},
         LeavesGuard(j, done), req[j].at \in Guarded
  PROVE  /\ req' \in [Job -> Req] /\ ReqInv' /\ Others(j)
         /\ req'[j].at = "unlocking" /\ req'[j].done = done
         /\ req'[j].node = req[j].node /\ req'[j].ask = req[j].ask /\ req'[j].lock = req[j].lock
<1>1. ReqOK(req[j])
  BY DEF ReqInv
<1>2. req[j].node \in Node /\ req[j].ask \in Ask /\ req[j].ask.kind = "pull"
  BY <1>1 DEF ReqOK, Guarded, PullPlace, InSlot
<1>3. /\ req' \in [Job -> Req] /\ Others(j) /\ req'[j].at = "unlocking" /\ req'[j].done = done
      /\ req'[j].node = req[j].node /\ req'[j].ask = req[j].ask /\ req'[j].lock = req[j].lock
  BY <1>2, LeavesGuardType
<1>4. ReqOK(req'[j])
  BY <1>2, <1>3 DEF ReqOK, Before, PullPlace, CatalogPlace, CopyPlace, InSlot, Guarded
<1> QED BY <1>3, <1>4, OthersReq

(* What a pull asks for. *)
LEMMA PullAsk ==
  ASSUME ReqInv, NEW j \in Job, req[j].at \in PullPlace
  PROVE  req[j].node \in Node /\ req[j].ask \in Ask /\ req[j].ask.kind = "pull" /\ req[j].ask.tag \in Tag
<1>1. ReqOK(req[j]) /\ req[j].at \notin {"new", "ended"}
  BY DEF ReqInv, PullPlace, InSlot, Guarded
<1> QED BY <1>1, AskFields DEF ReqOK

LEMMA CatalogAsk ==
  ASSUME ReqInv, NEW j \in Job, req[j].at \in CatalogPlace
  PROVE  /\ req[j].node \in Node /\ req[j].ask \in Ask /\ req[j].ask.kind \in {"delete", "copy"}
         /\ req[j].ask.tag \in Name /\ (req[j].ask.kind = "copy" => req[j].ask.from \in Name)
         /\ req[j].at \in CatalogPlace \ {"finding source", "finding target"}
              /\ req[j].ask.kind = "copy" => req[j].target \in Name
<1>1. ReqOK(req[j]) /\ req[j].at \notin {"new", "ended"}
  BY DEF ReqInv, CatalogPlace, CopyPlace
<1> QED BY <1>1, AskFields DEF ReqOK

LEMMA BeginType ==
  ASSUME TypeOK, ReqInv, NEW j \in Job, Begin(j)
  PROVE  /\ TypeOK' /\ ReqInv' /\ Others(j)
         /\ req'[j].at \in {"resolving", "checking", "finding source"} /\ req'[j].node = holder
<1>1. PICK r \in Ask :
        req' = [req EXCEPT ![j].node = holder, ![j].ask = r,
                 ![j].at = CASE r.kind = "pull" -> "resolving"
                             [] r.kind = "delete" -> "checking"
                             [] r.kind = "copy" -> "finding source"]
  BY AskedAssumption DEF Begin
<1> DEFINE p == CASE r.kind = "pull" -> "resolving"
                  [] r.kind = "delete" -> "checking"
                  [] r.kind = "copy" -> "finding source"
<1>2. /\ \/ r.kind = "pull" /\ p = "resolving"
         \/ r.kind = "delete" /\ p = "checking"
         \/ r.kind = "copy" /\ p = "finding source"
      /\ p \in Place
  BY AskFields DEF Place, PullPlace, CatalogPlace, CopyPlace
<1>3. req' = [req EXCEPT ![j].node = holder, ![j].ask = r, ![j].at = p]
  BY <1>1
<1> HIDE DEF p
<1>4. req \in [Job -> Req] /\ req[j] \in Req /\ holder \in Node
  BY DEF TypeOK
<1>5. PICK r1 \in Req : r1 = [req[j] EXCEPT !.node = holder]
  BY <1>4, ReqFields
<1>6. PICK r2 \in Req : r2 = [r1 EXCEPT !.ask = r]
  BY ReqFields
<1>7. PICK r3 \in Req : r3 = [r2 EXCEPT !.at = p]
  BY <1>2, ReqFields
<1>8. r3.node = holder /\ r3.ask = r /\ r3.at = p /\ r3.pos = req[j].pos
  BY <1>4, <1>5, <1>6, <1>7 DEF Req
<1>9. req' = [req EXCEPT ![j] = r3]
  BY <1>3, <1>4, <1>5, <1>6, <1>7 DEF Req
<1>10. req' \in [Job -> Req] /\ Others(j) /\ req'[j] = r3
  BY <1>4, <1>9 DEF Others
<1>11. ReqOK(r3)
  <2>1. req[j].at = "new" /\ req[j].pos = 0
    BY DEF Begin, ReqInv, ReqOK, Before
  <2> QED BY <1>2, <1>4, <1>8, <2>1 DEF ReqOK, Before, PullPlace, CatalogPlace, CopyPlace, InSlot, Guarded
<1>12. TypeOK' /\ ReqInv'
  BY <1>10, <1>11, OthersReq DEF Begin, TypeOK, disk, catalog, locks
<1> QED BY <1>2, <1>8, <1>10, <1>12

(* A pull passes on its lock, or none. *)
LEMMA LockType ==
  ASSUME TypeOK, ReqInv, NEW j \in Job, NEW p \in InSlot \ {"streaming"}, NEW k \in Job \cup {None},
         req' = [req EXCEPT ![j].at = p, ![j].lock = k], req[j].at \in PullPlace,
         p \in Before => req[j].at \in Before
  PROVE  /\ req' \in [Job -> Req] /\ ReqInv' /\ Others(j)
         /\ req'[j].at = p /\ req'[j].lock = k /\ req'[j].done = req[j].done
         /\ req'[j].node = req[j].node /\ req'[j].ask = req[j].ask
<1>1. req \in [Job -> Req] /\ req[j] \in Req /\ p \in Place
  BY DEF TypeOK, Place, PullPlace
<1>2. PICK r1 \in Req : r1 = [req[j] EXCEPT !.at = p]
  BY <1>1, ReqFields
<1>3. PICK r2 \in Req : r2 = [r1 EXCEPT !.lock = k]
  BY ReqFields
<1>4. /\ r2.at = p /\ r2.lock = k /\ r2.done = req[j].done
      /\ r2.node = req[j].node /\ r2.ask = req[j].ask /\ r2.pos = req[j].pos
  BY <1>1, <1>2, <1>3 DEF Req
<1>5. req' = [req EXCEPT ![j] = r2]
  BY <1>1, <1>2, <1>3 DEF Req
<1>6. req' \in [Job -> Req] /\ Others(j) /\ req'[j] = r2
  BY <1>1, <1>5 DEF Others
<1>7. ReqOK(r2)
  BY <1>4, PullAsk DEF ReqInv, ReqOK, Before, PullPlace, CatalogPlace, CopyPlace, InSlot, Guarded
<1> QED BY <1>4, <1>6, <1>7, OthersReq

LEMMA AcquireSlotType ==
  ASSUME TypeOK, ReqInv, NEW j \in Job, AcquireSlot(j)
  PROVE  /\ TypeOK' /\ ReqInv' /\ Others(j)
         /\ req'[j].at = "waiting" /\ req'[j].node = req[j].node /\ req'[j].ask = req[j].ask
         /\ \E n \in Node, t \in Tag, k \in Job :
              /\ n = req[j].node /\ t = req[j].ask.tag
              /\ k = (IF registry[n][t].lock = None THEN j ELSE registry[n][t].lock)
              /\ registry' = [registry EXCEPT ![n][t] = [lock |-> k, waiters |-> registry[n][t].waiters + 1]]
              /\ req'[j].lock = k
<1>1. req[j].at = "taking a slot" /\ req[j].at \in PullPlace
  BY DEF AcquireSlot, PullPlace
<1>2. PICK n \in Node, t \in Tag : n = req[j].node /\ t = req[j].ask.tag
  BY <1>1, PullAsk
<1>3. registry[n][t] \in Slot /\ registry[n][t].waiters + 1 \in Nat
  BY DEF TypeOK, Slot
<1>4. PICK k \in Job : k = (IF registry[n][t].lock = None THEN j ELSE registry[n][t].lock)
  BY <1>3 DEF Slot
<1>5. /\ registry' = [registry EXCEPT ![n][t] = [lock |-> k, waiters |-> registry[n][t].waiters + 1]]
      /\ req' = [req EXCEPT ![j].at = "waiting", ![j].lock = k]
  BY <1>2, <1>4 DEF AcquireSlot
<1>6. [lock |-> k, waiters |-> registry[n][t].waiters + 1] \in Slot
  BY <1>3 DEF Slot
<1>7. registry' \in [Node -> [Tag -> Slot]]
  BY <1>5, <1>6 DEF TypeOK
<1>8. /\ req' \in [Job -> Req] /\ ReqInv' /\ Others(j)
      /\ req'[j].at = "waiting" /\ req'[j].lock = k
      /\ req'[j].node = req[j].node /\ req'[j].ask = req[j].ask
  <2>1. "waiting" \in InSlot \ {"streaming"} /\ k \in Job \cup {None}
    BY DEF InSlot
  <2>2. req[j].at \in Before
    BY <1>1 DEF Before
  <2> QED BY <1>1, <1>5, <2>1, <2>2, LockType
<1>9. TypeOK'
  BY <1>7, <1>8 DEF AcquireSlot, TypeOK, disk, catalog
<1> QED BY <1>2, <1>4, <1>5, <1>8, <1>9

LEMMA LeaveGuardType ==
  ASSUME TypeOK, ReqInv, NEW j \in Job, LeaveGuard(j)
  PROVE  /\ TypeOK' /\ ReqInv' /\ Others(j)
         /\ req'[j].at = "leaving" /\ req'[j].node = req[j].node /\ req'[j].ask = req[j].ask
<1>1. req[j].at \in PullPlace /\ req' = [req EXCEPT ![j].at = "leaving", ![j].lock = None]
  BY DEF LeaveGuard, PullPlace, InSlot, Guarded
<1>2. /\ req' \in [Job -> Req] /\ ReqInv' /\ Others(j)
      /\ req'[j].at = "leaving" /\ req'[j].node = req[j].node /\ req'[j].ask = req[j].ask
  BY <1>1, LockType DEF InSlot, Before
<1>3. owner' \in [Job -> Job \cup {None}]
  BY DEF LeaveGuard, TypeOK
<1> QED BY <1>2, <1>3 DEF LeaveGuard, TypeOK, disk, catalog

LEMMA ReleaseSlotType ==
  ASSUME TypeOK, ReqInv, NEW j \in Job, ReleaseSlot(j), registry[req[j].node][req[j].ask.tag].waiters > 0
  PROVE  TypeOK' /\ ReqInv' /\ Others(j) /\ req'[j].at \in {"reading", "ended"}
<1>1. req[j].at = "leaving" /\ req[j].at \in PullPlace
  BY DEF ReleaseSlot, PullPlace, InSlot
<1>2. PICK n \in Node, t \in Tag : n = req[j].node /\ t = req[j].ask.tag
  BY <1>1, PullAsk
<1>3. registry[n][t] \in Slot /\ registry[n][t].waiters - 1 \in Nat
  BY <1>2 DEF TypeOK, Slot
<1>4. PICK w \in Slot :
        registry' = [registry EXCEPT ![n][t] = w]
  <2>1. [registry[n][t] EXCEPT !.waiters = registry[n][t].waiters - 1] \in Slot /\ NoSlot \in Slot
    BY <1>3 DEF Slot, NoSlot
  <2> QED BY <1>2, <2>1 DEF ReleaseSlot
<1>5. registry' \in [Node -> [Tag -> Slot]]
  BY <1>4 DEF TypeOK
<1>6. Fits(req[j], "reading")
  BY <1>1 DEF Fits, Before, Place, PullPlace, CatalogPlace, CopyPlace, InSlot, Guarded
<1>7. req' \in [Job -> Req] /\ ReqInv' /\ Others(j) /\ req'[j].at \in {"reading", "ended"}
  <2>1. CASE Goes(j, "reading")
    BY <1>6, <2>1, GoesReq, GoesType DEF Fits
  <2>2. CASE Ends(j)
    BY <2>2, EndsReq
  <2> QED BY <2>1, <2>2 DEF ReleaseSlot
<1> QED BY <1>5, <1>7 DEF ReleaseSlot, TypeOK, disk, catalog

LEMMA EnterGuardType ==
  ASSUME TypeOK, ReqInv, NEW j \in Job, EnterGuard(j), req[j].lock \in Job
  PROVE  /\ TypeOK' /\ ReqInv' /\ Others(j) /\ req'[j].at = "guarded"
         /\ req'[j].node = req[j].node /\ req'[j].ask = req[j].ask /\ req'[j].lock = req[j].lock
<1>1. Fits(req[j], "guarded") /\ Goes(j, "guarded")
  BY DEF EnterGuard, Fits, Before, Place, PullPlace, CatalogPlace, CopyPlace, InSlot, Guarded
<1>2. /\ req' \in [Job -> Req] /\ ReqInv' /\ Others(j) /\ req'[j].at = "guarded"
      /\ req'[j].node = req[j].node /\ req'[j].ask = req[j].ask /\ req'[j].lock = req[j].lock
  BY <1>1, GoesReq, GoesType DEF Fits
<1>3. owner' \in [Job -> Job \cup {None}]
  BY DEF EnterGuard, TypeOK
<1> QED BY <1>2, <1>3 DEF EnterGuard, TypeOK, disk, catalog

LEMMA FindFileType ==
  ASSUME TypeOK, ReqInv, NEW j \in Job, FindFile(j)
  PROVE  /\ TypeOK' /\ ReqInv' /\ Others(j) /\ req'[j].at \in {"unlocking", "opening"}
         /\ req'[j].node = req[j].node /\ req'[j].ask = req[j].ask /\ req'[j].lock = req[j].lock
<1>1. req[j].at = "guarded" /\ req[j].at \in Guarded
  BY DEF FindFile, Guarded
<1>2. /\ req' \in [Job -> Req] /\ ReqInv' /\ Others(j) /\ req'[j].at \in {"unlocking", "opening"}
      /\ req'[j].node = req[j].node /\ req'[j].ask = req[j].ask /\ req'[j].lock = req[j].lock
  <2>1. CASE LeavesGuard(j, "found")
    BY <1>1, <2>1, LeavesGuardReq
  <2>2. CASE Goes(j, "opening")
    <3>1. Fits(req[j], "opening")
      BY <1>1 DEF Fits, Before, Place, PullPlace, CatalogPlace, CopyPlace, InSlot, Guarded
    <3> QED BY <2>2, <3>1, GoesReq, GoesType DEF Fits
  <2> QED BY <2>1, <2>2 DEF FindFile
<1>3. folder' \in BOOLEAN
  BY DEF FindFile, TypeOK
<1> QED BY <1>2, <1>3 DEF FindFile, TypeOK, catalog, locks

LEMMA UnlinkType ==
  ASSUME TypeOK, NEW t \in Tag, Unlink(t)
  PROVE  /\ partial' \in [Tag -> Job \cup {None}] /\ UNCHANGED <<dest, data, folder>>
         /\ partial'[t] = None /\ \A u \in Tag \ {t} : partial'[u] = partial[u]
BY DEF Unlink, TypeOK

(* Either the pull gives up, or it opens the file that is there or its own. *)
LEMMA OpenPartialType ==
  ASSUME TypeOK, ReqInv, NEW j \in Job, OpenPartial(j)
  PROVE  /\ TypeOK' /\ ReqInv' /\ Others(j) /\ UNCHANGED <<catalog, locks, holder, history, dest>>
         /\ \/ req'[j].at = "unlocking" /\ UNCHANGED data /\ (UNCHANGED partial \/ Unlink(req[j].ask.tag))
            \/ \E f \in Job :
                 /\ f = (IF partial[req[j].ask.tag] = None THEN j ELSE partial[req[j].ask.tag])
                 /\ partial' = [partial EXCEPT ![req[j].ask.tag] = f]
                 /\ data' = [data EXCEPT ![f] = Empty]
                 /\ req'[j].at = "streaming" /\ req'[j].fd = f
                 /\ req'[j].pos = req[j].pos /\ req'[j].ask = req[j].ask
         /\ req'[j].node = req[j].node /\ req'[j].ask = req[j].ask /\ req'[j].lock = req[j].lock
<1>1. req[j].at = "opening" /\ req[j].at \in Guarded /\ req[j].at \in PullPlace
  BY DEF OpenPartial, PullPlace, InSlot, Guarded
<1>2. PICK t \in Tag : t = req[j].ask.tag
  BY <1>1, PullAsk
<1>3. CASE LeavesGuard(j, "no") /\ (UNCHANGED disk \/ Unlink(req[j].ask.tag))
  <2>1. /\ req' \in [Job -> Req] /\ ReqInv' /\ Others(j) /\ req'[j].at = "unlocking"
        /\ req'[j].node = req[j].node /\ req'[j].ask = req[j].ask /\ req'[j].lock = req[j].lock
    BY <1>1, <1>3, LeavesGuardReq
  <2>2. UNCHANGED <<dest, data, folder>> /\ partial' \in [Tag -> Job \cup {None}]
    BY <1>2, <1>3, UnlinkType DEF disk, TypeOK
  <2>3. TypeOK'
    BY <2>1, <2>2 DEF OpenPartial, TypeOK, catalog, locks
  <2> QED BY <1>3, <2>1, <2>2, <2>3 DEF OpenPartial, disk
<1>4. CASE ~(LeavesGuard(j, "no") /\ (UNCHANGED disk \/ Unlink(req[j].ask.tag)))
  <2>1. PICK f \in Job : f = (IF partial[t] = None THEN j ELSE partial[t])
    BY DEF TypeOK
  <2>2. /\ partial' = [partial EXCEPT ![t] = f]
        /\ data' = [data EXCEPT ![f] = Empty]
        /\ req' = [req EXCEPT ![j].at = "streaming", ![j].fd = f]
        /\ UNCHANGED <<dest, folder>>
    BY <1>2, <1>4, <2>1 DEF OpenPartial
  <2>3. req \in [Job -> Req] /\ req[j] \in Req /\ "streaming" \in Place
    BY DEF TypeOK, Place, PullPlace, InSlot, Guarded
  <2>4. PICK r1 \in Req : r1 = [req[j] EXCEPT !.at = "streaming"]
    BY <2>3, ReqFields
  <2>5. PICK r2 \in Req : r2 = [r1 EXCEPT !.fd = f]
    BY ReqFields
  <2>6. /\ r2.at = "streaming" /\ r2.fd = f /\ r2.pos = req[j].pos
        /\ r2.node = req[j].node /\ r2.ask = req[j].ask /\ r2.lock = req[j].lock
    BY <2>3, <2>4, <2>5 DEF Req
  <2>7. req' = [req EXCEPT ![j] = r2]
    BY <2>2, <2>3, <2>4, <2>5 DEF Req
  <2>8. req' \in [Job -> Req] /\ Others(j) /\ req'[j] = r2
    BY <2>3, <2>7 DEF Others
  <2>9. ReqOK(r2)
    BY <1>1, <2>6, PullAsk DEF ReqOK, Before, PullPlace, CatalogPlace, CopyPlace, InSlot, Guarded
  <2>10. Empty \in [1..Blocks -> {"hole", "good", "bad"}]
    BY DEF Empty
  <2>11. partial' \in [Tag -> Job \cup {None}] /\ data' \in [Job -> [1..Blocks -> {"hole", "good", "bad"}]]
    BY <2>2, <2>10 DEF TypeOK
  <2>12. TypeOK' /\ ReqInv'
    BY <2>2, <2>8, <2>9, <2>11, OthersReq DEF OpenPartial, TypeOK, catalog, locks
  <2> QED BY <1>2, <2>1, <2>2, <2>6, <2>8, <2>12 DEF OpenPartial
<1> QED BY <1>3, <1>4

(* A pull that gives up leaves <dest>.partial, or unlinks it. *)
GivesUp(j) ==
  /\ req'[j].at = "unlocking" /\ req'[j].done = "no" /\ UNCHANGED <<data, dest, folder>>
  /\ UNCHANGED partial \/ Unlink(req[j].ask.tag)

LEMMA GivesUpType ==
  ASSUME TypeOK, ReqInv, NEW j \in Job, req[j].at \in Guarded, LeavesGuard(j, "no"),
         UNCHANGED disk \/ Unlink(req[j].ask.tag), UNCHANGED <<catalog, locks, holder, history>>
  PROVE  /\ TypeOK' /\ ReqInv' /\ Others(j) /\ GivesUp(j)
         /\ req'[j].node = req[j].node /\ req'[j].ask = req[j].ask /\ req'[j].lock = req[j].lock
<1>1. req[j].at \in PullPlace
  BY DEF PullPlace, InSlot
<1>2. PICK t \in Tag : t = req[j].ask.tag
  BY <1>1, PullAsk
<1>3. /\ req' \in [Job -> Req] /\ ReqInv' /\ Others(j)
      /\ req'[j].at = "unlocking" /\ req'[j].done = "no"
      /\ req'[j].node = req[j].node /\ req'[j].ask = req[j].ask /\ req'[j].lock = req[j].lock
  BY LeavesGuardReq
<1>4. /\ UNCHANGED <<dest, data, folder>> /\ partial' \in [Tag -> Job \cup {None}]
      /\ UNCHANGED partial \/ Unlink(req[j].ask.tag)
  BY <1>2, UnlinkType DEF disk, TypeOK
<1>5. TypeOK'
  BY <1>3, <1>4 DEF TypeOK, catalog, locks
<1> QED BY <1>3, <1>4, <1>5 DEF GivesUp

LEMMA ChunkType ==
  ASSUME TypeOK, ReqInv, NEW j \in Job, Chunk(j)
  PROVE  /\ TypeOK' /\ ReqInv' /\ Others(j) /\ UNCHANGED <<catalog, locks, holder, history>>
         /\ \/ GivesUp(j)
            \/ /\ UNCHANGED <<dest, partial, folder>>
               /\ req'[j].at = "streaming" /\ req'[j].fd = req[j].fd /\ req[j].pos < Blocks
               /\ req'[j].pos = req[j].pos + 1
               /\ \E block \in {"good", "bad"} :
                    /\ data' = [data EXCEPT ![req[j].fd][req[j].pos + 1] = block]
                    /\ req'[j].sound = (req[j].sound /\ block = "good")
         /\ req'[j].node = req[j].node /\ req'[j].ask = req[j].ask /\ req'[j].lock = req[j].lock
<1>1. /\ req[j].at = "streaming" /\ req[j].at \in Guarded /\ req[j].at \in PullPlace
      /\ UNCHANGED <<catalog, locks, holder, history>>
  BY DEF Chunk, PullPlace, InSlot, Guarded
<1>2. CASE LeavesGuard(j, "no") /\ (UNCHANGED disk \/ Unlink(req[j].ask.tag))
  BY <1>1, <1>2, GivesUpType
<1>3. ASSUME NEW block \in {"good", "bad"},
             data' = [data EXCEPT ![req[j].fd][req[j].pos + 1] = block],
             req' = [req EXCEPT ![j].pos = req[j].pos + 1, ![j].sound = req[j].sound /\ block = "good"],
             UNCHANGED <<dest, partial, folder>>
      PROVE  /\ TypeOK' /\ ReqInv' /\ Others(j)
             /\ req'[j].at = "streaming" /\ req'[j].fd = req[j].fd
             /\ req'[j].pos = req[j].pos + 1 /\ req'[j].sound = (req[j].sound /\ block = "good")
             /\ req'[j].node = req[j].node /\ req'[j].ask = req[j].ask /\ req'[j].lock = req[j].lock
  <2>1. req \in [Job -> Req] /\ req[j] \in Req /\ req[j].pos \in Nat /\ req[j].sound \in BOOLEAN
    BY DEF TypeOK, Req
  <2>2. PICK i \in Nat : i = req[j].pos + 1
    BY <2>1
  <2>3. PICK b \in BOOLEAN : b = (req[j].sound /\ block = "good")
    OBVIOUS
  <2>4. req' = [req EXCEPT ![j].pos = i, ![j].sound = b]
    BY <1>3, <2>2, <2>3
  <2>5. PICK r1 \in Req : r1 = [req[j] EXCEPT !.pos = i]
    BY <2>1, ReqFields
  <2>6. PICK r2 \in Req : r2 = [r1 EXCEPT !.sound = b]
    BY ReqFields
  <2>7. /\ r2.at = req[j].at /\ r2.fd = req[j].fd /\ r2.pos = i /\ r2.sound = b
        /\ r2.node = req[j].node /\ r2.ask = req[j].ask /\ r2.lock = req[j].lock
    BY <2>1, <2>5, <2>6 DEF Req
  <2>8. req' = [req EXCEPT ![j] = r2]
    BY <2>1, <2>4, <2>5, <2>6 DEF Req
  <2>9. req' \in [Job -> Req] /\ Others(j) /\ req'[j] = r2
    BY <2>1, <2>8 DEF Others
  <2>10. ReqOK(req[j])
    BY DEF ReqInv
  <2>11. ReqOK(r2)
    BY <1>1, <2>7, <2>10 DEF ReqOK, Before, PullPlace, CatalogPlace, CopyPlace, InSlot, Guarded
  <2>12. data' \in [Job -> [1..Blocks -> {"hole", "good", "bad"}]]
    BY <1>3 DEF TypeOK
  <2>13. TypeOK' /\ ReqInv'
    BY <1>1, <1>3, <2>9, <2>11, <2>12, OthersReq DEF TypeOK, catalog, locks
  <2> QED BY <1>1, <2>2, <2>3, <2>7, <2>9, <2>13
<1> QED BY <1>1, <1>2, <1>3 DEF Chunk

LEMMA RenameType ==
  ASSUME TypeOK, ReqInv, NEW j \in Job, Rename(j)
  PROVE  /\ TypeOK' /\ ReqInv' /\ Others(j) /\ UNCHANGED <<catalog, locks, holder, history>>
         /\ req[j].pos = Blocks
         /\ \/ GivesUp(j)
            \/ /\ req'[j].at = "unlocking" /\ (req[j].sound \/ req[j].ask.tag \notin Hashed)
               /\ partial[req[j].ask.tag] # None
               /\ dest' = [dest EXCEPT ![req[j].ask.tag] = partial[req[j].ask.tag]]
               /\ partial' = [partial EXCEPT ![req[j].ask.tag] = None]
               /\ UNCHANGED <<data, folder>>
         /\ req'[j].node = req[j].node /\ req'[j].ask = req[j].ask /\ req'[j].lock = req[j].lock
<1>1. /\ req[j].at = "streaming" /\ req[j].at \in Guarded /\ req[j].at \in PullPlace /\ req[j].pos = Blocks
      /\ UNCHANGED <<catalog, locks, holder, history>>
  BY DEF Rename, PullPlace, InSlot, Guarded
<1>2. CASE LeavesGuard(j, "no") /\ (UNCHANGED disk \/ Unlink(req[j].ask.tag))
  BY <1>1, <1>2, GivesUpType
<1>3. CASE ~(LeavesGuard(j, "no") /\ (UNCHANGED disk \/ Unlink(req[j].ask.tag)))
  <2>1. /\ req[j].sound \/ req[j].ask.tag \notin Hashed
        /\ partial[req[j].ask.tag] # None
        /\ dest' = [dest EXCEPT ![req[j].ask.tag] = partial[req[j].ask.tag]]
        /\ partial' = [partial EXCEPT ![req[j].ask.tag] = None]
        /\ LeavesGuard(j, "downloaded") /\ UNCHANGED <<data, folder>>
    BY <1>3 DEF Rename
  <2>2. /\ req' \in [Job -> Req] /\ ReqInv' /\ Others(j) /\ req'[j].at = "unlocking"
        /\ req'[j].node = req[j].node /\ req'[j].ask = req[j].ask /\ req'[j].lock = req[j].lock
    BY <1>1, <2>1, LeavesGuardReq
  <2>3. PICK t \in Tag : t = req[j].ask.tag
    BY <1>1, PullAsk
  <2>4. dest' \in [Tag -> Job \cup {None}] /\ partial' \in [Tag -> Job \cup {None}]
    BY <2>1, <2>3 DEF TypeOK
  <2>5. TypeOK'
    BY <1>1, <2>1, <2>2, <2>4 DEF TypeOK, catalog, locks
  <2> QED BY <1>1, <2>1, <2>2, <2>5
<1> QED BY <1>2, <1>3

(* Steps that change nothing but where their request is. *)
LEMMA PlainType ==
  ASSUME TypeOK, ReqInv, NEW j \in Job, NEW p, Fits(req[j], p), Goes(j, p) \/ Ends(j),
         UNCHANGED <<owner, registry, holder>>,
         history' \in [moves : Nat, crashes : Nat, overtaken : SUBSET Job],
         dest' \in [Tag -> Job \cup {None}], UNCHANGED <<partial, data>>, folder' \in BOOLEAN,
         sidecar' \in SUBSET Tag,
         DOMAIN alias' \subseteq Name, alias' \in [DOMAIN alias' -> Name]
  PROVE  TypeOK' /\ ReqInv' /\ Others(j) /\ req'[j].at \in {p, "ended"}
<1>1. req' \in [Job -> Req] /\ ReqInv' /\ Others(j) /\ req'[j].at \in {p, "ended"}
  <2>1. CASE Goes(j, p)
    BY <2>1, GoesReq, GoesType DEF Fits
  <2>2. CASE Ends(j)
    BY <2>2, EndsReq
  <2> QED BY <2>1, <2>2
<1>2. holder' \in Node
      /\ registry' \in [Node -> [Tag -> Slot]] /\ owner' \in [Job -> Job \cup {None}]
      /\ partial' \in [Tag -> Job \cup {None}]
      /\ data' \in [Job -> [1..Blocks -> {"hole", "good", "bad"}]]
  BY DEF TypeOK
<1> QED BY <1>1, <1>2 DEF TypeOK

LEMMA SameTypes ==
  ASSUME TypeOK, UNCHANGED <<disk, catalog, locks, holder, history>>
  PROVE  /\ UNCHANGED <<owner, registry, holder>>
         /\ history' \in [moves : Nat, crashes : Nat, overtaken : SUBSET Job]
         /\ dest' \in [Tag -> Job \cup {None}] /\ UNCHANGED <<partial, data>> /\ folder' \in BOOLEAN
         /\ sidecar' \in SUBSET Tag
         /\ DOMAIN alias' \subseteq Name /\ alias' \in [DOMAIN alias' -> Name]
BY DEF TypeOK, disk, catalog, locks

LEMMA ResolveType ==
  ASSUME TypeOK, ReqInv, NEW j \in Job, Resolve(j)
  PROVE  TypeOK' /\ ReqInv' /\ Others(j) /\ req'[j].at \in {"taking a slot", "ended"}
<1>1. Fits(req[j], "taking a slot")
  BY DEF Resolve, Fits, Before, Place, PullPlace, CatalogPlace, CopyPlace, InSlot, Guarded
<1> QED BY <1>1, SameTypes, PlainType DEF Resolve

LEMMA ReadHeaderType ==
  ASSUME TypeOK, ReqInv, NEW j \in Job, ReadHeader(j)
  PROVE  TypeOK' /\ ReqInv' /\ Others(j) /\ req'[j].at \in {"describing", "ended"}
<1>1. Fits(req[j], "describing")
  BY DEF ReadHeader, Fits, Before, Place, PullPlace, CatalogPlace, CopyPlace, InSlot, Guarded
<1> QED BY <1>1, SameTypes, PlainType DEF ReadHeader

LEMMA WriteSidecarType ==
  ASSUME TypeOK, ReqInv, NEW j \in Job, WriteSidecar(j)
  PROVE  TypeOK' /\ ReqInv' /\ Others(j) /\ req'[j].at \in {"telling", "ended"}
<1>1. Fits(req[j], "telling") /\ req[j].at \in PullPlace
  BY DEF WriteSidecar, Fits, Before, Place, PullPlace, CatalogPlace, CopyPlace, InSlot, Guarded
<1>2. sidecar' \in SUBSET Tag
  BY <1>1, PullAsk DEF WriteSidecar, TypeOK
<1> QED BY <1>1, <1>2, PlainType DEF WriteSidecar, TypeOK, disk, locks

LEMMA TellSuccessType ==
  ASSUME TypeOK, ReqInv, NEW j \in Job, TellSuccess(j)
  PROVE  TypeOK' /\ ReqInv' /\ Others(j) /\ req'[j].at \in {"telling", "ended"}
<1>1. Fits(req[j], "telling")
  BY DEF TellSuccess, Fits, Before, Place, PullPlace, CatalogPlace, CopyPlace, InSlot, Guarded
<1> QED BY <1>1, SameTypes, PlainType DEF TellSuccess

LEMMA CheckDeletableType ==
  ASSUME TypeOK, ReqInv, NEW j \in Job, CheckDeletable(j)
  PROVE  TypeOK' /\ ReqInv' /\ Others(j) /\ req'[j].at \in {"removing", "ended"}
<1>1. Fits(req[j], "removing")
  BY CatalogAsk DEF CheckDeletable, Fits, Before, Place, PullPlace, CatalogPlace, CopyPlace, InSlot, Guarded
<1> QED BY <1>1, SameTypes, PlainType DEF CheckDeletable

LEMMA FindSourceType ==
  ASSUME TypeOK, ReqInv, NEW j \in Job, FindSource(j)
  PROVE  TypeOK' /\ ReqInv' /\ Others(j) /\ req'[j].at \in {"finding target", "ended"}
<1>1. req[j].ask.kind = "copy"
  BY DEF FindSource, ReqInv, ReqOK, CopyPlace
<1>2. Fits(req[j], "finding target")
  BY <1>1 DEF FindSource, Fits, Before, Place, PullPlace, CatalogPlace, CopyPlace, InSlot, Guarded
<1> QED BY <1>2, SameTypes, PlainType DEF FindSource

LEMMA CheckUsersType ==
  ASSUME TypeOK, ReqInv, NEW j \in Job, CheckUsers(j)
  PROVE  TypeOK' /\ ReqInv' /\ Others(j) /\ req'[j].at \in {"finding file", "ended"}
<1>1. req[j].at \in CatalogPlace \ {"finding source", "finding target"}
  BY DEF CheckUsers, CatalogPlace
<1>2. req[j].ask.kind = "copy" => req[j].target \in Name
  BY <1>1, CatalogAsk
<1>3. Fits(req[j], "finding file")
  BY <1>2 DEF CheckUsers, Fits, Before, Place, PullPlace, CatalogPlace, CopyPlace, InSlot, Guarded
<1> QED BY <1>3, SameTypes, PlainType DEF CheckUsers

LEMMA OvertakeType ==
  ASSUME TypeOK, NEW j \in Job, Overtake(j)
  PROVE  /\ history' \in [moves : Nat, crashes : Nat, overtaken : SUBSET Job]
         /\ history'.moves = history.moves
         /\ history'.overtaken = history.overtaken \cup {k \in Job \ {j} : Running(k)}
BY DEF Overtake, TypeOK

(* Where the catalog's part of a request goes when a name has been removed. *)
LEMMA RemovedGoes ==
  ASSUME TypeOK, ReqInv, NEW j \in Job, Removed(j), req[j].at \in {"removing", "pruning"}
  PROVE  \/ req[j].ask.kind = "copy" /\ Fits(req[j], "aliasing") /\ Goes(j, "aliasing")
         \/ Ends(j)
<1>1. req[j].at \in CatalogPlace \ {"finding source", "finding target"}
  BY DEF CatalogPlace
<1>2. req[j].ask.kind = "copy" => req[j].target \in Name
  BY <1>1, CatalogAsk
<1> QED BY <1>2 DEF Removed, Asks, Fits, Before, Place, PullPlace, CatalogPlace, CopyPlace, InSlot, Guarded

LEMMA FindTargetType ==
  ASSUME TypeOK, ReqInv, NEW j \in Job, FindTarget(j)
  PROVE  /\ TypeOK' /\ ReqInv' /\ Others(j) /\ UNCHANGED <<disk, catalog, locks, holder, history>>
         /\ \/ req'[j].at = "ended"
            \/ /\ req'[j].at = "removing" /\ req'[j].ask = req[j].ask /\ req'[j].node = req[j].node
               /\ req[j].ask.tag # req[j].ask.from /\ req'[j].target = Target(req[j].ask.from)
<1>1. req[j].at = "finding target" /\ req[j].at \in CatalogPlace /\ req[j].ask.kind = "copy"
  BY DEF FindTarget, CatalogPlace, CopyPlace, ReqInv, ReqOK
<1>2. CASE Ends(j)
  BY <1>2, EndsReq DEF FindTarget, TypeOK, disk, catalog, locks
<1>3. CASE ~Ends(j)
  <2>1. /\ req[j].ask.tag # req[j].ask.from
        /\ req' = [req EXCEPT ![j].target = Target(req[j].ask.from), ![j].at = "removing"]
    BY <1>3 DEF FindTarget
  <2>2. PICK x \in Name : x = Target(req[j].ask.from)
    BY <1>1, CatalogAsk DEF Target, TypeOK
  <2>3. req \in [Job -> Req] /\ req[j] \in Req /\ "removing" \in Place
    BY DEF TypeOK, Place, CatalogPlace
  <2>4. PICK r1 \in Req : r1 = [req[j] EXCEPT !.target = x]
    BY <2>3, ReqFields
  <2>5. PICK r2 \in Req : r2 = [r1 EXCEPT !.at = "removing"]
    BY <2>3, ReqFields
  <2>6. r2.at = "removing" /\ r2.ask = req[j].ask /\ r2.node = req[j].node /\ r2.target = x
    BY <2>3, <2>4, <2>5 DEF Req
  <2>7. req' = [req EXCEPT ![j] = r2]
    BY <2>1, <2>2, <2>3, <2>4, <2>5 DEF Req
  <2>8. req' \in [Job -> Req] /\ Others(j) /\ req'[j] = r2
    BY <2>3, <2>7 DEF Others
  <2>9. ReqOK(r2)
    BY <1>1, <2>6, CatalogAsk DEF ReqOK, Before, PullPlace, CatalogPlace, CopyPlace, InSlot, Guarded
  <2>10. TypeOK' /\ ReqInv'
    BY <2>8, <2>9, OthersReq DEF FindTarget, TypeOK, disk, catalog, locks
  <2> QED BY <2>1, <2>2, <2>6, <2>8, <2>10 DEF FindTarget
<1> QED BY <1>2, <1>3

LEMMA RemoveAliasType ==
  ASSUME TypeOK, ReqInv, NEW j \in Job, RemoveAlias(j)
  PROVE  /\ TypeOK' /\ ReqInv' /\ Others(j) /\ UNCHANGED <<disk, sidecar, locks, holder>>
         /\ history'.moves = history.moves
         /\ req'[j].at \in {"aliasing", "checking users", "ended"}
<1>1. req[j].at = "removing"
  BY DEF RemoveAlias
<1>2. CASE Overtake(j) /\ Removed(j) /\ alias' = Restrict(alias, DOMAIN alias \ {req[j].ask.tag})
  <2>1. DOMAIN alias' \subseteq Name /\ alias' \in [DOMAIN alias' -> Name]
    BY <1>2 DEF Restrict, TypeOK
  <2>2. history' \in [moves : Nat, crashes : Nat, overtaken : SUBSET Job] /\ history'.moves = history.moves
    BY <1>2, OvertakeType
  <2>3. UNCHANGED <<owner, registry, holder, partial, data>> /\ dest' \in [Tag -> Job \cup {None}]
        /\ folder' \in BOOLEAN /\ sidecar' \in SUBSET Tag
    BY DEF RemoveAlias, TypeOK, disk, locks
  <2>4. CASE Ends(j)
    BY <2>1, <2>2, <2>3, <2>4, EndsReq DEF RemoveAlias, TypeOK
  <2>5. CASE Fits(req[j], "aliasing") /\ Goes(j, "aliasing")
    BY <2>1, <2>2, <2>3, <2>5, PlainType DEF RemoveAlias
  <2> QED BY <1>1, <1>2, <2>4, <2>5, RemovedGoes
<1>3. CASE Goes(j, "checking users") /\ UNCHANGED <<alias, history>>
  <2>1. req[j].at \in CatalogPlace \ {"finding source", "finding target"}
    BY <1>1 DEF CatalogPlace
  <2>2. req[j].ask.kind = "copy" => req[j].target \in Name
    BY <2>1, CatalogAsk
  <2>3. Fits(req[j], "checking users")
    BY <1>1, <2>2 DEF Fits, Before, Place, PullPlace, CatalogPlace, CopyPlace, InSlot, Guarded
  <2>4. UNCHANGED <<disk, catalog, locks, holder, history>>
    BY <1>3 DEF RemoveAlias, catalog
  <2>5. TypeOK' /\ ReqInv' /\ Others(j) /\ req'[j].at \in {"checking users", "ended"}
    BY <1>3, <2>3, <2>4, SameTypes, PlainType
  <2> QED BY <1>3, <2>5 DEF RemoveAlias
<1> QED BY <1>2, <1>3 DEF RemoveAlias

LEMMA FindPathType ==
  ASSUME TypeOK, ReqInv, NEW j \in Job, FindPath(j)
  PROVE  /\ TypeOK' /\ ReqInv' /\ Others(j) /\ UNCHANGED <<disk, catalog, locks, holder, history>>
         /\ \/ /\ req'[j].at = "unlinking" /\ req'[j].ask = req[j].ask /\ req'[j].node = req[j].node
               /\ req[j].ask.tag \in Installed /\ req'[j].found = FileOf(req[j].ask.tag)
               /\ req'[j].target = req[j].target
            \/ /\ req[j].ask.kind = "copy" /\ req'[j].at = "aliasing" /\ req'[j].ask = req[j].ask
               /\ req'[j].node = req[j].node /\ req'[j].target = req[j].target
            \/ req'[j].at = "ended"
<1>1. req[j].at = "finding file" /\ req[j].at \in CatalogPlace \ {"finding source", "finding target"}
      /\ UNCHANGED <<disk, catalog, locks, holder, history>>
  BY DEF FindPath, CatalogPlace
<1>2. req[j].ask.kind = "copy" => req[j].target \in Name
  BY <1>1, CatalogAsk
<1>3. CASE Ends(j)
  BY <1>1, <1>3, EndsReq DEF TypeOK, disk, catalog, locks
<1>4. CASE Asks(j, "copy") /\ Goes(j, "aliasing")
  <2>1. Fits(req[j], "aliasing") /\ "aliasing" \in Place
    BY <1>1, <1>2, <1>4 DEF Asks, Fits, Before, Place, PullPlace, CatalogPlace, CopyPlace, InSlot, Guarded
  <2>2. TypeOK' /\ ReqInv' /\ Others(j)
    BY <1>1, <1>4, <2>1, SameTypes, PlainType
  <2> QED BY <1>1, <1>4, <2>1, <2>2, GoesType DEF Asks
<1>5. CASE ~Ends(j) /\ ~(Asks(j, "copy") /\ Goes(j, "aliasing"))
  <2>1. /\ req[j].ask.tag \in Installed
        /\ req' = [req EXCEPT ![j].at = "unlinking", ![j].found = FileOf(req[j].ask.tag)]
    BY <1>5 DEF FindPath
  <2>2. PICK t \in Tag : t = FileOf(req[j].ask.tag)
    BY <2>1 DEF FileOf, Installed, TypeOK
  <2>3. req \in [Job -> Req] /\ req[j] \in Req /\ "unlinking" \in Place
    BY DEF TypeOK, Place, CatalogPlace
  <2>4. PICK r1 \in Req : r1 = [req[j] EXCEPT !.at = "unlinking"]
    BY <2>3, ReqFields
  <2>5. PICK r2 \in Req : r2 = [r1 EXCEPT !.found = t]
    BY ReqFields
  <2>6. /\ r2.at = "unlinking" /\ r2.ask = req[j].ask /\ r2.node = req[j].node /\ r2.found = t
        /\ r2.target = req[j].target
    BY <2>3, <2>4, <2>5 DEF Req
  <2>7. req' = [req EXCEPT ![j] = r2]
    BY <2>1, <2>2, <2>3, <2>4, <2>5 DEF Req
  <2>8. req' \in [Job -> Req] /\ Others(j) /\ req'[j] = r2
    BY <2>3, <2>7 DEF Others
  <2>9. ReqOK(r2)
    BY <1>1, <1>2, <2>6, CatalogAsk DEF ReqOK, Before, PullPlace, CatalogPlace, CopyPlace, InSlot, Guarded
  <2>10. TypeOK' /\ ReqInv'
    BY <1>1, <2>8, <2>9, OthersReq DEF TypeOK, disk, catalog, locks
  <2> QED BY <1>1, <2>1, <2>2, <2>6, <2>8, <2>10
<1> QED BY <1>3, <1>4, <1>5

LEMMA UnlinkSidecarType ==
  ASSUME TypeOK, ReqInv, NEW j \in Job, UnlinkSidecar(j)
  PROVE  /\ TypeOK' /\ ReqInv' /\ Others(j) /\ history'.moves = history.moves
         /\ req'[j].at = "unlinking file" /\ req'[j].ask = req[j].ask
<1>1. req[j].at = "unlinking" /\ req[j].at \in CatalogPlace \ {"finding source", "finding target"}
  BY DEF UnlinkSidecar, CatalogPlace
<1>2. req[j].found \in Tag /\ (req[j].ask.kind = "copy" => req[j].target \in Name)
  BY <1>1, CatalogAsk DEF ReqInv, ReqOK
<1>3. Fits(req[j], "unlinking file") /\ Goes(j, "unlinking file")
  BY <1>1, <1>2 DEF UnlinkSidecar, Fits, Before, Place, PullPlace, CatalogPlace, CopyPlace, InSlot, Guarded
<1>4. history' \in [moves : Nat, crashes : Nat, overtaken : SUBSET Job] /\ history'.moves = history.moves
  BY OvertakeType DEF UnlinkSidecar
<1>5. TypeOK' /\ ReqInv' /\ Others(j)
  BY <1>3, <1>4, PlainType DEF UnlinkSidecar, TypeOK, disk, locks
<1> QED BY <1>3, <1>4, <1>5, GoesType DEF Fits

LEMMA UnlinkFileType ==
  ASSUME TypeOK, ReqInv, NEW j \in Job, UnlinkFile(j)
  PROVE  /\ TypeOK' /\ ReqInv' /\ Others(j) /\ history'.moves = history.moves
         /\ req'[j].at = "pruning" /\ req'[j].ask = req[j].ask
<1>1. req[j].at = "unlinking file" /\ req[j].at \in CatalogPlace \ {"finding source", "finding target"}
  BY DEF UnlinkFile, CatalogPlace
<1>2. req[j].found \in Tag /\ (req[j].ask.kind = "copy" => req[j].target \in Name)
  BY <1>1, CatalogAsk DEF ReqInv, ReqOK
<1>3. Fits(req[j], "pruning") /\ Goes(j, "pruning")
  BY <1>1, <1>2 DEF UnlinkFile, Fits, Before, Place, PullPlace, CatalogPlace, CopyPlace, InSlot, Guarded
<1>4. history' \in [moves : Nat, crashes : Nat, overtaken : SUBSET Job] /\ history'.moves = history.moves
  BY OvertakeType DEF UnlinkFile
<1>5. TypeOK' /\ ReqInv' /\ Others(j)
  BY <1>3, <1>4, PlainType DEF UnlinkFile, TypeOK, catalog, locks
<1> QED BY <1>3, <1>4, <1>5, GoesType DEF Fits

LEMMA PruneType ==
  ASSUME TypeOK, ReqInv, NEW j \in Job, PruneEmptyAncestors(j)
  PROVE  TypeOK' /\ ReqInv' /\ Others(j) /\ req'[j].at \in {"aliasing", "ended"}
<1>1. /\ UNCHANGED <<owner, registry, holder, partial, data, history, dest, sidecar, alias>>
      /\ folder' \in BOOLEAN
  BY DEF PruneEmptyAncestors, TypeOK, catalog, locks
<1>2. CASE Ends(j)
  BY <1>1, <1>2, EndsReq DEF TypeOK
<1>3. CASE Fits(req[j], "aliasing") /\ Goes(j, "aliasing")
  BY <1>1, <1>3, PlainType DEF TypeOK
<1> QED BY <1>2, <1>3, RemovedGoes DEF PruneEmptyAncestors

LEMMA WriteAliasType ==
  ASSUME TypeOK, ReqInv, NEW j \in Job, WriteAlias(j)
  PROVE  /\ TypeOK' /\ ReqInv' /\ Others(j) /\ history'.moves = history.moves /\ req'[j].at = "ended"
         /\ req[j].target \in Name
<1>1. /\ req[j].at = "aliasing" /\ req[j].at \in CatalogPlace \ {"finding source", "finding target"}
      /\ req[j].ask.kind = "copy"
  BY DEF WriteAlias, CatalogPlace, CopyPlace, ReqInv, ReqOK
<1>2. req[j].target \in Name /\ req[j].ask.tag \in Name
  BY <1>1, CatalogAsk
<1>3. history' \in [moves : Nat, crashes : Nat, overtaken : SUBSET Job] /\ history'.moves = history.moves
  BY OvertakeType DEF WriteAlias
<1>4. req' \in [Job -> Req] /\ ReqInv' /\ Others(j) /\ req'[j].at = "ended"
  BY EndsReq DEF WriteAlias
<1>5. DOMAIN alias' \subseteq Name /\ alias' \in [DOMAIN alias' -> Name]
  BY <1>2 DEF WriteAlias, TypeOK
<1>6. TypeOK'
  BY <1>3, <1>4, <1>5 DEF WriteAlias, TypeOK, disk, locks
<1> QED BY <1>2, <1>3, <1>4, <1>6

LEMMA MoveLeaseType ==
  ASSUME TypeOK, ReqInv, MoveLease
  PROVE  TypeOK' /\ ReqInv' /\ history'.moves # 0 /\ history'.overtaken = history.overtaken
<1>1. history' = [history EXCEPT !.moves = history.moves + 1] /\ holder' \in Node
      /\ UNCHANGED <<disk, catalog, locks, req>>
  BY DEF MoveLease
<1>2. /\ history' \in [moves : Nat, crashes : Nat, overtaken : SUBSET Job]
      /\ history'.moves # 0 /\ history'.overtaken = history.overtaken
  <2>1. PICK h \in [moves : Nat, crashes : Nat, overtaken : SUBSET Job] : h = history
    BY DEF TypeOK
  <2>2. history' = [h EXCEPT !.moves = h.moves + 1]
    BY <1>1, <2>1
  <2> QED BY <2>1, <2>2
<1>3. TypeOK'
  BY <1>1, <1>2 DEF TypeOK, disk, catalog, locks
<1> QED BY <1>1, <1>2, <1>3 DEF ReqInv, ReqOK

(* The requests a crash of n ends. *)
Gone(n) == {j \in Job : Running(j) /\ req[j].node = n}

LEMMA CrashType ==
  ASSUME TypeOK, ReqInv, NEW n \in Node, Crash(n)
  PROVE  /\ TypeOK' /\ ReqInv' /\ UNCHANGED <<disk, catalog, holder>>
         /\ history'.moves = history.moves /\ history'.overtaken = history.overtaken
         /\ \A j \in Job : req'[j] = (IF j \in Gone(n) THEN Ended ELSE req[j])
         /\ \A j \in Gone(n) : req'[j].at = "ended"
         /\ registry' = [registry EXCEPT ![n] = [t \in Tag |-> NoSlot]]
         /\ owner' = [lock \in Job |-> IF owner[lock] \in Gone(n) THEN None ELSE owner[lock]]
<1>1. /\ req' = [j \in Job |-> IF j \in Gone(n) THEN Ended ELSE req[j]]
      /\ registry' = [registry EXCEPT ![n] = [t \in Tag |-> NoSlot]]
      /\ owner' = [lock \in Job |-> IF owner[lock] \in Gone(n) THEN None ELSE owner[lock]]
      /\ history' = [history EXCEPT !.crashes = history.crashes + 1]
      /\ UNCHANGED <<disk, catalog, holder>>
  BY DEF Crash, Gone
<1>2. req' \in [Job -> Req] /\ \A j \in Job : req'[j] = (IF j \in Gone(n) THEN Ended ELSE req[j])
  BY <1>1, FreshType DEF TypeOK
<1>3. ReqInv'
  <2> SUFFICES ASSUME NEW j \in Job PROVE ReqOK(req'[j])
    BY DEF ReqInv
  <2>1. CASE j \in Gone(n)
    BY <1>2, <2>1, FreshType DEF ReqOK, Before, PullPlace, CatalogPlace, CopyPlace, InSlot, Guarded
  <2>2. CASE j \notin Gone(n)
    BY <1>2, <2>2 DEF ReqInv
  <2> QED BY <2>1, <2>2
<1>4. registry' \in [Node -> [Tag -> Slot]] /\ owner' \in [Job -> Job \cup {None}]
  BY <1>1 DEF TypeOK, Slot, NoSlot
<1>5. history' \in [moves : Nat, crashes : Nat, overtaken : SUBSET Job]
      /\ history'.moves = history.moves /\ history'.overtaken = history.overtaken
  BY <1>1 DEF TypeOK
<1>6. TypeOK'
  BY <1>1, <1>2, <1>4, <1>5 DEF TypeOK, disk, catalog
<1>7. \A j \in Gone(n) : req'[j].at = "ended"
  BY <1>2, FreshType DEF Gone
<1> QED BY <1>1, <1>2, <1>3, <1>5, <1>6, <1>7

LEMMA InitType == ASSUME Init PROVE TypeOK /\ ReqInv
<1>1. /\ Empty \in [1..Blocks -> {"hole", "good", "bad"}] /\ NoSlot \in Slot
      /\ Fresh \in Req /\ Fresh.at = "new" /\ Fresh.pos = 0
  BY FreshType DEF Empty, NoSlot, Slot, Fresh
<1>2. req = [j \in Job |-> Fresh]
  BY DEF Init
<1>3. TypeOK
  <2>1. alias = << >> /\ DOMAIN alias = {}
    BY DEF Init
  <2>2. DOMAIN alias \subseteq Name /\ alias \in [DOMAIN alias -> Name]
    BY <2>1
  <2>3. history \in [moves : Nat, crashes : Nat, overtaken : SUBSET Job]
    BY DEF Init
  <2>4. /\ dest \in [Tag -> Job \cup {None}] /\ partial \in [Tag -> Job \cup {None}]
        /\ data \in [Job -> [1..Blocks -> {"hole", "good", "bad"}]] /\ folder \in BOOLEAN
    BY <1>1 DEF Init
  <2>5. /\ registry \in [Node -> [Tag -> Slot]] /\ owner \in [Job -> Job \cup {None}]
        /\ holder \in Node /\ req \in [Job -> Req] /\ sidecar \in SUBSET Tag
    BY <1>1 DEF Init
  <2> QED BY <2>2, <2>3, <2>4, <2>5 DEF TypeOK
<1>4. ReqOK(Fresh)
  BY <1>1 DEF ReqOK, Before, PullPlace, CatalogPlace, CopyPlace, InSlot, Guarded
<1> QED BY <1>2, <1>3, <1>4 DEF ReqInv

-----------------------------------------------------------------------------
(* The slots of the coordinator *)

LEMMA WaitersFinite ==
  ASSUME NEW n \in Node, NEW t \in Tag
  PROVE  IsFiniteSet(Waiters(n, t)) /\ Cardinality(Waiters(n, t)) \in Nat
<1>1. IsFiniteSet(Job) /\ Waiters(n, t) \subseteq Job
  BY LibraryAssumption DEF Waiters
<1> QED BY <1>1, FS_Subset, FS_CardinalityType

(* What the two parts of SlotInv ask of one job, and of one slot. *)
LockOK(j) ==
  /\ req[j].at \in {"waiting"} \cup Guarded =>
       req[j].lock \in Job /\ registry[req[j].node][req[j].ask.tag].lock = req[j].lock
  /\ req[j].at \in Guarded => owner[req[j].lock] = j

LEMMA SlotParts ==
  SlotInv <=> /\ \A n \in Node, t \in Tag : registry[n][t].waiters = Cardinality(Waiters(n, t))
              /\ \A j \in Job : LockOK(j)
BY Zenon DEF SlotInv, LockOK

(* A step that leaves the locks alone, and its request as far from them as it was. *)
LEMMA SlotSteady ==
  ASSUME SlotInv, NEW j \in Job, Others(j), UNCHANGED locks,
         req'[j].at \in InSlot <=> req[j].at \in InSlot,
         req[j].at \in InSlot => req'[j].node = req[j].node /\ req'[j].ask = req[j].ask,
         req'[j].at \in {"waiting"} \cup Guarded =>
           req[j].at \in {"waiting"} \cup Guarded /\ req'[j].lock = req[j].lock,
         req'[j].at \in Guarded => req[j].at \in Guarded
  PROVE  SlotInv'
<1>1. UNCHANGED <<registry, owner>>
  BY DEF locks
<1>2. ASSUME NEW n \in Node, NEW t \in Tag PROVE Waiters(n, t)' = Waiters(n, t)
  BY DEF Waiters, Others
<1>3. ASSUME NEW k \in Job PROVE LockOK(k)'
  <2>1. LockOK(k)
    BY SlotParts
  <2>2. CASE k = j
    BY <1>1, <2>1, <2>2 DEF LockOK, InSlot
  <2>3. CASE k # j
    BY <1>1, <2>1, <2>3 DEF LockOK, Others
  <2> QED BY <2>2, <2>3
<1>4. \A n \in Node, t \in Tag : registry[n][t].waiters = Cardinality(Waiters(n, t))
  BY DEF SlotInv
<1>5. \A n \in Node, t \in Tag : registry'[n][t].waiters = Cardinality(Waiters(n, t)')
  BY <1>1, <1>2, <1>4
<1> QED BY <1>3, <1>5 DEF SlotInv, LockOK

LEMMA SlotOut ==
  ASSUME SlotInv, NEW j \in Job, Others(j), UNCHANGED locks,
         req[j].at \notin InSlot, req'[j].at \notin InSlot
  PROVE  SlotInv'
BY SlotSteady DEF InSlot

LEMMA AcquireSlotKeeps ==
  ASSUME TypeOK, ReqInv, SlotInv, NEW j \in Job, AcquireSlot(j)
  PROVE  SlotInv'
<1>1. PICK n \in Node, t \in Tag, k \in Job :
        /\ n = req[j].node /\ t = req[j].ask.tag
        /\ k = (IF registry[n][t].lock = None THEN j ELSE registry[n][t].lock)
        /\ registry' = [registry EXCEPT ![n][t] = [lock |-> k, waiters |-> registry[n][t].waiters + 1]]
        /\ req'[j].lock = k
  BY AcquireSlotType
<1>2. /\ Others(j) /\ req[j].at = "taking a slot" /\ UNCHANGED owner
      /\ req'[j].at = "waiting" /\ req'[j].node = n /\ req'[j].ask.tag = t
  BY <1>1, AcquireSlotType DEF AcquireSlot
<1>3. registry \in [Node -> [Tag -> Slot]]
  BY DEF TypeOK
<1>4. /\ registry'[n][t].waiters = registry[n][t].waiters + 1 /\ registry'[n][t].lock = k
      /\ \A m \in Node, u \in Tag : m # n \/ u # t => registry'[m][u] = registry[m][u]
  BY <1>1, <1>3
<1>5. ASSUME NEW m \in Node, NEW u \in Tag PROVE registry'[m][u].waiters = Cardinality(Waiters(m, u)')
  <2>1. registry[m][u].waiters = Cardinality(Waiters(m, u))
    BY DEF SlotInv
  <2>2. CASE m = n /\ u = t
    <3>1. Waiters(n, t)' = Waiters(n, t) \cup {j} /\ j \notin Waiters(n, t)
      BY <1>2 DEF Waiters, Others, InSlot, Guarded
    <3> QED BY <1>4, <2>1, <2>2, <3>1, WaitersFinite, FS_AddElement
  <2>3. CASE m # n \/ u # t
    <3>1. Waiters(m, u)' = Waiters(m, u)
      BY <1>2, <2>3 DEF Waiters, Others, InSlot, Guarded
    <3> QED BY <1>4, <2>1, <2>3, <3>1
  <2> QED BY <2>2, <2>3
<1>6. ASSUME NEW i \in Job PROVE LockOK(i)'
  <2>1. CASE i = j
    BY <1>1, <1>2, <1>4, <2>1 DEF LockOK, Guarded
  <2>2. CASE i # j
    <3>1. LockOK(i) /\ req'[i] = req[i]
      BY <1>2, <2>2, SlotParts DEF Others
    <3>2. CASE req[i].at \in {"waiting"} \cup Guarded
      <4>1. req[i].lock \in Job /\ registry[req[i].node][req[i].ask.tag].lock = req[i].lock
        BY <3>1, <3>2 DEF LockOK
      <4>2. req[i].node \in Node /\ req[i].ask.tag \in Tag
        BY <3>2, PullAsk DEF PullPlace, InSlot
      <4>3. registry'[req[i].node][req[i].ask.tag].lock = req[i].lock
        <5>1. None \notin Job
          BY LibraryAssumption
        <5>2. CASE req[i].node = n /\ req[i].ask.tag = t
          BY <1>1, <1>4, <4>1, <5>1, <5>2
        <5>3. CASE req[i].node # n \/ req[i].ask.tag # t
          BY <1>4, <4>1, <4>2, <5>3
        <5> QED BY <5>2, <5>3
      <4> QED BY <1>2, <3>1, <4>1, <4>3 DEF LockOK
    <3>3. CASE req[i].at \notin {"waiting"} \cup Guarded
      BY <3>1, <3>3 DEF LockOK
    <3> QED BY <3>2, <3>3
  <2> QED BY <2>1, <2>2
<1> QED BY <1>5, <1>6 DEF SlotInv, LockOK

LEMMA EnterGuardKeeps ==
  ASSUME TypeOK, ReqInv, SlotInv, NEW j \in Job, EnterGuard(j)
  PROVE  SlotInv' /\ req[j].lock \in Job
<1>1. LockOK(j) /\ req[j].at = "waiting"
  BY SlotParts DEF EnterGuard
<1>2. PICK k \in Job : k = req[j].lock
  BY <1>1 DEF LockOK
<1>3. /\ Others(j) /\ req'[j].at = "guarded"
      /\ req'[j].node = req[j].node /\ req'[j].ask = req[j].ask /\ req'[j].lock = k
  BY <1>2, EnterGuardType
<1>4. owner[k] = None /\ owner' = [owner EXCEPT ![k] = j] /\ UNCHANGED registry
  BY <1>2 DEF EnterGuard
<1>5. owner'[k] = j /\ \A l \in Job \ {k} : owner'[l] = owner[l]
  BY <1>4 DEF TypeOK
<1>6. ASSUME NEW n \in Node, NEW t \in Tag PROVE Waiters(n, t)' = Waiters(n, t)
  BY <1>1, <1>3 DEF Waiters, Others, InSlot, Guarded
<1>7. ASSUME NEW i \in Job PROVE LockOK(i)'
  <2>1. LockOK(i)
    BY SlotParts
  <2>2. CASE i = j
    BY <1>1, <1>2, <1>3, <1>4, <1>5, <2>1, <2>2 DEF LockOK, Guarded
  <2>3. CASE i # j
    <3>1. req'[i] = req[i]
      BY <1>3, <2>3 DEF Others
    <3>2. CASE req[i].at \in Guarded
      <4>1. owner[req[i].lock] = i /\ req[i].lock \in Job \ {k}
        BY <1>4, <2>1, <3>2, LibraryAssumption DEF LockOK
      <4> QED BY <1>4, <1>5, <2>1, <3>1, <4>1 DEF LockOK
    <3>3. CASE req[i].at \notin Guarded
      BY <1>4, <2>1, <3>1, <3>3 DEF LockOK
    <3> QED BY <3>2, <3>3
  <2> QED BY <2>2, <2>3
<1>8. \A n \in Node, t \in Tag : registry'[n][t].waiters = Cardinality(Waiters(n, t)')
  BY <1>4, <1>6 DEF SlotInv
<1> QED BY <1>1, <1>7, <1>8 DEF SlotInv, LockOK

LEMMA LeaveGuardKeeps ==
  ASSUME TypeOK, ReqInv, SlotInv, NEW j \in Job, LeaveGuard(j)
  PROVE  SlotInv'
<1>1. LockOK(j) /\ req[j].at = "unlocking"
  BY SlotParts DEF LeaveGuard
<1>2. PICK k \in Job : k = req[j].lock /\ owner[k] = j
  BY <1>1 DEF LockOK, Guarded
<1>3. Others(j) /\ req'[j].at = "leaving" /\ req'[j].node = req[j].node /\ req'[j].ask = req[j].ask
  BY LeaveGuardType
<1>4. owner' = [owner EXCEPT ![k] = None] /\ UNCHANGED registry
  BY <1>2 DEF LeaveGuard
<1>5. \A l \in Job \ {k} : owner'[l] = owner[l]
  BY <1>4 DEF TypeOK
<1>6. ASSUME NEW n \in Node, NEW t \in Tag PROVE Waiters(n, t)' = Waiters(n, t)
  BY <1>1, <1>3 DEF Waiters, Others, InSlot, Guarded
<1>7. ASSUME NEW i \in Job PROVE LockOK(i)'
  <2>1. LockOK(i)
    BY SlotParts
  <2>2. CASE i = j
    BY <1>3, <2>2 DEF LockOK, Guarded
  <2>3. CASE i # j
    <3>1. req'[i] = req[i]
      BY <1>3, <2>3 DEF Others
    <3>2. CASE req[i].at \in Guarded
      <4>1. owner[req[i].lock] = i /\ req[i].lock \in Job \ {k}
        BY <1>2, <2>1, <2>3, <3>2 DEF LockOK
      <4> QED BY <1>4, <1>5, <2>1, <3>1, <4>1 DEF LockOK
    <3>3. CASE req[i].at \notin Guarded
      BY <1>4, <2>1, <3>1, <3>3 DEF LockOK
    <3> QED BY <3>2, <3>3
  <2> QED BY <2>2, <2>3
<1>8. \A n \in Node, t \in Tag : registry'[n][t].waiters = Cardinality(Waiters(n, t)')
  BY <1>4, <1>6 DEF SlotInv
<1> QED BY <1>7, <1>8 DEF SlotInv, LockOK

(* Who leaves is counted, so the count is not zero; when it is the last one, nobody's lock goes. *)
LEMMA ReleaseSlotKeeps ==
  ASSUME TypeOK, ReqInv, SlotInv, NEW j \in Job, ReleaseSlot(j)
  PROVE  SlotInv' /\ registry[req[j].node][req[j].ask.tag].waiters > 0
<1>1. req[j].at = "leaving" /\ req[j].at \in PullPlace
  BY DEF ReleaseSlot, PullPlace, InSlot
<1>2. PICK n \in Node, t \in Tag : n = req[j].node /\ t = req[j].ask.tag
  BY <1>1, PullAsk
<1>3. /\ registry[n][t].waiters = Cardinality(Waiters(n, t)) /\ j \in Waiters(n, t)
      /\ registry \in [Node -> [Tag -> Slot]]
  BY <1>1, <1>2 DEF SlotInv, Waiters, InSlot, TypeOK
<1>4. /\ IsFiniteSet(Waiters(n, t) \ {j})
      /\ Cardinality(Waiters(n, t) \ {j}) = registry[n][t].waiters - 1
      /\ registry[n][t].waiters > 0
  <2>1. /\ IsFiniteSet(Waiters(n, t) \ {j})
        /\ Cardinality(Waiters(n, t) \ {j}) = Cardinality(Waiters(n, t)) - 1
    BY <1>3, WaitersFinite, FS_RemoveElement
  <2>2. Cardinality(Waiters(n, t) \ {j}) \in Nat /\ Cardinality(Waiters(n, t)) \in Nat
    BY <2>1, WaitersFinite, FS_CardinalityType
  <2> QED BY <1>3, <2>1, <2>2
<1>5. Others(j) /\ req'[j].at \in {"reading", "ended"}
  BY <1>2, <1>4, ReleaseSlotType
<1>6. Waiters(n, t)' = Waiters(n, t) \ {j}
      /\ \A m \in Node, u \in Tag : m # n \/ u # t => Waiters(m, u)' = Waiters(m, u)
  BY <1>1, <1>2, <1>5 DEF Waiters, Others, InSlot, Guarded
<1>7. PICK w \in Slot :
        /\ registry' = [registry EXCEPT ![n][t] = w] /\ w.waiters = registry[n][t].waiters - 1
        /\ registry[n][t].waiters - 1 = 0 \/ w.lock = registry[n][t].lock
  <2>1. registry[n][t] \in Slot /\ registry[n][t].waiters - 1 \in Nat
    BY <1>3, <1>4 DEF Slot
  <2>2. PICK w \in Slot : w = [registry[n][t] EXCEPT !.waiters = registry[n][t].waiters - 1]
    BY <2>1 DEF Slot
  <2>3. w.waiters = registry[n][t].waiters - 1 /\ w.lock = registry[n][t].lock
    BY <2>1, <2>2 DEF Slot
  <2>4. CASE registry[n][t].waiters - 1 = 0
    <3>1. registry' = [registry EXCEPT ![n][t] = NoSlot] /\ NoSlot \in Slot /\ NoSlot.waiters = 0
      BY <1>2, <2>4 DEF ReleaseSlot, NoSlot, Slot
    <3> QED BY <2>4, <3>1
  <2>5. CASE registry[n][t].waiters - 1 # 0
    BY <1>2, <2>2, <2>3, <2>5 DEF ReleaseSlot
  <2> QED BY <2>4, <2>5
<1>8. registry'[n][t] = w /\ \A m \in Node, u \in Tag : m # n \/ u # t => registry'[m][u] = registry[m][u]
  BY <1>3, <1>7
<1>9. \A m \in Node, u \in Tag : registry'[m][u].waiters = Cardinality(Waiters(m, u)')
  <2> SUFFICES ASSUME NEW m \in Node, NEW u \in Tag
               PROVE  registry'[m][u].waiters = Cardinality(Waiters(m, u)')
    OBVIOUS
  <2>1. CASE m = n /\ u = t
    BY <1>4, <1>6, <1>7, <1>8, <2>1
  <2>2. CASE m # n \/ u # t
    BY <1>6, <1>8, <2>2 DEF SlotInv
  <2> QED BY <2>1, <2>2
<1>10. ASSUME NEW i \in Job PROVE LockOK(i)'
  <2>1. LockOK(i)
    BY SlotParts
  <2>2. CASE i = j
    BY <1>5, <2>2 DEF LockOK, Guarded
  <2>3. CASE i # j /\ req[i].at \in {"waiting"} \cup Guarded
    <3>1. req'[i] = req[i] /\ req[i].node \in Node /\ req[i].ask.tag \in Tag
      BY <1>5, <2>3, PullAsk DEF Others, PullPlace, InSlot
    <3>2. registry'[req[i].node][req[i].ask.tag].lock = registry[req[i].node][req[i].ask.tag].lock
      <4>1. CASE req[i].node = n /\ req[i].ask.tag = t
        <5>1. i \in Waiters(n, t) \ {j}
          BY <2>3, <4>1 DEF Waiters, InSlot
        <5>2. registry[n][t].waiters - 1 # 0
          BY <1>4, <5>1, FS_EmptySet
        <5> QED BY <1>7, <1>8, <4>1, <5>2
      <4>2. CASE req[i].node # n \/ req[i].ask.tag # t
        BY <1>8, <3>1, <4>2
      <4> QED BY <4>1, <4>2
    <3> QED BY <2>1, <3>1, <3>2 DEF LockOK, ReleaseSlot
  <2>4. CASE i # j /\ req[i].at \notin {"waiting"} \cup Guarded
    BY <1>5, <2>4 DEF LockOK, Others
  <2> QED BY <2>2, <2>3, <2>4
<1> QED BY <1>2, <1>4, <1>9, <1>10 DEF SlotInv, LockOK

LEMMA CrashKeepsSlots ==
  ASSUME TypeOK, ReqInv, SlotInv, NEW n \in Node, Crash(n)
  PROVE  SlotInv'
<1>1. /\ \A j \in Job : req'[j] = (IF j \in Gone(n) THEN Ended ELSE req[j])
      /\ \A j \in Gone(n) : req'[j].at = "ended"
      /\ registry' = [registry EXCEPT ![n] = [t \in Tag |-> NoSlot]]
      /\ owner' = [lock \in Job |-> IF owner[lock] \in Gone(n) THEN None ELSE owner[lock]]
  BY CrashType
<1>2. \A m \in Node \ {n}, t \in Tag : registry'[m][t] = registry[m][t]
  BY <1>1 DEF TypeOK
<1>3. \A t \in Tag : registry'[n][t] = NoSlot
  BY <1>1 DEF TypeOK
<1>4. \A m \in Node, t \in Tag : registry'[m][t].waiters = Cardinality(Waiters(m, t)')
  <2> SUFFICES ASSUME NEW m \in Node, NEW t \in Tag
               PROVE  registry'[m][t].waiters = Cardinality(Waiters(m, t)')
    OBVIOUS
  <2>1. CASE m = n
    <3>1. Waiters(n, t)' = {}
      BY <1>1 DEF Waiters, Gone, Running, InSlot, Guarded
    <3> QED BY <1>3, <2>1, <3>1, FS_EmptySet DEF NoSlot
  <2>2. CASE m # n
    <3>1. Waiters(m, t)' = Waiters(m, t)
      BY <1>1, <2>2 DEF Waiters, Gone, InSlot, Guarded
    <3> QED BY <1>2, <2>2, <3>1 DEF SlotInv
  <2> QED BY <2>1, <2>2
<1>5. ASSUME NEW i \in Job PROVE LockOK(i)'
  <2>1. LockOK(i)
    BY SlotParts
  <2>2. CASE i \in Gone(n)
    BY <1>1, <2>2 DEF LockOK, Guarded
  <2>3. CASE i \notin Gone(n) /\ req[i].at \in {"waiting"} \cup Guarded
    <3>1. req'[i] = req[i] /\ req[i].node \in Node \ {n} /\ req[i].ask.tag \in Tag
      BY <1>1, <2>3, PullAsk DEF PullPlace, InSlot, Gone, Running, Guarded
    <3>2. registry'[req[i].node][req[i].ask.tag] = registry[req[i].node][req[i].ask.tag]
      BY <1>2, <3>1
    <3>3. owner'[req[i].lock] = (IF owner[req[i].lock] \in Gone(n) THEN None ELSE owner[req[i].lock])
      BY <1>1, <2>1, <2>3 DEF LockOK
    <3> QED BY <2>1, <2>3, <3>1, <3>2, <3>3 DEF LockOK
  <2>4. CASE i \notin Gone(n) /\ req[i].at \notin {"waiting"} \cup Guarded
    BY <1>1, <2>4 DEF LockOK
  <2> QED BY <2>2, <2>3, <2>4
<1> QED BY <1>4, <1>5 DEF SlotInv, LockOK

LEMMA InitSlots == ASSUME Init PROVE SlotInv
<1>1. \A j \in Job : req[j].at = "new"
  BY FreshType DEF Init, Fresh
<1>2. \A n \in Node, t \in Tag : Waiters(n, t) = {}
  BY <1>1 DEF Waiters, InSlot, Guarded
<1>3. \A n \in Node, t \in Tag : registry[n][t].waiters = Cardinality(Waiters(n, t))
  BY <1>2, FS_EmptySet DEF Init, NoSlot
<1> QED BY <1>1, <1>3 DEF SlotInv, Guarded

LEMMA PullKeepsSlots ==
  ASSUME TypeOK, ReqInv, SlotInv, NEW j \in Job, PullStep(j)
  PROVE  TypeOK' /\ ReqInv' /\ SlotInv' /\ Others(j)
<1>1. CASE Resolve(j)
  <2>1. TypeOK' /\ ReqInv' /\ Others(j) /\ req'[j].at \in {"taking a slot", "ended"}
    BY <1>1, ResolveType
  <2> QED BY <1>1, <2>1, SlotOut DEF Resolve, InSlot, Guarded
<1>2. CASE AcquireSlot(j)
  BY <1>2, AcquireSlotType, AcquireSlotKeeps
<1>3. CASE EnterGuard(j)
  BY <1>3, EnterGuardType, EnterGuardKeeps
<1>4. CASE FindFile(j)
  <2>1. /\ TypeOK' /\ ReqInv' /\ Others(j) /\ req'[j].at \in {"unlocking", "opening"}
        /\ req'[j].node = req[j].node /\ req'[j].ask = req[j].ask /\ req'[j].lock = req[j].lock
    BY <1>4, FindFileType
  <2> QED BY <1>4, <2>1, SlotSteady DEF FindFile, InSlot, Guarded
<1>5. CASE OpenPartial(j)
  <2>1. /\ TypeOK' /\ ReqInv' /\ Others(j) /\ req'[j].at \in {"unlocking", "streaming"}
        /\ req'[j].node = req[j].node /\ req'[j].ask = req[j].ask /\ req'[j].lock = req[j].lock
    BY <1>5, OpenPartialType
  <2> QED BY <1>5, <2>1, SlotSteady DEF OpenPartial, InSlot, Guarded
<1>6. CASE Chunk(j)
  <2>1. /\ TypeOK' /\ ReqInv' /\ Others(j) /\ req'[j].at \in {"unlocking", "streaming"}
        /\ req'[j].node = req[j].node /\ req'[j].ask = req[j].ask /\ req'[j].lock = req[j].lock
    BY <1>6, ChunkType DEF GivesUp
  <2> QED BY <1>6, <2>1, SlotSteady DEF Chunk, InSlot, Guarded
<1>7. CASE Rename(j)
  <2>1. /\ TypeOK' /\ ReqInv' /\ Others(j) /\ req'[j].at = "unlocking"
        /\ req'[j].node = req[j].node /\ req'[j].ask = req[j].ask /\ req'[j].lock = req[j].lock
    BY <1>7, RenameType DEF GivesUp
  <2> QED BY <1>7, <2>1, SlotSteady DEF Rename, InSlot, Guarded
<1>8. CASE LeaveGuard(j)
  BY <1>8, LeaveGuardType, LeaveGuardKeeps
<1>9. CASE ReleaseSlot(j)
  BY <1>9, ReleaseSlotType, ReleaseSlotKeeps
<1>10. CASE ReadHeader(j)
  <2>1. TypeOK' /\ ReqInv' /\ Others(j) /\ req'[j].at \in {"describing", "ended"}
    BY <1>10, ReadHeaderType
  <2> QED BY <1>10, <2>1, SlotOut DEF ReadHeader, InSlot, Guarded
<1>11. CASE WriteSidecar(j)
  <2>1. TypeOK' /\ ReqInv' /\ Others(j) /\ req'[j].at \in {"telling", "ended"}
    BY <1>11, WriteSidecarType
  <2> QED BY <1>11, <2>1, SlotOut DEF WriteSidecar, InSlot, Guarded
<1>12. CASE TellSuccess(j)
  <2>1. TypeOK' /\ ReqInv' /\ Others(j) /\ req'[j].at \in {"telling", "ended"}
    BY <1>12, TellSuccessType
  <2>2. req'[j].at \notin InSlot
    BY <2>1 DEF InSlot, Guarded
  <2> QED BY <1>12, <2>1, <2>2, SlotOut DEF TellSuccess, InSlot, Guarded
<1> QED BY <1>1, <1>2, <1>3, <1>4, <1>5, <1>6, <1>7, <1>8, <1>9, <1>10, <1>11, <1>12 DEF PullStep

(* The catalog's steps stay among the places of the catalog. *)
LEMMA CatalogType ==
  ASSUME TypeOK, ReqInv, NEW j \in Job, CatalogStep(j)
  PROVE  /\ TypeOK' /\ ReqInv' /\ Others(j) /\ UNCHANGED <<partial, data, locks, holder>>
         /\ history'.moves = history.moves
         /\ req[j].at \in CatalogPlace /\ req'[j].at \in CatalogPlace \cup {"ended"}
<1>1. CASE CheckDeletable(j)
  BY <1>1, CheckDeletableType DEF CheckDeletable, CatalogPlace, disk, locks
<1>2. CASE FindSource(j)
  BY <1>2, FindSourceType DEF FindSource, CatalogPlace, CopyPlace, disk, locks
<1>3. CASE FindTarget(j)
  BY <1>3, FindTargetType DEF FindTarget, CatalogPlace, CopyPlace, disk, locks
<1>4. CASE RemoveAlias(j)
  BY <1>4, RemoveAliasType DEF RemoveAlias, CatalogPlace, CopyPlace, disk, locks
<1>5. CASE CheckUsers(j)
  BY <1>5, CheckUsersType DEF CheckUsers, CatalogPlace, disk, locks
<1>6. CASE FindPath(j)
  BY <1>6, FindPathType DEF FindPath, CatalogPlace, CopyPlace, disk, locks
<1>7. CASE UnlinkSidecar(j)
  BY <1>7, UnlinkSidecarType DEF UnlinkSidecar, CatalogPlace, disk, locks
<1>8. CASE UnlinkFile(j)
  BY <1>8, UnlinkFileType DEF UnlinkFile, CatalogPlace, disk, locks
<1>9. CASE PruneEmptyAncestors(j)
  BY <1>9, PruneType DEF PruneEmptyAncestors, CatalogPlace, CopyPlace, locks
<1>10. CASE WriteAlias(j)
  BY <1>10, WriteAliasType DEF WriteAlias, CatalogPlace, CopyPlace, disk, locks
<1> QED
  BY <1>1, <1>2, <1>3, <1>4, <1>5, <1>6, <1>7, <1>8, <1>9, <1>10 DEF CatalogStep

LEMMA CatalogKeepsSlots ==
  ASSUME TypeOK, ReqInv, SlotInv, NEW j \in Job, CatalogStep(j)
  PROVE  SlotInv'
<1>1. /\ Others(j) /\ UNCHANGED locks
      /\ req[j].at \in CatalogPlace /\ req'[j].at \in CatalogPlace \cup {"ended"}
  BY CatalogType DEF locks
<1> QED BY <1>1, SlotOut DEF CatalogPlace, CopyPlace, InSlot, Guarded

LEMMA NextSlots ==
  ASSUME TypeOK, ReqInv, SlotInv, [Next]_vars
  PROVE  TypeOK' /\ ReqInv' /\ SlotInv'
<1>1. ASSUME NEW j \in Job, Begin(j) PROVE TypeOK' /\ ReqInv' /\ SlotInv'
  <2>1. /\ TypeOK' /\ ReqInv' /\ Others(j)
        /\ req'[j].at \in {"resolving", "checking", "finding source"}
    BY <1>1, BeginType
  <2> QED BY <1>1, <2>1, SlotOut DEF Begin, InSlot, Guarded
<1>2. ASSUME NEW j \in Job, PullStep(j) PROVE TypeOK' /\ ReqInv' /\ SlotInv'
  BY <1>2, PullKeepsSlots
<1>3. ASSUME NEW j \in Job, CatalogStep(j) PROVE TypeOK' /\ ReqInv' /\ SlotInv'
  BY <1>3, CatalogType, CatalogKeepsSlots
<1>4. CASE MoveLease
  BY <1>4, MoveLeaseType DEF MoveLease, SlotInv, Waiters, locks
<1>5. ASSUME NEW n \in Node, Crash(n) PROVE TypeOK' /\ ReqInv' /\ SlotInv'
  BY <1>5, CrashType, CrashKeepsSlots
<1>6. CASE UNCHANGED vars
  <2>1. TypeOK'
    BY <1>6 DEF vars, disk, catalog, locks, TypeOK
  <2>2. ReqInv'
    BY <1>6 DEF vars, ReqInv, ReqOK
  <2>3. SlotInv'
    BY <1>6 DEF vars, locks, SlotInv, Waiters
  <2> QED BY <2>1, <2>2, <2>3
<1> QED BY <1>1, <1>2, <1>3, <1>4, <1>5, <1>6 DEF Next

LEMMA SlotInvHolds == Spec => [](TypeOK /\ ReqInv /\ SlotInv)
<1>1. Init => TypeOK /\ ReqInv /\ SlotInv
  BY InitType, InitSlots
<1>2. (TypeOK /\ ReqInv /\ SlotInv) /\ [Next]_vars => (TypeOK /\ ReqInv /\ SlotInv)'
  BY NextSlots
<1> QED BY <1>1, <1>2, PTL DEF Spec

(* The slots have one writer per file and node. *)
LEMMA SlotsGuard == SlotInv => OneWriterPerNode
<1> SUFFICES ASSUME SlotInv, NEW j \in Job, NEW k \in Job, Writing(j), Writing(k),
                    req[j].node = req[k].node, req[j].ask.tag = req[k].ask.tag
             PROVE  j = k
  BY DEF OneWriterPerNode
<1>1. LockOK(j) /\ LockOK(k) /\ req[j].at \in Guarded /\ req[k].at \in Guarded
  BY SlotParts DEF Writing, Guarded
<1>2. req[j].lock = req[k].lock /\ owner[req[j].lock] = j /\ owner[req[k].lock] = k
  BY <1>1 DEF LockOK
<1> QED BY <1>2

(* The coordinator lets one pull at a time of a node work on a file, for     *)
(* any number of nodes, requests and faults (OneWriterPerNode).              *)
THEOREM OneWriterPerNodeHolds == Spec => []OneWriterPerNode
<1>1. TypeOK /\ ReqInv /\ SlotInv => OneWriterPerNode
  BY SlotsGuard
<1> QED BY <1>1, SlotInvHolds, PTL

-----------------------------------------------------------------------------
(* The files *)

LEMMA GoesNode ==
  ASSUME TypeOK, NEW j \in Job, NEW p, Goes(j, p)
  PROVE  req'[j].node = req[j].node /\ req'[j].at = p /\ Others(j)
<1>1. req \in [Job -> Req] /\ req[j] \in Req
  BY DEF TypeOK
<1>2. req'[j] = [req[j] EXCEPT !.at = p] /\ Others(j)
  BY <1>1 DEF Goes, Others
<1> QED BY <1>1, <1>2 DEF Req

LEMMA CatalogNode ==
  ASSUME TypeOK, ReqInv, NEW j \in Job, CatalogStep(j)
  PROVE  req'[j].at = "ended" \/ req'[j].node = req[j].node
<1>1. ASSUME NEW p, Goes(j, p) PROVE req'[j].node = req[j].node
  BY <1>1, GoesNode
<1>2. Ends(j) => req'[j].at = "ended"
  BY EndsType
<1>3. Removed(j) => req'[j].at = "ended" \/ req'[j].node = req[j].node
  BY <1>1, <1>2 DEF Removed
<1>4. CASE CheckDeletable(j) \/ FindSource(j) \/ CheckUsers(j)
  BY <1>1, <1>2, <1>4 DEF CheckDeletable, FindSource, CheckUsers
<1>5. CASE FindTarget(j) \/ FindPath(j)
  BY <1>5, FindTargetType, FindPathType
<1>6. CASE RemoveAlias(j) \/ UnlinkSidecar(j) \/ UnlinkFile(j)
  BY <1>1, <1>3, <1>6 DEF RemoveAlias, UnlinkSidecar, UnlinkFile
<1>7. CASE PruneEmptyAncestors(j) \/ WriteAlias(j)
  BY <1>2, <1>3, <1>7 DEF PruneEmptyAncestors, WriteAlias
<1> QED BY <1>4, <1>5, <1>6, <1>7 DEF CatalogStep

(* All requests run on the owner of the lease, so a file has one writer. *)
LEMMA SoleWriter ==
  ASSUME SlotInv, FileInv, NEW j \in Job, NEW k \in Job,
         req[j].at \in Guarded, req[k].at \in Guarded, req[j].ask.tag = req[k].ask.tag
  PROVE  j = k
<1>1. req[j].node = holder /\ req[k].node = holder
  BY DEF FileInv, Running, Guarded
<1> QED BY <1>1, SlotsGuard DEF OneWriterPerNode, Writing, Guarded

(* FileInv without the requests, and what it asks of one request. *)
DirOK ==
  \A t, u \in Tag : partial[t] # None => partial[t] # dest[u] /\ (partial[t] = partial[u] => t = u)
FileOK(j) ==
  /\ req[j].at \in Before => \A t \in Tag : dest[t] # j /\ partial[t] # j
  /\ req[j].at \notin {"new", "ended"} => req[j].node = holder
  /\ req[j].at = "streaming" =>
       /\ partial[req[j].ask.tag] = req[j].fd /\ req[j].pos <= Blocks
       /\ req[j].sound => \A b \in 1..req[j].pos : data[req[j].fd][b] = "good"
Whole == \A t \in Hashed : dest[t] # None => \A b \in 1..Blocks : data[dest[t]][b] = "good"

LEMMA FileParts ==
  /\ FileInv <=> DirOK /\ \A j \in Job : FileOK(j)
  /\ WholeInv <=> (history.moves = 0 => FileInv /\ Whole)
<1>1. WholeInv <=> (history.moves = 0 => FileInv /\ Whole)
  BY Zenon DEF WholeInv, WholeUnlessTheLeaseMoved, Whole
<1>2. FileInv <=> DirOK /\ \A j \in Job : FileOK(j)
  BY Zenon DEF FileInv, DirOK, FileOK, Running
<1> QED BY <1>1, <1>2

(* The same of the next state. *)
LEMMA FilePartsNext ==
  ASSUME DirOK', \A j \in Job : FileOK(j)', Whole' PROVE WholeInv'
BY Zenon DEF FileInv, DirOK, FileOK, Running, WholeInv, WholeUnlessTheLeaseMoved, Whole

(* A step that writes no file: entries may go, a writer's own only. *)
LEMMA FilesSteady ==
  ASSUME TypeOK, FileInv, Whole, NEW j \in Job, Others(j), UNCHANGED <<data, holder>>,
         \A t \in Tag : dest'[t] = dest[t] \/ dest'[t] = None,
         \A t \in Tag : \/ partial'[t] = partial[t]
                        \/ /\ partial'[t] = None
                           /\ \A k \in Job \ {j} : req[k].at = "streaming" => req[k].ask.tag # t,
         \A k \in Job : req[k].at = "streaming" => req[k].ask.tag \in Tag,
         req'[j].at \in Before => req[j].at \in Before,
         req'[j].at # "streaming",
         req'[j].at \notin {"new", "ended"} => req'[j].node = holder
  PROVE  WholeInv'
<1>1. DirOK /\ \A k \in Job : FileOK(k)
  BY FileParts
<1>2. None \notin Job
  BY LibraryAssumption
<1>3. DirOK'
  BY <1>1 DEF DirOK
<1>4. ASSUME NEW k \in Job PROVE FileOK(k)'
  <2>1. FileOK(k)
    BY <1>1
  <2>2. req[k].at \in Before => \A t \in Tag : dest'[t] # k /\ partial'[t] # k
    BY <1>2, <2>1 DEF FileOK
  <2>3. CASE k = j
    BY <2>2, <2>3 DEF FileOK
  <2>4. CASE k # j
    BY <2>1, <2>2, <2>4 DEF FileOK, Others
  <2> QED BY <2>3, <2>4
<1>5. Whole'
  BY LibraryAssumption DEF Whole
<1> QED BY <1>3, <1>4, <1>5, FilePartsNext

LEMMA StreamingTags ==
  ASSUME ReqInv PROVE \A k \in Job : req[k].at = "streaming" => req[k].ask.tag \in Tag /\ req[k].fd \in Job
BY PullAsk DEF ReqInv, ReqOK, PullPlace, InSlot, Guarded

LEMMA GivesUpKeepsFiles ==
  ASSUME TypeOK, ReqInv, SlotInv, FileInv, Whole, NEW j \in Job, Others(j), UNCHANGED holder,
         req[j].at \in Guarded, GivesUp(j), req'[j].node = req[j].node
  PROVE  WholeInv'
<1>1. \A k \in Job : req[k].at = "streaming" => req[k].ask.tag \in Tag
  BY StreamingTags
<1>2. PICK t \in Tag : t = req[j].ask.tag
  BY PullAsk DEF PullPlace, InSlot
<1>3. \A k \in Job \ {j} : req[k].at = "streaming" => req[k].ask.tag # t
  BY <1>2, SoleWriter DEF Guarded
<1>4. \A u \in Tag : partial'[u] = partial[u] \/ (u = t /\ partial'[u] = None)
  BY <1>2, UnlinkType DEF GivesUp
<1>5. req[j].node = holder
  BY DEF FileInv, Running, Guarded
<1>6. req'[j].at = "unlocking" /\ UNCHANGED <<data, dest>>
  BY DEF GivesUp
<1> QED BY <1>1, <1>3, <1>4, <1>5, <1>6, FilesSteady DEF Before

LEMMA OpenPartialKeepsFiles ==
  ASSUME TypeOK, ReqInv, SlotInv, FileInv, Whole, NEW j \in Job, OpenPartial(j)
  PROVE  WholeInv'
<1>1. req[j].at = "opening" /\ req[j].at \in Guarded /\ req[j].at \in Before /\ req[j].at \in PullPlace
  BY DEF OpenPartial, Guarded, Before, PullPlace, InSlot
<1>2. PICK t \in Tag : t = req[j].ask.tag
  BY <1>1, PullAsk
<1>3. Others(j) /\ UNCHANGED <<holder, history, dest>> /\ req'[j].node = req[j].node /\ req'[j].ask = req[j].ask
  BY OpenPartialType
<1>4. req[j].pos = 0
  BY <1>1 DEF ReqInv, ReqOK
<1>5. DirOK /\ \A k \in Job : FileOK(k)
  BY FileParts
<1>6. CASE req'[j].at = "unlocking" /\ UNCHANGED data /\ (UNCHANGED partial \/ Unlink(t))
  <2>1. \A k \in Job \ {j} : req[k].at = "streaming" => req[k].ask.tag # t
    BY <1>1, <1>2, SoleWriter DEF Guarded
  <2>2. \A u \in Tag : partial'[u] = partial[u] \/ (u = t /\ partial'[u] = None)
    BY <1>6, UnlinkType
  <2>3. req[j].node = holder
    BY <1>1, <1>5 DEF FileOK
  <2> QED BY <1>3, <1>6, <2>1, <2>2, <2>3, StreamingTags, FilesSteady DEF Before
<1>7. ASSUME NEW f \in Job, f = (IF partial[t] = None THEN j ELSE partial[t]),
             partial' = [partial EXCEPT ![t] = f], data' = [data EXCEPT ![f] = Empty],
             req'[j].at = "streaming", req'[j].fd = f, req'[j].pos = req[j].pos
      PROVE  WholeInv'
  <2>1. /\ partial'[t] = f /\ \A u \in Tag \ {t} : partial'[u] = partial[u]
        /\ \A i \in Job \ {f} : data'[i] = data[i]
    BY <1>7 DEF TypeOK
  <2>2. /\ \A u \in Tag : dest[u] # f
        /\ \A u \in Tag \ {t} : partial[u] # f
        /\ \A k \in Job \ {j} : req[k].at \in Before => k # f
    BY <1>1, <1>5, <1>7 DEF FileOK, DirOK
  <2>3. DirOK'
    BY <1>3, <1>5, <2>1, <2>2 DEF DirOK
  <2>4. ASSUME NEW k \in Job PROVE FileOK(k)'
    <3>1. CASE k = j
      <4>1. req[j].node = holder
        BY <1>1, <1>5 DEF FileOK
      <4>2. req'[j].pos <= Blocks /\ \A b \in 1..req'[j].pos : data'[f][b] = "good"
        BY <1>4, <1>7, LibraryAssumption
      <4>3. req'[j].at \notin Before /\ partial'[req'[j].ask.tag] = f
        BY <1>2, <1>3, <1>7, <2>1 DEF Before
      <4> QED BY <1>3, <1>7, <3>1, <4>1, <4>2, <4>3 DEF FileOK
    <3>2. CASE k # j
      <4>1. FileOK(k) /\ req'[k] = req[k]
        BY <1>3, <1>5, <3>2 DEF Others
      <4>2. req[k].at \in Before => \A u \in Tag : dest'[u] # k /\ partial'[u] # k
        BY <1>3, <2>1, <2>2, <3>2, <4>1 DEF FileOK
      <4>3. CASE req[k].at = "streaming"
        <5>1. req[k].ask.tag \in Tag \ {t} /\ req[k].fd \in Job
          BY <1>1, <1>2, <3>2, <4>3, SoleWriter, StreamingTags DEF Guarded
        <5>2. partial'[req[k].ask.tag] = req[k].fd /\ req[k].fd # f
          BY <2>1, <2>2, <4>1, <4>3, <5>1 DEF FileOK
        <5>3. data'[req[k].fd] = data[req[k].fd]
          BY <2>1, <5>1, <5>2
        <5> QED BY <1>3, <4>1, <4>2, <4>3, <5>2, <5>3 DEF FileOK
      <4>4. CASE req[k].at # "streaming"
        BY <1>3, <4>1, <4>2, <4>4 DEF FileOK
      <4> QED BY <4>3, <4>4
    <3> QED BY <3>1, <3>2
  <2>5. Whole'
    <3> SUFFICES ASSUME NEW u \in Hashed, dest'[u] # None, NEW b \in 1..Blocks
                 PROVE  data'[dest'[u]][b] = "good"
      BY DEF Whole
    <3>1. u \in Tag /\ dest'[u] = dest[u] /\ dest[u] \in Job \ {f}
      BY <1>3, <2>2, LibraryAssumption DEF TypeOK
    <3> QED BY <2>1, <3>1 DEF Whole
  <2> QED BY <2>3, <2>4, <2>5, FilePartsNext
<1> QED BY <1>2, <1>6, <1>7, OpenPartialType

LEMMA ChunkKeepsFiles ==
  ASSUME TypeOK, ReqInv, SlotInv, FileInv, Whole, NEW j \in Job, Chunk(j)
  PROVE  WholeInv'
<1>1. req[j].at = "streaming" /\ req[j].at \in Guarded /\ req[j].at \in PullPlace
  BY DEF Chunk, Guarded, PullPlace, InSlot
<1>2. PICK t \in Tag, f \in Job : t = req[j].ask.tag /\ f = req[j].fd
  BY <1>1, StreamingTags
<1>3. Others(j) /\ UNCHANGED <<holder, history>> /\ req'[j].node = req[j].node /\ req'[j].ask = req[j].ask
  BY ChunkType
<1>4. CASE GivesUp(j)
  BY <1>1, <1>3, <1>4, GivesUpKeepsFiles
<1>5. DirOK /\ \A k \in Job : FileOK(k)
  BY FileParts
<1>6. ASSUME UNCHANGED <<dest, partial>>, req'[j].at = "streaming", req'[j].fd = f, req[j].pos < Blocks,
             req'[j].pos = req[j].pos + 1, NEW block \in {"good", "bad"},
             data' = [data EXCEPT ![f][req[j].pos + 1] = block],
             req'[j].sound = (req[j].sound /\ block = "good")
      PROVE  WholeInv'
  <2>1. PICK i \in 0..(Blocks - 1) : i = req[j].pos
    BY <1>6, LibraryAssumption DEF TypeOK, Req
  <2>2. /\ \A k \in Job \ {f} : data'[k] = data[k]
        /\ data'[f][i + 1] = block /\ \A b \in 1..i : data'[f][b] = data[f][b]
    <3>1. data \in [Job -> [1..Blocks -> {"hole", "good", "bad"}]] /\ i + 1 \in 1..Blocks /\ i \in Nat
      BY <2>1, LibraryAssumption DEF TypeOK
    <3>2. 1..i \subseteq 1..Blocks /\ i + 1 \notin 1..i
      BY <2>1, <3>1, LibraryAssumption
    <3>3. data' = [data EXCEPT ![f] = [data[f] EXCEPT ![i + 1] = block]]
      BY <1>6, <2>1
    <3>4. data'[f] = [data[f] EXCEPT ![i + 1] = block] /\ data[f] \in [1..Blocks -> {"hole", "good", "bad"}]
      BY <3>1, <3>3
    <3>5. data'[f][i + 1] = block /\ \A b \in 1..i : data'[f][b] = data[f][b]
      BY <3>1, <3>2, <3>4
    <3>6. \A k \in Job \ {f} : data'[k] = data[k]
      BY <3>1, <3>3
    <3> QED BY <3>5, <3>6
  <2>3. partial[t] = f /\ f # None /\ \A u \in Tag : dest[u] # f
    BY <1>1, <1>2, <1>5, LibraryAssumption DEF FileOK, DirOK
  <2>4. DirOK'
    BY <1>5, <1>6 DEF DirOK
  <2>5. ASSUME NEW k \in Job PROVE FileOK(k)'
    <3>1. CASE k = j
      <4>1. FileOK(j)
        BY <1>5
      <4>2. \A b \in 1..(i + 1) : b \in 1..i \/ b = i + 1
        BY <2>1, LibraryAssumption
      <4>3. req'[j].sound => \A b \in 1..(i + 1) : data'[f][b] = "good"
        <5> SUFFICES ASSUME req'[j].sound, NEW b \in 1..(i + 1) PROVE data'[f][b] = "good"
          OBVIOUS
        <5>1. req[j].sound \in BOOLEAN
          BY DEF TypeOK, Req
        <5>2. req[j].sound /\ block = "good"
          BY <1>6, <5>1
        <5>3. \A c \in 1..i : data[f][c] = "good"
          BY <1>1, <1>2, <2>1, <4>1, <5>2 DEF FileOK
        <5> QED BY <2>2, <4>2, <5>2, <5>3
      <4>4. req'[j].pos = i + 1 /\ i + 1 <= Blocks
        BY <1>6, <2>1, LibraryAssumption
      <4> QED BY <1>1, <1>2, <1>3, <1>6, <2>3, <3>1, <4>1, <4>3, <4>4 DEF FileOK, Before
    <3>2. CASE k # j
      <4>1. FileOK(k) /\ req'[k] = req[k]
        BY <1>3, <1>5, <3>2 DEF Others
      <4>2. CASE req[k].at = "streaming"
        <5>1. req[k].ask.tag \in Tag \ {t} /\ req[k].fd \in Job
          BY <1>1, <1>2, <3>2, <4>2, SoleWriter, StreamingTags DEF Guarded
        <5>2. req[k].fd # f
          BY <1>5, <2>3, <4>1, <4>2, <5>1 DEF FileOK, DirOK
        <5>3. data'[req[k].fd] = data[req[k].fd]
          BY <2>2, <5>1, <5>2
        <5> QED BY <1>3, <1>6, <4>1, <4>2, <5>3 DEF FileOK
      <4>3. CASE req[k].at # "streaming"
        BY <1>3, <1>6, <4>1, <4>3 DEF FileOK
      <4> QED BY <4>2, <4>3
    <3> QED BY <3>1, <3>2
  <2>6. Whole'
    <3> SUFFICES ASSUME NEW u \in Hashed, dest'[u] # None, NEW b \in 1..Blocks
                 PROVE  data'[dest'[u]][b] = "good"
      BY DEF Whole
    <3>1. u \in Tag /\ dest'[u] = dest[u] /\ dest[u] \in Job \ {f}
      BY <1>6, <2>3, LibraryAssumption DEF TypeOK
    <3> QED BY <2>2, <3>1 DEF Whole
  <2> QED BY <2>4, <2>5, <2>6, FilePartsNext
<1> QED BY <1>2, <1>4, <1>6, ChunkType

LEMMA RenameKeepsFiles ==
  ASSUME TypeOK, ReqInv, SlotInv, FileInv, Whole, NEW j \in Job, Rename(j)
  PROVE  WholeInv'
<1>1. req[j].at = "streaming" /\ req[j].at \in Guarded /\ req[j].at \in PullPlace
  BY DEF Rename, Guarded, PullPlace, InSlot
<1>2. PICK t \in Tag, f \in Job : t = req[j].ask.tag /\ f = req[j].fd
  BY <1>1, StreamingTags
<1>3. /\ Others(j) /\ UNCHANGED <<holder, history>> /\ req'[j].node = req[j].node
      /\ req'[j].ask = req[j].ask /\ req[j].pos = Blocks
  BY RenameType
<1>4. CASE GivesUp(j)
  BY <1>1, <1>3, <1>4, GivesUpKeepsFiles
<1>5. DirOK /\ \A k \in Job : FileOK(k)
  BY FileParts
<1>6. ASSUME req'[j].at = "unlocking", req[j].sound \/ t \notin Hashed, UNCHANGED data,
             dest' = [dest EXCEPT ![t] = partial[t]], partial' = [partial EXCEPT ![t] = None]
      PROVE  WholeInv'
  <2>1. partial[t] = f /\ f # None
    BY <1>1, <1>2, <1>5, LibraryAssumption DEF FileOK
  <2>2. /\ dest'[t] = f /\ \A u \in Tag \ {t} : dest'[u] = dest[u]
        /\ partial'[t] = None /\ \A u \in Tag \ {t} : partial'[u] = partial[u]
    BY <1>6, <2>1 DEF TypeOK
  <2>3. DirOK'
    BY <1>5, <2>1, <2>2 DEF DirOK
  <2>4. ASSUME NEW k \in Job PROVE FileOK(k)'
    <3>1. CASE k = j
      <4>1. req[j].node = holder
        BY <1>1, <1>5 DEF FileOK
      <4> QED BY <1>3, <1>6, <3>1, <4>1 DEF FileOK, Before
    <3>2. CASE k # j
      <4>1. FileOK(k) /\ req'[k] = req[k]
        BY <1>3, <1>5, <3>2 DEF Others
      <4>2. req[k].at \in Before => \A u \in Tag : dest'[u] # k /\ partial'[u] # k
        BY <2>1, <2>2, <4>1, LibraryAssumption DEF FileOK
      <4>3. CASE req[k].at = "streaming"
        <5>1. req[k].ask.tag \in Tag \ {t}
          BY <1>1, <1>2, <3>2, <4>3, SoleWriter, StreamingTags DEF Guarded
        <5> QED BY <1>3, <1>6, <2>2, <4>1, <4>2, <4>3, <5>1 DEF FileOK
      <4>4. CASE req[k].at # "streaming"
        BY <1>3, <4>1, <4>2, <4>4 DEF FileOK
      <4> QED BY <4>3, <4>4
    <3> QED BY <3>1, <3>2
  <2>5. Whole'
    <3> SUFFICES ASSUME NEW u \in Hashed, dest'[u] # None, NEW b \in 1..Blocks
                 PROVE  data'[dest'[u]][b] = "good"
      BY DEF Whole
    <3>1. CASE u = t
      <4>1. FileOK(j) /\ req[j].sound
        BY <1>5, <1>6, <3>1
      <4> QED BY <1>1, <1>2, <1>3, <1>6, <2>2, <3>1, <4>1 DEF FileOK
    <3>2. CASE u # t
      BY <1>6, <2>2, <3>2, LibraryAssumption DEF Whole
    <3> QED BY <3>1, <3>2
  <2> QED BY <2>3, <2>4, <2>5, FilePartsNext
<1> QED BY <1>2, <1>4, <1>6, RenameType

LEMMA CrashKeepsFiles ==
  ASSUME TypeOK, ReqInv, FileInv, Whole, NEW n \in Node, Crash(n)
  PROVE  WholeInv'
<1>1. /\ UNCHANGED <<dest, partial, data, holder>>
      /\ \A j \in Job : req'[j] = (IF j \in Gone(n) THEN Ended ELSE req[j])
      /\ \A j \in Gone(n) : req'[j].at = "ended"
  BY CrashType DEF disk
<1>2. DirOK /\ \A k \in Job : FileOK(k)
  BY FileParts
<1>3. DirOK' /\ Whole'
  BY <1>1, <1>2 DEF DirOK, Whole
<1>4. ASSUME NEW k \in Job PROVE FileOK(k)'
  <2>1. CASE k \in Gone(n)
    BY <1>1, <2>1 DEF FileOK, Before
  <2>2. CASE k \notin Gone(n)
    <3>1. FileOK(k) /\ req'[k] = req[k]
      BY <1>1, <1>2, <2>2
    <3> QED BY <1>1, <3>1 DEF FileOK
  <2> QED BY <2>1, <2>2
<1> QED BY <1>3, <1>4, FilePartsNext

LEMMA PullKeepsFiles ==
  ASSUME TypeOK, ReqInv, SlotInv, FileInv, Whole, NEW j \in Job, PullStep(j)
  PROVE  WholeInv'
<1>1. CASE OpenPartial(j) \/ Chunk(j) \/ Rename(j)
  BY <1>1, OpenPartialKeepsFiles, ChunkKeepsFiles, RenameKeepsFiles
<1>2. CASE ~(OpenPartial(j) \/ Chunk(j) \/ Rename(j))
  <2>1. /\ req[j].at \notin {"new", "ended"}
        /\ UNCHANGED <<dest, partial, data, holder>>
    BY <1>2 DEF PullStep, Resolve, AcquireSlot, EnterGuard, FindFile, LeaveGuard, ReleaseSlot,
                ReadHeader, WriteSidecar, TellSuccess, disk
  <2>2. /\ req'[j].at = "ended" \/ req'[j].node = req[j].node
        /\ req'[j].at # "streaming" /\ (req'[j].at \in Before => req[j].at \in Before)
    <3>1. ASSUME NEW p, Goes(j, p) PROVE req'[j].node = req[j].node /\ req'[j].at = p
      BY <3>1, GoesNode
    <3>2. CASE Ends(j)
      BY <3>2, EndsType DEF Before
    <3>3. CASE Resolve(j) /\ ~Ends(j)
      <4>1. Goes(j, "taking a slot") /\ req[j].at = "resolving"
        BY <3>3, Zenon DEF Resolve
      <4>2. req'[j].node = req[j].node /\ req'[j].at = "taking a slot"
        BY <4>1, GoesNode
      <4> QED BY <4>1, <4>2 DEF Before
    <3>4. CASE AcquireSlot(j)
      BY <3>4, AcquireSlotType DEF AcquireSlot, Before
    <3>5. CASE EnterGuard(j)
      BY <3>1, <3>5 DEF EnterGuard, Before
    <3>6. CASE FindFile(j)
      BY <3>6, FindFileType DEF FindFile, Before
    <3>7. CASE LeaveGuard(j)
      BY <3>7, LeaveGuardType DEF Before
    <3>8. CASE ReleaseSlot(j) /\ ~Ends(j)
      <4>1. Goes(j, "reading")
        BY <3>8, Zenon DEF ReleaseSlot
      <4>2. req'[j].node = req[j].node /\ req'[j].at = "reading"
        BY <4>1, GoesNode
      <4> QED BY <4>1, <4>2 DEF Before
    <3>9. CASE (ReadHeader(j) \/ WriteSidecar(j) \/ TellSuccess(j)) /\ ~Ends(j)
      <4>1. Goes(j, "describing") \/ Goes(j, "telling")
        BY <3>9, Zenon DEF ReadHeader, WriteSidecar, TellSuccess
      <4>2. req'[j].node = req[j].node /\ req'[j].at \in {"describing", "telling"}
        BY <4>1, GoesNode
      <4> QED BY <4>1, <4>2 DEF Before
    <3> QED BY <1>2, <3>2, <3>3, <3>4, <3>5, <3>6, <3>7, <3>8, <3>9 DEF PullStep
  <2>3. Others(j)
    BY PullKeepsSlots
  <2>4. req[j].node = holder
    BY <2>1 DEF FileInv, Running
  <2> QED BY <2>1, <2>2, <2>3, <2>4, StreamingTags, FilesSteady
<1> QED BY <1>1, <1>2

LEMMA CatalogKeepsFiles ==
  ASSUME TypeOK, ReqInv, FileInv, Whole, NEW j \in Job, CatalogStep(j)
  PROVE  WholeInv'
<1>1. /\ Others(j) /\ UNCHANGED <<partial, data, holder>>
      /\ req[j].at \in CatalogPlace /\ req'[j].at \in CatalogPlace \cup {"ended"}
  BY CatalogType
<1>2. req'[j].at = "ended" \/ req'[j].node = holder
  BY <1>1, CatalogNode DEF FileInv, Running, CatalogPlace, CopyPlace
<1>3. req'[j].at # "streaming" /\ req'[j].at \notin Before
  BY <1>1 DEF CatalogPlace, CopyPlace, Before
<1>4. \A t \in Tag : dest'[t] = dest[t] \/ dest'[t] = None
  BY DEF CatalogStep, CheckDeletable, FindSource, FindTarget, RemoveAlias, CheckUsers, FindPath,
         UnlinkSidecar, UnlinkFile, PruneEmptyAncestors, WriteAlias, disk, TypeOK
<1> QED BY <1>1, <1>2, <1>3, <1>4, StreamingTags, FilesSteady

LEMMA InitWhole == ASSUME Init PROVE WholeInv
<1>1. /\ \A j \in Job : req[j].at = "new"
      /\ \A t \in Tag : dest[t] = None /\ partial[t] = None
  BY FreshType DEF Init, Fresh
<1>2. DirOK /\ (\A j \in Job : FileOK(j)) /\ Whole
  BY <1>1, LibraryAssumption DEF DirOK, FileOK, Whole
<1> QED BY <1>2, FileParts

LEMMA NextWhole ==
  ASSUME TypeOK, ReqInv, SlotInv, WholeInv, [Next]_vars
  PROVE  WholeInv'
<1>1. SUFFICES ASSUME history'.moves = 0 PROVE WholeInv'
  BY DEF WholeInv
<1>2. CASE MoveLease
  BY <1>1, <1>2, MoveLeaseType
<1>3. ASSUME history'.moves = history.moves PROVE FileInv /\ Whole
  BY <1>1, <1>3, FileParts
<1>4. ASSUME NEW j \in Job, Begin(j) PROVE WholeInv'
  <2>1. UNCHANGED <<dest, partial, data, holder, history>>
    BY <1>4 DEF Begin, disk
  <2>2. FileInv /\ Whole
    BY <1>3, <2>1
  <2>3. Others(j) /\ req'[j].at \in {"resolving", "checking", "finding source"} /\ req'[j].node = holder
    BY <1>4, BeginType
  <2>4. req[j].at = "new"
    BY <1>4 DEF Begin
  <2>5. req'[j].at # "streaming" /\ req[j].at \in Before
    BY <2>3, <2>4 DEF Before
  <2> QED BY <2>1, <2>2, <2>3, <2>5, StreamingTags, FilesSteady
<1>5. ASSUME NEW j \in Job, PullStep(j) PROVE WholeInv'
  <2>1. UNCHANGED history
    BY <1>5 DEF PullStep, Resolve, AcquireSlot, EnterGuard, FindFile, OpenPartial, Chunk, Rename,
                LeaveGuard, ReleaseSlot, ReadHeader, WriteSidecar, TellSuccess
  <2>2. FileInv /\ Whole
    BY <1>3, <2>1
  <2> QED BY <1>5, <2>2, PullKeepsFiles
<1>6. ASSUME NEW j \in Job, CatalogStep(j) PROVE WholeInv'
  BY <1>3, <1>6, CatalogType, CatalogKeepsFiles
<1>7. ASSUME NEW n \in Node, Crash(n) PROVE WholeInv'
  BY <1>3, <1>7, CrashType, CrashKeepsFiles
<1>8. CASE UNCHANGED vars
  <2>1. UNCHANGED <<dest, partial, data, holder, req, history>>
    BY <1>8 DEF vars, disk
  <2>2. FileInv /\ Whole
    BY <1>3, <2>1
  <2>3. DirOK /\ \A j \in Job : FileOK(j)
    BY <2>2, FileParts
  <2>4. DirOK' /\ Whole'
    BY <2>1, <2>2, <2>3 DEF DirOK, Whole
  <2>5. \A j \in Job : FileOK(j)'
    BY <2>1, <2>3 DEF FileOK
  <2> QED BY <2>4, <2>5, FilePartsNext
<1> QED BY <1>2, <1>4, <1>5, <1>6, <1>7, <1>8 DEF Next

(* As long as the pull lease has not moved, what is installed under a tag    *)
(* whose sha256 is known is whole, whatever crashed, broke off or was        *)
(* damaged on its way (WholeUnlessTheLeaseMoved).                            *)
THEOREM WholeUnlessTheLeaseMovedHolds == Spec => []WholeUnlessTheLeaseMoved
<1>1. Init => TypeOK /\ ReqInv /\ SlotInv /\ WholeInv
  BY InitType, InitSlots, InitWhole
<1>2. (TypeOK /\ ReqInv /\ SlotInv /\ WholeInv) /\ [Next]_vars => (TypeOK /\ ReqInv /\ SlotInv /\ WholeInv)'
  BY NextSlots, NextWhole
<1>3. WholeInv => WholeUnlessTheLeaseMoved
  BY DEF WholeInv, WholeUnlessTheLeaseMoved
<1> QED BY <1>1, <1>2, <1>3, PTL DEF Spec

-----------------------------------------------------------------------------
(* Success *)

(* What a request past its download may say. *)
Told(j) ==
  /\ req[j].at \in {"describing", "telling"} => dest[req[j].ask.tag] # None
  /\ req[j].at = "telling" => req[j].ask.tag \in sidecar

(* Nothing that somebody relies on goes, and nobody else comes to rely on it. *)
LEMMA SuccessSteady ==
  ASSUME SuccessInv, NEW j \in Job, Others(j), history.overtaken \subseteq history'.overtaken,
         \A k \in Job \ {j} : /\ req[k].at \in {"describing", "telling"}
                              /\ k \notin history'.overtaken
                              => dest'[req[k].ask.tag] = dest[req[k].ask.tag] /\ sidecar \subseteq sidecar',
         j \notin history'.overtaken => Told(j)'
  PROVE  SuccessInv'
<1>1. ASSUME NEW k \in Job \ history'.overtaken PROVE Told(k)'
  <2>1. CASE k = j
    BY <1>1, <2>1
  <2>2. CASE k # j
    <3>1. Told(k) /\ req'[k] = req[k]
      BY <1>1, <2>2 DEF SuccessInv, Told, Others
    <3> QED BY <1>1, <2>2, <3>1 DEF Told
  <2> QED BY <2>1, <2>2
<1> QED BY <1>1 DEF SuccessInv, Told

LEMMA NextSuccess ==
  ASSUME TypeOK, ReqInv, SlotInv, SuccessInv, [Next]_vars
  PROVE  SuccessInv'
<1>1. ASSUME NEW j \in Job, Begin(j) PROVE SuccessInv'
  BY <1>1, BeginType, SuccessSteady DEF Begin, Told, disk, catalog
<1>2. ASSUME NEW j \in Job, PullStep(j) PROVE SuccessInv'
  <2>1. Others(j) /\ UNCHANGED history
    BY <1>2, PullKeepsSlots
       DEF PullStep, Resolve, AcquireSlot, EnterGuard, FindFile, OpenPartial, Chunk, Rename,
           LeaveGuard, ReleaseSlot, ReadHeader, WriteSidecar, TellSuccess
  <2>2. CASE Rename(j)
    <3>1. PICK t \in Tag : t = req[j].ask.tag
      BY <2>2, PullAsk DEF Rename, PullPlace, InSlot, Guarded
    <3>2. \A u \in Tag : dest'[u] = dest[u] \/ dest'[u] # None
      BY <2>2, <3>1, RenameType DEF TypeOK, GivesUp
    <3>3. sidecar' = sidecar /\ req'[j].at = "unlocking"
      BY <2>2, RenameType DEF catalog, GivesUp
    <3>4. ASSUME NEW k \in Job \ history'.overtaken PROVE Told(k)'
      <4>1. CASE k = j
        BY <3>3, <4>1 DEF Told
      <4>2. CASE k # j
        <5>1. Told(k) /\ req'[k] = req[k]
          BY <2>1, <3>4, <4>2 DEF SuccessInv, Told, Others
        <5>2. req[k].at \in {"describing", "telling"} => req[k].ask.tag \in Tag
          BY PullAsk DEF PullPlace
        <5> QED BY <3>2, <3>3, <5>1, <5>2 DEF Told
      <4> QED BY <4>1, <4>2
    <3> QED BY <3>4 DEF SuccessInv, Told
  <2>3. CASE ReadHeader(j)
    <3>1. UNCHANGED <<dest, sidecar>>
      BY <2>3 DEF ReadHeader, disk, catalog
    <3>2. Told(j)'
      <4>1. CASE Ends(j)
        BY <4>1, EndsType DEF Told
      <4>2. CASE Goes(j, "describing") /\ dest[req[j].ask.tag] # None
        <5>1. req'[j].at = "describing" /\ req'[j].ask = req[j].ask
          BY <4>2, GoesType DEF Place, PullPlace
        <5> QED BY <3>1, <4>2, <5>1 DEF Told
      <4> QED BY <2>3, <4>1, <4>2, Zenon DEF ReadHeader
    <3> QED BY <2>1, <3>1, <3>2, SuccessSteady
  <2>4. CASE WriteSidecar(j)
    <3>1. UNCHANGED dest /\ sidecar \subseteq sidecar'
      BY <2>4 DEF WriteSidecar, disk
    <3>2. j \notin history'.overtaken => Told(j)'
      <4>1. CASE Ends(j)
        BY <4>1, EndsType DEF Told
      <4>2. CASE Goes(j, "telling") /\ sidecar' = sidecar \cup {req[j].ask.tag}
        <5>1. req'[j].at = "telling" /\ req'[j].ask = req[j].ask
          BY <4>2, GoesType DEF Place, PullPlace
        <5>2. j \notin history'.overtaken => dest[req[j].ask.tag] # None
          BY <2>1, <2>4 DEF SuccessInv, WriteSidecar
        <5> QED BY <3>1, <4>2, <5>1, <5>2 DEF Told
      <4> QED BY <2>4, <4>1, <4>2, Zenon DEF WriteSidecar
    <3> QED BY <2>1, <3>1, <3>2, SuccessSteady
  <2>5. CASE ~(Rename(j) \/ ReadHeader(j) \/ WriteSidecar(j))
    <3>1. UNCHANGED <<dest, sidecar>>
      BY <1>2, <2>5, OpenPartialType, ChunkType
         DEF PullStep, Resolve, AcquireSlot, EnterGuard, FindFile, OpenPartial, Chunk, GivesUp,
             LeaveGuard, ReleaseSlot, TellSuccess, disk, catalog, Unlink
    <3>2. req'[j].at \notin {"describing", "telling"}
      <4>1. CASE Resolve(j) \/ AcquireSlot(j) \/ EnterGuard(j) \/ FindFile(j)
        BY <4>1, ResolveType, AcquireSlotType, EnterGuardType, EnterGuardKeeps, FindFileType
      <4>2. CASE OpenPartial(j) \/ Chunk(j)
        BY <4>2, OpenPartialType, ChunkType DEF GivesUp
      <4>3. CASE LeaveGuard(j) \/ ReleaseSlot(j)
        BY <4>3, LeaveGuardType, ReleaseSlotType, ReleaseSlotKeeps
      <4>4. CASE TellSuccess(j)
        BY <4>4, EndsType DEF TellSuccess
      <4> QED BY <1>2, <2>5, <4>1, <4>2, <4>3, <4>4 DEF PullStep
    <3> QED BY <2>1, <3>1, <3>2, SuccessSteady DEF Told
  <2> QED BY <2>2, <2>3, <2>4, <2>5
<1>3. ASSUME NEW j \in Job, CatalogStep(j) PROVE SuccessInv'
  <2>1. Others(j) /\ req'[j].at \in CatalogPlace \cup {"ended"}
    BY <1>3, CatalogType
  <2>2. Told(j)'
    BY <2>1 DEF Told, CatalogPlace, CopyPlace
  <2>3. CASE UnlinkSidecar(j) \/ UnlinkFile(j)
    <3>1. history'.overtaken = history.overtaken \cup {k \in Job \ {j} : Running(k)}
      BY <2>3, OvertakeType DEF UnlinkSidecar, UnlinkFile
    <3>2. \A k \in Job \ {j} : req[k].at \in {"describing", "telling"} => k \in history'.overtaken
      BY <3>1 DEF Running
    <3> QED BY <2>1, <2>2, <3>1, <3>2, SuccessSteady
  <2>4. CASE ~(UnlinkSidecar(j) \/ UnlinkFile(j))
    <3>1. UNCHANGED <<dest, sidecar>>
      BY <1>3, <2>4
         DEF CatalogStep, CheckDeletable, FindSource, FindTarget, RemoveAlias, CheckUsers, FindPath,
             PruneEmptyAncestors, WriteAlias, disk, catalog
    <3>2. history.overtaken \subseteq history'.overtaken
      <4>1. CASE Overtake(j)
        BY <4>1, OvertakeType
      <4>2. CASE UNCHANGED history
        BY <4>2
      <4> QED
        BY <1>3, <2>4, <4>1, <4>2, Zenon
           DEF CatalogStep, CheckDeletable, FindSource, FindTarget, RemoveAlias, CheckUsers, FindPath,
               PruneEmptyAncestors, WriteAlias
    <3> QED BY <2>1, <2>2, <3>1, <3>2, SuccessSteady
  <2> QED BY <2>3, <2>4
<1>4. CASE MoveLease
  BY <1>4, MoveLeaseType DEF MoveLease, SuccessInv, disk, catalog
<1>5. ASSUME NEW n \in Node, Crash(n) PROVE SuccessInv'
  <2>1. /\ UNCHANGED <<dest, sidecar>> /\ history'.overtaken = history.overtaken
        /\ \A j \in Job : req'[j] = (IF j \in Gone(n) THEN Ended ELSE req[j])
        /\ \A j \in Gone(n) : req'[j].at = "ended"
    BY <1>5, CrashType DEF disk, catalog
  <2>2. ASSUME NEW k \in Job \ history'.overtaken PROVE Told(k)'
    <3>1. CASE k \in Gone(n)
      BY <2>1, <3>1 DEF Told
    <3>2. CASE k \notin Gone(n)
      <4>1. Told(k) /\ req'[k] = req[k]
        BY <2>1, <2>2, <3>2 DEF SuccessInv, Told
      <4> QED BY <2>1, <4>1 DEF Told
    <3> QED BY <3>1, <3>2
  <2> QED BY <2>2 DEF SuccessInv, Told
<1>6. CASE UNCHANGED vars
  BY <1>6 DEF vars, disk, catalog, SuccessInv
<1> QED BY <1>1, <1>2, <1>3, <1>4, <1>5, <1>6 DEF Next

LEMMA InitSuccess == ASSUME Init PROVE SuccessInv
<1>1. \A j \in Job : req[j].at = "new"
  BY FreshType DEF Init, Fresh
<1> QED BY <1>1 DEF SuccessInv

(* A pull that tells success has left its file and its sidecar, unless       *)
(* somebody overtook it (SuccessMeansInstalled).                             *)
THEOREM SuccessMeansInstalledHolds == Spec => []SuccessMeansInstalled
<1>1. Init => TypeOK /\ ReqInv /\ SlotInv /\ SuccessInv
  BY InitType, InitSlots, InitSuccess
<1>2. (TypeOK /\ ReqInv /\ SlotInv /\ SuccessInv) /\ [Next]_vars
        => (TypeOK /\ ReqInv /\ SlotInv /\ SuccessInv)'
  BY NextSlots, NextSuccess
<1>3. SuccessInv => SuccessMeansInstalled
  BY DEF SuccessInv, SuccessMeansInstalled
<1> QED BY <1>1, <1>2, <1>3, PTL DEF Spec

-----------------------------------------------------------------------------
(* Aliases *)

ModelsOK == \A x \in DOMAIN alias : alias[x] \in sidecar

LEMMA SeenParts ==
  SeenInv <=> (history.overtaken = {} => ModelsOK /\ \A j \in Job : SeenBy(j))
BY Zenon DEF SeenInv, AliasesHaveModels, ModelsOK

LEMMA SeenPartsNext ==
  ASSUME history'.overtaken = {} => ModelsOK' /\ \A j \in Job : SeenBy(j)' PROVE SeenInv'
BY Zenon DEF SeenInv, AliasesHaveModels, ModelsOK

(* A request that is not at work in the catalog relies on nothing there. *)
LEMMA SeenNothing ==
  ASSUME NEW j \in Job, req'[j].at \notin CatalogPlace PROVE SeenBy(j)'
BY DEF SeenBy, CatalogPlace, CopyPlace

(* A step that takes nothing out of the catalog. *)
LEMMA SeenSteady ==
  ASSUME ModelsOK, \A k \in Job : SeenBy(k), NEW j \in Job, Others(j), UNCHANGED alias,
         sidecar \subseteq sidecar', SeenBy(j)'
  PROVE  ModelsOK' /\ \A k \in Job : SeenBy(k)'
<1>1. ModelsOK'
  BY DEF ModelsOK
<1>2. ASSUME NEW k \in Job PROVE SeenBy(k)'
  <2>1. CASE k = j
    BY <2>1
  <2>2. CASE k # j
    <3>1. SeenBy(k) /\ req'[k] = req[k]
      BY <2>2 DEF Others
    <3>2. Installed \subseteq Installed' /\ \A x : Users(x)' = Users(x)
      BY DEF Installed, Users
    <3> QED BY <3>1, <3>2 DEF SeenBy, Asks
  <2> QED BY <2>1, <2>2
<1> QED BY <1>1, <1>2

(* A step that overtakes nobody is that of the only request. *)
LEMMA SeenAlone ==
  ASSUME TypeOK, NEW j \in Job, Others(j), Overtake(j), history'.overtaken = {}, ModelsOK', SeenBy(j)'
  PROVE  ModelsOK' /\ \A k \in Job : SeenBy(k)'
<1>1. \A k \in Job \ {j} : req'[k].at \notin CatalogPlace
  <2>1. \A k \in Job \ {j} : ~Running(k) /\ req'[k] = req[k]
    BY OvertakeType DEF Others
  <2> QED BY <2>1 DEF Running, CatalogPlace, CopyPlace
<1> QED BY <1>1, SeenNothing

LEMMA PullPlaces ==
  ASSUME TypeOK, ReqInv, SlotInv, NEW j \in Job, PullStep(j)
  PROVE  req'[j].at \notin CatalogPlace
<1>1. CASE Resolve(j) \/ AcquireSlot(j) \/ EnterGuard(j) \/ FindFile(j)
  <2>1. req'[j].at \in {"taking a slot", "ended", "waiting", "guarded", "unlocking", "opening"}
    BY <1>1, ResolveType, AcquireSlotType, EnterGuardType, EnterGuardKeeps, FindFileType
  <2> QED BY <2>1 DEF CatalogPlace, CopyPlace
<1>2. CASE OpenPartial(j) \/ Chunk(j) \/ Rename(j)
  <2>1. req'[j].at \in {"unlocking", "streaming"}
    BY <1>2, OpenPartialType, ChunkType, RenameType DEF GivesUp
  <2> QED BY <2>1 DEF CatalogPlace, CopyPlace
<1>3. CASE LeaveGuard(j) \/ ReleaseSlot(j) \/ ReadHeader(j) \/ WriteSidecar(j) \/ TellSuccess(j)
  <2>1. req'[j].at \in {"leaving", "reading", "ended", "describing", "telling"}
    BY <1>3, LeaveGuardType, ReleaseSlotType, ReleaseSlotKeeps, ReadHeaderType, WriteSidecarType,
       TellSuccessType
  <2> QED BY <2>1 DEF CatalogPlace, CopyPlace
<1> QED BY <1>1, <1>2, <1>3 DEF PullStep

(* What a step to p must have seen, when it leaves the request's fields and the catalog alone. *)
LEMMA GoesSeen ==
  ASSUME TypeOK, NEW j \in Job, NEW p \in Place, Goes(j, p), SeenBy(j), UNCHANGED catalog,
         \/ p \notin CatalogPlace
         \/ p = "finding target" /\ req[j].ask.from \in Installed
         \/ p = "removing" /\ ~Asks(j, "copy")
         \/ req[j].at = "removing" /\ p = "checking users" /\ req[j].ask.tag \notin DOMAIN alias
         \/ req[j].at = "checking users" /\ p = "finding file" /\ Users(req[j].ask.tag) = {}
         \/ /\ p = "aliasing" /\ req[j].at \in CatalogPlace \ {"finding source", "finding target"}
  PROVE  SeenBy(j)'
<1>1. /\ req'[j].at = p /\ req'[j].ask = req[j].ask /\ req'[j].target = req[j].target
  BY GoesType
<1>2. /\ UNCHANGED <<alias, sidecar>>
      /\ Installed' = Installed /\ \A x : Users(x)' = Users(x)
      /\ Asks(j, "copy")' <=> Asks(j, "copy")
  BY <1>1 DEF catalog, Installed, Users, Asks
<1>3. CASE p \notin CatalogPlace
  BY <1>1, <1>3, SeenNothing
<1>4. CASE p = "finding target" /\ req[j].ask.from \in Installed
  BY <1>1, <1>2, <1>4 DEF SeenBy
<1>5. CASE p = "removing" /\ ~Asks(j, "copy")
  BY <1>1, <1>2, <1>5 DEF SeenBy
<1>6. CASE req[j].at = "removing" /\ p = "checking users" /\ req[j].ask.tag \notin DOMAIN alias
  BY <1>1, <1>2, <1>6 DEF SeenBy, CatalogPlace
<1>7. CASE req[j].at = "checking users" /\ p = "finding file" /\ Users(req[j].ask.tag) = {}
  BY <1>1, <1>2, <1>7 DEF SeenBy, CatalogPlace
<1>8. CASE p = "aliasing" /\ req[j].at \in CatalogPlace \ {"finding source", "finding target"}
  BY <1>1, <1>2, <1>8 DEF SeenBy
<1> QED BY <1>3, <1>4, <1>5, <1>6, <1>7, <1>8

LEMMA CatalogSeen ==
  ASSUME TypeOK, ReqInv, ModelsOK, \A k \in Job : SeenBy(k), NEW j \in Job, CatalogStep(j),
         history'.overtaken = {}
  PROVE  ModelsOK' /\ \A k \in Job : SeenBy(k)'
<1>1. Others(j) /\ SeenBy(j) /\ req[j].at \in CatalogPlace
  BY CatalogType
<1>2. Ends(j) => SeenBy(j)'
  BY EndsType, SeenNothing DEF CatalogPlace, CopyPlace
<1>3. CASE UNCHANGED catalog /\ SeenBy(j)'
  BY <1>1, <1>3, SeenSteady DEF catalog
<1>4. CASE CheckDeletable(j)
  <2>1. ~Asks(j, "copy") /\ UNCHANGED catalog /\ "removing" \in Place
    BY <1>4 DEF CheckDeletable, ReqInv, ReqOK, Asks, Place, CatalogPlace
  <2> QED BY <1>1, <1>2, <1>3, <1>4, <2>1, GoesSeen, Zenon DEF CheckDeletable
<1>5. CASE FindSource(j)
  <2>1. UNCHANGED catalog /\ "finding target" \in Place
    BY <1>5 DEF FindSource, Place, CatalogPlace, CopyPlace
  <2> QED BY <1>1, <1>2, <1>3, <1>5, <2>1, GoesSeen, Zenon DEF FindSource
<1>6. CASE FindTarget(j)
  <2>1. UNCHANGED catalog
    BY <1>6 DEF FindTarget
  <2>2. CASE req'[j].at = "ended"
    BY <1>3, <2>1, <2>2, SeenNothing DEF CatalogPlace, CopyPlace
  <2>3. CASE /\ req'[j].at = "removing" /\ req'[j].ask = req[j].ask
             /\ req[j].ask.tag # req[j].ask.from /\ req'[j].target = Target(req[j].ask.from)
    <3>1. req[j].ask.from \in Installed
      BY <1>1, <1>6 DEF SeenBy, FindTarget
    <3>2. Target(req[j].ask.from) \in sidecar
      BY <3>1 DEF Target, Installed, ModelsOK
    <3>3. Target(req[j].ask.from) = req[j].ask.from \/ req[j].ask.from \in Users(Target(req[j].ask.from))
      BY DEF Target, Users
    <3>4. /\ req'[j].target \in sidecar'
          /\ req'[j].target = req'[j].ask.from \/ req'[j].ask.from \in Users(req[j].target)'
          /\ req'[j].ask.tag # req'[j].ask.from
      BY <2>1, <2>3, <3>2, <3>3 DEF catalog, Users
    <3>5. SeenBy(j)'
      BY <2>3, <3>4 DEF SeenBy
    <3> QED BY <1>3, <2>1, <3>5
  <2> QED BY <1>6, <2>2, <2>3, FindTargetType
<1>7. CASE RemoveAlias(j)
  <2>1. req[j].at = "removing" /\ UNCHANGED sidecar
    BY <1>7 DEF RemoveAlias
  <2>2. CASE Overtake(j) /\ Removed(j) /\ alias' = Restrict(alias, DOMAIN alias \ {req[j].ask.tag})
    <3>1. ModelsOK'
      BY <2>1, <2>2 DEF ModelsOK, Restrict
    <3>2. SeenBy(j)'
      <4>1. CASE Goes(j, "aliasing")
        <5>1. req'[j].at = "aliasing" /\ req'[j].ask = req[j].ask /\ req'[j].target = req[j].target
          BY <4>1, GoesType DEF Place, CatalogPlace, CopyPlace
        <5> QED BY <1>1, <2>1, <5>1 DEF SeenBy, Asks, CatalogPlace
      <4> QED BY <1>2, <2>2, <4>1, Zenon DEF Removed
    <3> QED BY <1>1, <2>2, <3>1, <3>2, SeenAlone
  <2>3. CASE Goes(j, "checking users") /\ UNCHANGED alias /\ req[j].ask.tag \notin DOMAIN alias
    <3>1. UNCHANGED catalog /\ "checking users" \in Place
      BY <2>1, <2>3 DEF catalog, Place, CatalogPlace
    <3>2. SeenBy(j)'
      BY <1>1, <2>1, <2>3, <3>1, GoesSeen
    <3> QED BY <1>3, <3>1, <3>2
  <2> QED BY <1>7, <2>2, <2>3 DEF RemoveAlias
<1>8. CASE CheckUsers(j)
  <2>1. UNCHANGED catalog /\ "finding file" \in Place /\ req[j].at = "checking users"
    BY <1>8 DEF CheckUsers, Place, CatalogPlace
  <2> QED BY <1>1, <1>2, <1>3, <1>8, <2>1, GoesSeen, Zenon DEF CheckUsers
<1>9. CASE FindPath(j)
  <2>1. UNCHANGED catalog /\ req[j].at = "finding file"
    BY <1>9 DEF FindPath
  <2>2. /\ req[j].ask.tag \notin DOMAIN alias /\ Users(req[j].ask.tag) = {}
        /\ Asks(j, "copy") => req[j].target # req[j].ask.tag /\ req[j].target \in sidecar
    BY <1>1, <2>1 DEF SeenBy, CatalogPlace
  <2>3. UNCHANGED <<alias, sidecar>> /\ \A x : Users(x)' = Users(x)
    BY <2>1 DEF catalog, Users
  <2>4. CASE req'[j].at = "ended"
    BY <1>3, <2>1, <2>4, SeenNothing DEF CatalogPlace, CopyPlace
  <2>5. CASE /\ req[j].ask.kind = "copy" /\ req'[j].at = "aliasing" /\ req'[j].target = req[j].target
    <3>1. SeenBy(j)'
      BY <2>2, <2>3, <2>5 DEF SeenBy, Asks
    <3> QED BY <1>3, <2>1, <3>1
  <2>6. CASE /\ req'[j].at = "unlinking" /\ req'[j].ask = req[j].ask /\ req[j].ask.tag \in Installed
             /\ req'[j].found = FileOf(req[j].ask.tag) /\ req'[j].target = req[j].target
    <3>1. req'[j].found = req[j].ask.tag
      BY <2>2, <2>6 DEF Installed, FileOf
    <3>2. SeenBy(j)'
      BY <2>2, <2>3, <2>6, <3>1 DEF SeenBy, Asks
    <3> QED BY <1>3, <2>1, <3>2
  <2> QED BY <1>9, <2>4, <2>5, <2>6, FindPathType
<1>10. CASE UnlinkSidecar(j)
  <2>1. /\ req[j].at = "unlinking" /\ sidecar' = sidecar \ {req[j].found} /\ UNCHANGED alias
        /\ Overtake(j) /\ Goes(j, "unlinking file")
    BY <1>10 DEF UnlinkSidecar
  <2>2. /\ req[j].found = req[j].ask.tag /\ Users(req[j].found) = {}
        /\ Asks(j, "copy") => req[j].target # req[j].ask.tag /\ req[j].target \in sidecar
    BY <1>1, <2>1 DEF SeenBy, CatalogPlace
  <2>3. ModelsOK'
    BY <2>1, <2>2 DEF ModelsOK, Users
  <2>4. req'[j].at = "unlinking file" /\ req'[j].ask = req[j].ask /\ req'[j].target = req[j].target
    BY <2>1, GoesType DEF Place, CatalogPlace
  <2>5. SeenBy(j)'
    BY <2>1, <2>2, <2>4 DEF SeenBy, Asks
  <2> QED BY <1>1, <2>1, <2>3, <2>5, SeenAlone
<1>11. CASE UnlinkFile(j)
  <2>1. /\ req[j].at = "unlinking file" /\ UNCHANGED <<alias, sidecar>>
        /\ Overtake(j) /\ Goes(j, "pruning")
    BY <1>11 DEF UnlinkFile, catalog
  <2>2. Asks(j, "copy") => req[j].target \in sidecar
    BY <1>1, <2>1 DEF SeenBy, CatalogPlace
  <2>3. req'[j].at = "pruning" /\ req'[j].ask = req[j].ask /\ req'[j].target = req[j].target
    BY <2>1, GoesType DEF Place, CatalogPlace
  <2>4. SeenBy(j)' /\ ModelsOK'
    BY <2>1, <2>2, <2>3 DEF SeenBy, Asks, ModelsOK
  <2> QED BY <1>1, <2>1, <2>4, SeenAlone
<1>12. CASE PruneEmptyAncestors(j)
  <2>1. UNCHANGED catalog /\ "aliasing" \in Place /\ req[j].at = "pruning"
    BY <1>12 DEF PruneEmptyAncestors, catalog, Place, CatalogPlace, CopyPlace
  <2>2. req[j].at \in CatalogPlace \ {"finding source", "finding target"}
    BY <2>1 DEF CatalogPlace
  <2> QED BY <1>1, <1>2, <1>3, <1>12, <2>1, <2>2, GoesSeen, Zenon DEF PruneEmptyAncestors, Removed
<1>13. CASE WriteAlias(j)
  <2>1. /\ req[j].at = "aliasing" /\ UNCHANGED sidecar /\ Overtake(j) /\ Ends(j)
        /\ alias' = [x \in DOMAIN alias \cup {req[j].ask.tag} |->
                       IF x = req[j].ask.tag THEN req[j].target ELSE alias[x]]
    BY <1>13 DEF WriteAlias
  <2>2. req[j].target \in sidecar
    BY <1>1, <2>1 DEF SeenBy, Asks, ReqInv, ReqOK, CatalogPlace, CopyPlace
  <2>3. ModelsOK'
    BY <2>1, <2>2 DEF ModelsOK
  <2> QED BY <1>1, <1>2, <2>1, <2>3, SeenAlone
<1> QED BY <1>4, <1>5, <1>6, <1>7, <1>8, <1>9, <1>10, <1>11, <1>12, <1>13 DEF CatalogStep

LEMMA InitSeen == ASSUME Init PROVE SeenInv
<1>1. /\ \A j \in Job : req[j].at = "new"
      /\ DOMAIN alias = {}
  BY FreshType DEF Init, Fresh
<1>2. ModelsOK /\ \A j \in Job : SeenBy(j)
  BY <1>1 DEF ModelsOK, SeenBy, CatalogPlace, CopyPlace
<1> QED BY <1>2, SeenParts

LEMMA NextSeen ==
  ASSUME TypeOK, ReqInv, SlotInv, SeenInv, [Next]_vars
  PROVE  SeenInv'
<1>1. SUFFICES ASSUME history'.overtaken = {} PROVE ModelsOK' /\ \A j \in Job : SeenBy(j)'
  BY SeenPartsNext
<1>2. ASSUME history.overtaken \subseteq history'.overtaken PROVE ModelsOK /\ \A j \in Job : SeenBy(j)
  BY <1>1, <1>2, SeenParts
<1>3. ASSUME NEW j \in Job, Begin(j) PROVE ModelsOK' /\ \A k \in Job : SeenBy(k)'
  <2>1. UNCHANGED <<alias, sidecar, history>> /\ req[j].at = "new"
    BY <1>3 DEF Begin, catalog
  <2>2. ModelsOK /\ \A k \in Job : SeenBy(k)
    BY <1>2, <2>1
  <2>3. Others(j) /\ req'[j].at \in {"resolving", "checking", "finding source"} /\ ReqInv'
    BY <1>3, BeginType
  <2>4. req'[j].at = "checking" => ~Asks(j, "copy")'
    BY <2>3 DEF ReqInv, ReqOK, Asks
  <2>5. SeenBy(j)'
    BY <2>3, <2>4 DEF SeenBy, CatalogPlace, CopyPlace
  <2> QED BY <2>1, <2>2, <2>3, <2>5, SeenSteady
<1>4. ASSUME NEW j \in Job, PullStep(j) PROVE ModelsOK' /\ \A k \in Job : SeenBy(k)'
  <2>1. Others(j) /\ UNCHANGED <<alias, history>> /\ sidecar \subseteq sidecar'
    BY <1>4, PullKeepsSlots
       DEF PullStep, Resolve, AcquireSlot, EnterGuard, FindFile, OpenPartial, Chunk, Rename,
           LeaveGuard, ReleaseSlot, ReadHeader, WriteSidecar, TellSuccess, catalog
  <2>2. ModelsOK /\ \A k \in Job : SeenBy(k)
    BY <1>2, <2>1
  <2>3. SeenBy(j)'
    BY <1>4, PullPlaces, SeenNothing
  <2> QED BY <2>1, <2>2, <2>3, SeenSteady
<1>5. ASSUME NEW j \in Job, CatalogStep(j) PROVE ModelsOK' /\ \A k \in Job : SeenBy(k)'
  <2>1. history.overtaken \subseteq history'.overtaken
    <3>1. CASE Overtake(j)
      BY <3>1, OvertakeType
    <3>2. CASE UNCHANGED history
      BY <3>2
    <3> QED
      BY <1>5, <3>1, <3>2, Zenon
         DEF CatalogStep, CheckDeletable, FindSource, FindTarget, RemoveAlias, CheckUsers, FindPath,
             UnlinkSidecar, UnlinkFile, PruneEmptyAncestors, WriteAlias
  <2> QED BY <1>1, <1>2, <1>5, <2>1, CatalogSeen
<1>6. CASE MoveLease
  <2>1. UNCHANGED <<alias, sidecar, req>> /\ history'.overtaken = history.overtaken
    BY <1>6, MoveLeaseType DEF MoveLease, catalog
  <2> QED BY <1>2, <2>1 DEF ModelsOK, SeenBy, Asks, Installed, Users
<1>7. ASSUME NEW n \in Node, Crash(n) PROVE ModelsOK' /\ \A k \in Job : SeenBy(k)'
  <2>1. /\ UNCHANGED <<alias, sidecar>> /\ history'.overtaken = history.overtaken
        /\ \A j \in Job : req'[j] = (IF j \in Gone(n) THEN Ended ELSE req[j])
        /\ \A j \in Gone(n) : req'[j].at = "ended"
    BY <1>7, CrashType DEF catalog
  <2>2. ModelsOK /\ \A k \in Job : SeenBy(k)
    BY <1>2, <2>1
  <2>3. ASSUME NEW k \in Job PROVE SeenBy(k)'
    <3>1. CASE k \in Gone(n)
      BY <2>1, <3>1, SeenNothing DEF CatalogPlace, CopyPlace
    <3>2. CASE k \notin Gone(n)
      <4>1. SeenBy(k) /\ req'[k] = req[k]
        BY <2>1, <2>2, <3>2
      <4> QED BY <2>1, <4>1 DEF SeenBy, Asks, Installed, Users
    <3> QED BY <3>1, <3>2
  <2> QED BY <2>1, <2>2, <2>3 DEF ModelsOK
<1>8. CASE UNCHANGED vars
  <2>1. UNCHANGED <<alias, sidecar, req, history>>
    BY <1>8 DEF vars, catalog
  <2> QED BY <1>2, <2>1 DEF ModelsOK, SeenBy, Asks, Installed, Users
<1> QED BY <1>3, <1>4, <1>5, <1>6, <1>7, <1>8 DEF Next

(* The inductive invariant of the models folder. *)
THEOREM LibraryInvariant == Spec => []LibraryInv
<1>1. Init => LibraryInv
  BY InitType, InitSlots, InitWhole, InitSuccess, InitSeen DEF LibraryInv
<1>2. LibraryInv /\ [Next]_vars => LibraryInv'
  BY NextSlots, NextWhole, NextSuccess, NextSeen DEF LibraryInv
<1> QED BY <1>1, <1>2, PTL DEF Spec

(* An alias has its model as long as no request has changed the catalog      *)
(* under another: what delete and copy look at holds only then               *)
(* (AliasesHaveModels).                                                      *)
THEOREM AliasesHaveModelsHolds == Spec => []AliasesHaveModels
<1>1. LibraryInv => AliasesHaveModels
  BY DEF LibraryInv, SeenInv
<1> QED BY <1>1, LibraryInvariant, PTL
=============================================================================
