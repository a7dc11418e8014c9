---------------------------- MODULE QueueSafety ----------------------------
(***************************************************************************)
(* The last part of the proofs about the queue: the invariant is inductive *)
(* and implies the safety properties.                                      *)
(***************************************************************************)
EXTENDS QueueDrainProofs

USE DEF NULL, HEAD, PARKED, UNQUEUED, DEQUEUED, NONE
USE Markers

(* Steps that change the tail between two states, or nothing. *)
LEMMA StillListInv ==
    ASSUME IInv, UNCHANGED <<next, prev, mutex, pc, seen, locals>>,
           tail' = tail \/ (tail \in States /\ tail' \in States)
    PROVE  ListInv'
<1>1. ListInv /\ TypeOK
  BY DEF IInv
<1>2. /\ next' = next /\ prev' = prev /\ mutex' = mutex /\ pc' = pc /\ seen' = seen
      /\ cur' = cur /\ pre' = pre /\ loc' = loc /\ nxt' = nxt /\ ret' = ret
  BY DEF locals
<1>3. /\ \A S : At(S)' <=> At(S)
      /\ \A r : Waiting(r)' <=> Waiting(r)
      /\ Unlinking' <=> Unlinking
  BY <1>2 DEF At, Waiting, Unlinking
<1>4. /\ \A n \in Nodes : RawQueued(n)' <=> RawQueued(n)
      /\ \A n \in Nodes : InList(n)' <=> InList(n)
      /\ \A n \in Nodes : PrevOf(n)' = PrevOf(n)
      /\ \A l \in Lockers : Hooked(l)' <=> Hooked(l)
      /\ \A l \in Lockers : Draining(l)' <=> Draining(l)
  BY <1>2, <1>3 DEF RawQueued, InList, CutOut, PrevOf, Hooked, Draining
<1>5. /\ \A l \in Lockers : Active(l)' <=> Active(l)
      /\ \A n \in Nodes : Pred(n)' = Pred(n)
      /\ End' = End
  BY <1>2, <1>4 DEF Active, Pred, End
<1>6. SameLists
  BY <1>2, <1>4, <1>5 DEF SameLists
<1>7. Listed' /\ \A x : Place(x)' <=> Place(x)
  BY <1>1, <1>6, SameListsListed, SamePlaces DEF ListInv
<1>8. NextInv'
  BY <1>1, <1>2, <1>3, <1>4, <1>5, <1>7 DEF ListInv, NextInv, NextIsNode, NextIsSentinel, PhaseTwo,
     NextIsSet, SentinelHooked, SentinelNext, ParkedMark
<1>9. RemoveInv'
  BY <1>1, <1>2, <1>3, <1>4, <1>5, <1>7 DEF ListInv, RemoveInv, RemoveCur, RemoveLinked, RemoveRelink
<1>10. GetNextInv'
  <2>1. Waiting("rm_relink") => cur \in Nodes
    BY <1>1 DEF ListInv, RemoveInv, RemoveCur
  <2> QED
    BY <1>1, <1>2, <1>3, <2>1 DEF ListInv, GetNextInv, GetNextLoc, GetNextParking, GetNextSeen
<1>11. GuardInv'
  BY <1>1, <1>2, <1>3, <1>4, <1>5 DEF ListInv, GuardInv, GuardFirst, GuardIdle, GuardDrained
<1> QED
  BY <1>7, <1>8, <1>9, <1>10, <1>11 DEF ListInv

(* enqueue and the steps of an owner. *)
LEMMA EnqueueStepListInv ==
    ASSUME IInv, NEW n \in Nodes, Enqueue(n) \/ Link(n)
    PROVE  ListInv'
<1> USE DEF Goto, Step, HolderPC, GetNextPC, RemovePC, DrainPC, GuardPC
<1>0. TypeOK /\ n \in Procs /\ n \in Links /\ n \in Locations
  BY DEF IInv, Procs, Links, Locations
<1>1. CASE EnqueueLoad(n)
  <2>1. Quiet(n)
    BY <1>0, <1>1 DEF EnqueueLoad, Owns, Quiet, RawQueued, TypeOK, memory
  <2> QED
    BY <2>1, QuietStep
<1>2. CASE EnqueueCas(n)
  <2>1. CASE tail = seen[n] /\ tail' = n /\ Goto(n, "enq_link") /\ UNCHANGED seen
    BY <1>2, <2>1, EnqueueCasListInv DEF EnqueueCas
  <2>2. CASE seen' = [seen EXCEPT ![n] = tail] /\ UNCHANGED <<tail, pc>>
    <3>1. Quiet(n)
      BY <1>0, <1>2, <2>2 DEF EnqueueCas, Quiet, TypeOK
    <3> QED
      BY <3>1, QuietStep
  <2> QED
    BY <1>2, <2>1, <2>2 DEF EnqueueCas
<1>3. CASE EnqueueRefuse(n)
  <2>1. Quiet(n)
    BY <1>0, <1>3 DEF EnqueueRefuse, Quiet, TypeOK, RawQueued
  <2> QED
    BY <2>1, QuietStep
<1>4. CASE EnqueueLink(n)
  BY <1>4, EnqueueLinkListInv
<1>5. CASE EnqueueCheck(n)
  <2>1. Quiet(n)
    BY <1>0, <1>5 DEF EnqueueCheck, Enqueued, Quiet, TypeOK, memory
  <2> QED
    BY <2>1, QuietStep
<1>6. CASE EnqueueUnpark(n)
  <2>1. Quiet(n)
    BY <1>0, <1>6 DEF EnqueueUnpark, Enqueued, Quiet, TypeOK
  <2> QED
    BY <2>1, QuietStep
<1> QED
  BY <1>1, <1>2, <1>3, <1>4, <1>5, <1>6 DEF Enqueue, Link

(* Every step of the owner of a node keeps ListInv. *)
LEMMA OwnerStepListInv ==
    ASSUME IInv, NEW n \in Nodes, Owner(n)
    PROVE  ListInv'
<1> USE DEF Goto, Step
<1>0. TypeOK /\ n \in Procs /\ n \in Links /\ n \in Locations
  BY DEF IInv, Procs, Links, Locations
<1>n. n \notin live => pc[n] = "idle" /\ ~RawQueued(n)
  BY DEF IInv, OwnersInv
<1>1. CASE New(n)
  <2>1. Quiet(n)
    BY <1>0, <1>1, <1>n DEF New, Quiet, TypeOK, RawQueued, HolderPC, GetNextPC, RemovePC, DrainPC, GuardPC
  <2> QED
    BY <2>1, QuietStep
<1>2. CASE Reset(n)
  <2>1. Quiet(n)
    BY <1>0, <1>2 DEF Reset, Owns, Quiet, TypeOK, RawQueued, HolderPC, GetNextPC, RemovePC, DrainPC, GuardPC
  <2> QED
    BY <2>1, QuietStep
<1>3. CASE OwnerSeesQueued(n)
  <2>1. Quiet(n)
    BY <1>0, <1>3 DEF OwnerSeesQueued, Owns, Quiet, TypeOK, memory, HolderPC, GetNextPC, RemovePC,
       DrainPC, GuardPC
  <2> QED
    BY <2>1, QuietStep
<1>4. CASE OwnerDrop(n)
  <2>1. Quiet(n)
    BY <1>0, <1>4 DEF OwnerDrop, Owns, Quiet, TypeOK, HolderPC, GetNextPC, RemovePC, DrainPC, GuardPC
  <2> QED
    BY <2>1, QuietStep
<1>5. CASE OwnerLock(n)
  <2>1. pc[n] \notin HolderPC \cup {"dr_hooked", "enq_link", "enq_cas"}
    BY <1>5 DEF OwnerLock, HolderPC, GetNextPC, RemovePC, DrainPC, GuardPC
  <2> QED
    BY <1>0, <1>5, <2>1, LockListInv DEF OwnerLock, memory, locals
<1>6. CASE OwnerRecheck(n)
  BY <1>6, OwnerRecheckListInv
<1>7. CASE OwnerUnlock(n)
  BY <1>0, <1>7, UnlockListInv DEF OwnerUnlock, locals
<1> QED
  BY <1>1, <1>2, <1>3, <1>4, <1>5, <1>6, <1>7 DEF Owner

(* A thread that locks the queue. *)
LEMMA LockerStepListInv ==
    ASSUME IInv, NEW l \in Lockers, Locker(l)
    PROVE  ListInv'
<1> USE DEF Goto, Step
<1>0. /\ TypeOK /\ l \in Procs
      /\ pc[l] = "locked" => next[l] = NULL
      /\ pc[l] = "dr_empty" => next[l] = NULL
  <2>1. ~Draining(l) /\ ~Hooked(l) => next[l] = NULL
    BY DEF IInv, ListInv, NextInv, SentinelNext
  <2>2. pc[l] \in {"locked", "dr_empty"} => ~Draining(l) /\ ~Hooked(l)
    BY DEF Draining, Hooked, Waiting, At, GetNextPC
  <2> QED
    BY <2>1, <2>2 DEF IInv, Procs
<1>1. CASE Lock(l)
  <2>1. pc[l] \notin HolderPC \cup {"dr_hooked", "enq_link", "enq_cas"}
    BY <1>1 DEF Lock, HolderPC, GetNextPC, RemovePC, DrainPC, GuardPC
  <2> QED
    BY <1>0, <1>1, <2>1, LockListInv DEF Lock, memory, locals
<1>2. CASE Unlock(l)
  BY <1>0, <1>2, UnlockListInv DEF Unlock, memory, locals
<1>3. CASE Dequeue(l) \/ Pop(l) \/ \E s \in States : DrainNew(l, s)
  BY <1>3, SelectListInv
<1>4. CASE Requeue(l)
  BY <1>4, RequeueListInv
<1>5. CASE \E s \in States : RemoveDequeued(l, s) \/ RemovePopped(l, s)
  BY <1>5, RemoveGuardedListInv
<1>6. CASE DrainNext(l)
  BY <1>6, DrainOneListInv
<1>7. CASE DrainUnlock(l)
  <2>1. CASE next[l] = NULL
    BY <1>0, <1>7, <2>1, UnlockListInv DEF DrainUnlock, locals
  <2>2. CASE next[l] # NULL
    BY <1>7, <2>2, DrainUnlockListInv
  <2> QED
    BY <2>1, <2>2
<1>8. CASE DrainRelock(l)
  <2>1. CASE pc[l] = "dr_hooked"
    BY <1>8, <2>1, DrainRelockListInv
  <2>2. CASE pc[l] = "dr_empty"
    <3>1. pc[l] \notin HolderPC \cup {"dr_hooked", "enq_link", "enq_cas"}
      BY <2>2 DEF HolderPC, GetNextPC, RemovePC, DrainPC, GuardPC
    <3>2. /\ mutex = NONE /\ mutex' = l /\ pc' = [pc EXCEPT ![l] = "drain"]
          /\ UNCHANGED <<tail, next, prev, seen, nxt, ret>>
      BY <1>0, <1>8, <2>2 DEF DrainRelock, locals
    <3> QED
      BY <1>0, <3>1, <3>2, LockListInv
  <2> QED
    BY <1>8, <2>1, <2>2 DEF DrainRelock
<1>9. CASE DrainEnd(l)
  <2>1. /\ \A n \in Nodes : prev'[n] = prev[n]
        /\ \A k \in Lockers : prev'[k] = prev[k] \/ (k = l /\ next[l] = NULL)
    BY <1>0, <1>9 DEF DrainEnd, TypeOK, Links
  <2> QED
    BY <1>0, <1>9, <2>1, UnlockListInv DEF DrainEnd, locals
<1> QED
  BY <1>1, <1>2, <1>3, <1>4, <1>5, <1>6, <1>7, <1>8, <1>9 DEF Locker

(* Every step keeps the lists. *)
LEMMA ListStep ==
    ASSUME IInv, [Next]_vars
    PROVE  ListInv'
<1>1. ASSUME NEW n \in Nodes, Enqueue(n) \/ Link(n) PROVE ListInv'
  BY <1>1, EnqueueStepListInv
<1>2. ASSUME NEW n \in Nodes, Owner(n) PROVE ListInv'
  BY <1>2, OwnerStepListInv
<1>3. ASSUME NEW p \in Procs, GetNextStep(p) PROVE ListInv'
  BY <1>3, GetNextListInv
<1>4. ASSUME NEW p \in Procs, RemoveStep(p) PROVE ListInv'
  BY <1>4, RemoveNextListInv, RemoveClearListInv, RemoveCasSucceeds, RemoveCasFails,
     RemoveRelinkPrevListInv, RemoveRelinkNextListInv, RemoveDoneListInv DEF RemoveStep
<1>5. ASSUME NEW l \in Lockers, Locker(l) PROVE ListInv'
  BY <1>5, LockerStepListInv
<1>6. ASSUME NEW l \in Lockers, DrainStep(l) PROVE ListInv'
  BY <1>6, DrainClearListInv, DrainSwapListInv, DrainOneListInv, DrainStoreListInv DEF DrainStep
<1>7. ASSUME NEW s \in States, UpdateState(s) PROVE ListInv'
  BY <1>7, StillListInv DEF UpdateState
<1>8. ASSUME UNCHANGED vars PROVE ListInv'
  BY <1>8, StillListInv DEF vars, memory
<1> QED
  BY <1>1, <1>2, <1>3, <1>4, <1>5, <1>6, <1>7, <1>8 DEF Next

-----------------------------------------------------------------------------
(* The nodes the lock holder or an inserter writes are in a list. *)
LEMMA Written ==
    ASSUME IInv
    PROVE  /\ \A n \in Nodes : pc[n] = "enq_link" /\ PrevOf(n) \in Nodes => InList(PrevOf(n))
           /\ \A p \in Procs : pc[p] \in GetNextPC => Place(loc)
           /\ \A p \in Procs : pc[p] \in RemovePC =>
                 cur \in Nodes /\ RawQueued(cur) /\ pc[cur] # "enq_cas" /\ Place(pre)
           /\ \A p \in Procs : pc[p] \in {"rm_relink", "rm_relink2"} =>
                 \/ nxt \in Nodes /\ InList(nxt)
                 \/ nxt \in Lockers /\ Hooked(nxt)
           /\ \A l \in Lockers : pc[l] \in {"drain", "drained", "dr_store"} /\ next[l] # NULL =>
                 next[l] \in Nodes /\ InList(next[l]) /\ prev[l] \in Nodes /\ InList(prev[l])
<1>1. ASSUME NEW n \in Nodes, pc[n] = "enq_link", PrevOf(n) \in Nodes PROVE InList(PrevOf(n))
  BY <1>1, Reachable DEF IInv, ListInv, NextInv, PhaseTwo, Place
<1>2. ASSUME NEW p \in Procs, pc[p] \in HolderPC PROVE mutex = p
  BY <1>2 DEF IInv, LockDiscipline
<1>3. \A p \in Procs : pc[p] \in GetNextPC => Place(loc)
  BY <1>2, Reachable DEF At, HolderPC
<1>4. \A p \in Procs : pc[p] \in RemovePC =>
         cur \in Nodes /\ RawQueued(cur) /\ pc[cur] # "enq_cas" /\ Place(pre)
  BY <1>2, Removing DEF At, HolderPC
<1>5. \A p \in Procs : pc[p] \in {"rm_relink", "rm_relink2"} =>
         \/ nxt \in Nodes /\ InList(nxt)
         \/ nxt \in Lockers /\ Hooked(nxt)
  BY <1>2 DEF IInv, ListInv, RemoveInv, RemoveRelink, At, HolderPC, RemovePC
<1>6. ASSUME NEW l \in Lockers, pc[l] \in {"drain", "drained", "dr_store"}, next[l] # NULL
      PROVE  next[l] \in Nodes /\ InList(next[l]) /\ prev[l] \in Nodes /\ InList(prev[l])
  BY <1>2, <1>6, FirstDrained DEF Place, HolderPC, DrainPC, Procs
<1> QED
  BY <1>1, <1>3, <1>4, <1>5, <1>6

(* Every step keeps the memory of listed and busy nodes valid. *)
LEMMA OwnersStep ==
    ASSUME IInv, [Next]_vars
    PROVE  OwnersInv'
<1> USE DEF Goto, Step
<1>0. TypeOK /\ OwnersInv
  BY DEF IInv
<1>a. /\ \A p, q \in Procs : pc[p] \in HolderPC /\ pc[q] \in HolderPC => p = q
      /\ \A n \in Nodes : n \in Procs /\ n \in Links /\ n \in Locations
      /\ \A l \in Lockers : l \in Procs /\ l \in Links /\ l \in Locations
  BY DEF IInv, LockDiscipline, Procs, Links, Locations
<1>1. ASSUME NEW n \in Nodes, Enqueue(n) PROVE OwnersInv'
  BY <1>0, <1>1, <1>a DEF Enqueue, EnqueueLoad, EnqueueCas, EnqueueRefuse, Owns, PrevOf, OwnersInv, RawQueued,
     TypeOK, memory, locals, GetNextPC, RemovePC
<1>2. ASSUME NEW n \in Nodes, Link(n) PROVE OwnersInv'
  <2>1. CASE EnqueueLink(n)
    <3>1. PrevOf(n) \in Nodes => RawQueued(PrevOf(n)) /\ pc[PrevOf(n)] # "enq_cas"
      BY <2>1, Written DEF EnqueueLink, InList
    <3>2. /\ UNCHANGED <<prev, live, dropping, cur>>
          /\ \A m \in Nodes : m # PrevOf(n) => next'[m] = next[m]
          /\ \A m \in Nodes : m # n => pc'[m] = pc[m]
          /\ pc[n] = "enq_link" /\ pc'[n] \in {"idle", "enq_check", "enq_unpark"}
      BY <1>0, <1>a, <2>1 DEF EnqueueLink, Enqueued, TypeOK, locals
    <3> QED
      BY <1>0, <3>1, <3>2 DEF OwnersInv, RawQueued, GetNextPC, RemovePC
  <2>2. CASE EnqueueCheck(n) \/ EnqueueUnpark(n)
    BY <1>0, <1>a, <2>2 DEF EnqueueCheck, EnqueueUnpark, Enqueued, OwnersInv, RawQueued, TypeOK, memory, locals,
       GetNextPC, RemovePC
  <2> QED
    BY <1>2, <2>1, <2>2 DEF Link
<1>3. ASSUME NEW n \in Nodes, Owner(n) PROVE OwnersInv'
  <2>1. CASE New(n) \/ Reset(n) \/ OwnerSeesQueued(n) \/ OwnerDrop(n)
    BY <1>0, <1>a, <2>1 DEF New, Reset, OwnerSeesQueued, OwnerDrop, Owns, OwnersInv, RawQueued, TypeOK, memory,
       locals, GetNextPC, RemovePC
  <2>2. CASE OwnerLock(n) \/ OwnerUnlock(n)
    BY <1>0, <1>a, <2>2 DEF OwnerLock, OwnerUnlock, OwnersInv, RawQueued, TypeOK, memory, locals, GetNextPC, RemovePC
  <2>3. CASE OwnerRecheck(n)
    <3>1. /\ UNCHANGED <<prev, next, live, dropping>> /\ pc[n] = "recheck"
          /\ \A m \in Nodes : m # n => pc'[m] = pc[m]
          /\ \/ pc'[n] = "rm_next" /\ cur' = n
             \/ pc'[n] = "unlock" /\ cur' = cur /\ (RawQueued(n) => n \notin dropping)
      BY <1>0, <1>a, <2>3 DEF OwnerRecheck, StartRemove, StillQueued, TypeOK, memory
    <3> QED
      BY <1>0, <1>a, <3>1 DEF OwnersInv, RawQueued, HolderPC, GuardPC, GetNextPC, RemovePC
  <2> QED
    BY <1>3, <2>1, <2>2, <2>3 DEF Owner
<1>4. ASSUME NEW p \in Procs, GetNextStep(p) PROVE OwnersInv'
  <2>1. loc \in Nodes => RawQueued(loc) /\ pc[loc] # "enq_cas"
    BY <1>4, Written DEF GetNextStep, GetNextLoad, GetNextAnnounce, GetNextCheck, GetNextClear, GetNextPark,
       GetNextReload, GetNextPC, Place, InList
  <2>2. ret \in {"dequeue", "rm_next", "rm_relink", "dr_clear", "dr_store"} /\ (p \in Nodes => ret = "rm_relink")
    BY <1>4 DEF IInv, LockDiscipline, GetNextStep, GetNextLoad, GetNextAnnounce, GetNextCheck, GetNextClear,
       GetNextPark, GetNextReload, GetNextPC
  <2>3. /\ UNCHANGED <<prev, live, dropping, cur>>
        /\ \A m \in Nodes : m # loc => next'[m] = next[m]
        /\ \A m \in Nodes : m # p => pc'[m] = pc[m]
        /\ pc[p] \in GetNextPC /\ pc'[p] \in GetNextPC \cup {ret}
    BY <1>0, <1>a, <1>4 DEF GetNextStep, GetNextLoad, GetNextAnnounce, GetNextCheck, GetNextClear,
       GetNextPark, GetNextReload, Return, GetNextPC, TypeOK, memory, locals
  <2> QED
    BY <1>0, <2>1, <2>2, <2>3 DEF OwnersInv, RawQueued, GetNextPC, RemovePC
<1>5. ASSUME NEW p \in Procs, RemoveStep(p) PROVE OwnersInv'
  <2>1. /\ pc[p] \in RemovePC /\ cur \in Nodes /\ RawQueued(cur) /\ pc[cur] # "enq_cas"
        /\ pre \in Nodes => RawQueued(pre) /\ pc[pre] # "enq_cas"
        /\ p \in Nodes => cur = p
    <3>1. pc[p] \in RemovePC
      BY <1>5 DEF RemoveStep, RemoveNext, RemoveClear, RemoveCas, RemoveRelinkPrev, RemoveRelinkNext, RemoveDone,
         RemovePC
    <3> QED
      BY <1>0, <3>1, Written DEF Place, InList, OwnersInv
  <2>2. CASE RemoveNext(p) \/ RemoveCas(p)
    <3>1. /\ UNCHANGED <<prev, next, live, dropping, cur>>
          /\ \A m \in Nodes : m # p => pc'[m] = pc[m]
          /\ pc'[p] \in RemovePC \cup GetNextPC
      BY <1>0, <1>a, <2>2 DEF RemoveNext, RemoveCas, GetNext, RemovePC, GetNextPC, TypeOK, memory
    <3> QED
      BY <1>0, <2>1, <3>1 DEF OwnersInv, RawQueued, GetNextPC, RemovePC
  <2>3. CASE RemoveClear(p) \/ RemoveRelinkNext(p)
    <3>1. /\ UNCHANGED <<prev, live, dropping, cur>>
          /\ \A m \in Nodes : m # pre => next'[m] = next[m]
          /\ \A m \in Nodes : m # p => pc'[m] = pc[m]
          /\ pc'[p] \in RemovePC
      BY <1>0, <1>a, <2>3 DEF RemoveClear, RemoveRelinkNext, RemovePC, TypeOK, locals
    <3> QED
      BY <1>0, <2>1, <3>1 DEF OwnersInv, RawQueued, GetNextPC, RemovePC
  <2>4. CASE RemoveRelinkPrev(p)
    <3>1. /\ UNCHANGED <<next, live, dropping, cur>>
          /\ \A m \in Nodes : m # nxt => prev'[m] = prev[m]
          /\ \A m \in Nodes : m = nxt => prev'[m] = pre /\ RawQueued(m)
          /\ \A m \in Nodes : m # p => pc'[m] = pc[m]
          /\ pc'[p] = "rm_relink2"
      BY <1>0, <1>a, <2>4, Written DEF RemoveRelinkPrev, TypeOK, locals, InList
    <3>2. pre # UNQUEUED /\ pre # DEQUEUED
      BY <2>1, Written DEF Place
    <3> QED
      BY <1>0, <2>1, <3>1, <3>2 DEF OwnersInv, RawQueued, GetNextPC, RemovePC
  <2>5. CASE RemoveDone(p)
    <3>1. /\ UNCHANGED <<next, live, dropping>>
          /\ \A m \in Nodes : m # cur => prev'[m] = prev[m]
          /\ prev'[cur] = DEQUEUED
          /\ \A m \in Nodes : m # p => pc'[m] = pc[m]
          /\ \A m \in Nodes : m = p => pc'[m] = "unlock"
      BY <1>0, <1>a, <2>1, <2>5 DEF RemoveDone, TypeOK
    <3>2. \A m \in Nodes : m # p => pc[m] \notin GetNextPC \cup RemovePC
      BY <1>a, <2>1 DEF HolderPC
    <3> QED
      BY <1>0, <2>1, <3>1, <3>2 DEF OwnersInv, RawQueued, GetNextPC, RemovePC
  <2> QED
    BY <1>5, <2>2, <2>3, <2>4, <2>5 DEF RemoveStep
<1>6. ASSUME NEW l \in Lockers, Locker(l) \/ DrainStep(l) PROVE OwnersInv'
  <2>1. /\ UNCHANGED <<live, dropping>>
        /\ \A m \in Nodes : pc'[m] = pc[m]
        /\ cur' = cur \/ \A m \in Nodes : pc[m] \notin GetNextPC \cup RemovePC
    <3>1. pc[l] \in HolderPC => \A m \in Nodes : pc[m] \notin HolderPC
      BY <1>a
    <3>2. UNCHANGED <<live, dropping>> /\ \A m \in Nodes : pc'[m] = pc[m]
      BY <1>0, <1>a, <1>6 DEF Locker, DrainStep, Lock, Unlock, Dequeue, Pop, Requeue, RemoveDequeued, RemovePopped,
         DrainNew, DrainNext, DrainUnlock, DrainRelock, DrainEnd, DrainClear, DrainSwap, DrainDrop, DrainStore,
         StartRemove, GetNext, memory, locals, TypeOK
    <3>3. cur' = cur \/ pc[l] \in {"locked", "dequeue", "pop"}
      BY <1>6 DEF Locker, DrainStep, Lock, Unlock, Dequeue, Pop, Requeue, RemoveDequeued, RemovePopped,
         DrainNew, DrainNext, DrainUnlock, DrainRelock, DrainEnd, DrainClear, DrainSwap, DrainDrop, DrainStore,
         StartRemove, GetNext, memory, locals
    <3> QED
      BY <3>1, <3>2, <3>3 DEF HolderPC, GuardPC
  <2>2. \A m \in Nodes : /\ next'[m] = next[m] \/ (RawQueued(m) /\ pc[m] # "enq_cas")
                         /\ prev'[m] = prev[m] \/ RawQueued(m)
                         /\ prev'[m] = prev[m] \/ prev'[m] # UNQUEUED
    <3>1. CASE DrainStore(l)
      <4>1. next[l] \in Nodes /\ RawQueued(next[l])
        BY <3>1, Written DEF DrainStore, IInv, ListInv, GuardInv, GuardDrained, InList
      <4> QED
        BY <1>0, <1>a, <3>1, <4>1 DEF DrainStore, TypeOK
    <3>2. CASE DrainUnlock(l)
      <4>1. CASE next[l] = NULL
        BY <3>2, <4>1 DEF DrainUnlock
      <4>2. CASE next[l] # NULL
        <5>1. /\ next[l] \in Nodes /\ RawQueued(next[l])
              /\ prev[l] \in Nodes /\ RawQueued(prev[l]) /\ pc[prev[l]] # "enq_cas"
          BY <3>2, <4>2, Written DEF DrainUnlock, InList
        <5>2. prev' = [prev EXCEPT ![next[l]] = l] /\ next' = [next EXCEPT ![prev[l]] = l]
          BY <3>2, <4>2 DEF DrainUnlock
        <5> QED
          BY <1>0, <1>a, <5>1, <5>2 DEF TypeOK
      <4> QED
        BY <4>1, <4>2
    <3>3. CASE DrainSwap(l) \/ DrainRelock(l) \/ DrainEnd(l) \/ DrainClear(l)
      BY <1>0, <1>a, <3>3 DEF DrainSwap, DrainRelock, DrainEnd, DrainClear, TypeOK
    <3>4. CASE ~(DrainStore(l) \/ DrainUnlock(l) \/ DrainSwap(l) \/ DrainRelock(l) \/ DrainEnd(l) \/ DrainClear(l))
      BY <1>6, <3>4 DEF Locker, DrainStep, Lock, Unlock, Dequeue, Pop, Requeue, RemoveDequeued, RemovePopped,
         DrainNew, DrainNext, DrainDrop, memory
    <3> QED
      BY <3>1, <3>2, <3>3, <3>4
  <2> QED
    BY <1>0, <2>1, <2>2 DEF OwnersInv, RawQueued
<1>7. ASSUME NEW s \in States, UpdateState(s) PROVE OwnersInv'
  BY <1>0, <1>7 DEF UpdateState, OwnersInv, RawQueued, locals
<1>8. ASSUME UNCHANGED vars PROVE OwnersInv'
  BY <1>0, <1>8 DEF vars, memory, locals, OwnersInv, RawQueued
<1> QED
  BY <1>1, <1>2, <1>3, <1>4, <1>5, <1>6, <1>7, <1>8 DEF Next

-----------------------------------------------------------------------------
(* The inductive invariant holds in a new queue. *)
LEMMA Initially ==
    ASSUME Init
    PROVE  IInv
<1>1. TypeOK
  BY DEF Init, TypeOK, Procs, Locations, Links, FreePC
<1>2. LockDiscipline
  BY DEF Init, LockDiscipline, Procs, HolderPC, GetNextPC, RemovePC, DrainPC, GuardPC, LockerPC, NodePC
<1>3. OwnersInv
  BY DEF Init, OwnersInv, RawQueued, Links, Locations, Procs, GetNextPC, RemovePC
<1>4. /\ \A S : ~At(S)
      /\ \A n \in Nodes : ~InList(n)
      /\ \A l \in Lockers : ~Hooked(l) /\ ~Draining(l) /\ ~Active(l)
      /\ \A r : ~Waiting(r)
      /\ ~Unlinking
      /\ \A p \in Procs : pc[p] = "idle"
      /\ \A x \in Locations : next[x] = NULL
  BY DEF Init, At, InList, RawQueued, Hooked, Draining, Active, Waiting, Unlinking, Links, Procs
<1>5. RemoveInv /\ GetNextInv
  BY <1>4 DEF RemoveInv, RemoveCur, RemoveLinked, RemoveRelink, GetNextInv, GetNextLoc, GetNextParking,
     GetNextSeen, GetNextPC, Procs
<1>6. GuardInv
  BY <1>4 DEF Init, GuardInv, GuardFirst, GuardIdle, GuardDrained, Procs
<1>7. NextInv
  BY <1>4 DEF NextInv, NextIsNode, NextIsSentinel, PhaseTwo, NextIsSet, SentinelHooked, SentinelNext, ParkedMark,
     Locations, Links, Procs
<1>8. Listed
  <2> DEFINE own == [x \in Locations |-> x]
  <2>1. own \in [Locations -> Locations]
    OBVIOUS
  <2>2. PredInv(own)
    BY <1>4 DEF PredInv, Locations, Links
  <2>3. End = HEAD
    BY DEF Init, End
  <2>4. EndInv(own)
    BY <1>4, <2>3 DEF EndInv, Place, Locations, Links
  <2>5. Acyclic
    BY <1>4 DEF Acyclic
  <2> QED
    BY <2>1, <2>2, <2>4, <2>5 DEF Listed
<1> QED
  BY <1>1, <1>2, <1>3, <1>5, <1>6, <1>7, <1>8 DEF IInv, ListInv

(* Every step keeps the inductive invariant. *)
LEMMA Inductive ==
    ASSUME IInv, [Next]_vars
    PROVE  IInv'
<1>1. TypeOK'
  <2>1. CASE Next
    BY <2>1, TypeStep
  <2>2. CASE UNCHANGED vars
    BY <2>2 DEF IInv, TypeOK, vars, memory, locals
  <2> QED
    BY <2>1, <2>2
<1>2. LockDiscipline'
  BY DisciplineStep DEF IInv, TypeOK, Control, PCs
<1> QED
  BY <1>1, <1>2, OwnersStep, ListStep DEF IInv

(* In every reachable state of the queue the lists, the registers of the   *)
(* lock holder and the memory of the nodes fit together.                   *)
THEOREM Invariant == Spec => []IInv
<1>1. Init => IInv
  BY Initially
<1>2. IInv /\ [Next]_vars => IInv'
  BY Inductive
<1> QED
  BY <1>1, <1>2, PTL DEF Spec

(* The variables, the pointers above all, hold values of their types.      *)
THEOREM TypeCorrect == Spec => []TypeOK
<1>1. IInv => TypeOK
  BY DEF IInv
<1> QED
  BY <1>1, Invariant, PTL

(* No inserter and no lock holder follows a pointer to a dropped node or   *)
(* to the sentinel of a Drain that has ended.                              *)
THEOREM NoUseAfterFree == Spec => []NoDangling
<1>1. ASSUME IInv PROVE NoDangling
  <2>0. TypeOK /\ OwnersInv
    BY <1>1 DEF IInv
  <2>1. \A x : Place(x) => x \in ValidLinks \cup {HEAD}
    <3>1. \A n \in Nodes : InList(n) => n \in live
      BY <2>0 DEF OwnersInv, InList
    <3>2. \A l \in Lockers : Active(l) => pc[l] # "idle"
      BY DEF Active, Hooked, Draining, Waiting, At, GetNextPC
    <3> QED
      BY <3>1, <3>2 DEF Place, ValidLinks
  <2>2. \A n \in Nodes : InList(n) => n \in live
    BY <2>0 DEF OwnersInv, InList
  <2>3. \A n \in Nodes : pc[n] = "enq_link" => PrevOf(n) \in live \cup {HEAD}
    BY <1>1, <2>2, Written DEF PrevOf
  <2>4. \A p \in Procs : pc[p] \in GetNextPC => loc \in ValidLinks \cup {HEAD}
    BY <1>1, <2>1, Written
  <2>5. \A p \in Procs : pc[p] \in RemovePC => cur \in live /\ pre \in ValidLinks \cup {HEAD}
    BY <1>1, <2>0, <2>1, Written DEF OwnersInv
  <2>6. \A p \in Procs : pc[p] \in {"rm_relink", "rm_relink2"} => nxt \in ValidLinks
    BY <1>1, <2>2, Written DEF ValidLinks, Hooked
  <2>7. \A l \in Lockers : pc[l] \in {"drain", "drained", "dr_store"} /\ next[l] # NULL =>
           {next[l], prev[l]} \subseteq live
    BY <1>1, <2>2, Written
  <2> QED
    BY <2>3, <2>4, <2>5, <2>6, <2>7 DEF NoDangling
<1> QED
  BY <1>1, Invariant, PTL

(* A node that a Dequeue, Pop or NodeDrained guard gives access to, or     *)
(* that is being removed, is alive and Queued for its owner.               *)
THEOREM GuardsAreSafe == Spec => []GuardedIsQueued
<1>1. ASSUME IInv PROVE GuardedIsQueued
  <2> SUFFICES ASSUME NEW p \in Procs
               PROVE  /\ pc[p] = "dequeue" => nxt \in live /\ InList(nxt)
                      /\ pc[p] = "pop" => cur \in live /\ InList(cur)
                      /\ pc[p] \in RemovePC => RawQueued(cur) /\ pc[cur] # "enq_cas"
                      /\ pc[p] \in {"drained", "dr_store"} => next[p] \in live /\ InList(next[p])
    BY DEF GuardedIsQueued
  <2>1. \A n \in Nodes : InList(n) => n \in live
    BY <1>1 DEF IInv, OwnersInv, InList
  <2>2. pc[p] \in HolderPC => mutex = p
    BY <1>1 DEF IInv, LockDiscipline
  <2>3. pc[p] = "dequeue" => nxt \in Nodes /\ InList(nxt)
    BY <1>1, <2>2 DEF IInv, ListInv, GuardInv, GuardFirst, At, HolderPC, GuardPC
  <2>4. pc[p] = "pop" => cur \in Nodes /\ InList(cur)
    BY <1>1, <2>2 DEF IInv, ListInv, GuardInv, GuardFirst, At, HolderPC, GuardPC
  <2>5. pc[p] \in {"drained", "dr_store"} => next[p] \in Nodes /\ InList(next[p])
    <3>1. pc[p] \in {"drained", "dr_store"} => p \in Lockers
      BY <1>1 DEF IInv, LockDiscipline, LockerPC, DrainPC, Procs
    <3>2. p \in Lockers /\ pc[p] \in {"drained", "dr_store"} => next[p] \in Nodes
      BY <1>1 DEF IInv, ListInv, GuardInv, GuardDrained
    <3> QED
      BY <1>1, <3>1, <3>2, Written
  <2> QED
    BY <1>1, <2>1, <2>3, <2>4, <2>5, Written
<1> QED
  BY <1>1, Invariant, PTL

(* Between critical sections every list is doubly linked, but for the next *)
(* pointers of inserters in phase 2.                                       *)
THEOREM ListsAreLinked == Spec => []ListWellLinked
<1>1. ASSUME IInv, mutex = NONE
      PROVE  /\ \A n \in Nodes : InList(n) =>
                   /\ \/ prev[n] = HEAD
                      \/ prev[n] \in Nodes /\ InList(prev[n])
                      \/ prev[n] \in Lockers /\ Hooked(prev[n])
                   /\ next[prev[n]] = IF pc[n] = "enq_link" THEN NULL ELSE n
             /\ \A l \in Lockers : Hooked(l) => next[prev[l]] = l
             /\ next[End] = NULL
             /\ tail \in Nodes => InList(tail)
  <2>0. TypeOK /\ ListInv
    BY <1>1 DEF IInv
  <2>1. (\A S : ~At(S)) /\ ~Unlinking /\ \A l \in Lockers : ~Draining(l)
    BY <1>1 DEF At, Unlinking, Waiting, Draining, Procs
  <2>2. /\ \A l \in Lockers : Active(l) <=> Hooked(l)
        /\ \A n \in Nodes : Pred(n) = prev[n]
    BY <2>1 DEF Active, Pred
  <2>3. \A n \in Nodes : InList(n) =>
           /\ Place(prev[n])
           /\ \/ prev[n] = HEAD
              \/ prev[n] \in Nodes /\ InList(prev[n])
              \/ prev[n] \in Lockers /\ Hooked(prev[n])
    BY <1>1, <2>2, Reachable DEF Place
  <2>4. \A n \in Nodes : InList(n) => next[prev[n]] = IF pc[n] = "enq_link" THEN NULL ELSE n
    BY <2>0, <2>1, <2>2, <2>3 DEF ListInv, NextInv, PhaseTwo, NextIsSet, ParkedMark, Place, Locations, Links
  <2>5. \A l \in Lockers : Hooked(l) => next[prev[l]] = l
    BY <2>0, <2>1 DEF ListInv, NextInv, SentinelHooked
  <2>6. next[End] = NULL /\ Place(End)
    BY <2>0 DEF ListInv, Listed, EndInv
  <2>7. tail \in Nodes => InList(tail)
    BY <2>6 DEF End, Place
  <2> QED
    BY <2>3, <2>4, <2>5, <2>6, <2>7
<1>2. IInv => ListWellLinked
  BY <1>1 DEF ListWellLinked, End
<1> QED
  BY <1>2, Invariant, PTL

(* The debug assertion of remove_with_prev holds, and the unreachable      *)
(* branch of Drain::new is unreachable.                                    *)
THEOREM Assertions == Spec => []AssertionsHold
<1>1. IInv => AssertionsHold
  BY DEF IInv, LockDiscipline, ListInv, RemoveInv, RemoveLinked, GuardInv, GuardFirst, AssertionsHold, At,
     HolderPC, RemovePC, DrainPC
<1> QED
  BY <1>1, Invariant, PTL
=============================================================================
