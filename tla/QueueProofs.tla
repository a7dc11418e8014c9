---------------------------- MODULE QueueProofs ----------------------------
(***************************************************************************)
(* The proofs about the queue: the critical section is exclusive, and the  *)
(* steps of enqueue, get_next and remove_with_prev preserve the inductive  *)
(* invariant.  For any number of nodes and lockers, any set of states and  *)
(* each way of parking.                                                    *)
(***************************************************************************)
EXTENDS QueueInvariant, TLAPS

USE DEF NULL, HEAD, PARKED, UNQUEUED, DEQUEUED, NONE

(* Addresses, threads, queue states and marker values are told apart. *)
LEMMA Distinct ==
    /\ \A x \in Nodes : x \notin Lockers /\ x \notin States
    /\ \A x \in Lockers : x \notin States
    /\ \A x \in Specials : x \notin Nodes /\ x \notin Lockers /\ x \notin States
    /\ Default \in States
  BY QueueAssumption DEF QueueAssumption, Procs

(* The same facts, marker by marker, as the provers use them. *)
LEMMA Markers ==
    /\ NULL \notin Nodes /\ NULL \notin Lockers /\ NULL \notin States
    /\ HEAD \notin Nodes /\ HEAD \notin Lockers /\ HEAD \notin States
    /\ PARKED \notin Nodes /\ PARKED \notin Lockers
    /\ UNQUEUED \notin Nodes /\ UNQUEUED \notin Lockers
    /\ DEQUEUED \notin Nodes /\ DEQUEUED \notin Lockers
    /\ NONE \notin Nodes /\ NONE \notin Lockers
    /\ \A x \in Nodes : x \notin Lockers /\ x \notin States
    /\ \A x \in Lockers : x \notin States
    /\ Default \in States
  BY Distinct DEF Specials

-----------------------------------------------------------------------------
(* The critical section is exclusive: a step keeps LockDiscipline, whatever *)
(* the pointers are.                                                        *)
PCs == FreePC \cup HolderPC
Control == mutex \in Procs \cup {NONE} /\ pc \in [Procs -> PCs] /\ LockDiscipline

(* Every step keeps the places and the lock: whoever is at a place of the *)
(* critical section holds the mutex.                                      *)
LEMMA DisciplineStep ==
    ASSUME Control, [Next]_vars
    PROVE  Control'
<1> USE Markers DEF Procs, Control, LockDiscipline, PCs, HolderPC, FreePC, GetNextPC, RemovePC,
        DrainPC, GuardPC, LockerPC, NodePC, Goto, Step
<1>1. ASSUME NEW n \in Nodes, Enqueue(n) \/ Link(n) PROVE Control'
  BY <1>1 DEF Enqueue, Link, EnqueueLoad, EnqueueCas, EnqueueRefuse, EnqueueLink, EnqueueCheck,
        EnqueueUnpark, Enqueued, Owns, locals
<1>2. ASSUME NEW n \in Nodes, Owner(n) PROVE Control'
  BY <1>2 DEF Owner, New, Reset, OwnerSeesQueued, OwnerDrop, OwnerLock, OwnerRecheck, OwnerUnlock,
        StartRemove, GetNext, Owns, locals
<1>3. ASSUME NEW p \in Procs, GetNextStep(p) PROVE Control'
  BY <1>3 DEF GetNextStep, GetNextLoad, GetNextAnnounce, GetNextCheck, GetNextClear, GetNextPark,
        GetNextReload, Return, locals
<1>4. ASSUME NEW p \in Procs, RemoveStep(p) PROVE Control'
  BY <1>4 DEF RemoveStep, RemoveNext, RemoveClear, RemoveCas, RemoveRelinkPrev, RemoveRelinkNext,
        RemoveDone, GetNext, locals
<1>5. ASSUME NEW l \in Lockers, Locker(l) PROVE Control'
  BY <1>5 DEF Locker, Lock, Unlock, Dequeue, Pop, Requeue, RemoveDequeued, RemovePopped, StartRemove,
        GetNext, DrainNew, DrainNext, DrainUnlock, DrainRelock, DrainEnd, locals
<1>6. ASSUME NEW l \in Lockers, DrainStep(l) PROVE Control'
  BY <1>6 DEF DrainStep, DrainClear, DrainSwap, DrainDrop, DrainStore, GetNext, locals
<1>7. ASSUME NEW s \in States, UpdateState(s) PROVE Control'
  BY <1>7 DEF UpdateState, locals
<1>8. ASSUME UNCHANGED vars PROVE Control'
  BY <1>8 DEF vars, locals
<1> QED
  BY <1>1, <1>2, <1>3, <1>4, <1>5, <1>6, <1>7, <1>8 DEF Next

(* Only the thread that holds the mutex is inside the critical section.   *)
THEOREM MutualExclusion == Spec => []LockDiscipline
<1>1. Init => Control
  BY Markers DEF Init, Control, LockDiscipline, Procs, PCs, HolderPC, FreePC, GetNextPC, RemovePC,
     DrainPC, GuardPC, LockerPC, NodePC
<1>2. Control /\ [Next]_vars => Control'
  BY DisciplineStep
<1>3. Control => LockDiscipline
  BY DEF Control
<1> QED
  BY <1>1, <1>2, <1>3, PTL DEF Spec
-----------------------------------------------------------------------------
(* What the invariant says of the registers before they are used. *)
LEMMA Registers ==
    ASSUME IInv
    PROVE  /\ At(RemovePC) => cur \in Nodes /\ pre \in Locations /\ next[cur] \in Links \cup {NULL}
           /\ At({"rm_relink", "rm_relink2"}) => nxt \in Links
           /\ At({"rm_cas"}) /\ tail = cur => pre \in Nodes \cup {HEAD}
           /\ At({"dequeue", "dr_swap"}) => nxt \in Nodes
           /\ At({"pop"}) => cur \in Nodes /\ prev[cur] \in Locations
           /\ At(GetNextPC) => loc \in Locations
           /\ At({"gn_load", "gn_wait", "gn_check"}) => next[loc] \in Links \cup {NULL}
           /\ At({"dr_swap"}) => tail \in Nodes
           /\ At({"drained", "dr_store"}) /\ mutex \in Lockers => next[mutex] \in Nodes
           /\ At({"drain"}) /\ mutex \in Lockers => next[mutex] \in Nodes \cup {NULL}
<1> USE Markers DEF IInv, ListInv, Listed, TypeOK, Locations, Links, Procs
<1>1. PICK own \in [Locations -> Locations] : PredInv(own) /\ EndInv(own)
  OBVIOUS
<1>2. At(RemovePC) => cur \in Nodes /\ pre \in Locations /\ next[cur] \in Links \cup {NULL}
  BY DEF RemoveInv, RemoveCur, NextInv, ParkedMark, RemovePC, At, Place
<1>3. At({"rm_relink", "rm_relink2"}) => nxt \in Links
  BY DEF RemoveInv, RemoveRelink, At
<1>4. At({"rm_cas"}) /\ tail = cur => pre \in Nodes \cup {HEAD}
  BY <1>1 DEF RemoveInv, RemoveCur, RemovePC, At, PredInv, EndInv,
              End, Pred, Draining, Waiting, GetNextPC, Place
<1>5. (At({"dequeue", "dr_swap"}) => nxt \in Nodes) /\ (At({"dr_swap"}) => tail \in Nodes)
  BY DEF GuardInv, GuardFirst, At
<1>6. At({"pop"}) => cur \in Nodes /\ prev[cur] \in Locations
  BY DEF GuardInv, GuardFirst, At, InList, RawQueued
<1>7. /\ At(GetNextPC) => loc \in Locations
      /\ At({"gn_load", "gn_wait", "gn_check"}) => next[loc] \in Links \cup {NULL}
  BY DEF GetNextInv, GetNextLoc, NextInv, ParkedMark, At, Waiting, LockDiscipline, GetNextPC,
         RemoveInv, RemoveCur, Place
<1>8. At({"drained", "dr_store"}) /\ mutex \in Lockers => next[mutex] \in Nodes
  BY DEF GuardInv, GuardDrained, At
<1>9. At({"drain"}) /\ mutex \in Lockers => next[mutex] \in Nodes \cup {NULL}
  BY DEF NextInv, SentinelNext, Draining, At
<1> QED
  BY <1>2, <1>3, <1>4, <1>5, <1>6, <1>7, <1>8, <1>9

(* Every step keeps TypeOK: the link that a removal follows is never the    *)
(* marker PARKED.                                                           *)
LEMMA TypeStep ==
    ASSUME IInv, Next
    PROVE  TypeOK'
<1> USE Markers DEF Procs, TypeOK, Goto, Step, Locations, Links, RemovePC, GetNextPC
<1>0. Control'
  BY DisciplineStep DEF IInv, Control, PCs
<1>00. mutex' \in Procs \cup {NONE} /\ pc' \in [Procs -> FreePC \cup HolderPC]
  BY <1>0 DEF Control, PCs
<1>a. TypeOK /\ \A p \in Procs : pc[p] \in HolderPC => mutex = p
  BY DEF IInv, LockDiscipline
<1>r. \A p \in Procs :
        /\ pc[p] \in RemovePC => cur \in Nodes /\ pre \in Locations /\ next[cur] \in Links \cup {NULL}
        /\ pc[p] \in {"rm_relink", "rm_relink2"} => nxt \in Links
        /\ pc[p] = "rm_cas" /\ tail = cur => pre \in Nodes \cup {HEAD}
        /\ pc[p] \in {"dequeue", "dr_swap"} => nxt \in Nodes
        /\ pc[p] = "pop" => cur \in Nodes /\ prev[cur] \in Locations
        /\ pc[p] = "dr_swap" => tail \in Nodes
        /\ pc[p] \in {"drained", "dr_store"} /\ p \in Lockers => next[p] \in Nodes
        /\ pc[p] = "drain" /\ p \in Lockers => next[p] \in Nodes \cup {NULL}
        /\ pc[p] \in GetNextPC => loc \in Locations
        /\ pc[p] \in {"gn_load", "gn_wait", "gn_check"} => next[loc] \in Links \cup {NULL}
  BY <1>a, Registers DEF At, HolderPC, GetNextPC, RemovePC, GuardPC, DrainPC
<1>1. ASSUME NEW n \in Nodes, Enqueue(n) \/ Link(n) PROVE TypeOK'
  <2>1. CASE EnqueueLoad(n)
    BY <2>1, <1>a, <1>00, <1>r DEF EnqueueLoad, Owns, memory, locals
  <2>2. CASE EnqueueCas(n)
    BY <2>2, <1>a, <1>00, <1>r DEF EnqueueCas, PrevOf, locals
  <2>3. CASE EnqueueRefuse(n)
    BY <2>3, <1>a, <1>00, <1>r DEF EnqueueRefuse, locals
  <2>4. CASE EnqueueLink(n)
    BY <2>4, <1>a, <1>00, <1>r DEF EnqueueLink, PrevOf, Enqueued, locals
  <2>5. CASE EnqueueCheck(n)
    BY <2>5, <1>a, <1>00, <1>r DEF EnqueueCheck, Enqueued, memory, locals
  <2>6. CASE EnqueueUnpark(n)
    BY <2>6, <1>a, <1>00, <1>r DEF EnqueueUnpark, Enqueued, locals
  <2> QED
    BY <1>1, <2>1, <2>2, <2>3, <2>4, <2>5, <2>6 DEF Enqueue, Link
<1>2. ASSUME NEW n \in Nodes, Owner(n) PROVE TypeOK'
  <2>1. CASE New(n)
    BY <2>1, <1>a, <1>00, <1>r DEF New, locals
  <2>2. CASE Reset(n)
    BY <2>2, <1>a, <1>00, <1>r DEF Reset, locals
  <2>3. CASE OwnerSeesQueued(n)
    BY <2>3, <1>a, <1>00, <1>r DEF OwnerSeesQueued, memory, locals
  <2>4. CASE OwnerDrop(n)
    BY <2>4, <1>a, <1>00, <1>r DEF OwnerDrop, locals
  <2>5. CASE OwnerLock(n)
    BY <2>5, <1>a, <1>00, <1>r DEF OwnerLock, memory, locals
  <2>6. CASE OwnerRecheck(n)
    <3>1. /\ UNCHANGED <<memory, mutex, seen, dropping, nxt>>
          /\ \/ RawQueued(n) /\ cur' = n /\ pre' = prev[n] /\ newTail' \in States /\ isEmpty' = FALSE
             \/ UNCHANGED <<cur, pre, newTail, isEmpty>>
          /\ UNCHANGED <<loc, ret>>
      BY <2>6, <1>a DEF OwnerRecheck, StartRemove, StillQueued
    <3> QED
      <4>1. pre' \in Locations \cup {NULL} /\ cur' \in Nodes \cup {NULL} /\ newTail' \in States
        BY <3>1, <1>a DEF RawQueued
      <4>2. isEmpty' \in BOOLEAN
        BY <3>1, <1>a
      <4> QED
        BY <3>1, <4>1, <4>2, <1>a, <1>00 DEF memory
  <2>7. CASE OwnerUnlock(n)
    BY <2>7, <1>a, <1>00, <1>r DEF OwnerUnlock, locals
  <2> QED
    BY <1>2, <2>1, <2>2, <2>3, <2>4, <2>5, <2>6, <2>7 DEF Owner
<1>3. ASSUME NEW p \in Procs, GetNextStep(p) PROVE TypeOK'
  <2>1. CASE GetNextLoad(p)
    BY <2>1, <1>a, <1>00, <1>r DEF GetNextLoad, Return, memory
  <2>2. CASE GetNextAnnounce(p)
    BY <2>2, <1>a, <1>00, <1>r DEF GetNextAnnounce, Return
  <2>3. CASE GetNextCheck(p)
    BY <2>3, <1>a, <1>00, <1>r DEF GetNextCheck, memory
  <2>4. CASE GetNextClear(p)
    BY <2>4, <1>a, <1>00, <1>r DEF GetNextClear, locals
  <2>5. CASE GetNextPark(p)
    <3>1. token' \in BOOLEAN
      BY <2>5, Zenon DEF GetNextPark
    <3>2. UNCHANGED <<tail, next, prev, parkedNext, live, mutex, seen, dropping, locals>>
      BY <2>5 DEF GetNextPark
    <3> QED
      BY <3>1, <3>2, <1>a, <1>00 DEF locals
  <2>6. CASE GetNextReload(p)
    BY <2>6, <1>a, <1>00, <1>r DEF GetNextReload, Return, memory
  <2> QED
    BY <1>3, <2>1, <2>2, <2>3, <2>4, <2>5, <2>6 DEF GetNextStep
<1>4. ASSUME NEW p \in Procs, RemoveStep(p) PROVE TypeOK'
  <2>1. CASE RemoveNext(p)
    BY <2>1, <1>a, <1>00, <1>r DEF RemoveNext, memory
  <2>2. CASE RemoveClear(p)
    BY <2>2, <1>a, <1>00, <1>r DEF RemoveClear, locals
  <2>3. CASE RemoveCas(p)
    <3>1. cur \in Nodes /\ (tail = cur => pre \in Nodes \cup {HEAD})
      BY <2>3, <1>r DEF RemoveCas
    <3>2. CASE tail = cur
      BY <2>3, <3>1, <3>2, <1>a, <1>00 DEF RemoveCas, TailAfter
    <3>3. CASE tail # cur
      BY <2>3, <3>1, <3>3, <1>a, <1>00 DEF RemoveCas, GetNext
    <3> QED
      BY <3>2, <3>3
  <2>4. CASE RemoveRelinkPrev(p)
    BY <2>4, <1>a, <1>00, <1>r DEF RemoveRelinkPrev, locals
  <2>5. CASE RemoveRelinkNext(p)
    BY <2>5, <1>a, <1>00, <1>r DEF RemoveRelinkNext, locals
  <2>6. CASE RemoveDone(p)
    BY <2>6, <1>a, <1>00, <1>r DEF RemoveDone
  <2> QED
    BY <1>4, <2>1, <2>2, <2>3, <2>4, <2>5, <2>6 DEF RemoveStep
<1>5. ASSUME NEW l \in Lockers, Locker(l) PROVE TypeOK'
  <2>1. CASE Lock(l)
    BY <2>1, <1>a, <1>00, <1>r DEF Lock, memory, locals
  <2>2. CASE Unlock(l)
    BY <2>2, <1>a, <1>00, <1>r DEF Unlock, memory, locals
  <2>3. CASE Dequeue(l)
    BY <2>3, <1>a, <1>00, <1>r DEF Dequeue, GetNext, memory
  <2>4. CASE Pop(l)
    BY <2>4, <1>a, <1>00, <1>r DEF Pop, memory
  <2>5. CASE Requeue(l)
    BY <2>5, <1>a, <1>00, <1>r DEF Requeue, memory
  <2>6. CASE DrainNext(l)
    BY <2>6, <1>a, <1>00, <1>r DEF DrainNext, memory, locals
  <2>7. CASE DrainUnlock(l)
    <3>1. CASE next[l] = NULL
      BY <2>7, <3>1, <1>a, <1>00 DEF DrainUnlock, locals
    <3>2. CASE next[l] # NULL
      <4>1. prev' \in [Links -> Locations \cup {UNQUEUED, DEQUEUED}]
        BY <2>7, <3>2, <1>a DEF DrainUnlock
      <4>2. next' \in [Locations -> Links \cup {NULL, PARKED}]
        BY <2>7, <3>2, <1>a DEF DrainUnlock
      <4> QED
        BY <2>7, <4>1, <4>2, <1>a, <1>00 DEF DrainUnlock, locals
    <3> QED
      BY <3>1, <3>2
  <2>8. CASE DrainRelock(l)
    BY <2>8, <1>a, <1>00, <1>r DEF DrainRelock, locals
  <2>9. CASE DrainEnd(l)
    BY <2>9, <1>a, <1>00, <1>r DEF DrainEnd, locals
  <2>10. ASSUME NEW s \in States, RemoveDequeued(l, s) PROVE TypeOK'
    BY <2>10, <1>a, <1>00, <1>r DEF RemoveDequeued, StartRemove, memory
  <2>11. ASSUME NEW s \in States, RemovePopped(l, s) PROVE TypeOK'
    BY <2>11, <1>a, <1>00, <1>r, ZenonT(40) DEF RemovePopped, StartRemove, GetNext, memory
  <2>12. ASSUME NEW s \in States, DrainNew(l, s) PROVE TypeOK'
    BY <2>12, <1>a, <1>00, <1>r DEF DrainNew, GetNext, memory
  <2> QED
    BY <1>5, <2>1, <2>2, <2>3, <2>4, <2>5, <2>6, <2>7, <2>8, <2>9, <2>10, <2>11, <2>12 DEF Locker
<1>6. ASSUME NEW l \in Lockers, DrainStep(l) PROVE TypeOK'
  <2>1. CASE DrainClear(l)
    BY <2>1, <1>a, <1>00, <1>r DEF DrainClear, locals
  <2>2. CASE DrainSwap(l)
    BY <2>2, <1>a, <1>00, <1>r DEF DrainSwap
  <2>3. CASE DrainDrop(l)
    BY <2>3, <1>a, <1>00, <1>r DEF DrainDrop, GetNext, memory
  <2>4. CASE DrainStore(l)
    BY <2>4, <1>a, <1>00, <1>r DEF DrainStore
  <2> QED
    BY <1>6, <2>1, <2>2, <2>3, <2>4 DEF DrainStep
<1>7. ASSUME NEW s \in States, UpdateState(s) PROVE TypeOK'
  BY <1>7, <1>a, <1>00, <1>r DEF UpdateState, locals
<1> QED
  BY <1>1, <1>2, <1>3, <1>4, <1>5, <1>6, <1>7 DEF Next

-----------------------------------------------------------------------------
USE Markers

(* The lists are the same before and after a step, as far as a listed node *)
(* or the sentinel of a list is concerned.                                 *)
SameLists ==
    /\ \A x \in Locations : Place(x) => next'[x] = next[x]
    /\ \A n \in Nodes : (InList(n)' <=> InList(n)) /\ (InList(n) => Pred(n)' = Pred(n))
    /\ \A l \in Lockers : /\ Hooked(l)' <=> Hooked(l)
                          /\ Active(l)' <=> Active(l)
                          /\ Active(l) => prev'[l] = prev[l]
                          /\ next'[l] = next[l]
    /\ End' = End

(* The places a location can be in the list depend on the lists only. *)
LEMMA SamePlaces ==
    ASSUME SameLists
    PROVE  \A x : Place(x)' <=> Place(x)
  BY DEF SameLists, Place

(* A step that leaves the lists alone leaves them well linked. *)
LEMMA SameListsListed ==
    ASSUME SameLists, Listed, TypeOK
    PROVE  Listed'
<1>1. PICK own \in [Locations -> Locations] : PredInv(own) /\ EndInv(own)
  BY DEF Listed
<1>2. PredInv(own)'
  BY <1>1, SamePlaces DEF SameLists, PredInv
<1>3. EndInv(own)'
  <2>1. End \in Locations /\ Place(End)
    BY <1>1 DEF End, TypeOK, EndInv, Locations, Links
  <2> QED
    BY <1>1, <2>1, SamePlaces DEF SameLists, EndInv
<1>4. Acyclic'
  BY DEF Listed, Acyclic, SameLists
<1> QED
  BY <1>2, <1>3, <1>4 DEF Listed

(* The location get_next reads and the predecessors of listed nodes belong *)
(* to lists.                                                               *)
LEMMA Reachable ==
    ASSUME IInv
    PROVE  /\ At(GetNextPC) => Place(loc)
           /\ \A n \in Nodes : InList(n) => Place(Pred(n))
           /\ \A l \in Lockers : Hooked(l) => Place(prev[l])
<1>1. \A n \in Nodes : InList(n) => Place(Pred(n))
  BY DEF IInv, ListInv, Listed, PredInv
<1>3. \A l \in Lockers : Hooked(l) => Place(prev[l])
  BY DEF IInv, ListInv, Listed, EndInv, Active
<1>2. ASSUME At(GetNextPC) PROVE Place(loc)
  <2>1. CASE ret = "dr_store"
    <3>1. mutex \in Lockers /\ Draining(mutex) /\ loc = next[mutex] /\ loc \in Nodes
      BY <1>2, <2>1 DEF IInv, ListInv, Listed, GetNextInv, GetNextLoc, Draining, Waiting, At, LockDiscipline, Procs
    <3>2. Place(mutex) /\ mutex \in Locations
      BY <3>1 DEF Place, Active, Locations, Links
    <3>3. ~At({"rm_relink2"})
      BY <1>2 DEF At, GetNextPC
    <3>4. InList(loc)
      BY <3>1, <3>2, <3>3 DEF IInv, ListInv, Listed, NextInv, NextIsNode
    <3> QED
      BY <3>1, <3>4 DEF Place
  <2>2. CASE ret # "dr_store"
    BY <1>2, <2>2
    DEF IInv, ListInv, Listed, LockDiscipline, GetNextInv, GetNextLoc, RemoveInv, RemoveCur,
        Waiting, At, GetNextPC, Place
  <2> QED
    BY <2>1, <2>2
<1> QED
  BY <1>1, <1>2, <1>3

(* A step of one owner, n, that is neither in the critical section nor in  *)
(* phase 2, and writes its own node only while it is in no list.           *)
Quiet(n) ==
    /\ UNCHANGED <<mutex, tail, locals>>
    /\ \A x \in Locations \ {n} : next'[x] = next[x]
    /\ \A x \in Links \ {n} : prev'[x] = prev[x]
    /\ \A p \in Procs \ {n} : pc'[p] = pc[p]
    /\ \A m \in Nodes \ {n} : seen'[m] = seen[m]
    /\ pc[n] \notin HolderPC \cup {"enq_link"}
    /\ pc'[n] \notin HolderPC \cup {"enq_link"}
    /\ next'[n] \in {next[n], NULL}
    /\ \/ next'[n] = next[n] /\ prev'[n] = prev[n] /\ (pc[n] = "enq_cas" <=> pc'[n] = "enq_cas")
       \/ /\ ~RawQueued(n) \/ pc[n] = "enq_cas"
          /\ ~(RawQueued(n)') \/ pc'[n] = "enq_cas"

(* A step of an owner that does not touch the list keeps ListInv. *)
LEMMA QuietStep ==
    ASSUME IInv, NEW n \in Nodes, Quiet(n)
    PROVE  ListInv'
<1> USE DEF Procs, Links, Locations
<1>1. mutex # n /\ \A S : At(S)' <=> At(S)
  BY DEF IInv, ListInv, Listed, TypeOK, LockDiscipline, Quiet, At
<1>2. \A r : Waiting(r)' <=> Waiting(r)
  BY <1>1 DEF Waiting, Quiet, locals
<1>3. \A m \in Nodes : InList(m)' <=> InList(m)
  BY <1>1 DEF InList, RawQueued, CutOut, Quiet, locals
<1>4. \A l \in Lockers : /\ Draining(l)' <=> Draining(l)
                         /\ Hooked(l)' <=> Hooked(l)
                         /\ Active(l)' <=> Active(l)
                         /\ next'[l] = next[l] /\ prev'[l] = prev[l]
  BY <1>1, <1>2 DEF Quiet, Draining, Hooked, Active
<1>5. \A m \in Nodes : InList(m) => Pred(m)' = Pred(m) /\ prev'[m] = prev[m] /\ next'[m] = next[m]
  BY <1>4 DEF Quiet, Pred, InList
<1>6. SameLists
  BY <1>3, <1>4, <1>5 DEF SameLists, Place, Quiet, End
<1>7. Listed'
  BY <1>6, SameListsListed DEF IInv, ListInv, Listed
<1>8. \A x : Place(x)' <=> Place(x)
  BY <1>6, SamePlaces
<1>9. Unlinking' <=> Unlinking
  BY <1>1, <1>2 DEF Unlinking
<1>10. \A x : Place(x) => x \in Locations /\ next'[x] = next[x]
  BY <1>6 DEF SameLists, Place
<1>11. \A m \in Nodes \ {n} : PrevOf(m)' = PrevOf(m)
  BY DEF Quiet, PrevOf
<1>12. /\ tail' = tail /\ mutex' = mutex /\ cur' = cur /\ pre' = pre /\ loc' = loc
       /\ nxt' = nxt /\ ret' = ret
  BY DEF Quiet, locals
<1>13. /\ \A m \in Nodes : pc'[m] = "enq_link" <=> pc[m] = "enq_link"
       /\ \A p \in Procs : p # n => pc'[p] = pc[p]
       /\ pc[n] # "enq_link" /\ \A l \in Lockers : l # n
  BY DEF Quiet
<1>14. \A x \in Locations : next'[x] = PARKED => next[x] = PARKED
  BY DEF Quiet
<1>15. mutex \in Procs => pc'[mutex] = pc[mutex]
  BY <1>1 DEF Quiet
<1>16. next'[HEAD] = next[HEAD]
  BY DEF Quiet
<1>17. /\ At(GetNextPC) => Place(loc)
       /\ \A m \in Nodes : InList(m) => Place(Pred(m))
       /\ \A l \in Lockers : Hooked(l) => Place(prev[l])
  BY Reachable
<1>19. \A m \in Nodes : RawQueued(m) /\ pc[m] # "enq_cas" =>
          RawQueued(m)' /\ pc'[m] # "enq_cas" /\ prev'[m] = prev[m]
  BY DEF Quiet, RawQueued
<1>18. NextInv /\ RemoveInv /\ GetNextInv /\ GuardInv
  BY DEF IInv, ListInv, Listed
<1> HIDE DEF Procs, Links, Locations
<1>n1. NextIsNode'
  BY <1>18, <1>15, <1>3, <1>5, <1>8, <1>10, <1>12, <1>13 DEF NextInv, NextIsNode, At, Procs
<1>n2. NextIsSentinel'
  BY <1>18, <1>4, <1>8, <1>10 DEF NextInv, NextIsSentinel
<1>n3. PhaseTwo'
  BY <1>18, <1>3, <1>5, <1>10, <1>11, <1>13, <1>17 DEF NextInv, PhaseTwo
<1>n4. NextIsSet'
  BY <1>18, <1>15, <1>3, <1>5, <1>9, <1>10, <1>12, <1>13, <1>17 DEF NextInv, NextIsSet, At
<1>n5. SentinelHooked'
  BY <1>18, <1>15, <1>4, <1>9, <1>10, <1>12, <1>17 DEF NextInv, SentinelHooked, At
<1>n6. SentinelNext'
  BY <1>18, <1>4 DEF NextInv, SentinelNext
<1>n7. ParkedMark'
  BY <1>18, <1>15, <1>12, <1>14 DEF NextInv, ParkedMark, At
<1>r1. RemoveCur'
  BY <1>18, <1>15, <1>2, <1>3, <1>8, <1>12, <1>19 DEF RemoveInv, RemoveCur, At
<1>r2. RemoveLinked'
  BY <1>18, <1>15, <1>2, <1>10, <1>12, <1>13 DEF RemoveInv, RemoveCur, RemoveLinked, At, RemovePC
<1>r3. RemoveRelink'
  BY <1>18, <1>15, <1>3, <1>4, <1>5, <1>12, <1>13 DEF RemoveInv, RemoveRelink, At
<1>g1. GetNextLoc'
  BY <1>18, <1>2, <1>4, <1>12, <1>13 DEF GetNextInv, GetNextLoc, Procs
<1>g2. GetNextParking'
  BY <1>18, <1>15, <1>12 DEF GetNextInv, GetNextParking, At
<1>g3. GetNextSeen'
  BY <1>18, <1>15, <1>10, <1>12, <1>17 DEF GetNextInv, GetNextSeen, At, GetNextPC
<1>d1. GuardFirst'
  BY <1>18, <1>15, <1>3, <1>5, <1>12, <1>13, <1>16 DEF GuardInv, GuardFirst, At
<1>d3. GuardIdle'
  BY <1>18, <1>15, <1>12 DEF GuardInv, GuardIdle, At
<1>d2. GuardDrained'
  BY <1>18, <1>3, <1>4, <1>5, <1>12, <1>13 DEF GuardInv, GuardDrained, Procs
<1> QED
  BY <1>7, <1>n1, <1>n2, <1>n3, <1>n4, <1>n5, <1>n6, <1>n7, <1>r1, <1>r2, <1>r3,
     <1>g1, <1>g2, <1>g3, <1>d1, <1>d2, <1>d3 DEF ListInv, NextInv, RemoveInv, GetNextInv, GuardInv

-----------------------------------------------------------------------------
(* A step that enters, leaves or moves on in the critical section and      *)
(* writes no link of a listed node.                                        *)
Silent ==
    /\ UNCHANGED <<tail, next, seen>>
    /\ \A n \in Nodes : /\ prev'[n] = prev[n]
                        /\ pc'[n] = "enq_link" <=> pc[n] = "enq_link"
                        /\ pc'[n] = "enq_cas" <=> pc[n] = "enq_cas"
    /\ \A l \in Lockers : /\ Hooked(l)' <=> Hooked(l)
                          /\ next[l] # NULL => (Draining(l)' <=> Draining(l))
                          /\ Active(l) => prev'[l] = prev[l]
    /\ ~At({"rm_relink2", "rm_done", "dr_swap"}) /\ ~(At({"rm_relink2", "rm_done", "dr_swap"})')
    /\ Unlinking => Unlinking' /\ cur' = cur /\ pre' = pre
    /\ \A x \in Locations : next[x] = PARKED => At({"gn_park", "gn_reload"})' /\ loc' = loc

(* A step of the lock holder that moves between places only leaves the lists *)
(* and the predecessors alone.                                               *)
LEMMA SilentStep ==
    ASSUME IInv, Silent
    PROVE  SameLists /\ NextInv' /\ Listed' /\ \A x : Place(x)' <=> Place(x)
<1>1. /\ ~At({"rm_relink2"}) /\ ~At({"rm_relink2", "rm_done"}) /\ ~At({"rm_relink2", "dr_swap"})
      /\ ~(At({"rm_relink2"})') /\ ~(At({"rm_relink2", "rm_done"})') /\ ~(At({"rm_relink2", "dr_swap"})')
  BY DEF Silent, At
<1>2. \A n \in Nodes : InList(n)' <=> InList(n)
  BY <1>1 DEF Silent, InList, RawQueued, CutOut
<1>3. \A l \in Lockers : Active(l)' <=> Active(l)
  BY DEF Silent, Active
<1>4. \A n \in Nodes : Pred(n)' = Pred(n)
  <2> SUFFICES ASSUME NEW n \in Nodes PROVE Pred(n)' = Pred(n)
    OBVIOUS
  <2>1. \A l \in Lockers : (Draining(l) => mutex = l) /\ (Draining(l)' => mutex' = l)
    BY DEF Draining
  <2> QED
    BY <2>1 DEF Silent, Pred
<1>5. SameLists
  BY <1>2, <1>3, <1>4 DEF Silent, SameLists, End
<1>6. Listed'
  BY <1>5, SameListsListed DEF IInv, ListInv, Listed
<1>7. \A x : Place(x)' <=> Place(x)
  BY <1>5, SamePlaces
<1>8. next' = next /\ seen' = seen
  BY DEF Silent
<1>9. \A n \in Nodes : prev'[n] = prev[n] /\ (pc'[n] = "enq_link" <=> pc[n] = "enq_link")
  BY DEF Silent
<1>10. \A n \in Nodes : PrevOf(n)' = PrevOf(n)
  BY <1>8 DEF PrevOf
<1>11. \A l \in Lockers : /\ Hooked(l)' <=> Hooked(l)
                          /\ next[l] # NULL => (Draining(l)' <=> Draining(l))
                          /\ Active(l) => prev'[l] = prev[l]
                          /\ Hooked(l) => Active(l)
  BY DEF Silent, Active
<1>12. Unlinking => Unlinking' /\ cur' = cur /\ pre' = pre
  BY DEF Silent
<1>13. NextInv
  BY DEF IInv, ListInv, Listed
<1>n1. NextIsNode'
  BY <1>13, <1>1, <1>2, <1>4, <1>7, <1>8, <1>9 DEF NextInv, NextIsNode
<1>n2. NextIsSentinel'
  BY <1>13, <1>3, <1>7, <1>8, <1>11 DEF NextInv, NextIsSentinel
<1>n3. PhaseTwo'
  BY <1>13, <1>2, <1>4, <1>8, <1>9, <1>10 DEF NextInv, PhaseTwo
<1>n4. NextIsSet'
  BY <1>13, <1>1, <1>2, <1>4, <1>8, <1>9, <1>12 DEF NextInv, NextIsSet
<1>n5. SentinelHooked'
  BY <1>13, <1>1, <1>8, <1>11, <1>12 DEF NextInv, SentinelHooked
<1>n6. SentinelNext'
  BY <1>13, <1>8, <1>11 DEF NextInv, SentinelNext
<1>n7. ParkedMark'
  BY <1>13, <1>8 DEF NextInv, ParkedMark, Silent
<1> QED
  BY <1>5, <1>6, <1>7, <1>n1, <1>n2, <1>n3, <1>n4, <1>n5, <1>n6, <1>n7 DEF NextInv

-----------------------------------------------------------------------------
(* get_next: what the pointer is when it has been written. *)
LEMMA Found ==
    ASSUME IInv, At(GetNextPC), next[loc] \notin {NULL, PARKED}
    PROVE  /\ ret \in {"dequeue", "dr_clear"} =>
                 next[loc] \in Nodes /\ InList(next[loc]) /\ prev[next[loc]] = HEAD /\ pc[next[loc]] # "enq_link"
           /\ ret = "rm_next" => next[loc] = cur /\ pc[cur] # "enq_link"
           /\ ret = "rm_relink" =>
                 \/ /\ next[loc] \in Nodes /\ InList(next[loc])
                    /\ Pred(next[loc]) = cur /\ pc[next[loc]] # "enq_link"
                 \/ next[loc] \in Lockers /\ Hooked(next[loc]) /\ prev[next[loc]] = cur
           /\ ret = "dr_store" =>
                 /\ next[loc] \in Nodes /\ InList(next[loc])
                 /\ Pred(next[loc]) = next[mutex] /\ pc[next[loc]] # "enq_link"
<1>1. PICK own \in [Locations -> Locations] : PredInv(own) /\ EndInv(own)
  BY DEF IInv, ListInv, Listed
<1>2. Place(loc) /\ loc \in Locations /\ next[loc] \in Nodes \cup Lockers
  BY Reachable DEF IInv, ListInv, Listed, TypeOK, Place, Locations, Links
<1>3. ~At({"rm_relink2"}) /\ ~At({"rm_relink2", "dr_swap"}) /\ ~At({"drain", "drained", "dr_store"})
  BY DEF At, GetNextPC
<1>4. next[loc] \in Nodes => InList(next[loc]) /\ Pred(next[loc]) = loc /\ pc[next[loc]] # "enq_link"
  BY <1>2, <1>3 DEF IInv, ListInv, Listed, NextInv, NextIsNode
<1>5. next[loc] \in Lockers =>
          Active(next[loc]) /\ prev[next[loc]] = loc /\ own[loc] = next[loc]
  BY <1>1, <1>2 DEF IInv, ListInv, Listed, NextInv, NextIsSentinel, EndInv
<1>6. \A l \in Lockers : Draining(l) => ret = "dr_store"
  BY <1>3 DEF Draining, Waiting
<1>7. ASSUME ret \in {"dequeue", "dr_clear"}
      PROVE  next[loc] \in Nodes /\ prev[next[loc]] = HEAD
  <2>1. loc = HEAD
    BY <1>7 DEF IInv, ListInv, Listed, GetNextInv, GetNextLoc, Waiting
  <2>2. next[loc] \in Nodes
    BY <1>1, <1>2, <1>5, <2>1 DEF PredInv
  <2> QED
    BY <1>4, <1>6, <1>7, <2>1, <2>2 DEF Pred
<1>8. ASSUME ret = "rm_next" PROVE next[loc] = cur /\ pc[cur] # "enq_link"
  <2>1. cur \in Nodes /\ InList(cur) /\ prev[cur] = loc /\ Waiting("rm_next")
    BY <1>8, <1>3 DEF IInv, ListInv, Listed, RemoveInv, RemoveCur, GetNextInv, GetNextLoc, Waiting, At, GetNextPC
  <2>2. Pred(cur) = loc /\ ~Unlinking
    BY <1>6, <1>8, <2>1 DEF Pred, Unlinking, Waiting, At, GetNextPC
  <2>3. pc[cur] # "enq_link"
    BY <2>1 DEF IInv, ListInv, Listed, NextInv, PhaseTwo
  <2> QED
    BY <1>3, <2>1, <2>2, <2>3 DEF IInv, ListInv, Listed, NextInv, NextIsSet
<1>9. ASSUME ret = "rm_relink" PROVE loc = cur /\ \A l \in Lockers : Active(l) => Hooked(l)
  BY <1>6, <1>9 DEF IInv, ListInv, Listed, GetNextInv, GetNextLoc, Waiting, Active
<1>10. ASSUME ret = "dr_store" PROVE next[loc] \in Nodes /\ loc = next[mutex]
  <2>1. mutex \in Lockers /\ loc = next[mutex] /\ loc \in Nodes /\ loc # prev[mutex]
    BY <1>10 DEF IInv, ListInv, Listed, LockDiscipline, GetNextInv, GetNextLoc, At, Procs
  <2>2. Draining(mutex) /\ Place(mutex) /\ mutex \in Locations
    BY <1>10, <2>1 DEF Draining, Waiting, Place, Active, Locations, Links
  <2>3. InList(loc) /\ Pred(loc) = mutex
    BY <1>3, <2>1, <2>2 DEF IInv, ListInv, Listed, NextInv, NextIsNode
  <2>4. own[loc] = mutex
    BY <1>1, <2>1, <2>3 DEF PredInv
  <2> QED
    BY <1>2, <1>5, <2>1, <2>4
<1> QED
  BY <1>2, <1>4, <1>5, <1>7, <1>8, <1>9, <1>10

(* A step of the lock holder p, from inside the critical section to k. *)
Moves(p, k) ==
    /\ pc[p] \in HolderPC /\ k \in HolderPC
    /\ pc' = [pc EXCEPT ![p] = k]
    /\ UNCHANGED mutex

(* ... and what it leaves alone. *)
Moved(p, k) ==
    /\ mutex = p /\ mutex' = p /\ pc'[p] = k
    /\ \A q \in Procs : q # p => pc'[q] = pc[q] /\ pc[q] \notin HolderPC
    /\ \A n \in Nodes : pc'[n] = "enq_link" <=> pc[n] = "enq_link"
    /\ \A n \in Nodes : pc'[n] = "enq_cas" <=> pc[n] = "enq_cas"
    /\ \A l \in Lockers : Hooked(l)' <=> Hooked(l)

(* A step of the lock holder inside the critical section leaves everyone else *)
(* where they are.                                                            *)
LEMMA HolderMoves ==
    ASSUME IInv, NEW p \in Procs, NEW k, Moves(p, k)
    PROVE  Moved(p, k)
  BY DEF Moved, Moves, IInv, TypeOK, LockDiscipline, Procs, Hooked, HolderPC, GetNextPC, RemovePC,
         DrainPC, GuardPC

USE DEF Moved

(* get_next goes on waiting. *)
LEMMA GetNextWaits ==
    ASSUME IInv, NEW p \in Procs, NEW k \in GetNextPC, Moves(p, k), pc[p] \in GetNextPC,
           UNCHANGED <<tail, next, prev, seen, cur, pre, loc, ret>>,
           (\E x \in Locations : next[x] = PARKED) => k \in {"gn_park", "gn_reload"},
           GetNextParking', GetNextSeen'
    PROVE  ListInv'
<1>1. Moved(p, k)
  BY HolderMoves
<1>2. \A r : Waiting(r)' <=> Waiting(r)
  BY <1>1 DEF Waiting, At
<1>3. /\ ~At({"rm_relink2", "rm_done", "dr_swap"}) /\ ~(At({"rm_relink2", "rm_done", "dr_swap"})')
      /\ ~At({"rm_cas", "rm_relink"}) /\ ~(At({"rm_cas", "rm_relink"})')
      /\ ~At({"drain", "drained", "dr_store"}) /\ ~(At({"drain", "drained", "dr_store"})')
  BY <1>1 DEF At, GetNextPC
<1>4. Silent
  BY <1>1, <1>2, <1>3 DEF Silent, Draining, Unlinking, At
<1>5. SameLists /\ NextInv' /\ Listed' /\ \A x : Place(x)' <=> Place(x)
  BY <1>4, SilentStep
<1>6. \A n \in Nodes : (InList(n)' <=> InList(n)) /\ (RawQueued(n)' <=> RawQueued(n))
  BY <1>5 DEF SameLists, RawQueued
<1>7. /\ ~At(RemovePC) /\ ~(At(RemovePC)')
      /\ ~At({"rm_relink2", "rm_done"}) /\ ~(At({"rm_relink2", "rm_done"})')
  BY <1>1 DEF At, GetNextPC, RemovePC
<1>8. RemoveCur'
  BY <1>1, <1>2, <1>5, <1>6, <1>7 DEF IInv, ListInv, Listed, RemoveInv, RemoveCur
<1>9. RemoveLinked' /\ RemoveRelink'
  BY <1>1, <1>2, <1>7, <1>8 DEF IInv, ListInv, Listed, RemoveInv, RemoveLinked, RemoveCur, RemoveRelink, At, GetNextPC
<1>10. GetNextLoc'
  BY <1>1, <1>2 DEF IInv, ListInv, Listed, GetNextInv, GetNextLoc, Procs
<1>11. GuardInv'
  BY <1>1 DEF GuardInv, GuardFirst, GuardIdle, GuardDrained, At, GetNextPC, HolderPC, GuardPC, DrainPC, Procs
<1> QED
  BY <1>5, <1>8, <1>9, <1>10, <1>11 DEF ListInv, RemoveInv, GetNextInv

(* get_next returns the pointer it has found. *)
LEMMA GetNextReturns ==
    ASSUME IInv, NEW p \in Procs, Moves(p, ret), pc[p] \in GetNextPC,
           next[loc] \notin {NULL, PARKED}, nxt' = next[loc],
           UNCHANGED <<tail, next, prev, seen, cur, pre, loc, ret>>
    PROVE  ListInv'
<1>1. Moved(p, ret)
  BY HolderMoves
<1>2. ret \in {"dequeue", "rm_next", "rm_relink", "dr_clear", "dr_store"}
  BY DEF IInv, ListInv, Listed, LockDiscipline
<1>3. /\ ~At({"rm_relink2", "rm_done", "dr_swap"}) /\ ~(At({"rm_relink2", "rm_done", "dr_swap"})')
      /\ ~At({"rm_relink2", "rm_done"}) /\ ~(At({"rm_relink2", "rm_done"})')
      /\ Unlinking => ret = "rm_relink"
      /\ ret = "rm_relink" => Unlinking'
      /\ \A l \in Lockers : Draining(l)' <=> Draining(l)
  BY <1>1, <1>2 DEF At, GetNextPC, Unlinking, Waiting, Draining
<1>4. \A x \in Locations : next[x] # PARKED
  BY DEF IInv, ListInv, Listed, NextInv, ParkedMark
<1>5. Silent
  BY <1>1, <1>3, <1>4 DEF Silent
<1>6. SameLists /\ NextInv' /\ Listed' /\ \A x : Place(x)' <=> Place(x)
  BY <1>5, SilentStep
<1>7. /\ \A n \in Nodes : (InList(n)' <=> InList(n)) /\ (RawQueued(n)' <=> RawQueued(n))
      /\ \A n \in Nodes : InList(n) => Pred(n)' = Pred(n)
  BY <1>6 DEF SameLists, RawQueued
<1>8. At(GetNextPC) /\ ~(At(GetNextPC)') /\ ~At(RemovePC)
  BY <1>1, <1>2 DEF At, GetNextPC, RemovePC
<1>9. RemoveCur'
  <2>1. At(RemovePC)' => Waiting("rm_next") \/ Waiting("rm_relink")
    BY <1>1, <1>2, <1>8 DEF At, RemovePC, Waiting
  <2>2. \A r : ~(Waiting(r)')
    BY <1>8 DEF Waiting
  <2> QED
    BY <1>1, <1>3, <1>6, <1>7, <2>1, <2>2 DEF IInv, ListInv, Listed, RemoveInv, RemoveCur
<1>10. RemoveLinked' /\ RemoveRelink'
  <2>1. ret \in {"rm_next", "rm_relink"} => pc[cur] # "enq_link" /\ cur \in Nodes
    BY <1>8, Found DEF IInv, ListInv, Listed, RemoveInv, RemoveLinked, RemoveCur, Waiting
  <2> QED
    BY <1>1, <1>2, <1>7, <1>8, <2>1, Found DEF RemoveLinked, RemoveRelink, At, RemovePC, Waiting
<1>11. GetNextInv'
  BY <1>1, <1>2, <1>8 DEF GetNextInv, GetNextLoc, GetNextParking, GetNextSeen, Waiting, At, GetNextPC,
        HolderPC, Procs
<1>12. GuardFirst'
  BY <1>1, <1>2, <1>7, <1>8, Found DEF GuardFirst, At, IInv, ListInv, GetNextInv, GetNextLoc, Waiting
<1>13. GuardDrained'
  <2> SUFFICES ASSUME NEW l \in Lockers, pc'[l] \in {"drained", "dr_store"}
               PROVE  /\ l = p /\ next[l] \in Nodes /\ pc'[l] = "dr_store"
                      /\ nxt' \in Nodes /\ InList(nxt') /\ Pred(nxt') = next[l] /\ pc'[nxt'] # "enq_link"
    BY <1>7 DEF GuardDrained
  <2>1. l = p /\ pc'[l] = "dr_store" /\ ret = "dr_store"
    BY <1>1, <1>2 DEF HolderPC, DrainPC, Procs
  <2>2. next[l] \in Nodes
    BY <2>1 DEF IInv, ListInv, Listed, GetNextInv, GetNextLoc
  <2> QED
    BY <1>1, <1>7, <1>8, <2>1, <2>2, Found
<1>14. GuardIdle'
  BY <1>1, <1>2 DEF GuardIdle, At, Procs
<1> QED
  BY <1>6, <1>9, <1>10, <1>11, <1>12, <1>13, <1>14 DEF ListInv, RemoveInv, GuardInv

(* The location get_next waits on is neither the end of the queue, whose   *)
(* next pointer nobody has to write, nor a sentinel.                       *)
LEMMA WaitedOn ==
    ASSUME IInv, At(GetNextPC), next[loc] = NULL
    PROVE  loc # End /\ loc \notin Lockers
<1>1. PICK own \in [Locations -> Locations] : PredInv(own) /\ EndInv(own)
  BY DEF IInv, ListInv, Listed
<1>2. /\ ~At({"rm_relink2"}) /\ ~At({"rm_cas", "rm_relink"}) /\ ~At({"drain", "drained", "dr_store"})
      /\ ~At({"rm_relink2", "rm_done"})
  BY DEF At, GetNextPC
<1>3. ret \in {"dequeue", "rm_next", "rm_relink", "dr_clear", "dr_store"}
  BY DEF IInv, ListInv, Listed, LockDiscipline, At
<1>4. CASE ret \in {"dequeue", "dr_clear"}
  BY <1>4 DEF IInv, ListInv, Listed, GetNextInv, GetNextLoc, Waiting, End
<1>5. CASE ret = "rm_next"
  <2>1. cur \in Nodes /\ InList(cur) /\ prev[cur] = loc /\ loc = pre /\ Place(loc)
    BY <1>2, <1>5 DEF IInv, ListInv, Listed, RemoveInv, RemoveCur, GetNextInv, GetNextLoc, Waiting
  <2>2. Pred(cur) = loc /\ ~Unlinking /\ \A l \in Lockers : ~Draining(l)
    BY <1>2, <1>5, <2>1 DEF Pred, Unlinking, Waiting, Draining
  <2>3. loc # End
    BY <1>1, <2>1, <2>2 DEF EndInv
  <2>4. loc \in Lockers => Hooked(loc)
    BY <2>1, <2>2 DEF Place, Active
  <2> QED
    BY <1>2, <2>2, <2>3, <2>4 DEF IInv, ListInv, Listed, NextInv, SentinelHooked
<1>6. CASE ret = "rm_relink"
  BY <1>6 DEF IInv, ListInv, Listed, GetNextInv, GetNextLoc, RemoveInv, RemoveCur, Waiting, End
<1>7. CASE ret = "dr_store"
  <2>1. mutex \in Lockers /\ loc = next[mutex] /\ loc \in Nodes
    BY <1>7 DEF IInv, ListInv, Listed, LockDiscipline, GetNextInv, GetNextLoc, At, Procs
  <2>2. Draining(mutex) /\ Place(mutex) /\ mutex \in Locations
    BY <1>7, <2>1 DEF Draining, Waiting, Place, Active, Locations, Links
  <2>3. InList(loc) /\ Pred(loc) = mutex
    BY <1>2, <2>1, <2>2 DEF IInv, ListInv, Listed, NextInv, NextIsNode
  <2>4. own[loc] = mutex /\ own[End] = HEAD
    BY <1>1, <2>1, <2>3 DEF PredInv, EndInv
  <2> QED
    BY <2>1, <2>4
<1> QED
  BY <1>3, <1>4, <1>5, <1>6, <1>7

(* wait_for_next on x86_64: the null pointer is replaced by PARKED. *)
LEMMA GetNextMarks ==
    ASSUME IInv, NEW p \in Procs, Moves(p, "gn_park"), pc[p] = "gn_wait",
           Parking = "swap", next[loc] = NULL, next' = [next EXCEPT ![loc] = PARKED],
           UNCHANGED <<tail, prev, seen, cur, pre, loc, ret, nxt>>
    PROVE  ListInv'
<1>1. Moved(p, "gn_park")
  BY HolderMoves
<1>2. /\ At(GetNextPC) /\ At(GetNextPC)' /\ \A r : Waiting(r)' <=> Waiting(r)
      /\ ~At(RemovePC) /\ ~(At(RemovePC)')
      /\ ~At({"rm_relink2"}) /\ ~(At({"rm_relink2"})')
      /\ ~At({"rm_relink2", "rm_done"}) /\ ~(At({"rm_relink2", "rm_done"})')
      /\ ~At({"rm_relink2", "dr_swap"}) /\ ~(At({"rm_relink2", "dr_swap"})')
      /\ ~At({"rm_cas", "rm_relink"}) /\ ~(At({"rm_cas", "rm_relink"})')
      /\ ~At({"drain", "drained", "dr_store"}) /\ ~(At({"drain", "drained", "dr_store"})')
      /\ ~At({"gn_park", "gn_reload"}) /\ At({"gn_park", "gn_reload"})'
  BY <1>1 DEF Waiting, At, GetNextPC, RemovePC
<1>3. /\ loc \in Locations /\ loc # End /\ loc \notin Lockers
      /\ \A x \in Locations : next'[x] = IF x = loc THEN PARKED ELSE next[x]
  BY <1>2, Reachable, WaitedOn DEF IInv, ListInv, Listed, TypeOK, Place, Locations, Links
<1>4. /\ \A l \in Lockers : (Draining(l)' <=> Draining(l)) /\ next'[l] = next[l]
      /\ Unlinking' <=> Unlinking
  BY <1>1, <1>2, <1>3 DEF Draining, Unlinking, Locations, Links
<1>5. \A l \in Lockers : Active(l)' <=> Active(l)
  BY <1>1, <1>4 DEF Active
<1>6. /\ \A n \in Nodes : InList(n)' <=> InList(n)
      /\ \A n \in Nodes : RawQueued(n)' <=> RawQueued(n)
      /\ \A n \in Nodes : Pred(n)' = Pred(n)
      /\ \A n \in Nodes : PrevOf(n)' = PrevOf(n)
  BY <1>1, <1>2, <1>4 DEF InList, RawQueued, CutOut, Pred, PrevOf
<1>7. /\ \A x : Place(x)' <=> Place(x)
      /\ \A x : Place(x) => x \in Locations
      /\ End' = End
  BY <1>5, <1>6 DEF Place, End, Locations, Links
<1>8. Listed'
  <2>1. PICK own \in [Locations -> Locations] : PredInv(own) /\ EndInv(own)
    BY DEF IInv, ListInv, Listed
  <2>2. PredInv(own)'
    BY <1>1, <1>4, <1>6, <1>7, <2>1 DEF PredInv
  <2>3. EndInv(own)'
    BY <1>1, <1>3, <1>5, <1>6, <1>7, <2>1 DEF EndInv
  <2>4. Acyclic'
    BY <1>6 DEF IInv, ListInv, Listed, Acyclic
  <2> QED
    BY <2>2, <2>3, <2>4 DEF Listed
<1>9. NextInv
  BY DEF IInv, ListInv, Listed
<1>10. /\ \A n \in Nodes : InList(n) => Place(Pred(n))
       /\ \A l \in Lockers : Hooked(l) => Place(prev[l])
  BY Reachable
<1>n1. NextIsNode'
  BY <1>1, <1>2, <1>3, <1>6, <1>7, <1>9 DEF NextInv, NextIsNode
<1>n2. NextIsSentinel'
  BY <1>3, <1>5, <1>7, <1>9 DEF NextInv, NextIsSentinel
<1>n3. PhaseTwo'
  BY <1>1, <1>3, <1>6, <1>7, <1>9, <1>10 DEF NextInv, PhaseTwo
<1>n4. NextIsSet'
  BY <1>1, <1>2, <1>3, <1>4, <1>6, <1>7, <1>9, <1>10 DEF NextInv, NextIsSet
<1>n5. SentinelHooked'
  BY <1>1, <1>2, <1>3, <1>4, <1>7, <1>9, <1>10 DEF NextInv, SentinelHooked
<1>n6. SentinelNext'
  BY <1>1, <1>4, <1>9 DEF NextInv, SentinelNext
<1>n7. ParkedMark'
  BY <1>2, <1>3, <1>9 DEF NextInv, ParkedMark
<1>r. RemoveInv'
  <2>1. RemoveCur'
    BY <1>1, <1>2, <1>6, <1>7 DEF IInv, ListInv, Listed, RemoveInv, RemoveCur
  <2>2. RemoveLinked' /\ RemoveRelink'
    BY <1>1, <1>2, <2>1 DEF IInv, ListInv, Listed, RemoveInv, RemoveLinked, RemoveCur, RemoveRelink, At, RemovePC
  <2> QED
    BY <2>1, <2>2 DEF RemoveInv
<1>g. GetNextInv'
  <2>1. GetNextLoc'
    BY <1>1, <1>2, <1>4 DEF IInv, ListInv, Listed, GetNextInv, GetNextLoc, Procs, GetNextPC
  <2> QED
    BY <1>1, <1>3, <2>1 DEF GetNextInv, GetNextParking, GetNextSeen, At
<1>d. GuardInv'
  BY <1>1 DEF GuardInv, GuardFirst, GuardIdle, GuardDrained, At, HolderPC, GuardPC, DrainPC, Procs
<1> QED
  BY <1>8, <1>n1, <1>n2, <1>n3, <1>n4, <1>n5, <1>n6, <1>n7, <1>r, <1>g, <1>d DEF ListInv, NextInv

(* Every step of get_next keeps ListInv. *)
LEMMA GetNextListInv ==
    ASSUME IInv, NEW p \in Procs, GetNextStep(p)
    PROVE  ListInv'
<1> USE DEF Goto, Step, GetNextPC
<1>1. /\ pc[p] \in GetNextPC => /\ mutex = p /\ GetNextPC \subseteq HolderPC /\ loc \in Locations
                                /\ ret \in HolderPC
      /\ \A k \in GetNextPC : k \in HolderPC
  BY Registers DEF IInv, ListInv, Listed, LockDiscipline, HolderPC, RemovePC, DrainPC, GuardPC, At
<1>2. pc[p] \in {"gn_load", "gn_wait", "gn_check", "gn_clear"} => \A x \in Locations : next[x] # PARKED
  BY <1>1 DEF IInv, ListInv, Listed, NextInv, ParkedMark, At
<1>3. GetNextParking /\ GetNextSeen
  BY DEF IInv, ListInv, Listed, GetNextInv
<1>4. CASE GetNextLoad(p)
  <2>1. CASE next[loc] # NULL
    <3>1. Moves(p, ret)
      BY <1>1, <1>4, <2>1 DEF GetNextLoad, Return, Moves
    <3> QED
      BY <1>1, <1>2, <1>4, <2>1, <3>1, GetNextReturns DEF GetNextLoad, Return, memory
  <2>2. CASE next[loc] = NULL
    <3>1. Moves(p, "gn_wait") /\ Parking # "spin"
      BY <1>1, <1>4, <2>2 DEF GetNextLoad, Return, Moves
    <3>2. GetNextParking' /\ GetNextSeen'
      BY <1>1, <1>4, <3>1, HolderMoves DEF GetNextParking, GetNextSeen, At, GetNextLoad
    <3> QED
      BY <1>1, <1>2, <1>4, <3>1, <3>2, GetNextWaits DEF GetNextLoad, memory
  <2> QED
    BY <2>1, <2>2
<1>5. CASE GetNextAnnounce(p)
  <2>1. CASE Parking = "store"
    <3>1. Moves(p, "gn_check")
      BY <1>1, <1>5, <2>1 DEF GetNextAnnounce, Moves
    <3>2. GetNextParking' /\ GetNextSeen'
      BY <1>1, <1>5, <2>1, <3>1, HolderMoves DEF GetNextParking, GetNextSeen, At, GetNextAnnounce
    <3> QED
      BY <1>1, <1>2, <1>5, <2>1, <3>1, <3>2, GetNextWaits DEF GetNextAnnounce
  <2>2. CASE Parking = "swap" /\ next[loc] = NULL
    <3>1. Moves(p, "gn_park")
      BY <1>1, <1>5, <2>2 DEF GetNextAnnounce, Moves
    <3> QED
      BY <1>5, <2>2, <3>1, GetNextMarks DEF GetNextAnnounce
  <2>3. CASE Parking = "swap" /\ next[loc] # NULL
    <3>1. Moves(p, ret)
      BY <1>1, <1>5, <2>3 DEF GetNextAnnounce, Return, Moves
    <3> QED
      BY <1>1, <1>2, <1>5, <2>3, <3>1, GetNextReturns DEF GetNextAnnounce, Return
  <2> QED
    BY <1>5, <2>1, <2>2, <2>3 DEF GetNextAnnounce
<1>6. CASE GetNextCheck(p)
  <2>0. Parking = "store"
    BY <1>1, <1>3, <1>6 DEF GetNextCheck, GetNextParking, At
  <2>1. CASE next[loc] # NULL
    <3>1. Moves(p, "gn_clear")
      BY <1>1, <1>6, <2>1 DEF GetNextCheck, Moves
    <3>2. GetNextParking' /\ GetNextSeen'
      BY <1>1, <1>6, <2>0, <2>1, <3>1, HolderMoves DEF GetNextParking, GetNextSeen, At, GetNextCheck, memory
    <3> QED
      BY <1>1, <1>2, <1>6, <3>1, <3>2, GetNextWaits DEF GetNextCheck, memory
  <2>2. CASE next[loc] = NULL
    <3>1. Moves(p, "gn_park")
      BY <1>1, <1>6, <2>2 DEF GetNextCheck, Moves
    <3>2. GetNextParking' /\ GetNextSeen'
      BY <1>1, <1>6, <2>0, <2>2, <3>1, HolderMoves DEF GetNextParking, GetNextSeen, At, GetNextCheck
    <3> QED
      BY <1>1, <1>2, <1>6, <3>1, <3>2, GetNextWaits DEF GetNextCheck, memory
  <2> QED
    BY <2>1, <2>2
<1>7. CASE GetNextClear(p)
  <2>1. Moves(p, ret)
    BY <1>1, <1>7 DEF GetNextClear, Moves
  <2>2. nxt = next[loc] /\ next[loc] # NULL
    BY <1>1, <1>3, <1>7 DEF GetNextClear, GetNextSeen, At
  <2> QED
    BY <1>1, <1>2, <1>7, <2>1, <2>2, GetNextReturns DEF GetNextClear, locals
<1>8. CASE GetNextPark(p)
  <2>1. CASE Parking = "store"
    <3>1. Moves(p, "gn_check")
      BY <1>1, <1>8, <2>1 DEF GetNextPark, Moves
    <3>2. GetNextParking' /\ GetNextSeen'
      BY <1>1, <1>8, <2>1, <3>1, HolderMoves DEF GetNextParking, GetNextSeen, At
    <3>3. \A x \in Locations : next[x] # PARKED
      BY <2>1 DEF IInv, ListInv, Listed, NextInv, ParkedMark
    <3> QED
      BY <1>1, <1>8, <3>1, <3>2, <3>3, GetNextWaits DEF GetNextPark, locals
  <2>2. CASE Parking # "store"
    <3>1. Moves(p, "gn_reload")
      BY <1>1, <1>8, <2>2 DEF GetNextPark, Moves
    <3>0. Parking = "swap" /\ next[loc] # NULL
      <4>1. Parking # "spin" /\ Parking \in {"swap", "store", "spin"}
        BY <1>1, <1>3, <1>8, QueueAssumption DEF GetNextPark, GetNextParking, At, QueueAssumption
      <4> QED
        BY <1>1, <1>3, <1>8, <2>2, <4>1 DEF GetNextPark, GetNextSeen, At
    <3>2. GetNextParking' /\ GetNextSeen'
      BY <1>1, <1>8, <3>0, <3>1, HolderMoves DEF GetNextParking, GetNextSeen, At, GetNextPark, locals
    <3> QED
      BY <1>1, <1>8, <3>1, <3>2, GetNextWaits DEF GetNextPark, locals
  <2> QED
    BY <2>1, <2>2
<1>9. CASE GetNextReload(p)
  <2>0. Parking = "swap" /\ next[loc] # NULL
    BY <1>1, <1>3, <1>9 DEF GetNextReload, GetNextParking, GetNextSeen, At
  <2>1. CASE next[loc] # PARKED
    <3>1. Moves(p, ret)
      BY <1>1, <1>9, <2>1 DEF GetNextReload, Return, Moves
    <3> QED
      BY <1>1, <1>9, <2>0, <2>1, <3>1, GetNextReturns DEF GetNextReload, Return, memory
  <2>2. CASE next[loc] = PARKED
    <3>1. Moves(p, "gn_park")
      BY <1>1, <1>9, <2>2 DEF GetNextReload, Moves
    <3>2. GetNextParking' /\ GetNextSeen'
      BY <1>1, <1>9, <2>0, <3>1, HolderMoves DEF GetNextParking, GetNextSeen, At, GetNextReload, memory
    <3> QED
      BY <1>1, <1>9, <3>1, <3>2, GetNextWaits DEF GetNextReload, memory
  <2> QED
    BY <2>1, <2>2
<1> QED
  BY <1>4, <1>5, <1>6, <1>7, <1>8, <1>9 DEF GetNextStep

-----------------------------------------------------------------------------
(* Steps of the lock holder that only change its registers. *)
SameShape ==
    /\ \A x : Place(x)' <=> Place(x)
    /\ \A n \in Nodes : InList(n)' <=> InList(n)
    /\ \A n \in Nodes : InList(n) => Pred(n)' = Pred(n)
    /\ \A n \in Nodes : RawQueued(n)' <=> RawQueued(n)

USE DEF SameShape

(* The lock holder goes on with the memory unchanged. *)
LEMMA SilentMove ==
    ASSUME IInv, NEW p \in Procs, NEW k, Moves(p, k), UNCHANGED <<tail, next, prev, seen>>,
           pc[p] \notin GetNextPC,
           pc[p] \notin {"rm_relink2", "rm_done", "dr_swap"},
           k \notin {"rm_relink2", "rm_done", "dr_swap"},
           Unlinking => Unlinking' /\ cur' = cur /\ pre' = pre,
           \A l \in Lockers : next[l] # NULL => (Draining(l)' <=> Draining(l))
    PROVE  NextInv' /\ Listed' /\ SameShape /\ \A x \in Locations : next[x] # PARKED
<1>1. \A x \in Locations : next[x] # PARKED
  BY HolderMoves DEF IInv, ListInv, Listed, NextInv, ParkedMark, At, GetNextPC
<1>2. /\ ~At({"rm_relink2", "rm_done", "dr_swap"}) /\ ~(At({"rm_relink2", "rm_done", "dr_swap"})')
  BY HolderMoves DEF At
<1>3. Silent
  BY <1>1, <1>2, HolderMoves DEF Silent
<1>4. SameLists /\ NextInv' /\ Listed' /\ \A x : Place(x)' <=> Place(x)
  BY <1>3, SilentStep
<1> QED
  BY <1>1, <1>4 DEF SameShape, SameLists, RawQueued

(* remove_with_prev reads next of the node that it removes. *)
LEMMA RemoveNextListInv ==
    ASSUME IInv, NEW p \in Procs, RemoveNext(p)
    PROVE  ListInv'
<1> DEFINE k == IF next[cur] = NULL THEN "rm_clear" ELSE "rm_relink"
<1>1. Moves(p, k) /\ UNCHANGED <<tail, next, prev, seen, cur, pre, ret>> /\ nxt' = next[cur]
  BY DEF RemoveNext, Moves, Goto, memory, HolderPC, RemovePC
<1>2. Moved(p, k) /\ pc[p] = "rm_next"
  BY <1>1, HolderMoves DEF RemoveNext
<1>3. /\ ~Unlinking
      /\ \A l \in Lockers : ~Draining(l) /\ ~(Draining(l)')
      /\ \A r : ~Waiting(r) /\ ~(Waiting(r)')
  BY <1>2 DEF Unlinking, Draining, Waiting, At, GetNextPC
<1>4. NextInv' /\ Listed' /\ SameShape /\ \A x \in Locations : next[x] # PARKED
  BY <1>1, <1>2, <1>3, SilentMove DEF GetNextPC
<1>5. cur \in Nodes /\ InList(cur) /\ Place(cur) /\ cur \in Locations /\ ~At({"rm_relink2"})
  BY <1>2 DEF IInv, ListInv, Listed, RemoveInv, RemoveCur, At, RemovePC, Place, Locations, Links
<1>6. RemoveCur'
  BY <1>1, <1>2, <1>4 DEF IInv, ListInv, Listed, RemoveInv, RemoveCur, At, RemovePC
<1>7. RemoveLinked'
  BY <1>1, <1>2, <1>3, <1>5 DEF IInv, ListInv, Listed, RemoveInv, RemoveLinked, At, RemovePC
<1>8. RemoveRelink'
  <2>1. CASE next[cur] \in Nodes
    BY <1>1, <1>2, <1>4, <1>5, <2>1 DEF RemoveRelink, At, IInv, ListInv, NextInv, NextIsNode
  <2>2. CASE next[cur] \in Lockers
    <3>1. Hooked(next[cur]) /\ prev[next[cur]] = cur
      BY <1>3, <1>5, <2>2 DEF IInv, ListInv, Listed, NextInv, NextIsSentinel, Active
    <3> QED
      BY <1>1, <1>2, <2>2, <3>1 DEF RemoveRelink, At
  <2>3. CASE next[cur] = NULL
    BY <1>2, <2>3 DEF RemoveRelink, At
  <2> QED
    BY <1>4, <1>5, <2>1, <2>2, <2>3 DEF IInv, ListInv, Listed, TypeOK, Links
<1>9. GetNextInv'
  BY <1>2, <1>3 DEF GetNextInv, GetNextLoc, GetNextParking, GetNextSeen, At, GetNextPC, HolderPC, Procs
<1>10. GuardInv'
  BY <1>2 DEF GuardInv, GuardFirst, GuardIdle, GuardDrained, At, HolderPC, DrainPC, Procs
<1> QED
  BY <1>4, <1>6, <1>7, <1>8, <1>9, <1>10 DEF ListInv, RemoveInv

(* dequeue looks at its node again, under the lock. *)
LEMMA OwnerRecheckListInv ==
    ASSUME IInv, NEW n \in Nodes, OwnerRecheck(n)
    PROVE  ListInv'
<1>0. n \in Procs
  BY DEF Procs
<1>1. /\ UNCHANGED <<tail, next, prev, seen, nxt, loc, ret>> /\ pc[n] = "recheck"
      /\ \/ Moves(n, "rm_next") /\ RawQueued(n) /\ cur' = n /\ pre' = prev[n]
         \/ Moves(n, "unlock")
  BY DEF OwnerRecheck, StillQueued, StartRemove, Moves, Goto, memory, HolderPC, RemovePC, GuardPC
<1>2. PICK k \in {"rm_next", "unlock"} :
          /\ Moves(n, k)
          /\ k = "rm_next" => RawQueued(n) /\ cur' = n /\ pre' = prev[n]
  BY <1>1
<1>3. Moved(n, k)
  BY <1>0, <1>2, HolderMoves
<1>4. /\ ~Unlinking
      /\ \A l \in Lockers : ~Draining(l) /\ ~(Draining(l)')
      /\ \A r : ~Waiting(r) /\ ~(Waiting(r)')
  BY <1>1, <1>2, <1>3 DEF Unlinking, Draining, Waiting, At, GetNextPC
<1>5. NextInv' /\ Listed' /\ SameShape
  BY <1>0, <1>1, <1>2, <1>3, <1>4, SilentMove DEF GetNextPC
<1>6. nxt = NULL /\ ret = NULL
  BY <1>0, <1>1, <1>3 DEF IInv, ListInv, Listed, GuardInv, GuardIdle, At
<1>7. RawQueued(n) => InList(n) /\ Pred(n) = prev[n] /\ Place(prev[n])
  BY <1>1, <1>3, Reachable DEF InList, CutOut, At, Pred
<1>8. RemoveCur'
  BY <1>1, <1>2, <1>3, <1>4, <1>5, <1>7 DEF RemoveCur, At, RemovePC
<1>9. RemoveLinked' /\ RemoveRelink'
  BY <1>1, <1>2, <1>3, <1>4, <1>6 DEF RemoveLinked, RemoveRelink, At, RemovePC
<1>10. GetNextInv'
  BY <1>0, <1>2, <1>3, <1>4 DEF GetNextInv, GetNextLoc, GetNextParking, GetNextSeen, At, GetNextPC,
        HolderPC, Procs
<1>11. GuardInv'
  BY <1>0, <1>1, <1>2, <1>3, <1>6 DEF GuardInv, GuardFirst, GuardIdle, GuardDrained, At, HolderPC,
        DrainPC, Procs
<1> QED
  BY <1>5, <1>8, <1>9, <1>10, <1>11 DEF ListInv, RemoveInv

(* dequeue, pop and drain wait for the first node, or select the last. *)
LEMMA SelectListInv ==
    ASSUME IInv, NEW l \in Lockers, Dequeue(l) \/ Pop(l) \/ \E s \in States : DrainNew(l, s)
    PROVE  ListInv'
<1>0. l \in Procs /\ pc[l] = "locked"
  BY DEF Procs, Dequeue, Pop, DrainNew, Step
<1>1. PICK k \in {"gn_load", "pop", "drain"} :
          /\ UNCHANGED <<tail, next, prev, seen, nxt>> /\ Moves(l, k)
          /\ k = "gn_load" => loc' = HEAD /\ ret' \in {"dequeue", "dr_clear"} /\ tail \in Nodes
          /\ k = "pop" => cur' = tail /\ tail \in Nodes
          /\ k # "gn_load" => ret' = ret
  BY <1>0 DEF Dequeue, Pop, DrainNew, GetNext, Step, Moves, Goto, memory, HolderPC, GetNextPC, GuardPC,
        DrainPC
<1>2. Moved(l, k)
  BY <1>0, <1>1, HolderMoves
<1>3. /\ ~Unlinking /\ ~Draining(l) /\ ~Hooked(l)
      /\ \A r : Waiting(r)' => k = "gn_load" /\ ret' = r
      /\ \A m \in Lockers : m # l => ~Draining(m) /\ ~(Draining(m)')
  BY <1>0, <1>2 DEF Unlinking, Draining, Hooked, Waiting, At, GetNextPC
<1>4. next[l] = NULL
  BY <1>3 DEF IInv, ListInv, Listed, NextInv, SentinelNext
<1>5. NextInv' /\ Listed' /\ SameShape
  BY <1>0, <1>1, <1>2, <1>3, <1>4, SilentMove DEF GetNextPC
<1>6. nxt = NULL /\ ret = NULL
  BY <1>0, <1>2 DEF IInv, ListInv, Listed, GuardInv, GuardIdle, At
<1>7. RemoveInv'
  BY <1>0, <1>1, <1>2, <1>3 DEF RemoveInv, RemoveCur, RemoveLinked, RemoveRelink, At, RemovePC
<1>8. GetNextInv'
  BY <1>0, <1>1, <1>2, <1>3 DEF GetNextInv, GetNextLoc, GetNextParking, GetNextSeen, At, GetNextPC,
        HolderPC, Procs
<1>9. tail \in Nodes => InList(tail)
  BY DEF IInv, ListInv, Listed, EndInv, End, Place
<1>10. GuardInv'
  BY <1>0, <1>1, <1>2, <1>5, <1>6, <1>9 DEF GuardInv, GuardFirst, GuardIdle, GuardDrained, At,
        HolderPC, DrainPC, Procs
<1> QED
  BY <1>5, <1>7, <1>8, <1>10 DEF ListInv

(* requeue leaves the node in the list that it never left. *)
LEMMA RequeueListInv ==
    ASSUME IInv, NEW l \in Lockers, Requeue(l)
    PROVE  ListInv'
<1>0. l \in Procs /\ pc[l] \in {"dequeue", "pop"}
  BY DEF Procs, Requeue
<1>1. UNCHANGED <<tail, next, prev, seen>> /\ nxt' = NULL /\ ret' = NULL /\ Moves(l, "locked")
  BY <1>0 DEF Requeue, Moves, Goto, memory, HolderPC, GuardPC
<1>2. Moved(l, "locked")
  BY <1>0, <1>1, HolderMoves
<1>3. /\ ~Unlinking
      /\ \A m \in Lockers : ~Draining(m) /\ ~(Draining(m)')
      /\ \A r : ~(Waiting(r)')
  BY <1>0, <1>2 DEF Unlinking, Draining, Waiting, At, GetNextPC
<1>4. NextInv' /\ Listed' /\ SameShape
  BY <1>0, <1>1, <1>2, <1>3, SilentMove DEF GetNextPC
<1>5. RemoveInv' /\ GetNextInv'
  BY <1>0, <1>2, <1>3 DEF RemoveInv, RemoveCur, RemoveLinked, RemoveRelink, At, RemovePC, GetNextInv,
        GetNextLoc, GetNextParking, GetNextSeen, GetNextPC, HolderPC, Procs
<1>6. GuardInv'
  BY <1>0, <1>1, <1>2 DEF GuardInv, GuardFirst, GuardIdle, GuardDrained, At, HolderPC, DrainPC, Procs
<1> QED
  BY <1>4, <1>5, <1>6 DEF ListInv

(* A Dequeue or Pop guard starts to remove its node. *)
LEMMA RemoveGuardedListInv ==
    ASSUME IInv, NEW l \in Lockers, NEW s \in States, RemoveDequeued(l, s) \/ RemovePopped(l, s)
    PROVE  ListInv'
<1>0. l \in Procs
  BY DEF Procs
<1>1. PICK k \in {"rm_next", "gn_load"} :
          /\ UNCHANGED <<tail, next, prev, seen, nxt>> /\ Moves(l, k)
          /\ k = "rm_next" => pc[l] = "dequeue" /\ cur' = nxt /\ pre' = HEAD /\ ret' = ret
          /\ k = "gn_load" => pc[l] = "pop" /\ cur' = cur /\ pre' = prev[cur] /\ loc' = pre' /\ ret' = "rm_next"
  BY DEF RemoveDequeued, RemovePopped, StartRemove, GetNext, Moves, Goto, memory, HolderPC, GetNextPC,
        RemovePC, GuardPC
<1>2. Moved(l, k)
  BY <1>0, <1>1, HolderMoves
<1>3. /\ ~Unlinking
      /\ \A m \in Lockers : ~Draining(m) /\ ~(Draining(m)')
      /\ \A r : Waiting(r)' => k = "gn_load" /\ r = "rm_next"
  BY <1>1, <1>2 DEF Unlinking, Draining, Waiting, At, GetNextPC
<1>4. NextInv' /\ Listed' /\ SameShape
  BY <1>0, <1>1, <1>2, <1>3, SilentMove DEF GetNextPC
<1>5. k = "rm_next" => /\ nxt \in Nodes /\ InList(nxt) /\ prev[nxt] = HEAD /\ pc[nxt] # "enq_link"
                       /\ ret = "dequeue"
  BY <1>0, <1>1, <1>2 DEF IInv, ListInv, Listed, GuardInv, GuardFirst, At
<1>6. k = "gn_load" => cur \in Nodes /\ InList(cur) /\ Place(prev[cur])
  BY <1>0, <1>1, <1>2, <1>3, Reachable DEF IInv, ListInv, Listed, GuardInv, GuardFirst, At, Pred
<1>7. RemoveCur'
  <2>1. cur' \in Nodes /\ InList(cur') /\ prev[cur'] = pre' /\ Place(pre')
    BY <1>1, <1>5, <1>6 DEF Place
  <2> QED
    BY <1>1, <1>2, <1>4, <2>1 DEF RemoveCur, InList
<1>8. RemoveLinked' /\ RemoveRelink'
  BY <1>0, <1>1, <1>2, <1>3, <1>5 DEF RemoveLinked, RemoveRelink, At, RemovePC
<1>9. GetNextInv'
  BY <1>0, <1>1, <1>2, <1>3 DEF GetNextInv, GetNextLoc, GetNextParking, GetNextSeen, At, GetNextPC,
        HolderPC, Procs
<1>10. GuardInv'
  BY <1>0, <1>1, <1>2 DEF GuardInv, GuardFirst, GuardIdle, GuardDrained, At, HolderPC, DrainPC, Procs
<1> QED
  BY <1>4, <1>7, <1>8, <1>9, <1>10 DEF ListInv, RemoveInv

(* A drain hands out its first node, or looks for the one after it. *)
LEMMA DrainOneListInv ==
    ASSUME IInv, NEW l \in Lockers, DrainNext(l) \/ DrainDrop(l)
    PROVE  ListInv'
<1>0. l \in Procs
  BY DEF Procs
<1>1. PICK k \in {"drained", "dr_store", "gn_load"} :
          /\ UNCHANGED <<tail, next, prev, seen, nxt>> /\ Moves(l, k)
          /\ k = "drained" => pc[l] = "drain" /\ next[l] # NULL /\ ret' = ret
          /\ k # "drained" => pc[l] = "drained"
          /\ k = "dr_store" => next[l] = prev[l]
          /\ k = "gn_load" => next[l] # prev[l] /\ loc' = next[l] /\ ret' = "dr_store"
  BY DEF DrainNext, DrainDrop, GetNext, Step, Moves, Goto, memory, locals, HolderPC, GetNextPC, DrainPC
<1>2. Moved(l, k)
  BY <1>0, <1>1, HolderMoves
<1>3. /\ ~Unlinking
      /\ \A m \in Lockers : Draining(m)' <=> Draining(m)
      /\ Draining(l)
      /\ \A r : Waiting(r)' => k = "gn_load" /\ r = "dr_store"
  BY <1>0, <1>1, <1>2 DEF Unlinking, Draining, Waiting, At, GetNextPC
<1>4. NextInv' /\ Listed' /\ SameShape
  BY <1>0, <1>1, <1>2, <1>3, SilentMove DEF GetNextPC
<1>5. next[l] \in Nodes /\ nxt = NULL /\ ret = NULL
  BY <1>0, <1>1, <1>2, <1>3 DEF IInv, ListInv, Listed, GuardInv, GuardDrained, GuardIdle, NextInv, SentinelNext, At
<1>6. RemoveInv'
  BY <1>0, <1>1, <1>2, <1>3 DEF RemoveInv, RemoveCur, RemoveLinked, RemoveRelink, At, RemovePC
<1>7. GetNextInv'
  BY <1>0, <1>1, <1>2, <1>3, <1>5 DEF GetNextInv, GetNextLoc, GetNextParking, GetNextSeen, At, GetNextPC,
        HolderPC, Procs
<1>8. GuardInv'
  BY <1>0, <1>1, <1>2, <1>5 DEF GuardInv, GuardFirst, GuardIdle, GuardDrained, At, HolderPC, DrainPC, Procs
<1> QED
  BY <1>4, <1>6, <1>7, <1>8 DEF ListInv

(* The tail has moved on: wait for the node's successor. *)
LEMMA RemoveCasFails ==
    ASSUME IInv, NEW p \in Procs, RemoveCas(p), tail # cur
    PROVE  ListInv'
<1>1. /\ UNCHANGED <<tail, next, prev, seen, cur, pre>> /\ Moves(p, "gn_load")
      /\ loc' = cur /\ ret' = "rm_relink" /\ pc[p] = "rm_cas"
  BY DEF RemoveCas, GetNext, Moves, Goto, HolderPC, GetNextPC, RemovePC
<1>2. Moved(p, "gn_load")
  BY <1>1, HolderMoves
<1>3. /\ Unlinking'
      /\ \A l \in Lockers : ~Draining(l) /\ ~(Draining(l)')
      /\ \A r : Waiting(r)' => r = "rm_relink"
  BY <1>1, <1>2 DEF Unlinking, Draining, Waiting, At, GetNextPC
<1>4. NextInv' /\ Listed' /\ SameShape
  BY <1>1, <1>2, <1>3, SilentMove DEF GetNextPC
<1>5. RemoveCur'
  BY <1>1, <1>2, <1>4 DEF IInv, ListInv, Listed, RemoveInv, RemoveCur, At, RemovePC
<1>6. RemoveLinked' /\ RemoveRelink'
  BY <1>1, <1>2, <1>5 DEF IInv, ListInv, Listed, RemoveInv, RemoveCur, RemoveLinked, RemoveRelink, At, RemovePC
<1>7. GetNextInv'
  BY <1>1, <1>2, <1>3 DEF GetNextInv, GetNextLoc, GetNextParking, GetNextSeen, At, GetNextPC, HolderPC, Procs
<1>8. GuardInv'
  BY <1>1, <1>2 DEF GuardInv, GuardFirst, GuardIdle, GuardDrained, At, HolderPC, DrainPC, Procs
<1> QED
  BY <1>4, <1>5, <1>6, <1>7, <1>8 DEF ListInv, RemoveInv

-----------------------------------------------------------------------------
(* Taking and releasing the lock. *)
LEMMA LockListInv ==
    ASSUME IInv, NEW p \in Procs, NEW k \in {"recheck", "locked", "drain"},
           mutex = NONE, mutex' = p, pc[p] \notin HolderPC \cup {"dr_hooked", "enq_link", "enq_cas"},
           pc' = [pc EXCEPT ![p] = k],
           UNCHANGED <<tail, next, prev, seen, nxt, ret>>
    PROVE  ListInv'
<1>1. /\ \A S : ~At(S)
      /\ pc'[p] = k
      /\ \A q \in Procs : q # p => pc'[q] = pc[q]
      /\ \A q \in Procs : pc[q] \notin HolderPC
      /\ \A n \in Nodes : pc'[n] = "enq_link" <=> pc[n] = "enq_link"
      /\ \A n \in Nodes : pc'[n] = "enq_cas" <=> pc[n] = "enq_cas"
      /\ \A l \in Lockers : Hooked(l)' <=> Hooked(l)
  BY DEF IInv, ListInv, Listed, TypeOK, LockDiscipline, Procs, At, Hooked
<1>2. /\ ~(At({"rm_relink2", "rm_done", "dr_swap"})') /\ ~(At(GetNextPC)') /\ ~(At(RemovePC)')
      /\ \A r : ~(Waiting(r)')
      /\ \A l \in Lockers : ~Draining(l)
      /\ ~Unlinking
  BY <1>1 DEF At, GetNextPC, RemovePC, Waiting, Draining, Unlinking
<1>3. /\ \A l \in Lockers : Draining(l)' => l = p
      /\ p \in Lockers => ~Hooked(p)
  BY <1>1 DEF Draining, Hooked
<1>4. p \in Lockers => next[p] = NULL
  BY <1>2, <1>3 DEF IInv, ListInv, Listed, NextInv, SentinelNext
<1>5. \A x \in Locations : next[x] # PARKED
  BY <1>1 DEF IInv, ListInv, Listed, NextInv, ParkedMark
<1>6. Silent
  BY <1>1, <1>2, <1>3, <1>4, <1>5 DEF Silent
<1>7. NextInv' /\ Listed'
  BY <1>6, SilentStep
<1>8. RemoveInv' /\ GetNextInv'
  BY <1>1, <1>2 DEF RemoveInv, RemoveCur, RemoveLinked, RemoveRelink, At, RemovePC, GetNextInv,
        GetNextLoc, GetNextParking, GetNextSeen, GetNextPC, HolderPC, Procs
<1>9. nxt = NULL /\ ret = NULL
  BY DEF IInv, ListInv, Listed, GuardInv, GuardIdle
<1>10. GuardInv'
  BY <1>1, <1>9 DEF GuardInv, GuardFirst, GuardIdle, GuardDrained, At, HolderPC, DrainPC, Procs
<1> QED
  BY <1>7, <1>8, <1>10 DEF ListInv

(* The lock is released, by a dropped guard or an emptied drain. *)
LEMMA UnlockListInv ==
    ASSUME IInv, NEW p \in Procs, NEW k \in {"idle", "dr_empty"},
           pc[p] \in {"unlock", "locked", "drain"}, mutex' = NONE, pc' = [pc EXCEPT ![p] = k],
           UNCHANGED <<tail, next, seen, nxt, ret>>,
           \A n \in Nodes : prev'[n] = prev[n],
           \A l \in Lockers : prev'[l] = prev[l] \/ (l = p /\ next[p] = NULL),
           p \in Lockers => next[p] = NULL
    PROVE  ListInv'
<1>1. /\ mutex = p
      /\ \A S : ~(At(S)')
      /\ pc'[p] = k
      /\ \A q \in Procs : q # p => pc'[q] = pc[q] /\ pc[q] \notin HolderPC
      /\ \A n \in Nodes : pc'[n] = "enq_link" <=> pc[n] = "enq_link"
      /\ \A n \in Nodes : pc'[n] = "enq_cas" <=> pc[n] = "enq_cas"
      /\ \A l \in Lockers : Hooked(l)' <=> Hooked(l)
  BY DEF IInv, ListInv, Listed, TypeOK, LockDiscipline, Procs, At, Hooked, HolderPC, GuardPC, DrainPC
<1>2. /\ ~At({"rm_relink2", "rm_done", "dr_swap"}) /\ ~At({"gn_park", "gn_reload"})
      /\ \A r : ~(Waiting(r)')
      /\ \A l \in Lockers : ~(Draining(l)')
      /\ ~Unlinking
  BY <1>1 DEF At, GetNextPC, Waiting, Draining, Unlinking
<1>3. /\ \A l \in Lockers : Draining(l) => l = p
      /\ p \in Lockers => ~Hooked(p)
  BY <1>1 DEF Draining, Hooked
<1>4. \A x \in Locations : next[x] # PARKED
  BY <1>2 DEF IInv, ListInv, Listed, NextInv, ParkedMark
<1>5. Silent
  BY <1>1, <1>2, <1>3, <1>4 DEF Silent, Active
<1>6. NextInv' /\ Listed'
  BY <1>5, SilentStep
<1>7. RemoveInv' /\ GetNextInv'
  BY <1>1, <1>2 DEF RemoveInv, RemoveCur, RemoveLinked, RemoveRelink, GetNextInv,
        GetNextLoc, GetNextParking, GetNextSeen, GetNextPC, HolderPC, Procs
<1>8. nxt = NULL /\ ret = NULL
  BY <1>1 DEF IInv, ListInv, Listed, GuardInv, GuardIdle, At
<1>9. GuardInv'
  BY <1>1, <1>8 DEF GuardInv, GuardFirst, GuardIdle, GuardDrained, HolderPC, DrainPC, Procs
<1> QED
  BY <1>6, <1>7, <1>9 DEF ListInv

-----------------------------------------------------------------------------
(* enqueue, phase 1: the node becomes the end of the queue. *)
LEMMA EnqueueCasListInv ==
    ASSUME IInv, NEW n \in Nodes, pc[n] = "enq_cas", tail = seen[n], tail' = n,
           prev' = [prev EXCEPT ![n] = PrevOf(n)], pc' = [pc EXCEPT ![n] = "enq_link"],
           UNCHANGED <<next, mutex, seen, locals>>
    PROVE  ListInv'
<1>1. /\ mutex # n /\ (mutex \in Procs => pc'[mutex] = pc[mutex])
      /\ \A p \in Procs : p # n => pc'[p] = pc[p]
      /\ pc'[n] = "enq_link"
      /\ \A x \in Links : x # n => prev'[x] = prev[x]
      /\ prev'[n] = End
  BY DEF IInv, TypeOK, LockDiscipline, Procs, Links, HolderPC, GetNextPC, RemovePC, DrainPC, GuardPC,
         PrevOf, End
<1>2. /\ cur' = cur /\ pre' = pre /\ loc' = loc /\ nxt' = nxt /\ ret' = ret /\ mutex' = mutex
      /\ next' = next /\ seen' = seen
  BY DEF locals
<1>3. /\ \A r : Waiting(r)' <=> Waiting(r)
      /\ Unlinking' <=> Unlinking
      /\ At(RemovePC)' <=> At(RemovePC)
      /\ At({"rm_relink2"})' <=> At({"rm_relink2"})
      /\ At({"rm_relink2", "rm_done"})' <=> At({"rm_relink2", "rm_done"})
      /\ At({"rm_relink2", "dr_swap"})' <=> At({"rm_relink2", "dr_swap"})
      /\ At({"drain", "drained", "dr_store"})' <=> At({"drain", "drained", "dr_store"})
  BY <1>1, <1>2 DEF Waiting, Unlinking, At
<1>4. /\ \A l \in Lockers : Hooked(l)' <=> Hooked(l)
      /\ \A l \in Lockers : Draining(l)' <=> Draining(l)
      /\ \A l \in Lockers : Active(l)' <=> Active(l)
      /\ \A l \in Lockers : prev'[l] = prev[l]
  BY <1>1, <1>2, <1>3 DEF Hooked, Draining, Active, Links, Procs
<1>5. /\ n # cur \/ ~(At(RemovePC) \/ Waiting("rm_next") \/ Waiting("rm_relink"))
      /\ \A m \in Nodes : m # n => (InList(m)' <=> InList(m))
      /\ \A m \in Nodes : m # n => (RawQueued(m)' <=> RawQueued(m))
  BY <1>1, <1>2, <1>3 DEF InList, RawQueued, CutOut, IInv, ListInv, RemoveInv, RemoveCur, Procs, Links
<1>6. ~InList(n) /\ ~Place(n)
  BY DEF InList, Place
<1>7. End \in Nodes \cup {HEAD} /\ End # n /\ Place(End) /\ End' = n /\ next[n] = NULL
  BY <1>6 DEF End, IInv, ListInv, Listed, EndInv, OwnersInv
<1>8. InList(n)'
  BY <1>1, <1>2, <1>3, <1>7 DEF InList, RawQueued, CutOut, IInv, ListInv, RemoveInv, RemoveCur, At, RemovePC
<1>9. /\ Pred(n)' = End
      /\ \A m \in Nodes : m # n => Pred(m)' = Pred(m)
  <2>1. ASSUME mutex \in Lockers, Draining(mutex) PROVE next[mutex] # n
    <3>1. next[mutex] \in Nodes => Place(mutex) /\ mutex \in Locations /\ ~At({"rm_relink2"})
      BY <2>1 DEF Place, Active, Draining, Locations, Links, Waiting, At, GetNextPC
    <3> QED
      BY <1>6, <3>1 DEF IInv, ListInv, NextInv, NextIsNode
  <2> QED
    BY <1>1, <1>2, <1>4, <2>1 DEF Pred, Links
<1>10. /\ \A x : Place(x)' <=> Place(x) \/ x = n
       /\ \A x : Place(x) => x # n /\ x \in Locations
  BY <1>4, <1>5, <1>6, <1>8 DEF Place, Locations, Links
<1>11. /\ \A m \in Nodes : InList(m) => Place(Pred(m))
       /\ \A l \in Lockers : Hooked(l) => Place(prev[l])
       /\ \A m \in Nodes : InList(m) => m # n
  BY <1>6, Reachable
<1>12. \A m \in Nodes : InList(m)' <=> InList(m) \/ m = n
  BY <1>5, <1>8
<1>13. Listed'
  <2>1. PICK own \in [Locations -> Locations] : PredInv(own) /\ EndInv(own)
    BY DEF IInv, ListInv, Listed
  <2> DEFINE own2 == [own EXCEPT ![n] = HEAD]
  <2>2. /\ own2 \in [Locations -> Locations]
        /\ own2[n] = HEAD
        /\ \A x \in Locations : x # n => own2[x] = own[x]
    BY DEF Locations, Links
  <2> HIDE DEF own2
  <2>3. PredInv(own2)'
    <3>1. own2[HEAD] = HEAD /\ \A l \in Lockers : own2[l] = l
      BY <2>1, <2>2 DEF PredInv, Locations, Links
    <3>2. ASSUME NEW m \in Nodes, InList(m)' PROVE Place(Pred(m))' /\ own2[Pred(m)'] = own2[m]
      <4>1. CASE m = n
        BY <1>7, <1>9, <1>10, <2>1, <2>2, <4>1 DEF EndInv
      <4>2. CASE m # n
        BY <1>9, <1>10, <1>11, <1>12, <2>1, <2>2, <3>2, <4>2 DEF PredInv, Locations, Links
      <4> QED
        BY <4>1, <4>2
    <3>3. \A m, k \in Nodes : InList(m)' /\ InList(k)' /\ Pred(m)' = Pred(k)' => m = k
      BY <1>9, <1>12, <2>1 DEF PredInv, EndInv
    <3>4. \A m \in Nodes, l \in Lockers : InList(m)' /\ Pred(m)' = l /\ ~(Hooked(l)') => next'[l] = m
      BY <1>2, <1>4, <1>7, <1>9, <1>12, <2>1 DEF PredInv
    <3> QED
      BY <3>1, <3>2, <3>3, <3>4 DEF PredInv
  <2>4. EndInv(own2)'
    <3>1. /\ Place(End)' /\ own2[End'] = HEAD /\ next'[End'] = NULL
          /\ \A m \in Nodes : InList(m)' => Pred(m)' # End'
      BY <1>2, <1>7, <1>9, <1>10, <1>11, <1>12, <2>2
    <3>2. ASSUME NEW l \in Lockers, Active(l)'
          PROVE  /\ prev'[l] = l => Hooked(l)'
                 /\ Place(prev[l])' /\ own2[prev'[l]] = l
                 /\ \A m \in Nodes : InList(m)' => Pred(m)' # prev'[l]
      <4>1. /\ prev[l] = l => Hooked(l)
            /\ Place(prev[l]) /\ own[prev[l]] = l
            /\ \A m \in Nodes : InList(m) => Pred(m) # prev[l]
        BY <1>4, <2>1, <3>2 DEF EndInv
      <4>2. prev[l] # End
        BY <2>1, <4>1 DEF EndInv
      <4> QED
        BY <1>4, <1>9, <1>10, <1>12, <2>2, <4>1, <4>2
    <3> QED
      BY <3>1, <3>2 DEF EndInv
  <2>5. Acyclic'
    <3> SUFFICES ASSUME NEW S \in SUBSET Nodes, \A m \in S : InList(m)', S # {}
                 PROVE  \E m \in S : Pred(m)' \notin S
      BY DEF Acyclic
    <3>1. CASE S = {n}
      BY <1>7, <1>9, <3>1
    <3>2. CASE S # {n}
      <4>1. S \ {n} # {} /\ S \ {n} \in SUBSET {m \in Nodes : InList(m)}
        BY <1>12, <3>2
      <4>2. PICK m \in S \ {n} : Pred(m) \notin S \ {n}
        BY <4>1 DEF IInv, ListInv, Listed, Acyclic
      <4> QED
        BY <1>9, <1>10, <1>11, <4>1, <4>2
    <3> QED
      BY <3>1, <3>2
  <2> QED
    BY <2>2, <2>3, <2>4, <2>5 DEF Listed
<1>14. ListInv
  BY DEF IInv
<1>n1. NextIsNode'
  BY <1>1, <1>2, <1>3, <1>7, <1>9, <1>10, <1>11, <1>12, <1>14 DEF ListInv, NextInv, NextIsNode, Procs
<1>n2. NextIsSentinel'
  BY <1>2, <1>4, <1>7, <1>10, <1>14 DEF ListInv, NextInv, NextIsSentinel
<1>n3. PhaseTwo'
  <2>1. next[End] = NULL /\ PrevOf(n)' = End /\ \A m \in Nodes : PrevOf(m)' = PrevOf(m)
    BY <1>2, <1>14 DEF ListInv, Listed, EndInv, PrevOf, End
  <2> QED
    BY <1>1, <1>2, <1>9, <1>12, <1>14, <2>1 DEF ListInv, NextInv, PhaseTwo, Procs, Links
<1>n4. NextIsSet'
  BY <1>1, <1>2, <1>3, <1>9, <1>12, <1>14 DEF ListInv, NextInv, NextIsSet, Procs
<1>n5. SentinelHooked'
  BY <1>2, <1>3, <1>4, <1>14 DEF ListInv, NextInv, SentinelHooked
<1>n6. SentinelNext'
  BY <1>2, <1>4, <1>14 DEF ListInv, NextInv, SentinelNext
<1>n7. ParkedMark'
  BY <1>1, <1>2, <1>14 DEF ListInv, NextInv, ParkedMark, At
<1>r1. RemoveCur'
  BY <1>1, <1>2, <1>3, <1>5, <1>10, <1>12, <1>14 DEF ListInv, RemoveInv, RemoveCur, Procs, Links
<1>r2. RemoveLinked'
  BY <1>1, <1>2, <1>3, <1>14 DEF ListInv, RemoveInv, RemoveLinked, RemoveCur, At, RemovePC, Procs
<1>r3. RemoveRelink'
  BY <1>1, <1>2, <1>4, <1>9, <1>11, <1>12, <1>14 DEF ListInv, RemoveInv, RemoveRelink, At, Procs, Links
<1>g. GetNextInv'
  <2>1. GetNextLoc'
    BY <1>1, <1>2, <1>3, <1>4, <1>14 DEF ListInv, GetNextInv, GetNextLoc, RemoveInv, RemoveCur, Procs
  <2> QED
    BY <1>1, <1>2, <1>14, <2>1 DEF ListInv, GetNextInv, GetNextParking, GetNextSeen, At
<1>d1. GuardFirst' /\ GuardIdle'
  BY <1>1, <1>2, <1>11, <1>12, <1>14 DEF ListInv, GuardInv, GuardFirst, GuardIdle, At, Procs, Links
<1>d2. GuardDrained'
  BY <1>1, <1>2, <1>4, <1>9, <1>11, <1>12, <1>14 DEF ListInv, GuardInv, GuardDrained, Procs
<1> QED
  BY <1>13, <1>n1, <1>n2, <1>n3, <1>n4, <1>n5, <1>n6, <1>n7, <1>r1, <1>r2, <1>r3, <1>g, <1>d1, <1>d2
     DEF ListInv, NextInv, RemoveInv, GuardInv

(* enqueue, phase 2: the predecessor learns of the node. *)
LEMMA EnqueueLinkListInv ==
    ASSUME IInv, NEW n \in Nodes, EnqueueLink(n)
    PROVE  ListInv'
<1>0. /\ pc[n] = "enq_link" /\ UNCHANGED <<tail, prev, mutex, locals>>
      /\ next' = [next EXCEPT ![PrevOf(n)] = n]
      /\ \E k \in {"enq_check", "enq_unpark", "idle"} : pc' = [pc EXCEPT ![n] = k]
      /\ seen' = seen \/ seen' = [seen EXCEPT ![n] = NULL]
  BY DEF EnqueueLink, Enqueued, Goto
<1>1. ListInv
  BY DEF IInv
<1>2. /\ InList(n) /\ PrevOf(n) = prev[n] /\ Pred(n) = prev[n] /\ Place(prev[n])
      /\ next[prev[n]] \in {NULL, PARKED} /\ prev[n] \in Locations
  BY <1>0, <1>1, Reachable DEF ListInv, NextInv, PhaseTwo, Place, Locations, Links
<1> DEFINE x0 == prev[n]
<1>3. /\ next'[x0] = n /\ next[x0] \notin Nodes /\ next[x0] \notin Lockers
      /\ \A x \in Locations : x # x0 => next'[x] = next[x]
  BY <1>0, <1>2 DEF IInv, TypeOK
<1> HIDE DEF x0
<1>4. /\ mutex # n /\ (mutex \in Procs => pc'[mutex] = pc[mutex])
      /\ \A p \in Procs : p # n => pc'[p] = pc[p]
      /\ pc'[n] # "enq_link" /\ pc'[n] # "enq_cas"
      /\ \A m \in Nodes : m # n => PrevOf(m)' = PrevOf(m)
      /\ prev' = prev /\ tail' = tail /\ mutex' = mutex
      /\ cur' = cur /\ pre' = pre /\ loc' = loc /\ nxt' = nxt /\ ret' = ret
  BY <1>0 DEF IInv, TypeOK, LockDiscipline, Procs, HolderPC, GetNextPC, RemovePC, DrainPC, GuardPC,
         PrevOf, locals
<1>5. /\ \A r : Waiting(r)' <=> Waiting(r)
      /\ Unlinking' <=> Unlinking
      /\ At(RemovePC)' <=> At(RemovePC)
      /\ At({"rm_relink2"})' <=> At({"rm_relink2"})
      /\ At({"rm_relink2", "rm_done"})' <=> At({"rm_relink2", "rm_done"})
      /\ At({"rm_relink2", "dr_swap"})' <=> At({"rm_relink2", "dr_swap"})
      /\ At({"drain", "drained", "dr_store"})' <=> At({"drain", "drained", "dr_store"})
  BY <1>4 DEF Waiting, Unlinking, At
<1>6. /\ \A l \in Lockers : Hooked(l)' <=> Hooked(l)
      /\ \A l \in Lockers : Draining(l)' <=> Draining(l)
  BY <1>4, <1>5 DEF Hooked, Draining, Procs
<1>7. PICK own \in [Locations -> Locations] : PredInv(own) /\ EndInv(own)
  BY <1>1 DEF ListInv, Listed
<1>8. x0 \in Lockers => Hooked(x0) /\ ~Draining(x0)
  <2>1. x0 \in Lockers => Hooked(x0)
    BY <1>2, <1>3, <1>7 DEF PredInv, x0
  <2>2. x0 \in Lockers /\ Hooked(x0) => ~Draining(x0)
    BY DEF Hooked, Draining, Waiting, At, GetNextPC
  <2> QED
    BY <2>1, <2>2
<1>9. \A l \in Lockers : l \in Locations /\ (Draining(l) \/ ~Hooked(l) => next'[l] = next[l])
  BY <1>3, <1>8 DEF Locations, Links
<1>10. \A l \in Lockers : Active(l)' <=> Active(l)
  BY <1>6, <1>9 DEF Active
<1>11. /\ \A m \in Nodes : InList(m)' <=> InList(m)
       /\ \A m \in Nodes : RawQueued(m)' <=> RawQueued(m)
       /\ \A m \in Nodes : pc'[m] = "enq_link" => m # n /\ pc[m] = "enq_link"
       /\ \A m \in Nodes : pc[m] = "enq_link" /\ m # n => pc'[m] = "enq_link"
       /\ \A m \in Nodes : pc'[m] = "enq_cas" <=> pc[m] = "enq_cas"
  BY <1>0, <1>4, <1>5 DEF InList, RawQueued, CutOut, Procs
<1>12. \A m \in Nodes : Pred(m)' = Pred(m)
  <2>1. mutex \in Lockers /\ Draining(mutex) => next'[mutex] = next[mutex]
    BY <1>9
  <2> QED
    BY <1>4, <1>6, <2>1 DEF Pred
<1>13. /\ \A x : Place(x)' <=> Place(x)
       /\ \A x : Place(x) => x \in Locations
       /\ End' = End /\ x0 # End
  <2>1. x0 # End
    BY <1>2, <1>7 DEF EndInv, x0
  <2> QED
    BY <1>4, <1>10, <1>11, <2>1 DEF Place, End, Locations, Links
<1>14. \A m \in Nodes : InList(m) /\ m # n => Pred(m) # x0
  BY <1>2, <1>7 DEF PredInv, x0
<1>15. Listed'
  <2>1. PredInv(own)'
    BY <1>6, <1>7, <1>9, <1>11, <1>12, <1>13 DEF PredInv
  <2>2. EndInv(own)'
    BY <1>3, <1>4, <1>6, <1>7, <1>10, <1>11, <1>12, <1>13 DEF EndInv
  <2>3. Acyclic'
    BY <1>1, <1>11, <1>12 DEF ListInv, Listed, Acyclic
  <2> QED
    BY <2>1, <2>2, <2>3 DEF Listed
<1>16. /\ \A m \in Nodes : InList(m) => Place(Pred(m))
       /\ \A l \in Lockers : Hooked(l) => Place(prev[l])
       /\ At(GetNextPC) => Place(loc)
  BY Reachable
<1>n1. NextIsNode'
  BY <1>1, <1>2, <1>3, <1>4, <1>5, <1>11, <1>12, <1>13 DEF ListInv, NextInv, NextIsNode, x0
<1>n2. NextIsSentinel'
  BY <1>1, <1>3, <1>4, <1>10, <1>13 DEF ListInv, NextInv, NextIsSentinel
<1>n3. PhaseTwo'
  BY <1>1, <1>3, <1>4, <1>11, <1>12, <1>13, <1>14, <1>16 DEF ListInv, NextInv, PhaseTwo
<1>n4. NextIsSet'
  <2> SUFFICES ASSUME NEW m \in Nodes, InList(m), pc'[m] # "enq_link", ~(Unlinking /\ m = cur),
                      ~(At({"rm_relink2", "dr_swap"}) /\ m = nxt)
               PROVE  next'[Pred(m)] = m
    BY <1>4, <1>5, <1>11, <1>12 DEF NextIsSet
  <2>1. CASE m = n
    BY <1>2, <1>3, <2>1 DEF x0
  <2>2. CASE m # n
    BY <1>1, <1>3, <1>11, <1>13, <1>14, <1>16, <2>2 DEF ListInv, NextInv, NextIsSet
  <2> QED
    BY <2>1, <2>2
<1>n5. SentinelHooked'
  BY <1>1, <1>3, <1>4, <1>5, <1>6, <1>9, <1>13, <1>16 DEF ListInv, NextInv, SentinelHooked
<1>n6. SentinelNext'
  BY <1>1, <1>6, <1>9 DEF ListInv, NextInv, SentinelNext
<1>n7. ParkedMark'
  BY <1>1, <1>3, <1>4 DEF ListInv, NextInv, ParkedMark, At
<1>r1. RemoveCur'
  BY <1>1, <1>4, <1>5, <1>11, <1>13 DEF ListInv, RemoveInv, RemoveCur
<1>r2. RemoveLinked'
  <2>1. ASSUME At({"rm_cas"}) PROVE next'[pre] = NULL
    <3>1. /\ cur \in Nodes /\ InList(cur) /\ prev[cur] = pre /\ Place(pre) /\ pc[cur] # "enq_link"
          /\ next[pre] = NULL
      BY <1>1, <2>1 DEF ListInv, RemoveInv, RemoveCur, RemoveLinked, At, RemovePC
    <3>2. Pred(cur) = pre
      BY <2>1, <3>1 DEF Pred, Draining, Waiting, At, GetNextPC
    <3> QED
      BY <1>0, <1>3, <1>13, <1>14, <3>1, <3>2
  <2>2. At({"rm_cas"})' <=> At({"rm_cas"})
    BY <1>4 DEF At
  <2> QED
    BY <1>1, <1>4, <1>5, <1>11, <2>1, <2>2 DEF ListInv, RemoveInv, RemoveLinked, RemoveCur, At
<1>r3. RemoveRelink'
  BY <1>1, <1>4, <1>6, <1>11, <1>12 DEF ListInv, RemoveInv, RemoveRelink, At
<1>g1. GetNextLoc'
  <2>1. \A l \in Lockers : pc[l] \in GetNextPC /\ ret = "dr_store" => next'[l] = next[l]
    BY <1>9 DEF Hooked, GetNextPC
  <2> QED
    BY <1>1, <1>4, <1>5, <2>1 DEF ListInv, GetNextInv, GetNextLoc, Procs
<1>g2. GetNextParking' /\ GetNextSeen'
  <2>1. At({"gn_clear"}) => next[loc] # PARKED /\ Place(loc)
    BY <1>1, <1>13, <1>16 DEF ListInv, NextInv, ParkedMark, At, GetNextPC
  <2>2. At({"gn_park", "gn_reload"}) => Place(loc)
    BY <1>16 DEF At, GetNextPC
  <2>3. At({"gn_clear"}) => nxt = next[loc] /\ nxt # NULL /\ loc # x0
    BY <1>1, <1>2, <2>1 DEF ListInv, GetNextInv, GetNextSeen, x0
  <2> QED
    BY <1>1, <1>3, <1>4, <1>13, <2>1, <2>2, <2>3 DEF ListInv, GetNextInv, GetNextParking, GetNextSeen, At
<1>d1. GuardFirst' /\ GuardIdle'
  <2>1. ASSUME At({"dr_swap"}) PROVE next'[HEAD] = NULL
    <3>1. nxt \in Nodes /\ InList(nxt) /\ prev[nxt] = HEAD /\ pc[nxt] # "enq_link" /\ next[HEAD] = NULL
      BY <1>1, <2>1 DEF ListInv, GuardInv, GuardFirst, At
    <3>2. Pred(nxt) = HEAD
      BY <2>1, <3>1 DEF Pred, Draining, Waiting, At, GetNextPC
    <3> QED
      BY <1>0, <1>3, <1>14, <3>1, <3>2 DEF Locations
  <2>2. At({"dr_swap"})' <=> At({"dr_swap"})
    BY <1>4 DEF At
  <2> QED
    BY <1>1, <1>4, <1>11, <2>1, <2>2 DEF ListInv, GuardInv, GuardFirst, GuardIdle, At
<1>d2. GuardDrained'
  <2>1. \A l \in Lockers : pc[l] \in {"drained", "dr_store"} => next'[l] = next[l]
    BY <1>9 DEF Hooked
  <2> QED
    BY <1>1, <1>4, <1>11, <1>12, <2>1 DEF ListInv, GuardInv, GuardDrained, Procs
<1> QED
  BY <1>15, <1>n1, <1>n2, <1>n3, <1>n4, <1>n5, <1>n6, <1>n7, <1>r1, <1>r2, <1>r3, <1>g1, <1>g2, <1>d1, <1>d2
     DEF ListInv, NextInv, RemoveInv, GetNextInv, GuardInv

-----------------------------------------------------------------------------
(* remove_with_prev *)
LEMMA Removing ==
    ASSUME IInv, At(RemovePC)
    PROVE  /\ cur \in Nodes /\ RawQueued(cur) /\ pc[cur] # "enq_cas" /\ pc[cur] # "enq_link"
           /\ Place(pre) /\ pre \in Locations /\ (pre \in Lockers => Hooked(pre))
           /\ \A l \in Lockers : ~Draining(l)
           /\ \A l \in Lockers : Active(l) <=> Hooked(l)
           /\ \A n \in Nodes : Pred(n) = prev[n]
           /\ \A x \in Locations : next[x] # PARKED
           /\ ~At({"rm_relink2", "rm_done"}) => InList(cur) /\ prev[cur] = pre /\ pre # cur
<1>1. /\ cur \in Nodes /\ RawQueued(cur) /\ pc[cur] # "enq_cas" /\ pc[cur] # "enq_link"
      /\ Place(pre) /\ pre \in Locations
      /\ ~At({"rm_relink2", "rm_done"}) => InList(cur) /\ prev[cur] = pre
  BY DEF IInv, ListInv, RemoveInv, RemoveCur, RemoveLinked, Place, Locations, Links
<1>2. \A l \in Lockers : ~Draining(l)
  BY DEF Draining, Waiting, At, RemovePC, GetNextPC
<1>3. /\ \A l \in Lockers : Active(l) <=> Hooked(l)
      /\ \A n \in Nodes : Pred(n) = prev[n]
  BY <1>2 DEF Active, Pred
<1>4. \A x \in Locations : next[x] # PARKED
  BY DEF IInv, ListInv, NextInv, ParkedMark, At, RemovePC
<1>5. ~At({"rm_relink2", "rm_done"}) => pre # cur
  <2>1. InList(cur) => {cur} \in SUBSET {n \in Nodes : InList(n)} /\ {cur} # {}
    BY <1>1
  <2>2. InList(cur) => Pred(cur) # cur
    BY <2>1 DEF IInv, ListInv, Listed, Acyclic
  <2> QED
    BY <1>1, <1>3, <2>2
<1>6. pre \in Lockers => Hooked(pre)
  BY <1>1, <1>3 DEF Place
<1> QED
  BY <1>1, <1>2, <1>3, <1>4, <1>5, <1>6

(* remove_with_prev clears next of the predecessor before the CAS on the tail. *)
LEMMA RemoveClearListInv ==
    ASSUME IInv, NEW p \in Procs, RemoveClear(p)
    PROVE  ListInv'
<1>0. /\ Moves(p, "rm_cas") /\ pc[p] = "rm_clear" /\ next' = [next EXCEPT ![pre] = NULL]
      /\ tail' = tail /\ prev' = prev /\ seen' = seen
      /\ cur' = cur /\ pre' = pre /\ nxt' = nxt /\ ret' = ret
  BY DEF RemoveClear, Step, Goto, Moves, HolderPC, RemovePC, locals
<1>1. Moved(p, "rm_cas")
  BY <1>0, HolderMoves
<1>2. ListInv
  BY DEF IInv
<1>3. At(RemovePC) /\ ~At({"rm_relink2", "rm_done"})
  BY <1>0, <1>1 DEF At, RemovePC
<1>4. /\ cur \in Nodes /\ pc[cur] # "enq_cas" /\ pc[cur] # "enq_link"
      /\ Place(pre) /\ pre \in Locations /\ (pre \in Lockers => Hooked(pre))
      /\ \A l \in Lockers : ~Draining(l)
      /\ \A l \in Lockers : Active(l) <=> Hooked(l)
      /\ \A n \in Nodes : Pred(n) = prev[n]
      /\ \A x \in Locations : next[x] # PARKED
      /\ InList(cur) /\ prev[cur] = pre
  BY <1>3, Removing
<1>5. /\ ~Unlinking /\ Unlinking'
      /\ ~At({"rm_relink2"}) /\ ~(At({"rm_relink2"})') /\ ~(At({"rm_relink2", "rm_done"})')
      /\ ~At({"rm_relink2", "dr_swap"}) /\ ~(At({"rm_relink2", "dr_swap"})')
      /\ \A r : ~(Waiting(r)')
      /\ \A l \in Lockers : ~(Draining(l)')
  BY <1>0, <1>1 DEF Unlinking, Waiting, Draining, At, GetNextPC
<1>6. next'[pre] = NULL /\ \A x \in Locations : x # pre => next'[x] = next[x]
  BY <1>0, <1>4 DEF IInv, TypeOK
<1>7. /\ \A l \in Lockers : Active(l)' <=> Active(l)
      /\ \A n \in Nodes : Pred(n)' = Pred(n)
  BY <1>0, <1>1, <1>4, <1>5 DEF Active, Pred
<1>8. /\ \A n \in Nodes : InList(n)' <=> InList(n)
      /\ \A n \in Nodes : RawQueued(n)' <=> RawQueued(n)
      /\ \A n \in Nodes : PrevOf(n)' = PrevOf(n)
  BY <1>0, <1>1, <1>3, <1>5 DEF InList, RawQueued, CutOut, PrevOf
<1>9. /\ \A x : Place(x)' <=> Place(x)
      /\ \A x : Place(x) => x \in Locations
      /\ End' = End
  BY <1>0, <1>7, <1>8 DEF Place, End, Locations, Links
<1>10. PICK own \in [Locations -> Locations] : PredInv(own) /\ EndInv(own)
  BY <1>2 DEF ListInv, Listed
<1>11. /\ \A n \in Nodes : InList(n) => Place(Pred(n))
       /\ \A n \in Nodes : InList(n) /\ n # cur => Pred(n) # pre
       /\ \A l \in Lockers : Hooked(l) => Place(prev[l]) /\ prev[l] # pre
  BY <1>4, <1>10, Reachable DEF PredInv, EndInv
<1>12. Listed'
  <2>1. PredInv(own)'
    <3>1. \A n \in Nodes, l \in Lockers : InList(n) /\ Pred(n) = l => Hooked(l)
      BY <1>4, <1>11 DEF Place
    <3> QED
      BY <1>1, <1>7, <1>8, <1>9, <1>10, <3>1 DEF PredInv
  <2>2. EndInv(own)'
    <3>1. next'[End] = NULL
      BY <1>6, <1>9, <1>10 DEF EndInv
    <3> QED
      BY <1>0, <1>1, <1>7, <1>8, <1>9, <1>10, <3>1 DEF EndInv
  <2>3. Acyclic'
    BY <1>2, <1>7, <1>8 DEF ListInv, Listed, Acyclic
  <2> QED
    BY <2>1, <2>2, <2>3 DEF Listed
<1>n1. NextIsNode'
  BY <1>1, <1>2, <1>5, <1>6, <1>7, <1>8, <1>9 DEF ListInv, NextInv, NextIsNode
<1>n2. NextIsSentinel'
  BY <1>0, <1>2, <1>6, <1>7, <1>9 DEF ListInv, NextInv, NextIsSentinel
<1>n3. PhaseTwo'
  BY <1>0, <1>1, <1>2, <1>6, <1>7, <1>8, <1>9, <1>11 DEF ListInv, NextInv, PhaseTwo
<1>n4. NextIsSet'
  BY <1>0, <1>1, <1>2, <1>5, <1>6, <1>7, <1>8, <1>9, <1>11 DEF ListInv, NextInv, NextIsSet
<1>n5. SentinelHooked'
  BY <1>0, <1>1, <1>2, <1>5, <1>6, <1>9, <1>11 DEF ListInv, NextInv, SentinelHooked, Locations, Links
<1>n6. SentinelNext'
  BY <1>1, <1>2, <1>4, <1>5, <1>6 DEF ListInv, NextInv, SentinelNext, Locations, Links
<1>n7. ParkedMark'
  BY <1>4, <1>6 DEF ParkedMark
<1>r. RemoveInv'
  <2>1. RemoveCur'
    BY <1>0, <1>2, <1>3, <1>5, <1>8, <1>9, <1>1 DEF ListInv, RemoveInv, RemoveCur
  <2> QED
    BY <1>0, <1>1, <1>4, <1>5, <1>6, <2>1 DEF RemoveInv, RemoveLinked, RemoveRelink, At
<1>g. GetNextInv'
  BY <1>1, <1>5 DEF GetNextInv, GetNextLoc, GetNextParking, GetNextSeen, At, GetNextPC, HolderPC, Procs
<1>d. GuardInv'
  BY <1>1 DEF GuardInv, GuardFirst, GuardIdle, GuardDrained, At, HolderPC, DrainPC, Procs
<1> QED
  BY <1>12, <1>n1, <1>n2, <1>n3, <1>n4, <1>n5, <1>n6, <1>n7, <1>r, <1>g, <1>d DEF ListInv, NextInv

(* The node was the tail: its predecessor is the new end of the queue. *)
LEMMA RemoveCasSucceeds ==
    ASSUME IInv, NEW p \in Procs, RemoveCas(p), tail = cur
    PROVE  ListInv'
<1>2. ListInv /\ TypeOK
  BY DEF IInv
<1>0. /\ Moves(p, "rm_done") /\ pc[p] = "rm_cas" /\ tail' = TailAfter
      /\ next' = next /\ prev' = prev /\ seen' = seen
      /\ cur' = cur /\ pre' = pre /\ nxt' = nxt
  BY DEF RemoveCas, Goto, Moves, HolderPC, RemovePC
<1>1. Moved(p, "rm_done")
  BY <1>0, HolderMoves
<1>3. At(RemovePC) /\ ~At({"rm_relink2", "rm_done"}) /\ At({"rm_cas"})
  BY <1>0, <1>1 DEF At, RemovePC
<1>4. /\ cur \in Nodes /\ pc[cur] # "enq_cas" /\ pc[cur] # "enq_link" /\ RawQueued(cur)
      /\ Place(pre) /\ pre \in Locations /\ pre # cur /\ pre \in Nodes \cup {HEAD}
      /\ \A l \in Lockers : ~Draining(l)
      /\ \A l \in Lockers : Active(l) <=> Hooked(l)
      /\ \A n \in Nodes : Pred(n) = prev[n]
      /\ \A x \in Locations : next[x] # PARKED
      /\ InList(cur) /\ prev[cur] = pre
  BY <1>3, Removing, Registers
<1>5. /\ ~(Unlinking') /\ At({"rm_done"})'
      /\ ~At({"rm_relink2"}) /\ ~(At({"rm_relink2"})') /\ At({"rm_relink2", "rm_done"})'
      /\ ~At({"rm_relink2", "dr_swap"}) /\ ~(At({"rm_relink2", "dr_swap"})')
      /\ \A r : ~(Waiting(r)')
      /\ \A l \in Lockers : ~(Draining(l)')
  BY <1>0, <1>1 DEF Unlinking, Waiting, Draining, At, GetNextPC
<1>6. next[pre] = NULL
  BY <1>2, <1>3 DEF ListInv, RemoveInv, RemoveLinked
<1>7. /\ \A l \in Lockers : Active(l)' <=> Active(l)
      /\ \A n \in Nodes : Pred(n)' = Pred(n)
  BY <1>0, <1>1, <1>4, <1>5 DEF Active, Pred
<1>8. /\ \A n \in Nodes : InList(n)' <=> InList(n) /\ n # cur
      /\ \A n \in Nodes : RawQueued(n)' <=> RawQueued(n)
      /\ \A n \in Nodes : PrevOf(n)' = PrevOf(n)
  BY <1>0, <1>1, <1>3, <1>5 DEF InList, RawQueued, CutOut, PrevOf
<1>9. /\ \A x : Place(x)' <=> Place(x) /\ x # cur
      /\ \A x : Place(x) => x \in Locations
      /\ End = cur /\ End' = pre
  <2>1. End' = pre
    BY <1>0, <1>2, <1>4 DEF End, TailAfter, TypeOK
  <2> QED
    BY <1>4, <1>7, <1>8, <2>1 DEF Place, End, Locations, Links
<1>10. PICK own \in [Locations -> Locations] : PredInv(own) /\ EndInv(own)
  BY <1>2 DEF ListInv, Listed
<1>11. /\ \A n \in Nodes : InList(n) => Place(Pred(n)) /\ Pred(n) # cur
       /\ \A n \in Nodes : InList(n) /\ n # cur => Pred(n) # pre
       /\ \A l \in Lockers : Hooked(l) => Place(prev[l]) /\ prev[l] # cur
       /\ own[pre] = HEAD
  BY <1>4, <1>9, <1>10, Reachable DEF PredInv, EndInv
<1>12. Listed'
  <2>1. PredInv(own)'
    BY <1>0, <1>1, <1>7, <1>8, <1>9, <1>10, <1>11 DEF PredInv
  <2>2. EndInv(own)'
    BY <1>0, <1>1, <1>4, <1>6, <1>7, <1>8, <1>9, <1>10, <1>11 DEF EndInv
  <2>3. Acyclic'
    BY <1>2, <1>7, <1>8 DEF ListInv, Listed, Acyclic
  <2> QED
    BY <2>1, <2>2, <2>3 DEF Listed
<1>n1. NextIsNode'
  BY <1>0, <1>1, <1>2, <1>4, <1>5, <1>6, <1>7, <1>8, <1>9 DEF ListInv, NextInv, NextIsNode
<1>n2. NextIsSentinel'
  BY <1>0, <1>2, <1>7, <1>9 DEF ListInv, NextInv, NextIsSentinel
<1>n3. PhaseTwo'
  BY <1>0, <1>1, <1>2, <1>4, <1>7, <1>8 DEF ListInv, NextInv, PhaseTwo
<1>n4. NextIsSet'
  BY <1>0, <1>1, <1>2, <1>5, <1>7, <1>8 DEF ListInv, NextInv, NextIsSet
<1>n5. SentinelHooked'
  BY <1>0, <1>1, <1>2, <1>4, <1>5 DEF ListInv, NextInv, SentinelHooked
<1>n6. SentinelNext'
  BY <1>0, <1>1, <1>2, <1>4, <1>5 DEF ListInv, NextInv, SentinelNext
<1>n7. ParkedMark'
  BY <1>0, <1>4 DEF ParkedMark
<1>r. RemoveInv'
  <2>1. RemoveCur'
    BY <1>0, <1>1, <1>4, <1>5, <1>8, <1>9 DEF RemoveCur
  <2> QED
    BY <1>0, <1>1, <1>4, <1>5, <2>1 DEF RemoveInv, RemoveLinked, RemoveRelink, At
<1>g. GetNextInv'
  BY <1>1, <1>5 DEF GetNextInv, GetNextLoc, GetNextParking, GetNextSeen, At, GetNextPC, HolderPC, Procs
<1>d. GuardInv'
  BY <1>1 DEF GuardInv, GuardFirst, GuardIdle, GuardDrained, At, HolderPC, DrainPC, Procs
<1> QED
  BY <1>12, <1>n1, <1>n2, <1>n3, <1>n4, <1>n5, <1>n6, <1>n7, <1>r, <1>g, <1>d DEF ListInv, NextInv

(* The successor, or the sentinel, leaves the node out. *)
LEMMA RemoveRelinkPrevListInv ==
    ASSUME IInv, NEW p \in Procs, RemoveRelinkPrev(p)
    PROVE  ListInv'
<1>0. /\ Moves(p, "rm_relink2") /\ pc[p] = "rm_relink" /\ prev' = [prev EXCEPT ![nxt] = pre]
      /\ tail' = tail /\ next' = next /\ seen' = seen
      /\ cur' = cur /\ pre' = pre /\ nxt' = nxt
  BY DEF RemoveRelinkPrev, Step, Goto, Moves, HolderPC, RemovePC, locals
<1>1. Moved(p, "rm_relink2")
  BY <1>0, HolderMoves
<1>2. ListInv /\ TypeOK
  BY DEF IInv
<1>3. At(RemovePC) /\ ~At({"rm_relink2", "rm_done"}) /\ At({"rm_relink"})
  BY <1>0, <1>1 DEF At, RemovePC
<1>4. /\ cur \in Nodes /\ pc[cur] # "enq_cas" /\ pc[cur] # "enq_link" /\ RawQueued(cur)
      /\ Place(pre) /\ pre \in Locations /\ pre # cur /\ (pre \in Lockers => Hooked(pre))
      /\ \A l \in Lockers : ~Draining(l)
      /\ \A l \in Lockers : Active(l) <=> Hooked(l)
      /\ \A n \in Nodes : Pred(n) = prev[n]
      /\ \A x \in Locations : next[x] # PARKED
      /\ InList(cur) /\ Pred(cur) = pre
  BY <1>3, Removing
<1>5. /\ Unlinking /\ ~(Unlinking')
      /\ ~At({"rm_relink2"}) /\ At({"rm_relink2"})' /\ At({"rm_relink2", "rm_done"})'
      /\ ~At({"rm_relink2", "dr_swap"}) /\ At({"rm_relink2", "dr_swap"})'
      /\ \A r : ~(Waiting(r)')
      /\ \A l \in Lockers : ~(Draining(l)')
  BY <1>0, <1>1 DEF Unlinking, Waiting, Draining, At, GetNextPC
<1>6. /\ \/ nxt \in Nodes /\ InList(nxt) /\ Pred(nxt) = cur /\ pc[nxt] # "enq_link" /\ nxt # cur
         \/ nxt \in Lockers /\ Hooked(nxt) /\ prev[nxt] = cur
      /\ nxt \in Links /\ nxt # cur
  BY <1>2, <1>3, <1>4 DEF ListInv, RemoveInv, RemoveRelink, Links
<1>7. /\ prev'[nxt] = pre
      /\ \A x \in Links : x # nxt => prev'[x] = prev[x]
  BY <1>0, <1>2, <1>6 DEF TypeOK
<1>8. /\ \A l \in Lockers : Active(l)' <=> Active(l)
      /\ \A n \in Nodes : Pred(n)' = prev'[n]
  BY <1>0, <1>1, <1>4, <1>5 DEF Active, Pred
<1>9. /\ \A n \in Nodes : n # nxt => Pred(n)' = Pred(n)
      /\ \A n \in Nodes : n = nxt => Pred(n)' = pre
      /\ \A l \in Lockers : l # nxt => prev'[l] = prev[l]
  BY <1>4, <1>7, <1>8 DEF Links
<1>10. /\ \A n \in Nodes : RawQueued(n)' <=> RawQueued(n)
       /\ \A n \in Nodes : PrevOf(n)' = PrevOf(n)
  <2>1. pre # UNQUEUED /\ pre # DEQUEUED
    BY <1>4 DEF Locations, Links
  <2>2. nxt \in Nodes => RawQueued(nxt)
    BY <1>6 DEF InList
  <2> QED
    BY <1>0, <1>7, <2>1, <2>2 DEF RawQueued, PrevOf, Links
<1>11. \A n \in Nodes : InList(n)' <=> InList(n) /\ n # cur
  BY <1>0, <1>1, <1>3, <1>5, <1>10 DEF InList, CutOut
<1>12. /\ \A x : Place(x)' <=> Place(x) /\ x # cur
       /\ \A x : Place(x) => x \in Locations
       /\ End' = End
  BY <1>0, <1>4, <1>8, <1>11 DEF Place, End, Locations, Links
<1>13. PICK own \in [Locations -> Locations] : PredInv(own) /\ EndInv(own)
  BY <1>2 DEF ListInv, Listed
<1>14. /\ own[pre] = own[cur]
       /\ nxt \in Nodes => own[nxt] = own[cur]
       /\ nxt \in Lockers => own[cur] = nxt
       /\ End # cur /\ End # pre
       /\ \A n \in Nodes : InList(n) => Place(Pred(n))
       /\ \A n \in Nodes : InList(n) /\ n # nxt => Pred(n) # cur
       /\ \A n \in Nodes : InList(n) /\ n # cur => Pred(n) # pre
       /\ \A l \in Lockers : Hooked(l) => Place(prev[l])
       /\ \A l \in Lockers : Hooked(l) /\ l # nxt => prev[l] # cur
       /\ \A l \in Lockers : Hooked(l) => prev[l] # pre
  <2>1. own[pre] = own[cur] /\ (nxt \in Nodes => own[nxt] = own[cur])
    BY <1>4, <1>6, <1>13 DEF PredInv
  <2>2. nxt \in Lockers => own[cur] = nxt
    BY <1>4, <1>6, <1>13 DEF EndInv
  <2>3. End # cur /\ End # pre
    BY <1>4, <1>6, <1>13, <2>2 DEF EndInv
  <2>4. /\ \A n \in Nodes : InList(n) => Place(Pred(n))
        /\ \A l \in Lockers : Hooked(l) => Place(prev[l])
    BY Reachable
  <2>5. /\ \A n \in Nodes : InList(n) /\ n # nxt => Pred(n) # cur
        /\ \A n \in Nodes : InList(n) /\ n # cur => Pred(n) # pre
    BY <1>4, <1>6, <1>13 DEF PredInv, EndInv
  <2>6. \A l \in Lockers : Hooked(l) => prev[l] # pre /\ own[prev[l]] = l
    BY <1>4, <1>13 DEF EndInv
  <2>7. \A l \in Lockers : Hooked(l) /\ l # nxt => prev[l] # cur
    BY <1>4, <1>6, <1>13, <2>2, <2>6 DEF EndInv
  <2> QED
    BY <2>1, <2>2, <2>3, <2>4, <2>5, <2>6, <2>7
<1>15. Listed'
  <2>1. PredInv(own)'
    <3>1. ASSUME NEW n \in Nodes, InList(n)' PROVE Place(Pred(n))' /\ own[Pred(n)'] = own[n]
      BY <1>4, <1>9, <1>11, <1>12, <1>13, <1>14, <3>1 DEF PredInv
    <3>2. \A m, n \in Nodes : InList(m)' /\ InList(n)' /\ Pred(m)' = Pred(n)' => m = n
      BY <1>9, <1>11, <1>13, <1>14 DEF PredInv
    <3>3. \A n \in Nodes, l \in Lockers : InList(n)' /\ Pred(n)' = l => Hooked(l)'
      BY <1>1, <1>4, <1>9, <1>11, <1>14 DEF Place
    <3> QED
      BY <1>13, <3>1, <3>2, <3>3 DEF PredInv
  <2>2. EndInv(own)'
    <3>1. /\ Place(End)' /\ own[End'] = HEAD /\ next'[End'] = NULL
          /\ \A n \in Nodes : InList(n)' => Pred(n)' # End'
      BY <1>0, <1>9, <1>11, <1>12, <1>13, <1>14 DEF EndInv
    <3>2. ASSUME NEW l \in Lockers, Active(l)'
          PROVE  /\ Hooked(l)'
                 /\ Place(prev[l])' /\ own[prev'[l]] = l
                 /\ \A n \in Nodes : InList(n)' => Pred(n)' # prev'[l]
      <4>1. Hooked(l) /\ Hooked(l)' /\ Active(l)
        BY <1>1, <1>4, <1>8, <3>2
      <4>2. CASE l = nxt
        BY <1>4, <1>7, <1>9, <1>11, <1>12, <1>14, <4>1, <4>2
      <4>3. CASE l # nxt
        BY <1>9, <1>11, <1>12, <1>13, <1>14, <4>1, <4>3 DEF EndInv
      <4> QED
        BY <4>1, <4>2, <4>3
    <3> QED
      BY <3>1, <3>2 DEF EndInv
  <2>3. Acyclic'
    <3> SUFFICES ASSUME NEW S \in SUBSET Nodes, \A m \in S : InList(m)', S # {}
                 PROVE  \E m \in S : Pred(m)' \notin S
      BY DEF Acyclic
    <3>1. cur \notin S /\ \A m \in S : InList(m)
      BY <1>11
    <3>2. CASE nxt \in S
      <4>1. S \cup {cur} \in SUBSET {m \in Nodes : InList(m)} /\ S \cup {cur} # {}
        BY <1>4, <3>1
      <4>2. PICK m \in S \cup {cur} : Pred(m) \notin S \cup {cur}
        BY <1>2, <4>1 DEF ListInv, Listed, Acyclic
      <4>3. CASE m = cur
        BY <1>4, <1>9, <3>2, <4>2, <4>3
      <4>4. CASE m # cur
        BY <1>6, <1>9, <4>2, <4>4
      <4> QED
        BY <4>3, <4>4
    <3>3. CASE nxt \notin S
      <4>1. S \in SUBSET {m \in Nodes : InList(m)}
        BY <3>1
      <4>2. PICK m \in S : Pred(m) \notin S
        BY <1>2, <4>1 DEF ListInv, Listed, Acyclic
      <4> QED
        BY <1>9, <3>3, <4>2
    <3> QED
      BY <3>2, <3>3
  <2> QED
    BY <2>1, <2>2, <2>3 DEF Listed
<1>n1. NextIsNode'
  BY <1>0, <1>1, <1>2, <1>4, <1>5, <1>6, <1>9, <1>11, <1>12 DEF ListInv, NextInv, NextIsNode
<1>n2. NextIsSentinel'
  BY <1>0, <1>2, <1>6, <1>8, <1>9, <1>12 DEF ListInv, NextInv, NextIsSentinel
<1>n3. PhaseTwo'
  BY <1>0, <1>1, <1>2, <1>4, <1>6, <1>8, <1>9, <1>10, <1>11 DEF ListInv, NextInv, PhaseTwo
<1>n4. NextIsSet'
  BY <1>0, <1>1, <1>2, <1>5, <1>9, <1>11 DEF ListInv, NextInv, NextIsSet
<1>n5. SentinelHooked'
  BY <1>0, <1>1, <1>2, <1>5, <1>9 DEF ListInv, NextInv, SentinelHooked
<1>n6. SentinelNext'
  BY <1>0, <1>1, <1>2, <1>4, <1>5 DEF ListInv, NextInv, SentinelNext
<1>n7. ParkedMark'
  BY <1>0, <1>4 DEF ParkedMark
<1>r. RemoveInv'
  <2>1. RemoveCur'
    BY <1>0, <1>1, <1>4, <1>5, <1>10, <1>12 DEF RemoveCur
  <2>2. RemoveRelink'
    BY <1>0, <1>1, <1>6, <1>7, <1>11 DEF RemoveRelink, At
  <2> QED
    BY <1>0, <1>1, <1>4, <1>5, <2>1, <2>2 DEF RemoveInv, RemoveLinked, At
<1>g. GetNextInv'
  BY <1>1, <1>5 DEF GetNextInv, GetNextLoc, GetNextParking, GetNextSeen, At, GetNextPC, HolderPC, Procs
<1>d. GuardInv'
  BY <1>1 DEF GuardInv, GuardFirst, GuardIdle, GuardDrained, At, HolderPC, DrainPC, Procs
<1> QED
  BY <1>15, <1>n1, <1>n2, <1>n3, <1>n4, <1>n5, <1>n6, <1>n7, <1>r, <1>g, <1>d DEF ListInv, NextInv

(* ... and the predecessor too. *)
LEMMA RemoveRelinkNextListInv ==
    ASSUME IInv, NEW p \in Procs, RemoveRelinkNext(p)
    PROVE  ListInv'
<1>0. /\ Moves(p, "rm_done") /\ pc[p] = "rm_relink2" /\ next' = [next EXCEPT ![pre] = nxt]
      /\ tail' = tail /\ prev' = prev /\ seen' = seen
      /\ cur' = cur /\ pre' = pre /\ nxt' = nxt
  BY DEF RemoveRelinkNext, Step, Goto, Moves, HolderPC, RemovePC, locals
<1>1. Moved(p, "rm_done")
  BY <1>0, HolderMoves
<1>2. ListInv /\ TypeOK
  BY DEF IInv
<1>3. At(RemovePC) /\ At({"rm_relink2"})
  BY <1>0, <1>1 DEF At, RemovePC
<1>4. /\ cur \in Nodes /\ pc[cur] # "enq_cas" /\ pc[cur] # "enq_link" /\ RawQueued(cur)
      /\ Place(pre) /\ pre \in Locations /\ (pre \in Lockers => Hooked(pre))
      /\ \A l \in Lockers : ~Draining(l)
      /\ \A l \in Lockers : Active(l) <=> Hooked(l)
      /\ \A n \in Nodes : Pred(n) = prev[n]
      /\ \A x \in Locations : next[x] # PARKED
  BY <1>3, Removing
<1>5. /\ ~Unlinking /\ ~(Unlinking')
      /\ ~(At({"rm_relink2"})')
      /\ At({"rm_relink2", "rm_done"}) /\ At({"rm_relink2", "rm_done"})'
      /\ At({"rm_relink2", "dr_swap"}) /\ ~(At({"rm_relink2", "dr_swap"})')
      /\ \A r : ~(Waiting(r)')
      /\ \A l \in Lockers : ~(Draining(l)')
  BY <1>0, <1>1 DEF Unlinking, Waiting, Draining, At, GetNextPC
<1>6. /\ \/ nxt \in Nodes /\ InList(nxt) /\ Pred(nxt) = pre /\ pc[nxt] # "enq_link"
         \/ nxt \in Lockers /\ Hooked(nxt) /\ prev[nxt] = pre
      /\ nxt # NULL /\ nxt # PARKED
  BY <1>2, <1>3, <1>4 DEF ListInv, RemoveInv, RemoveRelink
<1>7. next'[pre] = nxt /\ \A x \in Locations : x # pre => next'[x] = next[x]
  BY <1>0, <1>2, <1>4 DEF TypeOK
<1>8. /\ \A l \in Lockers : Active(l)' <=> Active(l)
      /\ \A n \in Nodes : Pred(n)' = Pred(n)
  BY <1>0, <1>1, <1>4, <1>5 DEF Active, Pred
<1>9. /\ \A n \in Nodes : InList(n)' <=> InList(n)
      /\ \A n \in Nodes : RawQueued(n)' <=> RawQueued(n)
      /\ \A n \in Nodes : PrevOf(n)' = PrevOf(n)
  BY <1>0, <1>1, <1>5 DEF InList, RawQueued, CutOut, PrevOf
<1>10. /\ \A x : Place(x)' <=> Place(x)
       /\ \A x : Place(x) => x \in Locations
       /\ End' = End
  BY <1>0, <1>8, <1>9 DEF Place, End, Locations, Links
<1>11. PICK own \in [Locations -> Locations] : PredInv(own) /\ EndInv(own)
  BY <1>2 DEF ListInv, Listed
<1>12. /\ End # pre
       /\ \A n \in Nodes : InList(n) => Place(Pred(n))
       /\ \A n \in Nodes : InList(n) /\ n # nxt => Pred(n) # pre
       /\ \A l \in Lockers : Hooked(l) => Place(prev[l])
       /\ \A l \in Lockers : Hooked(l) /\ l # nxt => prev[l] # pre
  <2>1. \A l \in Lockers : Hooked(l) => own[prev[l]] = l
    BY <1>4, <1>11 DEF EndInv
  <2> QED
    BY <1>4, <1>6, <1>11, <2>1, Reachable DEF PredInv, EndInv
<1>13. Listed'
  <2>1. PredInv(own)'
    <3>1. \A n \in Nodes, l \in Lockers : InList(n) /\ Pred(n) = l => Hooked(l)
      BY <1>4, <1>12 DEF Place
    <3> QED
      BY <1>1, <1>8, <1>9, <1>10, <1>11, <3>1 DEF PredInv
  <2>2. EndInv(own)'
    BY <1>0, <1>1, <1>7, <1>8, <1>9, <1>10, <1>11, <1>12 DEF EndInv
  <2>3. Acyclic'
    BY <1>2, <1>8, <1>9 DEF ListInv, Listed, Acyclic
  <2> QED
    BY <2>1, <2>2, <2>3 DEF Listed
<1>n1. NextIsNode'
  BY <1>1, <1>2, <1>5, <1>6, <1>7, <1>8, <1>9, <1>10 DEF ListInv, NextInv, NextIsNode
<1>n2. NextIsSentinel'
  BY <1>0, <1>2, <1>4, <1>6, <1>7, <1>8, <1>10 DEF ListInv, NextInv, NextIsSentinel
<1>n3. PhaseTwo'
  BY <1>0, <1>1, <1>2, <1>4, <1>6, <1>7, <1>8, <1>9, <1>10, <1>12 DEF ListInv, NextInv, PhaseTwo
<1>n4. NextIsSet'
  BY <1>0, <1>1, <1>2, <1>5, <1>6, <1>7, <1>8, <1>9, <1>10, <1>12 DEF ListInv, NextInv, NextIsSet
<1>n5. SentinelHooked'
  <2> SUFFICES ASSUME NEW l \in Lockers, Hooked(l) PROVE next'[prev[l]] = l /\ next'[l] # NULL
    BY <1>0, <1>1 DEF SentinelHooked
  <2>1. next'[prev[l]] = l
    BY <1>2, <1>6, <1>7, <1>10, <1>12 DEF ListInv, NextInv, SentinelHooked
  <2>2. next'[l] # NULL
    BY <1>2, <1>5, <1>6, <1>7 DEF ListInv, NextInv, SentinelHooked, Locations, Links
  <2> QED
    BY <2>1, <2>2
<1>n6. SentinelNext'
  BY <1>1, <1>2, <1>4, <1>5, <1>7 DEF ListInv, NextInv, SentinelNext, Locations, Links
<1>n7. ParkedMark'
  BY <1>4, <1>6, <1>7 DEF ParkedMark
<1>r. RemoveInv'
  <2>1. RemoveCur'
    BY <1>0, <1>1, <1>4, <1>5, <1>9, <1>10 DEF RemoveCur
  <2> QED
    BY <1>0, <1>1, <1>4, <1>5, <2>1 DEF RemoveInv, RemoveLinked, RemoveRelink, At
<1>g. GetNextInv'
  BY <1>1, <1>5 DEF GetNextInv, GetNextLoc, GetNextParking, GetNextSeen, At, GetNextPC, HolderPC, Procs
<1>d. GuardInv'
  BY <1>1 DEF GuardInv, GuardFirst, GuardIdle, GuardDrained, At, HolderPC, DrainPC, Procs
<1> QED
  BY <1>13, <1>n1, <1>n2, <1>n3, <1>n4, <1>n5, <1>n6, <1>n7, <1>r, <1>g, <1>d DEF ListInv, NextInv

(* The node is given back to its owner. *)
LEMMA RemoveDoneListInv ==
    ASSUME IInv, NEW p \in Procs, RemoveDone(p)
    PROVE  ListInv'
<1> DEFINE k == IF p \in Nodes THEN "unlock" ELSE "locked"
<1>0. /\ Moves(p, k) /\ pc[p] = "rm_done" /\ prev' = [prev EXCEPT ![cur] = DEQUEUED]
      /\ tail' = tail /\ next' = next /\ seen' = seen /\ nxt' = NULL /\ ret' = NULL
  BY DEF RemoveDone, Step, Goto, Moves, HolderPC, RemovePC, GuardPC
<1>1. Moved(p, k)
  BY <1>0, HolderMoves
<1>2. ListInv /\ TypeOK
  BY DEF IInv
<1>3. At(RemovePC) /\ At({"rm_relink2", "rm_done"}) /\ ~Unlinking /\ ~At({"rm_relink2"})
      /\ ~At({"rm_relink2", "dr_swap"})
  BY <1>0, <1>1 DEF At, RemovePC, Unlinking, Waiting, GetNextPC
<1>4. /\ cur \in Nodes /\ pc[cur] # "enq_cas" /\ pc[cur] # "enq_link"
      /\ \A l \in Lockers : ~Draining(l)
      /\ \A l \in Lockers : Active(l) <=> Hooked(l)
      /\ \A n \in Nodes : Pred(n) = prev[n]
      /\ \A x \in Locations : next[x] # PARKED
  BY <1>3, Removing
<1>5. /\ ~(Unlinking') /\ ~(At({"rm_relink2"})') /\ ~(At({"rm_relink2", "rm_done"})')
      /\ ~(At({"rm_relink2", "dr_swap"})') /\ ~(At(RemovePC)')
      /\ \A r : ~(Waiting(r)')
      /\ \A l \in Lockers : ~(Draining(l)')
  BY <1>0, <1>1 DEF Unlinking, Waiting, Draining, At, GetNextPC, RemovePC
<1>6. /\ prev'[cur] = DEQUEUED
      /\ \A n \in Nodes : n # cur => prev'[n] = prev[n]
      /\ \A l \in Lockers : prev'[l] = prev[l]
  BY <1>0, <1>2, <1>4 DEF TypeOK, Links
<1>7. /\ ~InList(cur)
      /\ \A n \in Nodes : InList(n)' <=> InList(n)
  BY <1>1, <1>3, <1>5, <1>6 DEF InList, RawQueued, CutOut
<1>8. /\ \A l \in Lockers : Active(l)' <=> Active(l)
      /\ \A n \in Nodes : InList(n) => Pred(n)' = Pred(n) /\ prev'[n] = prev[n]
  BY <1>0, <1>1, <1>4, <1>5, <1>6, <1>7 DEF Active, Pred
<1>9. SameLists
  BY <1>0, <1>1, <1>6, <1>7, <1>8 DEF SameLists, End
<1>10. Listed' /\ \A x : Place(x)' <=> Place(x)
  BY <1>2, <1>9, SameListsListed, SamePlaces DEF ListInv
<1>11. \A n \in Nodes : PrevOf(n)' = PrevOf(n)
  BY <1>0 DEF PrevOf
<1>n1. NextIsNode'
  BY <1>0, <1>1, <1>2, <1>3, <1>7, <1>8, <1>10 DEF ListInv, NextInv, NextIsNode
<1>n2. NextIsSentinel'
  BY <1>0, <1>2, <1>6, <1>8, <1>10 DEF ListInv, NextInv, NextIsSentinel
<1>n3. PhaseTwo'
  BY <1>0, <1>1, <1>2, <1>7, <1>8, <1>11 DEF ListInv, NextInv, PhaseTwo
<1>n4. NextIsSet'
  BY <1>0, <1>1, <1>2, <1>3, <1>7, <1>8 DEF ListInv, NextInv, NextIsSet
<1>n5. SentinelHooked'
  BY <1>0, <1>1, <1>2, <1>3, <1>6 DEF ListInv, NextInv, SentinelHooked
<1>n6. SentinelNext'
  BY <1>0, <1>1, <1>2, <1>4, <1>5 DEF ListInv, NextInv, SentinelNext
<1>n7. ParkedMark'
  BY <1>0, <1>4 DEF ParkedMark
<1>r. RemoveInv'
  BY <1>1, <1>5 DEF RemoveInv, RemoveCur, RemoveLinked, RemoveRelink, At
<1>g. GetNextInv'
  BY <1>1, <1>5 DEF GetNextInv, GetNextLoc, GetNextParking, GetNextSeen, At, GetNextPC, HolderPC, Procs
<1>d. GuardInv'
  BY <1>0, <1>1 DEF GuardInv, GuardFirst, GuardIdle, GuardDrained, At, HolderPC, DrainPC, Procs
<1> QED
  BY <1>10, <1>n1, <1>n2, <1>n3, <1>n4, <1>n5, <1>n6, <1>n7, <1>r, <1>g, <1>d DEF ListInv, NextInv
=============================================================================
