------------------------------- MODULE Queue -------------------------------
(***************************************************************************)
(* The atomic intrusive queue of src/queue.rs, its drains of               *)
(* src/queue/drain.rs and the node life cycle of src/node.rs, at the       *)
(* granularity of one atomic access per step.                              *)
(*                                                                         *)
(* A node is inserted without a lock in two phases: a CAS makes it the     *)
(* tail (phase 1), then its predecessor's next pointer, or the queue's     *)
(* head, is written (phase 2).  Every removal runs under the queue's       *)
(* mutex; a remover that needs a next pointer whose phase 2 is still in    *)
(* flight spins or parks until the inserter has written it.  A drain cuts  *)
(* the whole list off the queue, and hooks it on a sentinel node of its    *)
(* own whenever it lets go of the mutex.                                   *)
(*                                                                         *)
(* Memory is sequentially consistent here.  The mutex and the parker are   *)
(* modelled by their contracts (traits Mutex and Parker); their            *)
(* implementations are modelled in modules of their own.                   *)
(***************************************************************************)
CONSTANTS
    Nodes,      \* node addresses; a node also stands for the task that owns it
    Lockers,    \* threads that lock the queue to dequeue, pop or drain
    States,     \* the queue states a tail without node may hold
    Default,    \* the state a null tail encodes: () or 0
    Parking     \* how a remover waits: "swap" (x86_64), "store" (other
                \* targets), "spin" (a parker with NEVER_BLOCKS)

(* Pointer values that are not node addresses.  HEAD is HEAD_MARKER as a   *)
(* prev pointer; as a location, next[HEAD] is the field Queue::head, so    *)
(* that the `prev_next` of every node n is next[prev[n]].  A thread that   *)
(* drains the queue stands for the sentinel node of its Drain as well.     *)
NULL     == "null"
HEAD     == "head"
PARKED   == "parked"
UNQUEUED == "unqueued"
DEQUEUED == "dequeued"
NONE     == "none"

Specials == {NULL, HEAD, PARKED, UNQUEUED, DEQUEUED, NONE}
Procs    == Nodes \cup Lockers

ASSUME QueueAssumption ==
    /\ Nodes \cap Lockers = {}
    /\ Procs \cap States = {}
    /\ (Procs \cup States) \cap Specials = {}
    /\ Default \in States
    /\ Parking \in {"swap", "store", "spin"}

VARIABLES
    tail,       \* Queue::tail, decoded: a node or a queue state
    next,       \* NodeLink::next of the nodes, and Queue::head as next[HEAD]
    prev,       \* NodeLink::prev, which also encodes the node's state
    parkedNext, \* Queue::parked_next: the location a parked remover waits on
    token,      \* the parker's pending notification
    mutex,      \* the process that holds the queue's mutex
    live,       \* the nodes whose memory is valid (not dropped)
    pc,         \* where each process stands
    seen,       \* enqueue: the tail each inserter last read
    dropping,   \* the nodes whose destructor is running
    \* Local variables of the thread inside the critical section:
    cur,        \* remove: the node being removed; pop: the guarded node
    pre,        \* remove: the predecessor `prev`
    newTail,    \* remove: the state to store if the queue becomes empty
    isEmpty,    \* remove: the value to return
    loc,        \* get_next: the location waited on
    nxt,        \* get_next: the pointer returned; dequeue: the guarded node
    ret         \* get_next: where to return to

memory == <<tail, next, prev, parkedNext, token, live>>
locals == <<cur, pre, newTail, isEmpty, loc, nxt, ret>>
vars   == <<memory, mutex, pc, seen, dropping, locals>>

Links     == Nodes \cup Lockers
Locations == Links \cup {HEAD}

GetNextPC == {"gn_load", "gn_wait", "gn_check", "gn_clear", "gn_park", "gn_reload"}
RemovePC  == {"rm_next", "rm_clear", "rm_cas", "rm_relink", "rm_relink2", "rm_done"}
DrainPC   == {"dr_clear", "dr_swap", "drain", "drained", "dr_store"}
GuardPC   == {"locked", "dequeue", "pop", "recheck", "unlock"}
HolderPC  == GetNextPC \cup RemovePC \cup DrainPC \cup GuardPC
FreePC    == {"idle", "enq_cas", "enq_link", "enq_check", "enq_unpark", "lock",
              "dr_hooked", "dr_empty"}

TypeOK ==
    /\ tail \in Nodes \cup States
    /\ next \in [Locations -> Links \cup {NULL, PARKED}]
    /\ prev \in [Links -> Locations \cup {UNQUEUED, DEQUEUED}]
    /\ parkedNext \in Locations \cup {NULL}
    /\ token \in BOOLEAN
    /\ mutex \in Procs \cup {NONE}
    /\ live \subseteq Nodes
    /\ pc \in [Procs -> FreePC \cup HolderPC]
    /\ seen \in [Nodes -> Nodes \cup States \cup {NULL}]
    /\ dropping \subseteq Nodes
    /\ cur \in Nodes \cup {NULL}
    /\ pre \in Locations \cup {NULL}
    /\ newTail \in States
    /\ isEmpty \in BOOLEAN
    /\ loc \in Locations \cup {NULL}
    /\ nxt \in Links \cup {NULL}
    /\ ret \in {NULL, "dequeue", "rm_next", "rm_relink", "dr_clear", "dr_store"}

Init ==
    /\ tail \in States
    /\ next = [x \in Locations |-> NULL]
    /\ prev = [x \in Links |-> UNQUEUED]
    /\ parkedNext = NULL
    /\ token = FALSE
    /\ mutex = NONE
    /\ live = Nodes
    /\ pc = [p \in Procs |-> "idle"]
    /\ seen = [n \in Nodes |-> NULL]
    /\ dropping = {}
    /\ cur = NULL
    /\ pre = NULL
    /\ newTail = Default
    /\ isEmpty = FALSE
    /\ loc = NULL
    /\ nxt = NULL
    /\ ret = NULL

Goto(p, l)    == pc' = [pc EXCEPT ![p] = l]
Step(p, l, m) == pc[p] = l /\ Goto(p, m)

(* NodeLink::state: an address or HEAD_MARKER means Queued. *)
RawQueued(n) == prev[n] \notin {UNQUEUED, DEQUEUED}

-----------------------------------------------------------------------------
(* Node creation, insertion and reset: no lock is taken. *)

(* A new node may be created at the address of a dropped one. *)
New(n) ==
    /\ n \notin live
    /\ live' = live \cup {n}
    /\ prev' = [prev EXCEPT ![n] = UNQUEUED]
    /\ next' = [next EXCEPT ![n] = NULL]
    /\ UNCHANGED <<tail, parkedNext, token, mutex, pc, seen, dropping, locals>>

Owns(n) == n \in live /\ pc[n] = "idle"

EnqueueLoad(n) ==
    /\ Owns(n) /\ prev[n] = UNQUEUED
    /\ seen' = [seen EXCEPT ![n] = tail]
    /\ Goto(n, "enq_cas")
    /\ UNCHANGED <<memory, mutex, dropping, locals>>

(* `prev` of the inserter: the predecessor its CAS was computed from. *)
PrevOf(n) == IF seen[n] \in Nodes THEN seen[n] ELSE HEAD

(* One iteration of the CAS loop; compare_exchange_weak may fail although  *)
(* the tail has not changed.                                               *)
EnqueueCas(n) ==
    /\ pc[n] = "enq_cas"
    /\ prev' = [prev EXCEPT ![n] = PrevOf(n)]
    /\ \/ /\ tail = seen[n]
          /\ tail' = n
          /\ Goto(n, "enq_link")
          /\ UNCHANGED seen
       \/ /\ seen' = [seen EXCEPT ![n] = tail]
          /\ UNCHANGED <<tail, pc>>
    /\ UNCHANGED <<next, parkedNext, token, live, mutex, dropping, locals>>

(* check_tail refused the tail just read: the caller's closure is any. *)
EnqueueRefuse(n) ==
    /\ Step(n, "enq_cas", "idle")
    /\ prev' = [prev EXCEPT ![n] = UNQUEUED]
    /\ seen' = [seen EXCEPT ![n] = NULL]
    /\ UNCHANGED <<tail, next, parkedNext, token, live, mutex, dropping, locals>>

Enqueued(n) == Goto(n, "idle") /\ seen' = [seen EXCEPT ![n] = NULL]

\* Mutant: the value the swap returns is not looked at.
SeesParkedNever(n) == FALSE

SeesParked(n) == next[PrevOf(n)] # NULL

(* Phase 2.  An x86_64 inserter learns from the swap whether a remover is  *)
(* parked on the location; the others store first and look afterwards.     *)
EnqueueLink(n) ==
    /\ pc[n] = "enq_link"
    /\ next' = [next EXCEPT ![PrevOf(n)] = n]
    /\ CASE Parking = "store" -> Goto(n, "enq_check") /\ UNCHANGED seen
         [] Parking = "swap" /\ SeesParked(n) -> Goto(n, "enq_unpark") /\ UNCHANGED seen
         [] OTHER -> Enqueued(n)
    /\ UNCHANGED <<tail, prev, parkedNext, token, live, mutex, dropping, locals>>

EnqueueCheck(n) ==
    /\ pc[n] = "enq_check"
    /\ IF parkedNext = PrevOf(n) THEN Goto(n, "enq_unpark") /\ UNCHANGED seen ELSE Enqueued(n)
    /\ UNCHANGED <<memory, mutex, dropping, locals>>

EnqueueUnpark(n) ==
    /\ pc[n] = "enq_unpark"
    /\ token' = TRUE
    /\ Enqueued(n)
    /\ UNCHANGED <<tail, next, prev, parkedNext, live, mutex, dropping, locals>>

Reset(n) ==
    /\ Owns(n) /\ prev[n] = DEQUEUED
    /\ prev' = [prev EXCEPT ![n] = UNQUEUED]
    /\ next' = [next EXCEPT ![n] = NULL]
    /\ UNCHANGED <<tail, parkedNext, token, live, mutex, pc, seen, dropping, locals>>

(* compare_exchange_state and fetch_update_state: a successful CAS from    *)
(* one queue state to another; without effect while a node is queued.      *)
UpdateState(s) ==
    /\ tail \in States
    /\ tail' = s
    /\ UNCHANGED <<next, prev, parkedNext, token, live, mutex, pc, seen, dropping, locals>>

-----------------------------------------------------------------------------
(* LockedQueue::get_next: read the pointer at loc, waiting for its writer. *)

GetNext(p, x, r) == loc' = x /\ ret' = r /\ Goto(p, "gn_load")
Return(p, r)     == nxt' = r /\ Goto(p, ret)

GetNextLoad(p) ==
    /\ pc[p] = "gn_load"
    /\ \/ next[loc] # NULL /\ Return(p, next[loc])
       \/ /\ next[loc] = NULL /\ Parking # "spin"
          /\ Goto(p, "gn_wait") /\ UNCHANGED nxt
    /\ UNCHANGED <<memory, mutex, seen, dropping, cur, pre, newTail, isEmpty, loc, ret>>

\* Mutant: park right after the announcement, without looking again.
GetNextAnnounceNoCheck(p) ==
    /\ pc[p] = "gn_wait"
    /\ parkedNext' = loc
    /\ Goto(p, "gn_park")
    /\ UNCHANGED <<tail, next, prev, token, live, mutex, seen, dropping, locals>>

(* Announce the location: store it in parked_next, or CAS PARKED into it. *)
GetNextAnnounce(p) ==
    /\ pc[p] = "gn_wait"
    /\ \/ /\ Parking = "store"
          /\ parkedNext' = loc
          /\ Goto(p, "gn_check")
          /\ UNCHANGED <<next, nxt>>
       \/ /\ Parking = "swap" /\ next[loc] = NULL
          /\ next' = [next EXCEPT ![loc] = PARKED]
          /\ Goto(p, "gn_park")
          /\ UNCHANGED <<parkedNext, nxt>>
       \/ /\ Parking = "swap" /\ next[loc] # NULL
          /\ Return(p, next[loc])
          /\ UNCHANGED <<next, parkedNext>>
    /\ UNCHANGED <<tail, prev, token, live, mutex, seen, dropping,
                   cur, pre, newTail, isEmpty, loc, ret>>

GetNextCheck(p) ==
    /\ pc[p] = "gn_check"
    /\ IF next[loc] # NULL THEN nxt' = next[loc] /\ Goto(p, "gn_clear")
                           ELSE Goto(p, "gn_park") /\ UNCHANGED nxt
    /\ UNCHANGED <<memory, mutex, seen, dropping, cur, pre, newTail, isEmpty, loc, ret>>

GetNextClear(p) ==
    /\ pc[p] = "gn_clear"
    /\ parkedNext' = NULL
    /\ Goto(p, ret)
    /\ UNCHANGED <<tail, next, prev, token, live, mutex, seen, dropping, locals>>

(* Parker::park blocks until a notification is pending and consumes it. *)
GetNextPark(p) ==
    /\ pc[p] = "gn_park"
    /\ token
    /\ token' = FALSE
    /\ Goto(p, IF Parking = "store" THEN "gn_check" ELSE "gn_reload")
    /\ UNCHANGED <<tail, next, prev, parkedNext, live, mutex, seen, dropping, locals>>

GetNextReload(p) ==
    /\ pc[p] = "gn_reload"
    /\ IF next[loc] # PARKED THEN Return(p, next[loc])
                             ELSE Goto(p, "gn_park") /\ UNCHANGED nxt
    /\ UNCHANGED <<memory, mutex, seen, dropping, cur, pre, newTail, isEmpty, loc, ret>>

-----------------------------------------------------------------------------
(* LockedQueue::remove_with_prev *)

StartRemove(p, n, s, pr, waitEnqueued) ==
    /\ cur' = n /\ pre' = pr /\ newTail' = s /\ isEmpty' = FALSE
    /\ IF waitEnqueued THEN GetNext(p, pr, "rm_next")
                       ELSE Goto(p, "rm_next") /\ UNCHANGED <<loc, ret>>

RemoveNext(p) ==
    /\ pc[p] = "rm_next"
    /\ nxt' = next[cur]
    /\ Goto(p, IF next[cur] = NULL THEN "rm_clear" ELSE "rm_relink")
    /\ UNCHANGED <<memory, mutex, seen, dropping, cur, pre, newTail, isEmpty, loc, ret>>

\* Mutant: the predecessor's next pointer is not cleared before the CAS.
RemoveClearSkipped(p) ==
    /\ Step(p, "rm_clear", "rm_cas")
    /\ UNCHANGED <<memory, mutex, seen, dropping, locals>>

RemoveClear(p) ==
    /\ Step(p, "rm_clear", "rm_cas")
    /\ next' = [next EXCEPT ![pre] = NULL]
    /\ UNCHANGED <<tail, prev, parkedNext, token, live, mutex, seen, dropping, locals>>

\* Mutant: the queue's state is stored even when the node was not the head.
TailAfterState == newTail

TailAfter == IF pre = HEAD THEN newTail ELSE pre

(* The node was the tail, or an inserter got ahead and must be waited for. *)
RemoveCas(p) ==
    /\ pc[p] = "rm_cas"
    /\ \/ /\ tail = cur
          /\ tail' = TailAfter
          /\ isEmpty' = TRUE
          /\ Goto(p, "rm_done")
          /\ UNCHANGED <<loc, ret>>
       \/ /\ tail # cur
          /\ GetNext(p, cur, "rm_relink")
          /\ UNCHANGED <<tail, isEmpty>>
    /\ UNCHANGED <<next, prev, parkedNext, token, live, mutex, seen, dropping,
                   cur, pre, newTail, nxt>>

\* Mutant: the node is given back before its neighbours are relinked.
RemoveRelinkTooLate(p) ==
    /\ Step(p, "rm_relink", "rm_relink2")
    /\ prev' = [prev EXCEPT ![nxt] = pre, ![cur] = DEQUEUED]
    /\ UNCHANGED <<tail, next, parkedNext, token, live, mutex, seen, dropping, locals>>

RemoveRelinkPrev(p) ==
    /\ Step(p, "rm_relink", "rm_relink2")
    /\ prev' = [prev EXCEPT ![nxt] = pre]
    /\ UNCHANGED <<tail, next, parkedNext, token, live, mutex, seen, dropping, locals>>

\* Mutant: only the prev pointer is relinked.
RemoveRelinkSkipped(p) ==
    /\ Step(p, "rm_relink2", "rm_done")
    /\ UNCHANGED <<memory, mutex, seen, dropping, locals>>

RemoveRelinkNext(p) ==
    /\ Step(p, "rm_relink2", "rm_done")
    /\ next' = [next EXCEPT ![pre] = nxt]
    /\ UNCHANGED <<tail, prev, parkedNext, token, live, mutex, seen, dropping, locals>>

(* The last store: from here on the owner may free the node. *)
RemoveDone(p) ==
    /\ Step(p, "rm_done", IF p \in Nodes THEN "unlock" ELSE "locked")
    /\ prev' = [prev EXCEPT ![cur] = DEQUEUED]
    /\ cur' = NULL /\ pre' = NULL /\ newTail' = Default /\ isEmpty' = FALSE
    /\ loc' = NULL /\ nxt' = NULL /\ ret' = NULL
    /\ UNCHANGED <<tail, next, parkedNext, token, live, mutex, seen, dropping>>

-----------------------------------------------------------------------------
(* The owner of a node: Node::state and Node::drop *)

(* raw_state said Queued, before the lock is taken. *)
OwnerSeesQueued(n) ==
    /\ Owns(n) /\ RawQueued(n)
    /\ Goto(n, "lock")
    /\ dropping' \in {dropping, dropping \cup {n}}
    /\ UNCHANGED <<memory, mutex, seen, locals>>

OwnerLock(n) ==
    /\ Step(n, "lock", "recheck")
    /\ mutex = NONE
    /\ mutex' = n
    /\ UNCHANGED <<memory, seen, dropping, locals>>

\* Mutant: the state read before the lock is trusted.
StillQueuedTrusted(n) == TRUE

StillQueued(n) == RawQueued(n)

(* raw_state again, under the lock: NodeQueued::dequeue, with or without a *)
(* state, and the destructor remove the node; a NodeQueued may also be     *)
(* dropped at once, which only releases the lock.                          *)
OwnerRecheck(n) ==
    /\ pc[n] = "recheck"
    /\ \/ /\ StillQueued(n)
          /\ \E s \in IF n \in dropping THEN {Default} ELSE States :
                StartRemove(n, n, s, prev[n], FALSE)
       \/ /\ StillQueued(n) => n \notin dropping
          /\ Goto(n, "unlock")
          /\ UNCHANGED <<cur, pre, newTail, isEmpty, loc, ret>>
    /\ UNCHANGED <<memory, mutex, seen, dropping, nxt>>

OwnerUnlock(n) ==
    /\ Step(n, "unlock", "idle")
    /\ mutex' = NONE
    /\ live' = live \ (dropping \cap {n})
    /\ dropping' = dropping \ {n}
    /\ UNCHANGED <<tail, next, prev, parkedNext, token, seen, locals>>

(* The destructor of a node that is not queued takes no lock. *)
OwnerDrop(n) ==
    /\ Owns(n) /\ ~RawQueued(n)
    /\ live' = live \ {n}
    /\ UNCHANGED <<tail, next, prev, parkedNext, token, mutex, pc, seen, dropping, locals>>

-----------------------------------------------------------------------------
(* A thread that locks the queue *)

Lock(l) ==
    /\ Step(l, "idle", "locked")
    /\ mutex = NONE
    /\ mutex' = l
    /\ UNCHANGED <<memory, seen, dropping, locals>>

Unlock(l) ==
    /\ Step(l, "locked", "idle")
    /\ mutex' = NONE
    /\ UNCHANGED <<memory, seen, dropping, locals>>

\* Mutant: dequeue takes the newest node.
DequeueNewest(l) ==
    /\ Step(l, "locked", "dequeue")
    /\ tail \in Nodes
    /\ nxt' = tail
    /\ UNCHANGED <<memory, mutex, seen, dropping, cur, pre, newTail, isEmpty, loc, ret>>

Dequeue(l) ==
    /\ pc[l] = "locked"
    /\ tail \in Nodes
    /\ GetNext(l, HEAD, "dequeue")
    /\ UNCHANGED <<memory, mutex, seen, dropping, cur, pre, newTail, isEmpty, nxt>>

Pop(l) ==
    /\ Step(l, "locked", "pop")
    /\ tail \in Nodes
    /\ cur' = tail
    /\ UNCHANGED <<memory, mutex, seen, dropping, pre, newTail, isEmpty, loc, nxt, ret>>

(* Dequeue::requeue and Pop::requeue forget the guard. *)
Requeue(l) ==
    /\ pc[l] \in {"dequeue", "pop"}
    /\ Goto(l, "locked")
    /\ cur' = NULL /\ loc' = NULL /\ nxt' = NULL /\ ret' = NULL
    /\ UNCHANGED <<memory, mutex, seen, dropping, pre, newTail, isEmpty>>

(* Drop (s = Default) or try_set_queue_state(s) of a guard. *)
RemoveDequeued(l, s) ==
    /\ pc[l] = "dequeue"
    /\ StartRemove(l, nxt, s, HEAD, FALSE)
    /\ UNCHANGED <<memory, mutex, seen, dropping, nxt>>

\* Mutant: pop does not wait for the phase 2 of the node it removes.
RemovePoppedNoWait(l, s) ==
    /\ pc[l] = "pop"
    /\ StartRemove(l, cur, s, prev[cur], FALSE)
    /\ UNCHANGED <<memory, mutex, seen, dropping, nxt>>

RemovePopped(l, s) ==
    /\ pc[l] = "pop"
    /\ StartRemove(l, cur, s, prev[cur], TRUE)
    /\ UNCHANGED <<memory, mutex, seen, dropping, nxt>>

-----------------------------------------------------------------------------
(* Drain.  Its sentinel's links are next[l], the first drained node, and   *)
(* prev[l], the last one.                                                  *)

(* Drain::new, for drain (s = Default) and drain_try_set_state(s). *)
DrainNew(l, s) ==
    /\ pc[l] = "locked"
    /\ IF tail \in Nodes THEN GetNext(l, HEAD, "dr_clear") /\ newTail' = s
                         ELSE Goto(l, "drain") /\ UNCHANGED <<loc, ret, newTail>>
    /\ UNCHANGED <<memory, mutex, seen, dropping, cur, pre, isEmpty, nxt>>

\* Mutant: the head keeps pointing to the first drained node.
DrainClearSkipped(l) ==
    /\ Step(l, "dr_clear", "dr_swap")
    /\ UNCHANGED <<memory, mutex, seen, dropping, locals>>

DrainClear(l) ==
    /\ Step(l, "dr_clear", "dr_swap")
    /\ next' = [next EXCEPT ![HEAD] = NULL]
    /\ UNCHANGED <<tail, prev, parkedNext, token, live, mutex, seen, dropping, locals>>

DrainSwap(l) ==
    /\ Step(l, "dr_swap", "drain")
    /\ tail' = newTail
    /\ prev' = [prev EXCEPT ![l] = tail]
    /\ next' = [next EXCEPT ![l] = nxt]
    /\ newTail' = Default /\ loc' = NULL /\ nxt' = NULL /\ ret' = NULL
    /\ UNCHANGED <<parkedNext, token, live, mutex, seen, dropping, cur, pre, isEmpty>>

(* Drain::next hands out the first drained node. *)
DrainNext(l) ==
    /\ Step(l, "drain", "drained")
    /\ next[l] # NULL
    /\ UNCHANGED <<memory, mutex, seen, dropping, locals>>

(* Drop of NodeDrained: find the next node, then give this one back. *)
DrainDrop(l) ==
    /\ pc[l] = "drained"
    /\ IF next[l] = prev[l] THEN Goto(l, "dr_store") /\ UNCHANGED <<loc, ret>>
                            ELSE GetNext(l, next[l], "dr_store")
    /\ UNCHANGED <<memory, mutex, seen, dropping, cur, pre, newTail, isEmpty, nxt>>

DrainStore(l) ==
    /\ Step(l, "dr_store", "drain")
    /\ next' = [next EXCEPT ![l] = nxt]
    /\ prev' = [prev EXCEPT ![next[l]] = DEQUEUED]
    /\ loc' = NULL /\ nxt' = NULL /\ ret' = NULL
    /\ UNCHANGED <<tail, parkedNext, token, live, mutex, seen, dropping,
                   cur, pre, newTail, isEmpty>>

\* Mutant: the list is not closed on the sentinel before the lock is released.
DrainUnlockUnhooked(l) ==
    /\ pc[l] = "drain"
    /\ mutex' = NONE
    /\ Goto(l, IF next[l] = NULL THEN "dr_empty" ELSE "dr_hooked")
    /\ UNCHANGED <<memory, seen, dropping, locals>>

(* execute_unlocked: close the remaining list on the sentinel, so that its *)
(* nodes can be removed by their owners, and release the lock.             *)
DrainUnlock(l) ==
    /\ pc[l] = "drain"
    /\ mutex' = NONE
    /\ \/ /\ next[l] = NULL
          /\ Goto(l, "dr_empty")
          /\ UNCHANGED <<next, prev>>
       \/ /\ next[l] # NULL
          /\ prev' = [prev EXCEPT ![next[l]] = l]
          /\ next' = [next EXCEPT ![prev[l]] = l]
          /\ Goto(l, "dr_hooked")
    /\ UNCHANGED <<tail, parkedNext, token, live, seen, dropping, locals>>

\* Mutant: a sentinel that is alone in its list is taken for a node.
DrainRelockNoCheck(l) ==
    /\ pc[l] \in {"dr_hooked", "dr_empty"}
    /\ Goto(l, "drain")
    /\ mutex = NONE
    /\ mutex' = l
    /\ UNCHANGED <<memory, seen, dropping, locals>>

(* ... and after the callback.  If it panics the destructor of Drain locks *)
(* instead, and drops a sentinel that is alone in its list like a node,    *)
(* with the same effect.                                                   *)
DrainRelock(l) ==
    /\ pc[l] \in {"dr_hooked", "dr_empty"}
    /\ Goto(l, "drain")
    /\ mutex = NONE
    /\ mutex' = l
    /\ next' = IF next[l] = l THEN [next EXCEPT ![l] = NULL] ELSE next
    /\ UNCHANGED <<tail, prev, parkedNext, token, live, seen, dropping, locals>>

(* Drop of an empty Drain; one that is not empty takes DrainNext and       *)
(* DrainDrop steps first.                                                  *)
DrainEnd(l) ==
    /\ Step(l, "drain", "idle")
    /\ next[l] = NULL
    /\ mutex' = NONE
    /\ prev' = [prev EXCEPT ![l] = UNQUEUED]
    /\ UNCHANGED <<tail, next, parkedNext, token, live, seen, dropping, locals>>

-----------------------------------------------------------------------------
Enqueue(n) == EnqueueLoad(n) \/ EnqueueCas(n) \/ EnqueueRefuse(n)
Link(n)    == EnqueueLink(n) \/ EnqueueCheck(n) \/ EnqueueUnpark(n)
Owner(n)   == \/ New(n) \/ Reset(n) \/ OwnerSeesQueued(n) \/ OwnerDrop(n)
              \/ OwnerLock(n) \/ OwnerRecheck(n) \/ OwnerUnlock(n)
GetNextStep(p) == \/ GetNextLoad(p) \/ GetNextAnnounce(p) \/ GetNextCheck(p)
                  \/ GetNextClear(p) \/ GetNextPark(p) \/ GetNextReload(p)
RemoveStep(p)  == \/ RemoveNext(p) \/ RemoveClear(p) \/ RemoveCas(p)
                  \/ RemoveRelinkPrev(p) \/ RemoveRelinkNext(p) \/ RemoveDone(p)
Locker(l)  == \/ Lock(l) \/ Unlock(l) \/ Dequeue(l) \/ Pop(l) \/ Requeue(l)
              \/ DrainNext(l) \/ DrainUnlock(l) \/ DrainRelock(l) \/ DrainEnd(l)
              \/ \E s \in States : RemoveDequeued(l, s) \/ RemovePopped(l, s) \/ DrainNew(l, s)
DrainStep(l) == DrainClear(l) \/ DrainSwap(l) \/ DrainDrop(l) \/ DrainStore(l)

Next ==
    \/ \E n \in Nodes : Enqueue(n) \/ Link(n) \/ Owner(n)
    \/ \E p \in Procs : GetNextStep(p) \/ RemoveStep(p)
    \/ \E l \in Lockers : Locker(l) \/ DrainStep(l)
    \/ \E s \in States : UpdateState(s)

Spec == Init /\ [][Next]_vars

(* A thread inside enqueue's phase 2 or inside the critical section's code *)
(* keeps running; nothing is assumed of callers or of the CAS loop.        *)
Fairness ==
    /\ \A n \in Nodes : WF_vars(Link(n))
    /\ \A p \in Procs : WF_vars(GetNextStep(p)) /\ WF_vars(RemoveStep(p))
    /\ \A l \in Lockers : WF_vars(DrainStep(l))

FairSpec == Spec /\ Fairness
-----------------------------------------------------------------------------
(* The thread inside the critical section stands at one of the points S. *)
At(S) == mutex \in Procs /\ pc[mutex] \in S

(* In a list: made tail by phase 1 and not yet cut out by a remover. *)
CutOut(n) == At({"rm_relink2", "rm_done"}) /\ cur = n
InList(n) == RawQueued(n) /\ pc[n] # "enq_cas" /\ ~CutOut(n)

(* The sentinel of a Drain is reachable while its thread runs a callback   *)
(* without the lock; its memory is valid until the Drain is dropped.       *)
Hooked(l)  == pc[l] = "dr_hooked"
ValidLinks == live \cup {l \in Lockers : pc[l] # "idle"}

(* No access through a dangling pointer (enqueue, get_next,                *)
(* remove_with_prev, drains): whatever an inserter in phase 2 or the lock  *)
(* holder is about to dereference is memory of a node that has not been    *)
(* dropped, or of the sentinel of a Drain that has not ended.              *)
NoDangling ==
    /\ \A n \in Nodes : pc[n] = "enq_link" => PrevOf(n) \in live \cup {HEAD}
    /\ \A p \in Procs :
        /\ pc[p] \in GetNextPC => loc \in ValidLinks \cup {HEAD}
        /\ pc[p] \in RemovePC => cur \in live /\ pre \in ValidLinks \cup {HEAD}
        /\ pc[p] \in {"rm_relink", "rm_relink2"} => nxt \in ValidLinks
    /\ \A l \in Lockers :
        pc[l] \in {"drain", "drained", "dr_store"} /\ next[l] # NULL =>
            {next[l], prev[l]} \subseteq live

(* The node a Dequeue, Pop or NodeDrained guard gives access to stays      *)
(* Queued for its owner, who can then neither touch its data nor free it   *)
(* without the lock; so does the node being removed until the last store   *)
(* of the removal.                                                         *)
GuardedIsQueued ==
    \A p \in Procs :
        /\ pc[p] = "dequeue" => nxt \in live /\ InList(nxt)
        /\ pc[p] = "pop" => cur \in live /\ InList(cur)
        /\ pc[p] \in RemovePC => RawQueued(cur) /\ pc[cur] # "enq_cas"
        /\ pc[p] \in {"drained", "dr_store"} => next[p] \in live /\ InList(next[p])

(* While nobody holds the mutex every list, the queue's and those of the   *)
(* drains that run a callback, is doubly linked, except for the next       *)
(* pointers that inserters in phase 2 are about to write; the tail of the  *)
(* queue has no successor and an empty queue has no head.                  *)
ListWellLinked ==
    mutex = NONE =>
        /\ \A n \in Nodes : InList(n) =>
              /\ \/ prev[n] = HEAD
                 \/ prev[n] \in Nodes /\ InList(prev[n])
                 \/ prev[n] \in Lockers /\ Hooked(prev[n])
              /\ next[prev[n]] = IF pc[n] = "enq_link" THEN NULL ELSE n
        /\ \A l \in Lockers : Hooked(l) => next[prev[l]] = l
        /\ next[IF tail \in Nodes THEN tail ELSE HEAD] = NULL
        /\ tail \in Nodes => InList(tail)

(* debug_assert_eq!(prev_next, node) in remove_with_prev: what pop waited  *)
(* for is the popped node itself.  And unreachable_unchecked in Drain::new *)
(* is unreachable: the tail a drain swaps out is a node.                   *)
AssertionsHold ==
    \A p \in Procs :
        /\ pc[p] = "rm_next" /\ ret = "rm_next" => nxt = cur
        /\ pc[p] = "dr_swap" => tail \in Nodes

(* A thread that waits for an inserter is always released, and a removal   *)
(* that started always ends (get_next, remove_with_prev, NodeDrained): no  *)
(* notification is lost between the inserter's store and the waiting       *)
(* thread's park.                                                          *)
RemovalCompletes ==
    \A p \in Procs :
        pc[p] \in GetNextPC \cup RemovePC ~> pc[p] \in {"dequeue", "locked", "unlock", "drain"}

(* The value remove_with_prev returns: a try_set_queue_state (of a state   *)
(* other than Default, which plain removals pass) that reports success has *)
(* stored the state, the queue being empty.                                *)
TrySetReportsTruth == [][~isEmpty /\ isEmpty' /\ newTail # Default => tail' = newTail]_vars
=============================================================================
