----------------------------- MODULE WaitQueue -----------------------------
(***************************************************************************)
(* WaitQueue of src/wait_queue.rs: futures that wait in a queue and        *)
(* threads that notify them or close the queue.  The queue is used through *)
(* the promises of AtomicQueue: nodes are appended in one step without the *)
(* lock, and taken out under the lock.                                     *)
(***************************************************************************)
EXTENDS Lists

CONSTANTS
    Futures,    \* futures of wait, wait_if and wait_until, and their nodes
    Threads,    \* threads that notify or close
    Tasks,      \* wakers a future may be polled with
    Kinds,      \* "wait", "if" for wait_if, "until" for wait_until
    Capacity,   \* of WakerList
    MaxCount,   \* bound on the argument of notify_many
    MaxCalls    \* bound on the calls of each thread

NONE == "none"

ASSUME WaitQueueAssumption ==
    /\ Futures \cap Threads = {}
    /\ NONE \notin Threads \cup Tasks
    /\ {Capacity, MaxCount, MaxCalls} \subseteq Nat
    /\ Capacity > 0
    /\ Kinds \subseteq {"wait", "if", "until"}

VARIABLES
    queue,      \* the waiting nodes, oldest first
    drained,    \* drained[t]: the nodes the drain of t still holds
    closed,     \* the queue's state is CLOSED (EMPTY while a node is queued)
    mutex,      \* the thread that holds the lock between two steps
    flag,       \* what the predicates of wait_if and wait_until look at
    status,     \* status[f] of each node, as in AtomicQueue
    waker,      \* Waiter::waker
    kind,       \* which future, or NONE after it was dropped
    predicate,  \* WaitIf::predicate has not been taken
    cx,         \* the waker of the current or the last poll, until poll is Ready
    fpc,        \* where each future stands
    woken,      \* the futures on whose last waker wake was called
    op,         \* the method each thread runs
    left,       \* notify_many: iterations left
    wakers,     \* the WakerList of each thread
    calls,      \* calls made by each thread
    pc          \* where each thread stands

shared == <<queue, drained, closed, mutex, flag>>
future == <<status, waker, kind, predicate, cx, fpc>>
thread == <<op, left, wakers, calls, pc>>
vars   == <<shared, future, woken, thread>>

Ops   == {"one", "last", "many", "all", "set", "close"}

Init ==
    /\ queue = <<>>
    /\ drained = [t \in Threads |-> <<>>]
    /\ closed = FALSE
    /\ mutex = NONE
    /\ flag = FALSE
    /\ status = [f \in Futures |-> "Unqueued"]
    /\ waker = [f \in Futures |-> NONE]
    /\ kind \in [Futures -> Kinds]
    /\ predicate = [f \in Futures |-> TRUE]
    /\ cx = [f \in Futures |-> NONE]
    /\ fpc = [f \in Futures |-> "idle"]
    /\ woken = {}
    /\ op = [t \in Threads |-> NONE]
    /\ left = [t \in Threads |-> 0]
    /\ wakers = [t \in Threads |-> <<>>]
    /\ calls = [t \in Threads |-> 0]
    /\ pc = [t \in Threads |-> "idle"]

(* Taking f out of its list; the last node of the queue leaves EMPTY. *)
TakeOut(f) ==
    /\ queue' = Without(queue, f)
    /\ drained' = [t \in Threads |-> Without(drained[t], f)]

-----------------------------------------------------------------------------
(* The futures *)

FGoto(f, l) == fpc' = [fpc EXCEPT ![f] = l]

(* poll is Ready, or the future is dropped: nobody waits any more. *)
Leave(f, l) ==
    /\ FGoto(f, l)
    /\ cx' = [cx EXCEPT ![f] = NONE]
    /\ woken' = woken \ {f}

(* A future may be polled at any time, with any waker.  wait_until looks   *)
(* at its predicate first.                                                 *)
Poll(f, k) ==
    /\ fpc[f] = "idle"
    /\ \/ /\ kind[f] = "until" /\ flag
          /\ Leave(f, "done")
       \/ /\ ~(kind[f] = "until" /\ flag)
          /\ FGoto(f, "state")
          /\ cx' = [cx EXCEPT ![f] = k]
          /\ woken' = woken \ {f}
    /\ UNCHANGED <<shared, status, waker, kind, predicate, thread>>

\* Mutant: the waker is not stored before the insertion.
StoredWakerNone(f) == NONE

StoredWaker(f) == cx[f]

\* Mutant: wait_until does not reset a dequeued node.
RequeueOnce(f) ==
    \/ /\ status[f] = "Unqueued"
       /\ waker' = [waker EXCEPT ![f] = StoredWaker(f)]
       /\ FGoto(f, "enqueue")
       /\ UNCHANGED status
    \/ /\ status[f] = "Dequeued"
       /\ FGoto(f, "ready")
       /\ UNCHANGED <<status, waker>>

(* The node is Unqueued, or it is Dequeued and reset: store the waker and  *)
(* insert; or the wait is over.                                            *)
Requeue(f) ==
    \/ /\ status[f] = "Unqueued" \/ (status[f] = "Dequeued" /\ kind[f] = "until")
       /\ status' = [status EXCEPT ![f] = "Unqueued"]
       /\ waker' = [waker EXCEPT ![f] = StoredWaker(f)]
       /\ FGoto(f, "enqueue")
    \/ /\ status[f] = "Dequeued" /\ kind[f] # "until"
       /\ FGoto(f, "ready")
       /\ UNCHANGED <<status, waker>>

(* poll_wait: Node::state without the lock ... *)
PollState(f) ==
    /\ fpc[f] = "state"
    /\ \/ Requeue(f)
       \/ status[f] = "Queued" /\ FGoto(f, "lock") /\ UNCHANGED <<status, waker>>
    /\ UNCHANGED <<shared, kind, predicate, cx, woken, thread>>

\* Mutant: a queued waiter keeps the waker it has.
UpdatedWakerKept(f) == waker[f]

UpdatedWaker(f) == cx[f]

(* ... and with it: a waiter that is still queued gets the new waker. *)
PollLocked(f) ==
    /\ fpc[f] = "lock"
    /\ mutex = NONE
    /\ \/ Requeue(f)
       \/ /\ status[f] = "Queued"
          /\ waker' = [waker EXCEPT ![f] = UpdatedWaker(f)]
          /\ FGoto(f, "pending")
          /\ UNCHANGED status
    /\ UNCHANGED <<shared, kind, predicate, cx, woken, thread>>

Closed == queue = <<>> /\ closed

(* try_enqueue_with_queue_state: refused by a closed queue. *)
PollEnqueue(f) ==
    /\ fpc[f] = "enqueue"
    /\ \/ /\ ~Closed
          /\ queue' = Append(queue, f)
          /\ status' = [status EXCEPT ![f] = "Queued"]
          /\ FGoto(f, "pending")
       \/ /\ Closed
          /\ FGoto(f, "ready")
          /\ UNCHANGED <<queue, status>>
    /\ UNCHANGED <<drained, closed, mutex, flag, waker, kind, predicate, cx, woken, thread>>

\* Mutant: wait_if and wait_until do not look at the predicate after the insertion.
SatisfiedBefore(f) == FALSE

(* The predicate of wait_if, evaluated once, and the one of wait_until. *)
Satisfied(f) == flag /\ (kind[f] = "until" \/ (kind[f] = "if" /\ predicate[f]))

(* What poll makes of the result of poll_wait. *)
PollEnd(f) ==
    /\ \/ /\ fpc[f] = "pending" /\ ~Satisfied(f)
          /\ FGoto(f, "idle")
          /\ predicate' = [predicate EXCEPT ![f] = @ /\ kind[f] # "if"]
          /\ UNCHANGED <<cx, woken>>
       \/ /\ fpc[f] = "pending" /\ Satisfied(f)
          /\ Leave(f, "done")
          /\ UNCHANGED predicate
       \/ /\ fpc[f] = "ready"
          /\ Leave(f, IF kind[f] = "until" /\ ~flag THEN "panic" ELSE "done")
          /\ UNCHANGED predicate
    /\ UNCHANGED <<shared, status, waker, kind, thread>>

(* A future is dropped when it is done or cancelled, also after a panic.   *)
(* The destructor of its node takes the lock if the node is Queued.        *)
Free(f) ==
    /\ status' = [status EXCEPT ![f] = "Unqueued"]
    /\ waker' = [waker EXCEPT ![f] = NONE]
    /\ predicate' = [predicate EXCEPT ![f] = TRUE]
    /\ kind' = [kind EXCEPT ![f] = NONE]

Drop(f) ==
    /\ fpc[f] \in {"idle", "done", "panic"}
    /\ \/ /\ status[f] = "Queued"
          /\ Leave(f, "drop")
          /\ UNCHANGED <<status, waker, predicate, kind>>
       \/ /\ status[f] # "Queued"
          /\ Leave(f, "gone")
          /\ Free(f)
    /\ UNCHANGED <<shared, thread>>

DropLocked(f) ==
    /\ fpc[f] = "drop"
    /\ mutex = NONE
    /\ IF status[f] = "Queued" THEN TakeOut(f) ELSE UNCHANGED <<queue, drained>>
    /\ FGoto(f, "gone")
    /\ Free(f)
    /\ UNCHANGED <<closed, mutex, flag, cx, woken, thread>>

New(f, k) ==
    /\ fpc[f] = "gone"
    /\ kind' = [kind EXCEPT ![f] = k]
    /\ FGoto(f, "idle")
    /\ UNCHANGED <<shared, status, waker, predicate, cx, woken, thread>>

-----------------------------------------------------------------------------
(* The threads *)

Goto(t, l) == pc' = [pc EXCEPT ![t] = l] /\ UNCHANGED <<op, left>>
Finish(t) ==
    /\ pc' = [pc EXCEPT ![t] = "idle"]
    /\ op' = [op EXCEPT ![t] = NONE]
    /\ left' = [left EXCEPT ![t] = 0]

(* "set" makes the predicates true and then calls notify_all. *)
Call(t, o, c) ==
    /\ pc[t] = "idle" /\ calls[t] < MaxCalls
    /\ calls' = [calls EXCEPT ![t] = @ + 1]
    /\ op' = [op EXCEPT ![t] = IF o = "set" THEN "all" ELSE o]
    /\ left' = [left EXCEPT ![t] = IF o = "many" THEN c ELSE 0]
    /\ flag' = (flag \/ o = "set")
    /\ pc' = [pc EXCEPT ![t] = "read"]
    /\ UNCHANGED <<queue, drained, closed, mutex, future, woken, wakers>>

(* is_empty_or_locked, is_empty_or_lock and fetch_update_state_or_lock: an *)
(* empty queue is left alone, or closed, without the lock ...              *)
ReadEmpty(t) ==
    /\ pc[t] = "read"
    /\ IF queue = <<>> THEN Finish(t) ELSE Goto(t, "lock")
    /\ closed' = (closed \/ (queue = <<>> /\ op[t] = "close"))
    /\ UNCHANGED <<queue, drained, mutex, flag, future, woken, wakers, calls>>

\* Mutant: the queue is not looked at again under the lock.
LockBlind(t) ==
    /\ pc[t] = "lock"
    /\ mutex = NONE
    /\ mutex' = t
    /\ Goto(t, "locked")
    /\ UNCHANGED <<queue, drained, closed, flag, future, woken, wakers, calls>>

(* ... and looked at again under the lock. *)
Lock(t) ==
    /\ pc[t] = "lock"
    /\ mutex = NONE
    /\ \/ /\ queue = <<>>
          /\ Finish(t)
          /\ closed' = (closed \/ op[t] = "close")
          /\ UNCHANGED mutex
       \/ /\ queue # <<>>
          /\ Goto(t, "locked")
          /\ mutex' = t
          /\ UNCHANGED closed
    /\ UNCHANGED <<queue, drained, flag, future, woken, wakers, calls>>

(* Take the waker out of the node and give the node back to its owner. *)
Take(t, f) ==
    /\ TakeOut(f)
    /\ wakers' = [wakers EXCEPT ![t] = Append(@, <<f, waker[f]>>)]
    /\ waker' = [waker EXCEPT ![f] = NONE]
    /\ status' = [status EXCEPT ![f] = "Dequeued"]

(* notify_one and notify_last: dequeue or pop, then release the lock. *)
NotifyOne(t) ==
    /\ pc[t] = "locked" /\ op[t] \in {"one", "last"}
    /\ Take(t, IF op[t] = "one" THEN Head(queue) ELSE queue[Len(queue)])
    /\ mutex' = NONE
    /\ Goto(t, "wake")
    /\ UNCHANGED <<closed, flag, kind, predicate, cx, fpc, woken, calls>>

(* One iteration of notify_many; a full list is woken without the lock. *)
NotifyMany(t) ==
    /\ pc[t] = "locked" /\ op[t] = "many"
    /\ left[t] > 0 /\ queue # <<>>
    /\ Take(t, Head(queue))
    /\ left' = [left EXCEPT ![t] = @ - 1]
    /\ LET full == Len(wakers'[t]) = Capacity IN
        /\ mutex' = IF full THEN NONE ELSE t
        /\ pc' = [pc EXCEPT ![t] = IF full THEN "wake_more" ELSE "locked"]
    /\ UNCHANGED <<closed, flag, kind, predicate, cx, fpc, woken, op, calls>>

(* Its end: the lock is released if the queue is empty, and still held if  *)
(* all iterations were made.                                               *)
NotifyManyEnd(t) ==
    /\ pc[t] = "locked" /\ op[t] = "many"
    /\ left[t] = 0 \/ queue = <<>>
    /\ mutex' = IF left[t] = 0 THEN t ELSE NONE
    /\ Goto(t, "wake")
    /\ UNCHANGED <<queue, drained, closed, flag, future, woken, wakers, calls>>

\* Mutant: close drains like notify_all.
StateAfterDrainEmpty(t) == FALSE

StateAfterDrain(t) == op[t] = "close"

(* drain_queue: notify_all and close. *)
DrainQueue(t) ==
    /\ pc[t] = "locked" /\ op[t] \in {"all", "close"}
    /\ drained' = [drained EXCEPT ![t] = queue]
    /\ queue' = <<>>
    /\ closed' = IF queue = <<>> THEN closed ELSE StateAfterDrain(t)
    /\ Goto(t, "drain")
    /\ UNCHANGED <<mutex, flag, future, woken, wakers, calls>>

(* Drain::for_each: once the list is full, and more nodes are to come, the *)
(* wakers are woken in execute_unlocked.                                   *)
DrainNext(t) ==
    /\ pc[t] = "drain" /\ drained[t] # <<>>
    /\ Take(t, Head(drained[t]))
    /\ IF Len(wakers'[t]) = Capacity /\ drained'[t] # <<>>
       THEN mutex' = NONE /\ Goto(t, "wake_more")
       ELSE UNCHANGED <<mutex, pc, op, left>>
    /\ UNCHANGED <<closed, flag, kind, predicate, cx, fpc, woken, calls>>

\* Mutant: the wakers that are left at the end of the drain are not woken.
DrainEndSilent(t) ==
    /\ pc[t] = "drain" /\ drained[t] = <<>>
    /\ mutex' = NONE
    /\ wakers' = [wakers EXCEPT ![t] = <<>>]
    /\ Goto(t, "wake")
    /\ UNCHANGED <<queue, drained, closed, flag, future, woken, calls>>

DrainEnd(t) ==
    /\ pc[t] = "drain" /\ drained[t] = <<>>
    /\ mutex' = NONE
    /\ Goto(t, "wake")
    /\ UNCHANGED <<queue, drained, closed, flag, future, woken, wakers, calls>>

(* Waker::wake of the next waker.  The task polls its future again, if it  *)
(* is the one that polled it last and the future is still there.           *)
Wake(t) ==
    /\ pc[t] \in {"wake", "wake_more"}
    /\ wakers[t] # <<>>
    /\ LET w == Head(wakers[t]) IN woken' = woken \cup {f \in {w[1]} : cx[f] = w[2]}
    /\ wakers' = [wakers EXCEPT ![t] = Tail(@)]
    /\ UNCHANGED <<shared, future, op, left, calls, pc>>

WakeEnd(t) ==
    /\ pc[t] = "wake" /\ wakers[t] = <<>>
    /\ mutex' = IF mutex = t THEN NONE ELSE mutex
    /\ Finish(t)
    /\ UNCHANGED <<queue, drained, closed, flag, future, woken, wakers, calls>>

(* The list was woken: notify_many looks for more, a drain locks again. *)
WakeMore(t) ==
    /\ pc[t] = "wake_more" /\ wakers[t] = <<>>
    /\ \/ op[t] = "many" /\ Goto(t, "read") /\ UNCHANGED mutex
       \/ op[t] # "many" /\ mutex = NONE /\ mutex' = t /\ Goto(t, "drain")
    /\ UNCHANGED <<queue, drained, closed, flag, future, woken, wakers, calls>>

-----------------------------------------------------------------------------
FutureStep(f) == PollState(f) \/ PollLocked(f) \/ PollEnqueue(f) \/ PollEnd(f) \/ DropLocked(f)
ThreadStep(t) ==
    \/ ReadEmpty(t) \/ Lock(t) \/ NotifyOne(t) \/ NotifyMany(t) \/ NotifyManyEnd(t)
    \/ DrainQueue(t) \/ DrainNext(t) \/ DrainEnd(t) \/ Wake(t) \/ WakeEnd(t) \/ WakeMore(t)

Next ==
    \/ \E f \in Futures : FutureStep(f) \/ Drop(f)
    \/ \E f \in Futures : (\E k \in Tasks : Poll(f, k)) \/ (\E k \in Kinds : New(f, k))
    \/ \E t \in Threads : ThreadStep(t) \/ (\E o \in Ops, c \in 0..MaxCount : Call(t, o, c))

Spec == Init /\ [][Next]_vars

(* A call of poll, of a destructor or of a method goes on, and a task on   *)
(* whose waker wake was called polls its future.                           *)
PollWoken(f) == f \in woken /\ \E k \in Tasks : Poll(f, k)

FairSpec ==
    /\ Spec
    /\ \A f \in Futures : WF_vars(FutureStep(f)) /\ WF_vars(PollWoken(f))
    /\ \A t \in Threads : WF_vars(ThreadStep(t))
-----------------------------------------------------------------------------
(* The last poll returned Pending. *)
Pending(f) == fpc[f] = "idle" /\ cx[f] # NONE

TypeOK ==
    /\ queue \in Seq(Futures) /\ drained \in [Threads -> Seq(Futures)]
    /\ closed \in BOOLEAN /\ flag \in BOOLEAN
    /\ mutex \in Threads \cup {NONE}
    /\ status \in [Futures -> {"Unqueued", "Queued", "Dequeued"}]
    /\ waker \in [Futures -> Tasks \cup {NONE}]
    /\ kind \in [Futures -> Kinds \cup {NONE}]
    /\ predicate \in [Futures -> BOOLEAN]
    /\ cx \in [Futures -> Tasks \cup {NONE}]
    /\ fpc \in [Futures -> {"idle", "state", "lock", "enqueue", "pending", "ready",
                            "done", "panic", "drop", "gone"}]
    /\ woken \subseteq Futures
    /\ op \in [Threads -> Ops \cup {NONE}]
    /\ left \in [Threads -> 0..MaxCount]
    /\ wakers \in [Threads -> Seq(Futures \X Tasks)]
    /\ calls \in [Threads -> 0..MaxCalls]
    /\ pc \in [Threads -> {"idle", "read", "lock", "locked", "drain", "wake", "wake_more"}]

(* The unchecked operations are safe: dequeue and pop of notify_one and    *)
(* notify_last find a node although the queue was looked at before (by     *)
(* is_empty_or_locked), every node that can be notified holds a waker      *)
(* (unwrap_unchecked), and a WakerList is never pushed to when it is full. *)
UncheckedIsSafe ==
    /\ \A t \in Threads :
        /\ pc[t] = "locked" /\ op[t] # "many" => queue # <<>>
        /\ pc[t] = "locked" => Len(wakers[t]) < Capacity
        /\ pc[t] = "drain" /\ drained[t] # <<>> => Len(wakers[t]) < Capacity
    /\ \A f \in Futures : status[f] = "Queued" => waker[f] # NONE

(* No wake-up is lost (poll_wait, notify_*, close): a future that returned *)
(* Pending is in a list with the waker of its last poll, or that waker was *)
(* woken or is about to be.                                                *)
NoLostWakeup ==
    \A f \in Futures : Pending(f) =>
        \/ /\ waker[f] = cx[f]
           /\ InSeq(f, queue) \/ \E t \in Threads : InSeq(f, drained[t])
        \/ f \in woken
        \/ \E t \in Threads : InSeq(<<f, cx[f]>>, wakers[t])

(* wait_until panics only if the queue is closed, as its message says.     *)
PanicOnlyIfClosed == \A f \in Futures : fpc[f] = "panic" => Closed

(* A closed queue stays closed, and it is closed when close returns.       *)
CloseIsFinal ==
    [][/\ Closed => Closed'
       /\ \A t \in Threads : op[t] = "close" /\ pc[t] # "idle" /\ pc'[t] = "idle" => Closed']_vars

(* After close every future that was waiting ends: nobody is left behind   *)
(* in the queue or in a drained list.                                      *)
CloseReleases ==
    \A f \in Futures : Closed /\ Pending(f) ~> fpc[f] \in {"done", "panic", "gone", "drop"}

(* A wait_if or wait_until whose condition was made true before notify_all *)
(* was called ends, even if the condition changed while it was about to    *)
(* wait.                                                                   *)
ConditionSeen ==
    \A f \in Futures :
        flag /\ Pending(f) /\ kind[f] # "wait" ~> fpc[f] \in {"done", "panic", "gone", "drop"}
=============================================================================
