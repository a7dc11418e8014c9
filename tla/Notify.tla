------------------------------- MODULE Notify -------------------------------
(***************************************************************************)
(* Notify of examples/notify.rs.  The state of the empty queue is the      *)
(* notification that is stored while nobody waits; generation counts the   *)
(* calls of notify_waiters, and a future is ready once it differs from the *)
(* one the future was created with.  The queue is used through the         *)
(* promises of AtomicQueue.  A future that is dropped, or ready for        *)
(* another reason, passes a notification it was given on, so futures run   *)
(* notify_one and notify_last just as threads do.                          *)
(***************************************************************************)
EXTENDS Lists, FiniteSets

CONSTANTS
    Futures,        \* futures of notified and notified_owned, each created once
    Threads,        \* threads that notify
    Tasks,          \* wakers a future may be polled with
    Capacity,       \* of the ArrayVec of wakers
    MaxCalls,       \* bound on the calls of each thread
    CallAfterReady  \* poll and enable may be called whatever made the future ready

NONE             == "none"
STATE_UNNOTIFIED == 0
STATE_NOTIFIED   == 1

Actors == Futures \cup Threads

ASSUME NotifyAssumption ==
    /\ Futures \cap Threads = {}
    /\ NONE \notin Actors \cup Tasks
    /\ {Capacity, MaxCalls} \subseteq Nat /\ Capacity > 0
    /\ IsFiniteSet(Actors)
    /\ CallAfterReady \in BOOLEAN

VARIABLES
    queue,          \* the waiting nodes, oldest first
    drained,        \* drained[t]: the nodes the drain of t still holds
    state,          \* the queue's state; UNNOTIFIED while somebody waits
    mutex,          \* the thread that holds the lock between two steps
    generation,     \* Notify::generation
    node,           \* node[f]: its status, as in AtomicQueue, and its Waiter
    fut,            \* fut[f]: the fields of NotifiedInner and of the call that runs
    woken,          \* futures whose last waker was woken
    op,             \* the notification each actor hands out
    wakers,         \* the wakers each actor has taken out of nodes
    calls,          \* calls made by each thread
    tokens,         \* history: notify_one and notify_last that are under way
    pc              \* where each actor stands

shared == <<queue, drained, state, mutex, generation>>
vars   == <<shared, node, fut, woken, op, wakers, calls, tokens, pc>>

NewNode == [status |-> "Unqueued", waker |-> NONE, notification |-> NONE]

(* created and completed are fields of NotifiedInner; cx is the waker of   *)
(* the last poll until the future is ready, enabling says that the running *)
(* call is enable, and seen is the state it has read (2 for None).         *)
NewFuture(g) == [created |-> g, completed |-> FALSE, cx |-> NONE, enabling |-> FALSE, seen |-> 2]

Init ==
    /\ queue = <<>>
    /\ drained = [t \in Threads |-> <<>>]
    /\ state = STATE_UNNOTIFIED
    /\ mutex = NONE
    /\ generation = 0
    /\ node = [f \in Futures |-> NewNode]
    /\ fut = [f \in Futures |-> NewFuture(0)]
    /\ woken = {}
    /\ op = [a \in Actors |-> NONE]
    /\ wakers = [a \in Actors |-> <<>>]
    /\ calls = [t \in Threads |-> 0]
    /\ tokens = 0
    /\ pc = [a \in Actors |-> IF a \in Futures THEN "new" ELSE "idle"]

Goto(a, l) == pc' = [pc EXCEPT ![a] = l]

OptState == IF queue = <<>> THEN state ELSE 2       \* Queue::state

(* Taking f out of its list; the last node of the queue leaves UNNOTIFIED, *)
(* which the state is while somebody waits.                                *)
TakeOut(f) ==
    /\ queue' = Without(queue, f)
    /\ drained' = [t \in Threads |-> Without(drained[t], f)]

Stale(f)  == generation # fut[f].created
Status(f) == node[f].status

-----------------------------------------------------------------------------
(* The end of a call *)

\* Mutant: completed is not set.
CompletedKept(f) == fut[f].completed

Completed(f) == TRUE

(* poll or enable is Ready. *)
Ready(f) ==
    /\ Goto(f, "idle")
    /\ fut' = [fut EXCEPT ![f] = [NewFuture(@.created) EXCEPT !.completed = Completed(f)]]
    /\ woken' = woken \ {f}

(* The future and its node are gone. *)
Gone(f) ==
    /\ Goto(f, "gone")
    /\ node' = [node EXCEPT ![f] = NewNode]
    /\ fut' = [fut EXCEPT ![f] = NewFuture(0)]
    /\ woken' = woken \ {f}

(* notify_single and cancel return to who called them: a method, a poll,   *)
(* or the destructor, which Drop marks by the missing waker.               *)
Dropping(f) == fut[f].cx = NONE /\ ~fut[f].enabling

Return(a) ==
    \/ a \in Threads /\ Goto(a, "idle") /\ UNCHANGED <<node, fut, woken>>
    \/ a \in Futures /\ ~Dropping(a) /\ Ready(a) /\ UNCHANGED node
    \/ a \in Futures /\ Dropping(a) /\ Gone(a)

-----------------------------------------------------------------------------
(* notify_one and notify_last *)

(* fetch_update_state: nobody waits, the notification is stored, unless    *)
(* there is one already.  new counts the notification that this call adds. *)
Store(a, new) ==
    /\ queue = <<>>
    /\ state' = STATE_NOTIFIED
    /\ tokens' = tokens + new - (IF state = STATE_NOTIFIED THEN 1 ELSE 0)
    /\ op' = [op EXCEPT ![a] = NONE]
    /\ Return(a)
    /\ UNCHANGED <<queue, drained, mutex, generation, wakers>>

NotifySingle(a, n, new) ==
    \/ Store(a, new)
    \/ /\ queue # <<>>
       /\ op' = [op EXCEPT ![a] = n]
       /\ tokens' = tokens + new
       /\ Goto(a, "single")
       /\ UNCHANGED <<shared, node, fut, woken, wakers>>

\* Mutant: the waker is taken for granted.
TakenWakerAny(f) == <<<<f, node[f].waker>>>>

(* An Option: a waiter that was only enabled has no waker. *)
TakenWaker(f) == IF node[f].waker = NONE THEN <<>> ELSE <<<<f, node[f].waker>>>>

(* Note the notification, take the waker, give the node back. *)
Take(a, f, n) ==
    /\ TakeOut(f)
    /\ node' = [node EXCEPT ![f] = [status |-> "Dequeued", waker |-> NONE, notification |-> n]]
    /\ wakers' = [wakers EXCEPT ![a] = @ \o TakenWaker(f)]

(* With the lock: once more, or wake_single. *)
WakeSingle(a) ==
    /\ pc[a] = "single"
    /\ mutex = NONE
    /\ \/ Store(a, 0)
       \/ /\ queue # <<>>
          /\ Take(a, IF op[a] = "One" THEN Head(queue) ELSE queue[Len(queue)], op[a])
          /\ op' = [op EXCEPT ![a] = NONE]
          /\ Goto(a, "wake")
          /\ UNCHANGED <<state, mutex, generation, fut, woken, tokens>>

(* Waker::wake of the next waker: its task polls the future again. *)
Wake(a) ==
    /\ pc[a] \in {"wake", "wake_more"}
    /\ wakers[a] # <<>>
    /\ LET w == Head(wakers[a]) IN woken' = woken \cup {f \in {w[1]} : fut[f].cx = w[2]}
    /\ wakers' = [wakers EXCEPT ![a] = Tail(@)]
    /\ UNCHANGED <<shared, node, fut, op, tokens, pc>>

WakeEnd(a) ==
    /\ pc[a] = "wake" /\ wakers[a] = <<>>
    /\ Return(a)
    /\ UNCHANGED <<shared, op, wakers, tokens>>

-----------------------------------------------------------------------------
(* notify_waiters *)

(* The lock is taken, and the generation counted, even if nobody waits. *)
WaitersLock(t) ==
    /\ pc[t] = "waiters"
    /\ mutex = NONE
    /\ mutex' = t
    /\ generation' = generation + 1
    /\ Goto(t, "count")
    /\ UNCHANGED <<queue, drained, state, node, wakers>>

(* drain_try_set_state(STATE_UNNOTIFIED): an empty queue keeps its state. *)
WaitersDrain(t) ==
    /\ pc[t] = "count"
    /\ drained' = [drained EXCEPT ![t] = queue]
    /\ queue' = <<>>
    /\ state' = IF queue = <<>> THEN state ELSE STATE_UNNOTIFIED
    /\ Goto(t, "drain")
    /\ UNCHANGED <<mutex, generation, node, wakers>>

(* Drain::for_each: a full list is woken without the lock if there is more. *)
DrainNext(t) ==
    /\ pc[t] = "drain" /\ drained[t] # <<>>
    /\ Take(t, Head(drained[t]), "All")
    /\ LET full == Len(wakers'[t]) = Capacity /\ drained'[t] # <<>> IN
        /\ mutex' = IF full THEN NONE ELSE t
        /\ Goto(t, IF full THEN "wake_more" ELSE "drain")
    /\ UNCHANGED <<state, generation>>

WakeMore(t) ==
    /\ pc[t] = "wake_more" /\ wakers[t] = <<>>
    /\ mutex = NONE
    /\ mutex' = t
    /\ Goto(t, "drain")
    /\ UNCHANGED <<queue, drained, state, generation, node, wakers>>

\* Mutant: the wakers that are left at the end of the drain are not woken.
LeftWakersNone(t) == <<>>

LeftWakers(t) == wakers[t]

DrainEnd(t) ==
    /\ pc[t] = "drain" /\ drained[t] = <<>>
    /\ mutex' = NONE
    /\ wakers' = [wakers EXCEPT ![t] = LeftWakers(t)]
    /\ Goto(t, "wake")
    /\ UNCHANGED <<queue, drained, state, generation, node>>

-----------------------------------------------------------------------------
(* Futures: notified, poll, enable, and the destructor. *)

Notified(f) ==
    /\ pc[f] = "new"
    /\ fut' = [fut EXCEPT ![f] = NewFuture(generation)]
    /\ Goto(f, "idle")
    /\ UNCHANGED <<shared, node, woken, op, wakers, tokens>>

IsSingle(f) == node[f].notification \in {"One", "Last"}

(* The node is Dequeued: a notification it carries is used up. *)
ReadyDequeued(f) ==
    /\ Status(f) = "Dequeued"
    /\ tokens' = IF IsSingle(f) /\ ~fut[f].completed THEN tokens - 1 ELSE tokens
    /\ Ready(f)
    /\ UNCHANGED <<shared, node>>

(* Ready for a reason that lasts: the node was taken out of the queue, or  *)
(* notify_waiters was called since the future was created.                 *)
Settled(f) ==
    /\ fut[f].completed
    /\ \/ Status(f) = "Dequeued"
       \/ Stale(f) /\ Status(f) = "Unqueued" /\ pc[f] \in {"idle", "unqueued"}

(* poll with waker k, or enable if k is NONE: Node::state without the lock. *)
Poll(f, k) ==
    /\ pc[f] = "idle" /\ (fut[f].completed => CallAfterReady \/ Settled(f))
    /\ \/ ReadyDequeued(f)
       \/ /\ Status(f) # "Dequeued"
          /\ Goto(f, IF Status(f) = "Unqueued" THEN "unqueued" ELSE "lock")
          /\ fut' = [fut EXCEPT ![f].cx = IF k = NONE THEN @ ELSE k, ![f].enabling = (k = NONE)]
          /\ woken' = IF k = NONE THEN woken ELSE woken \ {f}
          /\ UNCHANGED <<shared, node, tokens>>
    /\ UNCHANGED <<op, wakers>>

\* Mutant: the generation is only looked at after the insertion.
PollUnqueuedBlind(f) ==
    /\ pc[f] = "unqueued"
    /\ Goto(f, "update")
    /\ UNCHANGED <<shared, node, fut, woken, op, wakers, tokens>>

(* The loop of an Unqueued node: first the generation, ... *)
PollUnqueued(f) ==
    /\ pc[f] = "unqueued"
    /\ \/ Stale(f) /\ Ready(f)
       \/ ~Stale(f) /\ Goto(f, "update") /\ UNCHANGED <<fut, woken>>
    /\ UNCHANGED <<shared, node, op, wakers, tokens>>

(* ... then the stored notification is used up, or the waker stored, ... *)
PollUpdate(f) ==
    /\ pc[f] = "update"
    /\ \/ /\ OptState = STATE_NOTIFIED
          /\ state' = STATE_UNNOTIFIED
          /\ tokens' = tokens - 1
          /\ Ready(f)
          /\ UNCHANGED node
       \/ /\ OptState # STATE_NOTIFIED
          /\ fut' = [fut EXCEPT ![f].seen = OptState]
          /\ node' = [node EXCEPT ![f].waker = IF fut[f].enabling \/ @ # NONE THEN @ ELSE fut[f].cx]
          /\ Goto(f, "enqueue")
          /\ UNCHANGED <<state, tokens, woken>>
    /\ UNCHANGED <<queue, drained, mutex, generation, op, wakers>>

(* ... then the node is inserted if the state is still the same, ... *)
PollEnqueue(f) ==
    /\ pc[f] = "enqueue"
    /\ \/ /\ OptState = fut[f].seen
          /\ queue' = Append(queue, f)
          /\ state' = STATE_UNNOTIFIED
          /\ node' = [node EXCEPT ![f].status = "Queued"]
          /\ Goto(f, "recheck")
       \/ /\ OptState # fut[f].seen
          /\ Goto(f, "unqueued")
          /\ UNCHANGED <<queue, state, node>>
    /\ fut' = [fut EXCEPT ![f].seen = 2]
    /\ UNCHANGED <<drained, mutex, generation, woken, op, wakers, tokens>>

Pend(f) ==
    /\ Goto(f, "idle")
    /\ fut' = [fut EXCEPT ![f].enabling = FALSE]
    /\ UNCHANGED woken

\* Mutant: cancel of a dequeued node passes nothing on.
OwedNever(f) == FALSE

Owed(f) == IsSingle(f) /\ ~(fut[f].completed /\ Dropping(f))

(* cancel, Dequeued: a notification for one waiter is passed on. *)
PassOn(f) ==
    /\ Status(f) = "Dequeued"
    /\ \/ Owed(f) /\ NotifySingle(f, node[f].notification, 0)
       \/ ~Owed(f) /\ Return(f) /\ UNCHANGED <<shared, op, wakers, tokens>>

\* Mutant: the generation is not looked at again.
StaleNow(f) == FALSE

StaleAfterInsertion(f) == Stale(f)

(* ... and the generation is looked at again: notify_waiters may have been *)
(* called before the insertion and may not have seen the node.  If so the  *)
(* result is Ready(true) and cancel is called.                             *)
PollRecheck(f) ==
    /\ pc[f] = "recheck"
    /\ \/ StaleAfterInsertion(f) /\ PassOn(f)
       \/ /\ StaleAfterInsertion(f) /\ Status(f) = "Queued"
          /\ Goto(f, "cancel")
          /\ UNCHANGED <<shared, node, fut, woken, op, wakers, tokens>>
       \/ ~StaleAfterInsertion(f) /\ Pend(f) /\ UNCHANGED <<shared, node, op, wakers, tokens>>

\* Mutant: a queued waiter keeps the waker it has.
UpdatedWakerKept(f) == node[f].waker

UpdatedWaker(f) == IF fut[f].enabling THEN node[f].waker ELSE fut[f].cx

(* Node::state of a Queued node, with the lock. *)
PollLocked(f) ==
    /\ pc[f] = "lock"
    /\ mutex = NONE
    /\ \/ ReadyDequeued(f)
       \/ /\ Status(f) = "Queued" /\ Stale(f)
          /\ TakeOut(f)
          /\ node' = [node EXCEPT ![f].status = "Dequeued"]
          /\ Ready(f)
          /\ UNCHANGED <<state, mutex, generation, tokens>>
       \/ /\ Status(f) = "Queued" /\ ~Stale(f)
          /\ node' = [node EXCEPT ![f].waker = UpdatedWaker(f)]
          /\ Pend(f)
          /\ UNCHANGED <<shared, tokens>>
    /\ UNCHANGED <<op, wakers>>

(* cancel, or the destructor of the node, with the lock *)
CancelLocked(f) ==
    /\ pc[f] = "cancel"
    /\ mutex = NONE
    /\ \/ PassOn(f)
       \/ /\ Status(f) = "Queued"
          /\ TakeOut(f)
          /\ \/ ~Dropping(f) /\ Ready(f) /\ node' = [node EXCEPT ![f].status = "Dequeued"]
             \/ Dropping(f) /\ Gone(f)
          /\ UNCHANGED <<state, mutex, generation, op, wakers, tokens>>

(* Drop of NotifiedInner: cancel, unless the future is completed; the      *)
(* destructor of the node takes the lock if it is still queued.            *)
Drop(f) ==
    /\ pc[f] = "idle"
    /\ \/ /\ Status(f) # "Queued" /\ (fut[f].completed \/ Status(f) = "Unqueued")
          /\ Gone(f)
       \/ /\ Status(f) = "Queued" \/ (~fut[f].completed /\ Status(f) = "Dequeued")
          /\ Goto(f, IF Status(f) = "Queued" THEN "cancel" ELSE "drop")
          /\ fut' = [fut EXCEPT ![f].cx = NONE]
          /\ woken' = woken \ {f}
          /\ UNCHANGED node
    /\ UNCHANGED <<shared, op, wakers, tokens>>

DropDequeued(f) == pc[f] = "drop" /\ PassOn(f)

-----------------------------------------------------------------------------
FutureStep(f) ==
    /\ \/ PollUnqueued(f) \/ PollUpdate(f) \/ PollEnqueue(f) \/ PollRecheck(f) \/ PollLocked(f)
       \/ CancelLocked(f) \/ DropDequeued(f)
    /\ UNCHANGED calls

WaitersStep(t) ==
    /\ WaitersLock(t) \/ WaitersDrain(t) \/ DrainNext(t) \/ WakeMore(t) \/ DrainEnd(t)
    /\ UNCHANGED <<fut, woken, op, calls, tokens>>

NotifyStep(a) == (WakeSingle(a) \/ Wake(a) \/ WakeEnd(a)) /\ UNCHANGED calls

PollStep(f, k) == Poll(f, k) /\ UNCHANGED calls

(* A thread calls notify_one, notify_last or notify_waiters. *)
Call(t) ==
    /\ pc[t] = "idle" /\ calls[t] < MaxCalls
    /\ calls' = [calls EXCEPT ![t] = @ + 1]
    /\ \/ \E n \in {"One", "Last"} : NotifySingle(t, n, 1)
       \/ Goto(t, "waiters") /\ UNCHANGED <<shared, node, fut, woken, op, wakers, tokens>>

Next ==
    \/ \E a \in Actors : NotifyStep(a)
    \/ \E f \in Futures : FutureStep(f) \/ \E k \in Tasks \cup {NONE} : PollStep(f, k)
    \/ \E f \in Futures : (Notified(f) \/ Drop(f)) /\ UNCHANGED calls
    \/ \E t \in Threads : WaitersStep(t) \/ Call(t)

Spec == Init /\ [][Next]_vars

(* A call of poll, of a destructor or of a method goes on, and a task on   *)
(* whose waker wake was called polls its future.                           *)
FairSpec ==
    /\ Spec
    /\ \A a \in Actors : WF_vars(NotifyStep(a))
    /\ \A t \in Threads : WF_vars(WaitersStep(t))
    /\ \A f \in Futures :
        WF_vars(FutureStep(f)) /\ WF_vars(f \in woken /\ \E k \in Tasks : PollStep(f, k))
-----------------------------------------------------------------------------
(* The last poll returned Pending. *)
Pending(f) == pc[f] = "idle" /\ fut[f].cx # NONE

Types ==
    /\ queue \in Seq(Futures) /\ drained \in [Threads -> Seq(Futures)]
    /\ state \in {STATE_UNNOTIFIED, STATE_NOTIFIED}
    /\ mutex \in Threads \cup {NONE}
    /\ generation \in Nat
    /\ node \in [Futures -> [status : {"Unqueued", "Queued", "Dequeued"}, waker : Tasks \cup {NONE},
                            notification : {"One", "Last", "All", NONE}]]
    /\ fut \in [Futures -> [created : 0..generation, completed : BOOLEAN, cx : Tasks \cup {NONE},
                           enabling : BOOLEAN, seen : 0..2]]
    /\ woken \subseteq Futures
    /\ op \in [Actors -> {"One", "Last", NONE}]
    /\ wakers \in [Actors -> Seq(Futures \X Tasks)]
    /\ calls \in [Threads -> 0..MaxCalls]
    /\ pc \in [Actors -> {"new", "gone", "idle", "unqueued", "update", "enqueue", "recheck", "lock",
                          "cancel", "drop", "single", "wake", "waiters", "count", "drain",
                          "wake_more"}]

TypeOK == Types /\ tokens \in Nat

(* A notification that f was given and has neither used up nor passed on. *)
Carries(f) ==
    /\ Status(f) = "Dequeued" /\ IsSingle(f)
    /\ ~fut[f].completed
    /\ pc[f] \notin {"single", "wake"}

(* No notify_one or notify_last is lost, whatever is dropped, cancelled or *)
(* released by notify_waiters meanwhile: each one whose notification was   *)
(* neither used up by a future that became ready nor merged with a stored  *)
(* one is stored, is carried by a waiter, or is being handed out.          *)
NotificationsConserved ==
    tokens = (IF state = STATE_NOTIFIED THEN 1 ELSE 0)
             + Cardinality({f \in Futures : Carries(f)})
             + Cardinality({a \in Actors : pc[a] = "single"})

(* notify_waiters leaves nobody behind: a waiter that was created before   *)
(* it, and whose poll returned Pending, is not in the queue any more once  *)
(* the queue was drained.                                                  *)
NoStaleWaiter ==
    \A f \in Futures : pc[f] = "idle" /\ InSeq(f, queue) /\ Stale(f) =>
        \E t \in Threads : pc[t] = "count"

(* cancel may unwrap the notification: a node that was dequeued, in a      *)
(* future that is not completed, was dequeued by a notifier.               *)
CancelUnwrapIsSafe ==
    \A f \in Futures : Status(f) = "Dequeued" /\ ~fut[f].completed => node[f].notification # NONE

(* No wake-up is lost: a future that returned Pending waits with the waker *)
(* of its last poll, even if enable was called before or after, or that    *)
(* waker was woken or is about to be.                                      *)
NoLostWakeup ==
    \A f \in Futures : Pending(f) =>
        \/ /\ node[f].waker = fut[f].cx
           /\ InSeq(f, queue) \/ \E t \in Threads : InSeq(f, drained[t])
        \/ f \in woken
        \/ \E a \in Actors : InSeq(<<f, fut[f].cx>>, wakers[a])

(* A waiting future that was notified, alone or with all others, becomes   *)
(* ready unless it is dropped.                                             *)
NotifiedBecomesReady ==
    \A f \in Futures :
        Pending(f) /\ (Stale(f) \/ Status(f) = "Dequeued") ~> fut[f].completed \/ Dropping(f)

(* A future that is ready stays ready: poll and enable, called once more,  *)
(* do not make it wait again.                                              *)
ReadyStaysReady ==
    \A f \in Futures : fut[f].completed /\ pc[f] = "idle" => Status(f) # "Queued"

(* Such a future is ready until it is dropped, whatever is called on it,   *)
(* and passes nothing on then.  What remains of ReadyStaysReady is broken  *)
(* by the stored notification alone.                                       *)
SettledStaysReady ==
    [][\A f \in Futures :
        Settled(f) => \/ Settled(f)' /\ (pc[f] = "idle" => pc'[f] \in {"idle", "unqueued"})
                      \/ pc'[f] = "gone"]_vars
=============================================================================
