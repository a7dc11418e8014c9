----------------------------- MODULE Semaphore -----------------------------
(***************************************************************************)
(* Semaphore of examples/semaphore.rs.  The state of the empty queue is    *)
(* the number of permits, shifted, and the bit CLOSED; while somebody      *)
(* waits there are no permits to keep.  The queue is used through the      *)
(* promises of AtomicQueue.  A client acquires, waits, is polled, gives    *)
(* up, releases what it holds, and may call the methods that add or forget *)
(* permits or close the semaphore.                                         *)
(***************************************************************************)
EXTENDS TailState, Lists, FiniteSets

CONSTANTS
    Clients,        \* tasks; each has one Acquire future with its node
    Tasks,          \* wakers a future may be polled with
    Sizes,          \* arguments of acquire_many, add_permits, forget_permits
    OwnedSizes,     \* arguments of acquire_many_owned
    Permits,        \* argument of new
    Capacity,       \* of the ArrayVec of wakers
    U32Max,         \* u32::MAX
    MaxTotal,       \* bound on the permits that exist
    MaxCalls,       \* bound on the calls of add_permits, forget_permits, close
    AbandonPartial  \* a lone waiter that has got some permits may give up

NONE   == "none"
CLOSED == 1

MAX_PERMITS == UsizeMax \div 8

(* No argument exceeds MAX_PERMITS; together they may. *)
ASSUME SemaphoreAssumption ==
    /\ NONE \notin Clients \cup Tasks /\ IsFiniteSet(Clients)
    /\ {Permits, Capacity, U32Max, MaxTotal, MaxCalls} \cup Sizes \cup OwnedSizes \subseteq Nat
    /\ 0 \notin Sizes \cup OwnedSizes \cup {Capacity}
    /\ \A n \in Sizes \cup OwnedSizes \cup {Permits} : n <= MAX_PERMITS
    /\ Permits <= MaxTotal
    /\ AbandonPartial \in BOOLEAN

VARIABLES
    queue,      \* the waiting nodes, oldest first
    drained,    \* drained[c]: the nodes the drain of c still holds
    state,      \* the queue's state; 0 while somebody waits
    mutex,      \* the client that holds the lock between two steps
    node,       \* node[c]: its status, as in AtomicQueue, and its Waiter
    fut,        \* fut[c]: the Acquire future of c
    held,       \* SemaphorePermit::permits, all of the client's objects
    woken,      \* clients whose last waker was woken
    add,        \* permits of the add_permits that is running
    wakers,     \* the wakers taken out of nodes
    total,      \* history: the permits that should exist
    calls,      \* calls that were made
    pc          \* where each client stands

shared == <<queue, drained, state, mutex>>
adding == <<add, wakers>>
vars   == <<shared, node, fut, held, woken, adding, total, calls, pc>>

NewNode == [status |-> "Unqueued", waker |-> NONE, remaining |-> 0]

(* want is Acquire::permits; size, what the object that is acquired will   *)
(* stand for; cx, the waker of the last poll; seen, the state that poll    *)
(* has read (-1 for None).                                                 *)
NewFuture == [want |-> 0, size |-> 0, cx |-> NONE, seen |-> -1]

Init ==
    /\ queue = <<>>
    /\ drained = [c \in Clients |-> <<>>]
    /\ state = 2 * Permits
    /\ mutex = NONE
    /\ node = [c \in Clients |-> NewNode]
    /\ fut = [c \in Clients |-> NewFuture]
    /\ held = [c \in Clients |-> 0]
    /\ woken = {}
    /\ add = [c \in Clients |-> 0]
    /\ wakers = [c \in Clients |-> <<>>]
    /\ total = Permits
    /\ calls = 0
    /\ pc = [c \in Clients |-> "idle"]

Goto(c, l) == pc' = [pc EXCEPT ![c] = l]

IsClosed  == queue = <<>> /\ state % 2 = CLOSED
OptState  == IF queue = <<>> THEN state ELSE -1      \* Queue::state
Status(c) == node[c].status

\* Mutant: the subtraction is not checked.
CanAcquireAny(n) == queue = <<>> /\ ~IsClosed

(* check_acquire_permits: checked_sub *)
CanAcquire(n) == queue = <<>> /\ ~IsClosed /\ state >= 2 * n

TakeOut(c) ==
    /\ queue' = Without(queue, c)
    /\ drained' = [d \in Clients |-> Without(drained[d], c)]

(* The future and its node are gone. *)
Gone(c) ==
    /\ node' = [node EXCEPT ![c] = NewNode]
    /\ fut' = [fut EXCEPT ![c] = NewFuture]
    /\ woken' = woken \ {c}

-----------------------------------------------------------------------------
(* add_permits: without the lock if the queue is empty ... *)

\* Mutant: the assertion is missing.
CheckAddUnchecked(s, n) == s + 2 * n

(* The assertion of check_add_permits fails: the permits exceed the limit  *)
(* with those that are there.                                              *)
PermitsOverflow(s, n) == n > MAX_PERMITS - (s \div 2)

(* It unwinds out of add_permits, a release or the destructor of a future, *)
(* before anything is stored: the call is over and its permits are gone.   *)
(* Whoever catches the panic may go on.                                    *)
CheckAdd(s, n) == IF PermitsOverflow(s, n) THEN s ELSE s + 2 * n

Refused(n) == queue = <<>> /\ PermitsOverflow(state, n)

(* Adding n permits from a step that does not touch the queue otherwise. *)
AddPermits(c, n) ==
    /\ state' = IF queue = <<>> THEN CheckAdd(state, n) ELSE state
    /\ add' = [add EXCEPT ![c] = IF queue = <<>> THEN 0 ELSE n]
    /\ Goto(c, IF n = 0 \/ queue = <<>> THEN "idle" ELSE "add")
    /\ UNCHANGED <<queue, drained, mutex, wakers>>

\* Mutant: the queue is not looked at again under the lock.
EmptyWhenLockedNo == FALSE

EmptyWhenLocked == queue = <<>>

(* ... and tried again with it. *)
AddLock(c) ==
    /\ pc[c] = "add"
    /\ mutex = NONE
    /\ \/ EmptyWhenLocked /\ AddPermits(c, add[c])
       \/ /\ ~EmptyWhenLocked
          /\ mutex' = c
          /\ Goto(c, "locked")
          /\ UNCHANGED <<queue, drained, state, adding>>
    /\ UNCHANGED <<node, fut, woken>>

NotEnough(d, n) == node[d].remaining > n

(* One iteration of add_permits_locked: the oldest waiter gets all there   *)
(* is, and is put back, ...                                                *)
ServePart(c) ==
    /\ pc[c] = "locked" /\ NotEnough(Head(queue), add[c])
    /\ node' = [node EXCEPT ![Head(queue)].remaining = @ - add[c]]
    /\ add' = [add EXCEPT ![c] = 0]
    /\ mutex' = NONE
    /\ Goto(c, "wake")
    /\ UNCHANGED <<queue, drained, state, fut, woken, wakers>>

(* Take the waker out of the node and give the node back to its owner. *)
Take(c, d, r) ==
    /\ TakeOut(d)
    /\ wakers' = [wakers EXCEPT ![c] = Append(@, <<d, node[d].waker>>)]
    /\ node' = [node EXCEPT ![d] = [status |-> "Dequeued", waker |-> NONE, remaining |-> r]]

\* Mutant: what is left over is stored without the shift.
LeftoverRaw(n) == n

Leftover(n) == 2 * n

(* ... or all it needs; a full list of wakers is woken without the lock. *)
ServeAll(c) ==
    LET d == Head(queue)
        n == add[c] - node[d].remaining
    IN  /\ pc[c] = "locked" /\ ~NotEnough(d, add[c])
        /\ Take(c, d, 0)
        /\ state' = IF queue' = <<>> THEN Leftover(n) ELSE state
        /\ LET end  == queue' = <<>> \/ n = 0
               full == Len(wakers'[c]) = Capacity
           IN /\ add' = [add EXCEPT ![c] = IF queue' = <<>> THEN 0 ELSE n]
              /\ mutex' = IF end \/ full THEN NONE ELSE c
              /\ Goto(c, IF end THEN "wake" ELSE IF full THEN "wake_add" ELSE "locked")
        /\ UNCHANGED <<fut, woken>>

(* Waker::wake of the next waker: its task polls the future again. *)
Wake(c) ==
    /\ pc[c] \in {"wake", "wake_add", "wake_drain"}
    /\ wakers[c] # <<>>
    /\ LET w == Head(wakers[c]) IN
        woken' = woken \cup {d \in {w[1]} : pc[d] # "idle" /\ fut[d].cx = w[2]}
    /\ wakers' = [wakers EXCEPT ![c] = Tail(@)]
    /\ UNCHANGED <<shared, node, fut, add, pc>>

(* The list was woken: add_permits_locked goes on with what is left, a     *)
(* drain locks again.                                                      *)
WakeEnd(c) ==
    /\ wakers[c] = <<>>
    /\ \/ pc[c] = "wake" /\ Goto(c, "idle") /\ UNCHANGED <<shared, adding>>
       \/ pc[c] = "wake_add" /\ AddPermits(c, add[c])
       \/ /\ pc[c] = "wake_drain" /\ mutex = NONE
          /\ mutex' = c
          /\ Goto(c, "drain")
          /\ UNCHANGED <<queue, drained, state, adding>>
    /\ UNCHANGED <<node, fut, woken>>

-----------------------------------------------------------------------------
(* Acquiring *)

(* try_acquire_many, try_acquire_many_owned, and the first attempt of      *)
(* acquire_many and acquire_many_owned; what is acquired is merged into    *)
(* what the client holds.                                                  *)
TryAcquire(c, n, s) ==
    /\ pc[c] = "idle"
    /\ CanAcquire(n)
    /\ state' = state - 2 * n
    /\ held' = [held EXCEPT ![c] = @ + s]
    /\ UNCHANGED <<queue, drained, mutex, node, fut, woken, adding, pc>>

(* Otherwise acquire_many awaits an Acquire future: its first poll. *)
Acquire(c, n, s, k) ==
    /\ pc[c] = "idle" /\ held[c] = 0
    /\ ~CanAcquire(n)
    /\ fut' = [fut EXCEPT ![c] = [want |-> n, size |-> s, cx |-> k, seen |-> -1]]
    /\ Goto(c, "poll")
    /\ UNCHANGED <<shared, node, held, woken, adding>>

(* Ready(Ok): permits is set to 0, so that dropping the future is silent. *)
Acquired(c) ==
    /\ held' = [held EXCEPT ![c] = @ + fut[c].size]
    /\ Gone(c)
    /\ Goto(c, "idle")

Error(c) == Goto(c, "error") /\ UNCHANGED <<node, fut, held, woken>>

(* The permits that are there are taken along: `state as u32`, shifted. *)
PartOf(s) == IF s = -1 THEN 0 ELSE (s % (U32Max + 1)) \div 2

(* poll_acquire, Unqueued: one more attempt, then store the waker. *)
PollUnqueued(c) ==
    /\ pc[c] = "poll"
    /\ \/ /\ CanAcquire(fut[c].want)
          /\ state' = state - 2 * fut[c].want
          /\ Acquired(c)
       \/ IsClosed /\ Error(c) /\ UNCHANGED state
       \/ /\ ~CanAcquire(fut[c].want) /\ ~IsClosed
          /\ fut' = [fut EXCEPT ![c].seen = OptState]
          /\ node' = [node EXCEPT ![c].remaining = fut[c].want - PartOf(OptState),
                                  ![c].waker = fut[c].cx]
          /\ Goto(c, "enqueue")
          /\ UNCHANGED <<state, held, woken>>
    /\ UNCHANGED <<queue, drained, mutex>>

\* Mutant: the insertion does not compare the state.
EnqueueMatchesAny(c) == ~IsClosed

EnqueueMatches(c) == OptState = fut[c].seen

(* try_enqueue_with_queue_state: only if nothing changed. *)
PollEnqueue(c) ==
    /\ pc[c] = "enqueue"
    /\ \/ /\ EnqueueMatches(c)
          /\ queue' = Append(queue, c)
          /\ state' = 0
          /\ node' = [node EXCEPT ![c].status = "Queued"]
          /\ Goto(c, "pending")
       \/ /\ ~EnqueueMatches(c)
          /\ Goto(c, "poll")
          /\ UNCHANGED <<queue, state, node>>
    /\ fut' = [fut EXCEPT ![c].seen = -1]
    /\ UNCHANGED <<drained, mutex, held, woken>>

PollDequeued(c) ==
    /\ Status(c) = "Dequeued"
    /\ \/ IsClosed /\ Error(c)
       \/ ~IsClosed /\ Acquired(c)

(* A pending future may be polled at any time, with any waker. *)
Poll(c, k) ==
    /\ pc[c] = "pending"
    /\ \/ PollDequeued(c)
       \/ /\ Status(c) = "Queued"
          /\ Goto(c, "lock")
          /\ fut' = [fut EXCEPT ![c].cx = k]
          /\ woken' = woken \ {c}
          /\ UNCHANGED <<node, held>>
    /\ UNCHANGED shared

PollLocked(c) ==
    /\ pc[c] = "lock"
    /\ mutex = NONE
    /\ \/ PollDequeued(c)
       \/ Status(c) = "Queued" /\ IsClosed /\ Error(c)
       \/ /\ Status(c) = "Queued" /\ ~IsClosed
          /\ node' = [node EXCEPT ![c].waker = fut[c].cx]
          /\ Goto(c, "pending")
          /\ UNCHANGED <<fut, held, woken>>
    /\ UNCHANGED shared

-----------------------------------------------------------------------------
(* Giving up: the Acquire future is dropped, also after an error. *)

Part(c) == fut[c].want - node[c].remaining       \* `acquired` of cancel

Drop(c) ==
    /\ pc[c] \in {"pending", "error"}
    /\ \/ Status(c) = "Unqueued" /\ Goto(c, "idle") /\ Gone(c) /\ UNCHANGED <<shared, adding>>
       \/ Status(c) = "Dequeued" /\ AddPermits(c, Part(c)) /\ Gone(c)
       \/ /\ Status(c) = "Queued"
          /\ Goto(c, "cancel")
          /\ UNCHANGED <<shared, node, fut, woken, adding>>

(* cancel with the lock.  The state stored for the last waiter is the      *)
(* number of permits, not shifted.                                         *)
CancelAlone(c) ==
    /\ queue = <<c>>
    /\ AbandonPartial \/ Part(c) = 0
    /\ state' = Part(c)
    /\ Goto(c, "idle")
    /\ UNCHANGED <<mutex, adding>>

(* dequeue_try_set_queue_state is Ok for the newest of several, too. *)
CancelNewest(c) ==
    /\ Len(queue) > 1 /\ queue[Len(queue)] = c
    /\ Goto(c, "idle")
    /\ UNCHANGED <<state, mutex, adding>>

\* Mutant: the permits of a waiter that gives up are not passed on.
PassedOnNothing(c) == 0

PassedOn(c) == Part(c)

(* Err: the lock is kept for add_permits_locked. *)
CancelAhead(c) ==
    /\ \E i \in 1..Len(queue) - 1 : queue[i] = c
    /\ add' = [add EXCEPT ![c] = PassedOn(c)]
    /\ mutex' = IF PassedOn(c) > 0 THEN c ELSE NONE
    /\ Goto(c, IF PassedOn(c) > 0 THEN "locked" ELSE "idle")
    /\ UNCHANGED <<state, wakers>>

(* Err, in the list that close drains: the semaphore is closed. *)
CancelDrained(c) ==
    /\ \E d \in Clients : InSeq(c, drained[d])
    /\ state' = CheckAdd(state, Part(c))
    /\ Goto(c, "idle")
    /\ UNCHANGED <<mutex, adding>>

CancelLocked(c) ==
    /\ pc[c] = "cancel"
    /\ mutex = NONE
    /\ \/ /\ Status(c) = "Queued"
          /\ TakeOut(c)
          /\ CancelAlone(c) \/ CancelNewest(c) \/ CancelAhead(c) \/ CancelDrained(c)
       \/ Status(c) = "Dequeued" /\ AddPermits(c, Part(c))
    /\ Gone(c)

-----------------------------------------------------------------------------
(* Permits are released, added, forgotten; the semaphore is closed. *)

(* split, and the destructor of the part. *)
Release(c, n) ==
    /\ pc[c] = "idle" /\ n \in 1..held[c]
    /\ held' = [held EXCEPT ![c] = @ - n]
    /\ AddPermits(c, n)
    /\ UNCHANGED <<node, fut, woken>>

(* SemaphorePermit::forget *)
Forget(c) ==
    /\ held[c] > 0
    /\ total' = total - held[c]
    /\ held' = [held EXCEPT ![c] = 0]
    /\ UNCHANGED <<shared, adding, pc>>

AddNew(c, n) ==
    /\ \/ Refused(n) /\ UNCHANGED total
       \/ ~Refused(n) /\ total + n <= MaxTotal /\ total' = total + n
    /\ AddPermits(c, n)
    /\ UNCHANGED held

(* forget_permits: the subtraction wraps around, and storing a state that  *)
(* did so panics in state_to_ptr.                                          *)
ForgetPermits(c, n) ==
    LET s == (state - 2 * n) % (UsizeMax + 1) IN
    /\ held[c] = 0 /\ queue = <<>>
    /\ \/ StateOverflows(s) /\ Goto(c, "panic") /\ UNCHANGED <<state, total>>
       \/ ~StateOverflows(s) /\ state' = s /\ total' = total - n /\ UNCHANGED pc
    /\ UNCHANGED <<queue, drained, mutex, held, adding>>

SetClosed(s) == s - (s % 2) + CLOSED      \* state | CLOSED

\* Mutant: the drain leaves an open semaphore.
StateAfterDrainOpen == 0

StateAfterDrain == CLOSED

(* close: fetch_update_state_or_lock, then a drain. *)
Close(c) ==
    /\ state' = IF queue = <<>> THEN SetClosed(state) ELSE state
    /\ Goto(c, IF queue = <<>> THEN "idle" ELSE "close")
    /\ UNCHANGED <<queue, drained, mutex, held, adding, total>>

CloseLock(c) ==
    /\ pc[c] = "close"
    /\ mutex = NONE
    /\ \/ /\ queue = <<>>
          /\ state' = SetClosed(state)
          /\ Goto(c, "idle")
          /\ UNCHANGED <<queue, drained, mutex>>
       \/ /\ queue # <<>>
          /\ drained' = [drained EXCEPT ![c] = queue]
          /\ queue' = <<>>
          /\ state' = StateAfterDrain
          /\ mutex' = c
          /\ Goto(c, "drain")
    /\ UNCHANGED <<node, fut, woken, adding>>

(* Drain::for_each: a full list is woken without the lock. *)
DrainNext(c) ==
    /\ pc[c] = "drain" /\ drained[c] # <<>>
    /\ LET d == Head(drained[c]) IN Take(c, d, node[d].remaining)
    /\ LET full == Len(wakers'[c]) = Capacity /\ drained'[c] # <<>> IN
        /\ mutex' = IF full THEN NONE ELSE c
        /\ Goto(c, IF full THEN "wake_drain" ELSE "drain")
    /\ UNCHANGED <<state, fut, woken, add>>

\* Mutant: the wakers that are left at the end of the drain are not woken.
LeftWakersNone(c) == <<>>

LeftWakers(c) == wakers[c]

DrainEnd(c) ==
    /\ pc[c] = "drain" /\ drained[c] = <<>>
    /\ mutex' = NONE
    /\ wakers' = [wakers EXCEPT ![c] = LeftWakers(c)]
    /\ Goto(c, "wake")
    /\ UNCHANGED <<queue, drained, state, node, fut, woken, add>>

-----------------------------------------------------------------------------
(* What a client does once it is inside a method ... *)
Step(c) ==
    /\ UNCHANGED <<total, calls>>
    /\ \/ /\ \/ AddLock(c) \/ ServePart(c) \/ ServeAll(c) \/ Wake(c) \/ WakeEnd(c)
             \/ CancelLocked(c) \/ CloseLock(c) \/ DrainNext(c) \/ DrainEnd(c)
          /\ UNCHANGED held
       \/ /\ PollUnqueued(c) \/ PollEnqueue(c) \/ PollLocked(c)
          /\ UNCHANGED adding

(* ... and what it calls. *)
Begin(c) ==
    /\ \/ \E n \in Sizes, k \in Tasks : TryAcquire(c, n, n) \/ Acquire(c, n, n, k)
       \/ \E n \in OwnedSizes, k \in Tasks : TryAcquire(c, 1, n) \/ Acquire(c, 1, n, k)
    /\ UNCHANGED <<total, calls>>

GiveBack(c)  == (\E n \in Sizes : Release(c, n)) /\ UNCHANGED <<total, calls>>
GiveUp(c)    == Drop(c) /\ UNCHANGED <<held, total, calls>>
PollAgain(c) == (\E k \in Tasks : Poll(c, k)) /\ UNCHANGED <<adding, total, calls>>

Call(c) ==
    /\ pc[c] = "idle" /\ calls < MaxCalls
    /\ calls' = calls + 1
    /\ Forget(c) \/ Close(c) \/ \E n \in Sizes : AddNew(c, n) \/ ForgetPermits(c, n)
    /\ UNCHANGED <<node, fut, woken>>

Next ==
    \E c \in Clients :
        Step(c) \/ Begin(c) \/ GiveBack(c) \/ GiveUp(c) \/ PollAgain(c) \/ Call(c)

Spec == Init /\ [][Next]_vars

(* A method that was called goes on; a woken task polls its future; a      *)
(* future that returned an error is dropped; permits are released.         *)
FairSpec ==
    /\ Spec
    /\ \A c \in Clients :
        /\ WF_vars(Step(c))
        /\ WF_vars(c \in woken /\ PollAgain(c))
        /\ WF_vars(pc[c] = "error" /\ GiveUp(c))
        /\ WF_vars(GiveBack(c))
-----------------------------------------------------------------------------
Types ==
    /\ queue \in Seq(Clients) /\ drained \in [Clients -> Seq(Clients)]
    /\ state \in Nat
    /\ mutex \in Clients \cup {NONE}
    /\ node \in [Clients -> [status : {"Unqueued", "Queued", "Dequeued"},
                            waker : Tasks \cup {NONE}, remaining : Nat]]
    /\ fut \in [Clients -> [want : Nat, size : Nat, cx : Tasks \cup {NONE}, seen : Nat \cup {-1}]]
    /\ held \in [Clients -> Nat] /\ add \in [Clients -> Nat]
    /\ woken \subseteq Clients
    /\ wakers \in [Clients -> Seq(Clients \X Tasks)]
    /\ total \in Int /\ calls \in 0..MaxCalls
    /\ pc \in [Clients -> {"idle", "add", "locked", "wake", "wake_add", "wake_drain",
                           "poll", "enqueue", "pending", "lock", "error", "cancel",
                           "close", "drain", "panic"}]

TypeOK == Types /\ ~StateOverflows(state) /\ total \in Nat

(* The permits that c accounts for, and a pair for each of them. *)
Share(c) == held[c] + add[c] + (IF Status(c) = "Unqueued" THEN 0 ELSE Part(c))
Given == UNION {{c} \X (1..Share(c)) : c \in Clients}

(* Permits are neither lost nor made up: those in the state, those that    *)
(* clients hold, those that waiters have been given and those on their way *)
(* in add_permits are the ones that were put in and not forgotten.         *)
PermitsConserved == total = (state \div 2) + Cardinality(Given)

(* A waiter lacks something, and all it asked for unless it is the oldest: *)
(* permits are handed out in the order of arrival, nobody waits with its   *)
(* request complete, and cancel, which relies on it, need not store a      *)
(* state when it removes the newest of several waiters.                    *)
OldestIsServedFirst ==
    \A i \in 1..Len(queue) :
        LET c == queue[i] IN
        /\ node[c].remaining \in 1..fut[c].want
        /\ i > 1 => node[c].remaining = fut[c].want

(* The unwraps are safe: add_permits_locked finds a waiter, and a node     *)
(* that can be dequeued holds a waker; the list of wakers has room.        *)
UnwrapsAreSafe ==
    \A c \in Clients :
        /\ pc[c] = "locked" => queue # <<>>
        /\ pc[c] = "locked" => Len(wakers[c]) < Capacity
        /\ pc[c] = "drain" /\ drained[c] # <<>> => Len(wakers[c]) < Capacity
        /\ Status(c) = "Queued" => node[c].waker # NONE

(* No wake-up is lost: a future that returned Pending waits with the waker *)
(* of its last poll, or that waker was woken or is about to be.            *)
NoLostWakeup ==
    \A c \in Clients : pc[c] = "pending" =>
        \/ /\ node[c].waker = fut[c].cx
           /\ InSeq(c, queue) \/ \E d \in Clients : InSeq(c, drained[d])
        \/ c \in woken
        \/ \E d \in Clients : InSeq(<<c, fut[c].cx>>, wakers[d])

(* Only close closes the semaphore, it has done so when it returns, and    *)
(* nothing opens it again.                                                 *)
CloseIsFinal ==
    [][/\ IsClosed => IsClosed'
       /\ ~IsClosed /\ IsClosed' => \E c \in Clients : Close(c) \/ CloseLock(c)
       /\ \A c \in Clients : pc[c] \in {"close", "drain"} /\ pc'[c] \in {"idle", "wake"} => IsClosed']_vars

(* Whatever callers add, forget, hand over or abandon, the state holds at  *)
(* most MAX_PERMITS permits: MAX_PERMITS - current does not underflow in   *)
(* check_add_permits, and the tail loses no bit of the state in its shift. *)
PermitsFit ==
    /\ state \div 2 <= MAX_PERMITS
    /\ TailToUsize(UsizeToTail(State(state))) = State(state)

(* Everybody who waits is served, gives up or gets an error, as long as no *)
(* request exceeds the permits that are left.                              *)
WaitersServed ==
    \A c \in Clients :
        pc[c] = "pending" ~> pc[c] # "pending" \/ \E d \in Clients : fut[d].want > total
=============================================================================
