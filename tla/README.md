# Verification of `aiq`

`aiq` is an intrusive FIFO queue for synchronization primitives: nodes live in
the futures that wait, insertion is lock-free, removal runs under a mutex, and
the tail pointer of an empty queue stores a small state. This directory holds
TLA+ models of its algorithms, TLC configurations that check them on small
instances, and TLAPS proofs that hold for any number of nodes and threads.
Source paths are relative to the repository root.

## 1. Inventory

| Component | State | Operations |
|---|---|---|
| `Queue`, `LockedQueue`, `Dequeue`, `Pop` (`src/queue.rs`) | `tail`, `head`, `parked_next`, mutex, parker | `enqueue`, `get_next`/`wait_for_next`, `remove_with_prev`, `dequeue`, `pop`, `requeue`, `try_set_queue_state`, `fetch_update_state`, `lock`, `unlock` |
| `Node` and its state wrappers (`src/node.rs`) | `prev` (also the node's state), `next`, data | creation, `state`, `enqueue`, `dequeue`, `reset`, destructor |
| `Drain`, `NodeDrained` (`src/queue/drain.rs`) | sentinel node, optional lock | `new`, `next`, `execute_unlocked`, `for_each`, destructors |
| Queue state encoding (`src/queue/state.rs`) | none | tail word <-> node or state |
| Mutexes and parkers (`src/sync/*.rs`) | a flag; a word with a mutex and condition variable; a futex word; lazily allocated pthread objects | `lock`, `unlock`, `park`, `unpark` |
| `WaitQueue` (`src/wait_queue.rs`) | queue of waiters, closed state | `wait`, `wait_if`, `wait_until`, `notify_*`, `close` |
| `Semaphore` (`examples/semaphore.rs`) | permits and a closed bit in the queue state; waiters with what they still need | `acquire*`, `try_acquire*`, `add_permits`, `forget_permits`, `close`, permit objects |
| `Notify` (`examples/notify.rs`) | a stored notification in the queue state, a generation; waiters with the notification they got | `notify_one`, `notify_last`, `notify_waiters`, `notified`, `poll`, `enable` |

**Interaction.** An owner inserts its node with a CAS on `tail` (phase 1) and a
store to the predecessor's `next`, or to `head` (phase 2). Everyone who removes
holds the mutex. A remover may need a `next` pointer whose phase 2 is still in
flight and then spins or parks; the inserter unparks it. Which of three waiting
schemes is compiled depends on the target and the parker. A drain swaps the
whole list out of the queue; while it calls back without the lock, its sentinel
closes the list so that owners can still unlink their nodes from it.

**What is hard.** The window between the two phases; the remover's clear, CAS
and relink against inserters that got ahead; the last store of a removal, after
which the owner may free the node without a lock; addresses that are reused
(ABA on `tail`); the state of a node read before the lock and used after it;
notifications lost or left over between store, look and park; lists that shrink
while a drain is unlocked; a queue state that is compared, replaced by a node and
put back by others; permits and notifications in the hands of a future that is
dropped. `PROJECT.json` lists each hazard at its line.

**What makes the components correct.**
* Queue and Node: no access to freed memory, lists doubly linked up to pending
  phase 2 stores, FIFO order, a removal takes out exactly one node, the state
  exists exactly while the queue is empty, every started removal ends.
* Drain: takes everything at once, survives owners that unlink nodes meanwhile.
* Mutex: exclusive, and waiters progress. Parker: one token, never lost.
* WaitQueue: no notification lost, nobody waits in a closed queue.
* Semaphore: permits are conserved and served in order of arrival, `close` is
  final, everybody who waits is served. Notify: a notification is used once,
  stored or passed on, `notify_waiters` leaves nobody behind.
* State encoding: what is stored in the tail is read back as what it was.

## 2. Modules

| Module | Models | Role |
|---|---|---|
| `Queue` | `queue.rs`, `drain.rs`, `node.rs` | the algorithm, one atomic access per step |
| `AtomicQueue` | the public promises of the same code | abstract specification: lists are sequences |
| `QueueRefinement` | refinement mapping | `Queue` implements `AtomicQueue`; FIFO |
| `QueueInvariant` | | the inductive invariant `IInv` |
| `QueueProofs`, `QueueDrainProofs`, `QueueSafety` | | proofs (section 5) |
| `MCQueue` | | model for TLC, symmetry of nodes and lockers |
| `MCQueueLive` | | `Queue` as either target builds it, with fairness |
| `WaitQueue`, `MCWaitQueue` | `wait_queue.rs` | futures, wakers and notifiers over an atomic queue |
| `Semaphore`, `MCSemaphore` | `examples/semaphore.rs` | permits, futures and wakers over an atomic queue; extends `TailState` |
| `Notify`, `MCNotify` | `examples/notify.rs` | notifications, futures and wakers over an atomic queue |
| `Lists` | the lists of `AtomicQueue` | membership and removal of a node, for the three modules above |
| `ListProofs` | | lemmas about these lists |
| `WaitQueueProofs`, `NotifyProofs`, `SemaphoreProofs` | | proofs (section 5) |
| `TailState` | `queue/state.rs` | the three encodings of the tail as operators; proved in `SemaphoreProofs` |
| `SpinMutex` | `sync/spin.rs` | algorithm |
| `PthreadMutex` | `sync/pthread.rs` | lazy allocation and lock |
| `Parker` | trait `Parker` | abstract specification |
| `CondvarParker` | `sync/std.rs`, `sync/pthread.rs` | implements `Parker` |
| `FutexParker` | `sync/atomic_wait.rs` | implements `Parker` |
| `MCSync` | | one of the primitives in each behaviour, as a build selects it |
| `SyncProofs` | | proofs about mutexes and parkers (section 5) |

`Queue` is composed with the abstract `Parker` and mutex, `WaitQueue`,
`Semaphore` and `Notify` with the abstract queue; the refinements say that the
implementations keep these promises.

### State and actions of `Queue`

A node address is an element of `Nodes` and also stands for the task that owns
it; `Lockers` are the threads that lock the queue to dequeue, pop or drain, and
each also stands for the sentinel of its current drain. `next[HEAD]` is the
field `Queue::head`, so the location `prev_next` of a node `n` is always
`next[prev[n]]`. `prev` holds the markers `UNQUEUED`, `DEQUEUED` and `HEAD`
exactly as the code encodes them in the pointer. `tail` is decoded: a node or a
queue state. `live` is the set of nodes whose memory is valid: a dropped node
leaves it, and `New` may create a node at the same address again. `token` is
the pending notification of the parker, `mutex` the holder of the lock; both
are used by their contracts, the implementations have modules of their own.
`cur`, `pre`, `newTail`, `isEmpty`, `loc`, `nxt`, `ret` are the local variables
of the one thread inside the critical section.

| Code | Actions |
|---|---|
| `enqueue` | `EnqueueLoad`, `EnqueueCas` (a weak CAS may fail), `EnqueueRefuse`, `EnqueueLink`, `EnqueueCheck`, `EnqueueUnpark` |
| `get_next`, `wait_for_next` | `GetNextLoad`, `GetNextAnnounce`, `GetNextCheck`, `GetNextClear`, `GetNextPark`, `GetNextReload` |
| `remove_with_prev` | `StartRemove`, `RemoveNext`, `RemoveClear`, `RemoveCas`, `RemoveRelinkPrev`, `RemoveRelinkNext`, `RemoveDone` |
| `Node::state`, `NodeQueued`, destructor | `OwnerSeesQueued`, `OwnerLock`, `OwnerRecheck`, `OwnerUnlock`, `OwnerDrop`, `Reset`, `New` |
| guards of the lock holder | `Lock`, `Unlock`, `Dequeue`, `Pop`, `Requeue`, `RemoveDequeued`, `RemovePopped` |
| `Drain` | `DrainNew`, `DrainClear`, `DrainSwap`, `DrainNext`, `DrainDrop`, `DrainStore`, `DrainUnlock`, `DrainRelock`, `DrainEnd` |
| `fetch_update_state`, `compare_exchange_state` | `UpdateState` |

Abstractions. Memory is sequentially consistent; the orderings the code names
are not modelled. Spinning before parking repeats a load and is not visible.
`DrainSwap`, `DrainStore`, `DrainUnlock` and `DrainRelock` do two or three
accesses in a step where all but one touch memory that no other thread can
reach at that moment or are made under the mutex to locations nobody else
writes. A lock holder that goes on with the `LockedQueue` an owner's removal
returns does nothing it could not do after releasing and taking the lock again,
except that others may run in between. A panic in the callback of
`execute_unlocked` makes the destructor of `Drain` lock and drain: the steps
`DrainRelock`, `DrainNext`, `DrainDrop`.

### State and actions of `WaitQueue`

The queue is used through the promises of `AtomicQueue`: `queue` and `drained`
are sequences, insertion is one step without the lock, nodes leave under the
lock. A critical section that takes one node is one step, because everything
that could tell its parts apart needs the lock; a section of several nodes
(`notify_many`, a drain) keeps `mutex` between its steps, so that insertions and
unlocked reads of a node's state fall in between. `status`, `waker`, `kind`,
`predicate` are the node and the future, `cx` is the waker of the last poll,
`woken` the futures whose task will poll again. `flag` is the condition that
the predicates of `wait_if` and `wait_until` look at.

| Code | Actions |
|---|---|
| `poll`, `poll_wait`, `poll_cold` | `Poll`, `PollState`, `PollLocked`, `PollEnqueue`, `PollEnd` |
| construction, destructor | `New`, `Drop`, `DropLocked` |
| `is_empty_or_locked`, `fetch_update_state_or_lock` | `Call`, `ReadEmpty`, `Lock` |
| `notify_one`, `notify_last`, `notify_many` | `NotifyOne`, `NotifyMany`, `NotifyManyEnd` |
| `notify_all`, `close` (`drain_queue`) | `DrainQueue`, `DrainNext`, `DrainEnd` |
| `WakerList` | `Wake`, `WakeEnd`, `WakeMore` |

A future may be polled at any time with any waker, cancelled between polls, and
created again. Wakers only mark the task: one that polls inline or panics is
not modelled. `Waiter::notification` is left out, nothing reads it.

### State and actions of `Semaphore`

A client is a task with one `Acquire` future: `node[c]` is the status of its node
and its `Waiter`, `fut[c]` the future, `held[c]` the permits of its permit
objects, which are merged and split freely. `state` is the queue state as the code
computes it, `2 * permits + closed`; it is 0 while somebody waits. `total` is a
history variable: what the calls have put in and not forgotten.

| Code | Actions |
|---|---|
| `try_acquire*`, fast path of `acquire*` | `TryAcquire`; `Begin` chooses the arguments, the owned forms included |
| `Acquire::poll` | `Acquire` (first poll), `PollUnqueued`, `PollEnqueue`, `Poll`, `PollLocked` |
| `Acquire::drop`, `cancel` | `Drop`, `CancelLocked` with its cases `CancelAlone`, `CancelNewest`, `CancelAhead`, `CancelDrained` |
| `add_permits`, permits dropped | `AddNew`, `Release`, `AddLock`, `ServePart`, `ServeAll`, `Wake`, `WakeEnd` |
| `forget`, `forget_permits` | `Forget`, `ForgetPermits` |
| `close` | `Close`, `CloseLock`, `DrainNext`, `DrainEnd` |

`CancelNewest` is where the wrong result of finding 2 arrives: the newest of
several waiters may take its permits with it, and loses none only because
`OldestIsServedFirst` holds. The assertion of `check_add_permits` unwinds before
anything is stored (`PermitsOverflow`): the call is over, its permits are gone, and
whoever catches the panic goes on. `forget_permits` of more than there is panics in
`state_to_ptr`, which the model shows as the end of that client. No single
argument exceeds `MAX_PERMITS` (`SemaphoreAssumption`); together they may.

### State and actions of `Notify`

Futures and threads are both actors, because a future that is dropped or made
ready by the generation runs `notify_one` or `notify_last` for the notification
it was given. `fut[f]` holds the fields of `NotifiedInner`, the waker of the last
poll and what the running call has read; `tokens` is a history variable, the
notifications for one waiter that are neither used up nor merged.

| Code | Actions |
|---|---|
| `notify_one`, `notify_last` | `Call`, `NotifySingle`, `Store`, `WakeSingle`, `Wake`, `WakeEnd` |
| `notify_waiters` | `Call`, `WaitersLock`, `WaitersDrain`, `DrainNext`, `WakeMore`, `DrainEnd` |
| `notified`, `notified_owned` | `Notified` |
| `poll`, `enable` | `Poll`, `PollUnqueued`, `PollUpdate`, `PollEnqueue`, `PollRecheck`, `PollLocked` |
| destructor, `cancel` | `Drop`, `DropDequeued`, `CancelLocked`, `PassOn` |

### `TailState` and `PthreadMutex`

`TailState` has an operator for each direction of each encoding, in arithmetic:
setting and clearing the flag bit, the shift, which drops what leaves the word,
and the overflow check. `UsizeMax` is a parameter. `PthreadMutex` names an
allocated object after the thread that allocated it: `Get`, `Allocate` and
`Install` are `LazyBox::get_or_init`, `LockRaw` and `UnlockRaw` the calls of
libc, and `Drop` frees the box and makes a new one.

## 3. Runs

| Run | Instance | Question |
|---|---|---|
| `queue_refines` | 3 nodes, 1 locker, 2 states, x86_64 parking | safety of removals and drains; refinement of `AtomicQueue`, FIFO |
| `queue_drains` | 2 nodes, 2 lockers, `parked_next` parking | a drain's callback against another thread's dequeue, pop or drain; `IInv` of the proofs in every reachable state |
| `queue_live` | 2 nodes, 1 locker, both targets | every removal ends |
| `queue_try_set` | 2 nodes | finding 2, a violation |
| `wait_queue` | 2 futures, 2 threads with a call each, 2 wakers, list capacity 1 | no lost wake-up, safe unwraps, `close` is final |
| `wait_queue_live` | 2 futures, 1 thread with two calls, capacity 2 | `close` and conditions release the waiters |
| `sync` | 5 threads, 3-bit word | both kinds of parker implement `Parker`, no sleeper misses its signal; both mutexes exclude; the lazy allocation ends in one object |
| `spin_mutex_stuck` | 2 threads | finding 1, a violation |
| `semaphore` | 3 clients, 2 permits, requests of 1 or 2, capacity 1, a word of 5 bits, so that `MAX_PERMITS` is 3, one call of `add_permits`, `forget`, `forget_permits` or `close` | permits conserved and within the limit, order, `close`, everybody is served |
| `semaphore_cancel` | the same, and a lone, partly served waiter may give up | finding 3, a violation |
| `notify` | 2 futures, 2 threads with a call each, capacity 1 | notifications conserved, nobody left behind, notified futures become ready and stay so |
| `notify_enable` | the same, and `poll` and `enable` may be called whatever made the future ready | finding 4, a violation |

**Bounds.** In the queue, three nodes give a removed node a neighbour on each side, one of
which may be in its phase 2; every process may repeat its operations without
limit, so nothing is cut off: those state spaces are finite as they stand. In
`WaitQueue` only the calls of the notifying threads are bounded (`MaxCalls`) and
the argument of `notify_many` (`MaxCount`); `Capacity`, 32 in the code, is 1 or 2
so that the list fills up, and stays below its capacity, with two waiters.
In `Semaphore` the permits (`MaxTotal`) and the calls other than acquiring,
releasing and giving up are bounded, in `Notify` the calls, and a future is
created once. Three clients let one waiter be partly served with another behind
it while a third adds, releases or closes. Both have one waker per future: a change of
waker is checked in `wait_queue`, and in `notify` as the change from none, after
`enable`, to one. `OwnedSizes` is {1}: `acquire_many_owned` of more is wrong in
another way (section 4). `AbandonPartial` and `CallAfterReady` are FALSE in the
passing runs, so that what they show is not hidden by findings 3 and 4; with
`CallAfterReady` FALSE `poll` and `enable` are still called on every future that is
ready for a reason that lasts (`Settled`). Words of 5 bits hold all states, let
`forget_permits` wrap around, and let `add_permits` fail: with `MaxTotal` equal to
`MAX_PERMITS`, a call for two fails whenever two are there. A release can only fail
if more than `MAX_PERMITS` exist; that case is left to theorem `PermitsAlwaysFit`.
Parkers that never block (`Parking = "spin"`) have no run of their own: their
steps are a subset of those of the others, and the proofs cover them. Two
lockers let one thread be in its drain's callback while another is anywhere
else. With two queue states a state that is dropped or kept wrongly is visible.
The width of a parker's word, 3 bits, keeps EMPTY, NOTIFIED and PARKED apart
from values a second decrement would give. Nodes and lockers are symmetric in the
safety runs; liveness runs use no symmetry. Deadlock is not checked: a system whose
nodes are all idle and dropped may stop. Each property has at least one mutant
of the code, named in `PROJECT.json`, that breaks it.

**Fairness.** `FairSpec` of `Queue` assumes weak fairness for a thread inside
phase 2 of `enqueue`, inside `get_next`, inside `remove_with_prev` and inside
the internal steps of a drain: straight-line code that the scheduler does not
suspend for ever. Nothing is assumed of callers, of the CAS loop or of who gets
the mutex. The parkers assume the same of threads inside `park` and `unpark`,
the spin mutex also that a holder unlocks. `FairSpec` of `WaitQueue` assumes that a
call of `poll`, of a destructor or of a method goes on, and that a task on whose
waker `wake` was called polls its future: the contract of an executor. `Notify` assumes the same, and so does `Semaphore`,
which also assumes that permits which are held are released and that a future
that returned an error is dropped: without the first no waiter needs to be
served. As the calls are bounded, no fairness of the mutex is needed.

## 4. Findings

1. `SpinMutex::lock` (`src/sync/spin.rs:19`) waits while the flag is *clear*.
   A thread that loses the swap and then sees the mutex released spins until
   somebody else locks again, possibly for ever. Run `spin_mutex_stuck`.
   Exclusion is not affected and is proved.
2. `remove_with_prev` (`src/queue.rs:448`) reports `is_empty` for every
   successful CAS on the tail, also when the new tail is the predecessor. So
   `Pop::try_set_queue_state` and `NodeQueued::dequeue_try_set_queue_state`
   claim that the state was stored in a queue that is not empty. Run
   `queue_try_set`. In the examples it does no harm: `Notify` ignores the
   result, and in `Semaphore` the newest of several waiters has no permits
   (`OldestIsServedFirst`).
   `Dequeue::try_set_queue_state` always removes the head and is not affected.

3. `Acquire::cancel` (`examples/semaphore.rs:278`) stores the number of permits
   of a lone waiter that gives up as the queue state, without the shift: half of
   them are lost, and an odd number closes the semaphore. Run `semaphore_cancel`.
4. `poll_notified` (`examples/notify.rs:185`) does not look at `completed`. A
   future made ready by the stored notification, whose node was never queued, is
   queued by the next `enable` or `poll`, and is not ready. Run `notify_enable`;
   `SettledStaysReady` says that no other way to become ready is affected: the
   generation and a dequeued node are seen again. The destructor of
   the node takes it out again, so nothing dangles; but a notification it is
   given there is dropped with it, because a completed future does not cancel.

More observations, recorded as hazards or here, because no text of the
repository speaks of them:
* `QueueRef::drop_node` is never called, so the closure of
  `src/wait_queue.rs:185` that hands a cancelled waiter's notification on is dead
  code;
* `notify_many` wakes its last wakers with the lock held
  (`src/wait_queue.rs:347`) when it has made all its iterations;
* `acquire_many_owned` (`examples/semaphore.rs:159`) acquires one permit whatever
  its argument and returns an object that releases `permits` of them, so that
  `PermitsConserved` fails with `OwnedSizes = {2}` in the first step that calls it;
  `try_acquire_many_owned` is right;
* `add_permits` of more than `MAX_PERMITS` panics only if nobody waits: what is
  left after serving the waiters is stored by `try_set_queue_state`
  (`examples/semaphore.rs:89`) without the check, and `MAX_PERMITS - current` of
  the next call would underflow;
* `forget_permits` (`examples/semaphore.rs:114`) subtracts with wrap-around before
  it looks at what is there, and panics in `state_to_ptr` if it is too little;
* `state as u32` (`examples/semaphore.rs:245`) truncates before the shift, so a
  semaphore with more than 2^31 permits computes a wrong remainder;
* a pointer state with its lowest bit set is changed silently by `check_alignment`
  (`src/queue/state.rs:97`), although `src/queue/state.rs:12` asks for a bijection:
  theorem `PointerBijectiveIfAligned`.

## 5. Proofs

Every invariant of every passing run is a theorem, for any number of nodes,
threads, futures or clients, and so are three of the action properties. Module by module:

| Module | Theorem | States | Condition |
|---|---|---|---|
| `QueueSafety` | `Invariant`, `TypeCorrect`, `NoUseAfterFree`, `GuardsAreSafe`, `ListsAreLinked`, `Assertions` | `IInv`, `TypeOK`, `NoDangling`, `GuardedIsQueued`, `ListWellLinked`, `AssertionsHold` | |
| `QueueProofs` | `MutualExclusion` | `LockDiscipline` | |
| `SyncProofs` | `Exclusive`, `LazyExclusive`, `LazyMutexSafe` | `MutualExclusion`, `LazyMutexExcludes`, `OneObject` | |
| | `StateOfParkers`, `NoSignalIsLost` | `StateIsOneOfThree`, `SleeperIsSignalled` | |
| | `TokenIsKept` | the safety half of `ImplementsParker` | |
| `WaitQueueProofs` | `TypeCorrect`, `UncheckedOperations`, `WakeupsAreKept`, `PanicMeansClosed`, `CloseHolds` | `TypeOK`, `UncheckedIsSafe`, `NoLostWakeup`, `PanicOnlyIfClosed`, `CloseIsFinal` | |
| `NotifyProofs` | `NobodyIsLeftBehind`, `CancelUnwraps`, `SettledFuturesStayReady` | `NoStaleWaiter`, `CancelUnwrapIsSafe`, `SettledStaysReady` | |
| | `NotificationsAreKept`, `TypeCorrect`, `WakeupsAreKept` | `NotificationsConserved`, `TypeOK`, `NoLostWakeup` | `~CallAfterReady` |
| `SemaphoreProofs` | `FirstComeFirstServed`, `UnwrapsNeverPanic`, `WakeupsAreKept`, `PermitsAlwaysFit` | `OldestIsServedFirst`, `UnwrapsAreSafe`, `NoLostWakeup`, `PermitsFit` | |
| | `PermitsAreKept`, `TypeCorrect`, `ClosingIsFinal` | `PermitsConserved`, `TypeOK`, `CloseIsFinal` | `Contract` |
| | `UsizeBijective`, `UnitBijective`, `PointerBijectiveIfAligned` | the encodings of `TailState` | |

The assumptions on the constants are the named `ASSUME`s of the modules, which TLC
evaluates: markers are no nodes, threads or tasks; numbers are natural numbers;
the actors of `Semaphore` and `Notify` are finitely many, because permits
and notifications are counted; no argument of a call of `Semaphore` exceeds
`MAX_PERMITS`; `usize::MAX` is odd; the word of a parker has more
than two values. Two groups of theorems have a condition besides:

* `~CallAfterReady`: nobody polls or enables a future of `Notify` that the stored
  notification made ready, unless `notify_waiters` was called since it was created.
  Without it such a future may be queued again (finding 4), and what it is given
  there is dropped with it.
* `Contract` of `SemaphoreProofs`: a lone waiter that has got some permits does
  not give up (finding 3), `acquire_many_owned` is asked for one permit (section
  4), requests are at most 2^31, where `state as u32` is exact, and no more
  than `MAX_PERMITS` permits are put in. The run `semaphore` satisfies it. Each part is
  needed by the accounting of permits. What does not depend on it, order of
  service, safe unwraps, wake-ups and the limit of the state, is proved without it.

### `Queue`

The theorems about `Queue` hold for arbitrary `Nodes`, `Lockers`, `States` (infinite too) and
each value of `Parking`, from `QueueAssumption` only: the address spaces and the
markers are disjoint and `Default` is a state.

`QueueProofs` proves `LockDiscipline`: a process is at a point of the critical
section exactly if it holds the mutex. It and `QueueDrainProofs`
prove, action by action, that `ListInv` is preserved; `QueueSafety` puts the
actions together and proves `Invariant == Spec => []IInv`, from which the
properties follow.

They are not inductive themselves. `ListWellLinked` speaks only of states with a
free mutex; `IInv` (module `QueueInvariant`) says what is true in the middle of
every operation:

* `OwnersInv`: listed and busy nodes are live, a destructor frees only what is
  out of every list, a node to be inserted has no `next`. Without it a reused
  address could carry an old pointer into the list.
* `PredInv`, `EndInv`: the predecessors of listed nodes are an injective map
  into valid places and stay in one list (`own` names it), and nothing follows
  an end. `Pred` differs from `prev` only for the first node of a drain that
  holds the lock, whose `prev` is stale.
* `Acyclic`: any set of listed nodes has one whose predecessor is outside. This
  is what makes the tail of the queue different from the tails of the drains,
  and it is stated with sets, because paths would need induction over data.
  The assignment `own` is chosen anew by the drain's swap, which moves all
  nodes of the queue to the list of the drain.
* `NextInv`: a `next` pointer is the inverse of `Pred`, is missing because of an
  inserter in phase 2, or is in the hands of the lock holder at named points.
* `RemoveInv`, `GetNextInv`, `GuardInv`: the registers of the lock holder. The
  part `GuardIdle` (registers are cleared outside operations) is what carries
  `AssertionsHold` from one removal to the next.

### Mutexes and parkers

`MutualExclusion` of the spin mutex is inductive with "held implies locked".
For `PthreadMutex`, `OneObject` alone is not inductive: that an object is
locked only by the thread that holds the mutex, and that a thread that has not
yet offered its object does not find it in the box, is added in `LazyInv`.

`SyncInv` covers both kinds of parkers. The state is never EMPTY while a call of
park is in progress and PARKED only then, so the decrement always starts from
EMPTY or NOTIFIED. A parker that is about to sleep on a condition variable holds
the mutex, so an unpark that came after its check has not passed through the mutex
yet; this is the strengthening that carries `SleeperIsSignalled` over the
step that sleeps. Every step is then one of six kinds (`ParkerStep`), each of
which is a step of `Parker` or changes nothing of it.

### `WaitQueue`, `Notify`, `Semaphore`

The three proofs are built alike. A first group of lemmas translates each action
to a flat effect, field by field (`OutOfList`, `TakeAt`, ...): it is there that
sequences are reasoned about, with the lemmas of `ListProofs` on appending to and
removing from a list without duplicates. In `Semaphore` and `Notify` a step of the
system is then one of a few dozen kinds (`Steps`), and each part of the invariant
has a lemma that goes through them. The parts:

* `ListInv`: a node is Queued exactly if it is in the queue or in one drain's
  list, and only once. Everything that is said about nodes in lists follows from
  their status by it.
* `LockInv`, `DrainInv`: who holds the lock between two steps, and who drains.
* `NodeInv`, `WakerInv`: what the place where a future stands tells about its
  node, and that the waker of the poll is stored before the insertion.
* `RoomInv`: who holds the lock has found a waiter and has room for its waker;
  `UncheckedIsSafe` and `UnwrapsAreSafe` follow.
* `WakeInv`: the last waker of a pending future is in its Queued node, in a
  list of wakers, or was woken. `NoLostWakeup` is the same for the states
  between polls; in `WaitQueue` and `Notify` the invariant has to start earlier,
  at the insertion.
* `CloseInv` (`WaitQueue`), `StateInv` (`Semaphore`, `Notify`): a queue with
  waiters has the default state, and a drain by `close` runs on a closed queue.
* `Semaphore`: `AskInv` ties the permits that an insertion will take along to the
  state it compares with; `OrderInv` says that only the first waiter
  has a part; `ServedInv`, that a dequeued waiter has everything unless the
  semaphore was closed. `PermitsConserved` counts pairs of a client and a number
  (`Given`), so that it can be proved with the theorems on cardinality instead
  of an induction over a sum: a step changes the share of one client, or moves a
  part from one to another (`ShareOne`, `ShareTwo`). Whatever a client holds fits
  into the state beside what is there (`StateHasRoom`), so the assertion of
  `check_add_permits` does not fail for permits that come back (`ComesBack`).
  `PermitsFit` holds when the assertion does fail, too: `OfferInv` bounds what is
  asked for and what is on its way in `add_permits`, and with it everything stored
  without the check respects `LimitInv`. The bit CLOSED survives the
  wrapping subtraction of `forget_permits` because the number of words is even
  (`ParityKept`).
* `Notify`: `NoStaleWaiter` is inductive with the above. `CountInv` says that
  every token is stored or owed by exactly one actor (`Owes`), and
  `NotificationsConserved` splits that set. `SettledStaysReady` follows from
  `NodeInv` and from no future being created after the present generation.

### Only model-checked

* The refinement of `AtomicQueue` and FIFO order (`ImplementsAtomicQueue`,
  `DequeueIsFifo`): the mapping follows chains of pointers, whose length needs
  induction over data.
* Liveness (`RemovalCompletes`, `ImplementsParker` with its fairness,
  `CloseReleases`, `ConditionSeen`, `WaitersServed`, `NotifiedBecomesReady`):
  out of the prover's reach.

## 6. Plan

Done: all modules of section 2, their runs, and the proofs of their safety
properties. Left, in this order:

1. The safety half of `ImplementsAtomicQueue`, as far as it can be said without
   the length of chains: which steps insert, remove and free a node (the part
   `status` and `guard` of the mapping), and that they do so under the guards of
   `AtomicQueue`.
2. The lock of `WaitQueue`, `Notify` and `Semaphore` is used by its contract;
   stating the atomicity of their critical sections against `AtomicQueue` as a
   refinement would replace the argument of section 2 by a proof.

## 7. Not modelled

Weak memory orderings (the code is tested with `loom` and `miri` for these), and
with them the fences of `loom.rs`; `StdMutex`, which forwards to std, and the
inside of pthread mutexes and condition variables; the lazy box of a condition
variable, which is the same code as that of a mutex; node data, pinning and the
type-level plumbing of `lib.rs` and `unsafe_pinned.rs`; wakers that run code
inline or panic; benchmarks and tests.
