-------------------------- MODULE WaitQueueProofs --------------------------
(***************************************************************************)
(* WaitQueue of src/wait_queue.rs is safe for any number of futures,       *)
(* threads and tasks, and any capacity of WakerList.                       *)
(***************************************************************************)
EXTENDS WaitQueue, ListProofs

(* Who is inside the critical section holds the lock; notify_many may      *)
(* still hold it while it wakes.                                           *)
LockInv ==
    /\ \A t \in Threads : pc[t] \in {"locked", "drain"} => mutex = t
    /\ mutex # NONE => pc[mutex] \in {"locked", "drain", "wake"}

(* A node is Queued exactly if it is in the queue or in the list of a      *)
(* drain, and then it is at one place only.                                *)
ListInv ==
    /\ Distinct(queue)
    /\ \A t \in Threads : Distinct(drained[t])
    /\ \A f \in Futures, t \in Threads : InSeq(f, queue) => ~InSeq(f, drained[t])
    /\ \A f \in Futures, t, u \in Threads : InSeq(f, drained[t]) /\ InSeq(f, drained[u]) => t = u
    /\ \A f \in Futures :
        status[f] = "Queued" <=> InSeq(f, queue) \/ \E t \in Threads : InSeq(f, drained[t])

(* Only notify_all and close drain. *)
DrainInv ==
    \A t \in Threads :
        /\ pc[t] \in {"drain", "wake_more"} => op[t] \in {"all", "close", "many"}
        /\ drained[t] # <<>> => pc[t] \in {"drain", "wake_more"} /\ op[t] \in {"all", "close"}

(* A closed queue is empty, and close has closed it once it drains. *)
CloseInv ==
    /\ closed => queue = <<>>
    /\ \A t \in Threads : op[t] = "close" /\ pc[t] \in {"drain", "wake", "wake_more"} => closed

(* A thread that holds the lock has found the queue not empty, and has     *)
(* room for one more waker.                                                *)
RoomInv ==
    \A t \in Threads :
        /\ pc[t] \in {"idle", "read", "lock"} => wakers[t] = <<>>
        /\ pc[t] = "locked" /\ op[t] # "many" => queue # <<>>
        /\ pc[t] = "locked" => Len(wakers[t]) < Capacity
        /\ pc[t] = "drain" /\ drained[t] # <<>> => Len(wakers[t]) < Capacity

(* The waker is stored before the insertion and stays until a notifier     *)
(* takes it.                                                               *)
WakerInv ==
    \A f \in Futures :
        /\ status[f] = "Queued" => waker[f] # NONE
        /\ fpc[f] = "enqueue" => status[f] = "Unqueued" /\ waker[f] = cx[f]
        /\ fpc[f] \in {"state", "lock", "enqueue", "pending"} => cx[f] # NONE
        /\ fpc[f] = "gone" => status[f] = "Unqueued" /\ cx[f] = NONE
        /\ fpc[f] \in {"done", "panic", "drop"} => cx[f] = NONE

(* wait_until is refused by a closed queue only. *)
PanicInv ==
    \A f \in Futures : fpc[f] = "panic" \/ (fpc[f] = "ready" /\ kind[f] = "until") => closed

(* From the insertion, or the update of its waker, until the next poll a   *)
(* future waits with the waker of its last poll, or that one is woken.     *)
WillWake(f) ==
    \/ waker[f] = cx[f] /\ status[f] = "Queued"
    \/ f \in woken
    \/ \E t \in Threads : InSeq(<<f, cx[f]>>, wakers[t])

WakeInv == \A f \in Futures : fpc[f] = "pending" \/ Pending(f) => WillWake(f)

IInv ==
    /\ TypeOK /\ LockInv /\ ListInv /\ DrainInv
    /\ CloseInv /\ RoomInv /\ WakerInv /\ PanicInv /\ WakeInv

USE WaitQueueAssumption

-----------------------------------------------------------------------------
(* TakeOut removes f from the list it is in and leaves the others alone.   *)
LEMMA TakeOutLists ==
    ASSUME TypeOK, ListInv, NEW f \in Futures, TakeOut(f)
    PROVE  /\ queue' \in Seq(Futures) /\ Distinct(queue')
           /\ drained' \in [Threads -> Seq(Futures)]
           /\ \A g : InSeq(g, queue') <=> InSeq(g, queue) /\ g # f
           /\ ~InSeq(f, queue) => queue' = queue
           /\ \A t \in Threads :
                /\ Distinct(drained'[t])
                /\ \A g : InSeq(g, drained'[t]) <=> InSeq(g, drained[t]) /\ g # f
                /\ ~InSeq(f, drained[t]) => drained'[t] = drained[t]
  <1>1. queue \in Seq(Futures) /\ Distinct(queue) /\ queue' = Without(queue, f)
    BY DEF TypeOK, ListInv, TakeOut
  <1>2. ASSUME NEW t \in Threads
        PROVE  drained[t] \in Seq(Futures) /\ Distinct(drained[t]) /\ drained'[t] = Without(drained[t], f)
    BY DEF TypeOK, ListInv, TakeOut
  <1>3. ASSUME NEW t \in Threads
        PROVE  /\ drained'[t] \in Seq(Futures) /\ Distinct(drained'[t])
               /\ \A g : InSeq(g, drained'[t]) <=> InSeq(g, drained[t]) /\ g # f
               /\ ~InSeq(f, drained[t]) => drained'[t] = drained[t]
    BY <1>2, WithoutList
  <1>4. drained' = [t \in Threads |-> drained'[t]]
    BY DEF TakeOut
  <1>5. drained' \in [Threads -> Seq(Futures)]
    BY <1>3, <1>4
  <1> QED
    BY <1>1, <1>3, <1>5, WithoutList

(* The node that a notifier takes is Queued. *)
LEMMA FirstIsQueued ==
    ASSUME TypeOK, ListInv
    PROVE  /\ queue # <<>> => \A f \in {Head(queue), queue[Len(queue)]} :
                f \in Futures /\ status[f] = "Queued" /\ InSeq(f, queue)
           /\ \A t \in Threads : drained[t] # <<>> =>
                /\ Head(drained[t]) \in Futures /\ status[Head(drained[t])] = "Queued"
                /\ InSeq(Head(drained[t]), drained[t])
  <1>1. queue \in Seq(Futures) /\ \A t \in Threads : drained[t] \in Seq(Futures)
    BY DEF TypeOK
  <1>2. queue # <<>> => \A f \in {Head(queue), queue[Len(queue)]} : f \in Futures /\ InSeq(f, queue)
    BY <1>1, HeadTailList
  <1>3. \A t \in Threads : drained[t] # <<>> =>
            Head(drained[t]) \in Futures /\ InSeq(Head(drained[t]), drained[t])
    BY <1>1, HeadTailList
  <1> QED
    BY <1>2, <1>3 DEF ListInv

(* Take moves the waker of f to the list of t. *)
LEMMA TakeWaker ==
    ASSUME TypeOK, WakerInv, NEW t \in Threads, NEW f \in Futures, status[f] = "Queued", Take(t, f)
    PROVE  /\ wakers' \in [Threads -> Seq(Futures \X Tasks)]
           /\ waker' \in [Futures -> Tasks \cup {NONE}]
           /\ status' \in [Futures -> {"Unqueued", "Queued", "Dequeued"}]
           /\ Len(wakers'[t]) = Len(wakers[t]) + 1
           /\ \A u \in Threads : u # t => wakers'[u] = wakers[u]
           /\ \A x : InSeq(x, wakers'[t]) <=> InSeq(x, wakers[t]) \/ x = <<f, waker[f]>>
  <1>1. <<f, waker[f]>> \in Futures \X Tasks
    BY DEF TypeOK, WakerInv
  <1>2. wakers[t] \in Seq(Futures \X Tasks)
    BY DEF TypeOK
  <1>3. wakers' = [wakers EXCEPT ![t] = Append(wakers[t], <<f, waker[f]>>)]
    BY DEF Take
  <1> DEFINE w == Append(wakers[t], <<f, waker[f]>>)
  <1>4. /\ w \in Seq(Futures \X Tasks) /\ Len(w) = Len(wakers[t]) + 1
        /\ \A x : InSeq(x, w) <=> InSeq(x, wakers[t]) \/ x = <<f, waker[f]>>
    BY <1>1, <1>2, AppendList
  <1> HIDE DEF w
  <1>5. wakers' \in [Threads -> Seq(Futures \X Tasks)] /\ wakers'[t] = w
            /\ \A u \in Threads : u # t => wakers'[u] = wakers[u]
    BY <1>3, <1>4 DEF TypeOK, w
  <1>6. waker' \in [Futures -> Tasks \cup {NONE}] /\ status' \in [Futures -> {"Unqueued", "Queued", "Dequeued"}]
    BY DEF TypeOK, Take
  <1> QED
    BY <1>4, <1>5, <1>6

(* The lock is taken only when it is free and given back only by its holder. *)
LEMMA LockStep == IInv /\ [Next]_vars => LockInv'
  <1> SUFFICES ASSUME IInv, [Next]_vars PROVE LockInv'
    OBVIOUS
  <1> USE DEF IInv, LockInv, TypeOK
  <1>1. ASSUME NEW f \in Futures, PollState(f) PROVE LockInv'
    BY <1>1 DEF PollState, Requeue, StoredWaker, FGoto, shared, thread
  <1>2. ASSUME NEW f \in Futures, PollLocked(f) PROVE LockInv'
    BY <1>2 DEF PollLocked, Requeue, StoredWaker, UpdatedWaker, FGoto, shared, thread
  <1>3. ASSUME NEW f \in Futures, PollEnqueue(f) PROVE LockInv'
    BY <1>3 DEF PollEnqueue, FGoto, Closed, thread
  <1>4. ASSUME NEW f \in Futures, PollEnd(f) PROVE LockInv'
    BY <1>4 DEF PollEnd, FGoto, Leave, shared, thread
  <1>5. ASSUME NEW f \in Futures, DropLocked(f) PROVE LockInv'
    BY <1>5 DEF DropLocked, FGoto, Free, thread
  <1>6. ASSUME NEW f \in Futures, Drop(f) PROVE LockInv'
    BY <1>6 DEF Drop, FGoto, Leave, Free, shared, thread
  <1>7. ASSUME NEW f \in Futures, NEW k \in Tasks, Poll(f, k) PROVE LockInv'
    BY <1>7 DEF Poll, FGoto, Leave, shared, thread
  <1>8. ASSUME NEW f \in Futures, NEW k \in Kinds, New(f, k) PROVE LockInv'
    BY <1>8 DEF New, FGoto, shared, thread
  <1>9. ASSUME NEW t \in Threads, ReadEmpty(t) PROVE LockInv'
    BY <1>9 DEF ReadEmpty, Finish, Goto, future
  <1>10. ASSUME NEW t \in Threads, Lock(t) PROVE LockInv'
    BY <1>10 DEF Lock, Finish, Goto, future
  <1>11. ASSUME NEW t \in Threads, NotifyOne(t) PROVE LockInv'
    BY <1>11 DEF NotifyOne, Take, Goto
  <1>12. ASSUME NEW t \in Threads, NotifyMany(t) PROVE LockInv'
    BY <1>12 DEF NotifyMany, Take
  <1>13. ASSUME NEW t \in Threads, NotifyManyEnd(t) PROVE LockInv'
    BY <1>13 DEF NotifyManyEnd, Goto, future
  <1>14. ASSUME NEW t \in Threads, DrainQueue(t) PROVE LockInv'
    BY <1>14 DEF DrainQueue, Goto, StateAfterDrain, future
  <1>15. ASSUME NEW t \in Threads, DrainNext(t) PROVE LockInv'
    <2>1. /\ pc[t] = "drain"
          /\ \/ mutex' = NONE /\ pc' = [pc EXCEPT ![t] = "wake_more"]
             \/ UNCHANGED <<mutex, pc>>
      BY <1>15 DEF DrainNext, Goto
    <2> QED
      BY <2>1, ZenonT(40)
  <1>16. ASSUME NEW t \in Threads, DrainEnd(t) PROVE LockInv'
    BY <1>16 DEF DrainEnd, Goto, future
  <1>17. ASSUME NEW t \in Threads, Wake(t) PROVE LockInv'
    BY <1>17 DEF Wake, shared, future
  <1>18. ASSUME NEW t \in Threads, WakeEnd(t) PROVE LockInv'
    BY <1>18 DEF WakeEnd, Finish, future
  <1>19. ASSUME NEW t \in Threads, WakeMore(t) PROVE LockInv'
    BY <1>19 DEF WakeMore, Goto, future
  <1>20. ASSUME NEW t \in Threads, NEW o \in Ops, NEW c \in 0..MaxCount, Call(t, o, c) PROVE LockInv'
    BY <1>20 DEF Call, future
  <1>21. CASE UNCHANGED vars
    BY <1>21 DEF vars, shared, future, thread
  <1> QED
    BY <1>1, <1>2, <1>3, <1>4, <1>5, <1>6, <1>7, <1>8, <1>9, <1>10, <1>11, <1>12, <1>13, <1>14,
       <1>15, <1>16, <1>17, <1>18, <1>19, <1>20, <1>21
    DEF Next, FutureStep, ThreadStep

(* The variables keep their types; in particular every waker that is taken is there. *)
LEMMA TypeStep == IInv /\ [Next]_vars => TypeOK'
  <1> SUFFICES ASSUME IInv, [Next]_vars PROVE TypeOK'
    OBVIOUS
  <1> USE DEF IInv, TypeOK
  <1>1. ASSUME NEW f \in Futures, PollState(f) PROVE TypeOK'
    BY <1>1 DEF PollState, Requeue, StoredWaker, FGoto, shared, thread
  <1>2. ASSUME NEW f \in Futures, PollLocked(f) PROVE TypeOK'
    BY <1>2 DEF PollLocked, Requeue, StoredWaker, UpdatedWaker, FGoto, shared, thread
  <1>3. ASSUME NEW f \in Futures, PollEnqueue(f) PROVE TypeOK'
    <2>1. queue \in Seq(Futures) /\ Append(queue, f) \in Seq(Futures)
      BY AppendList
    <2>2. queue' \in Seq(Futures)
      BY <1>3, <2>1 DEF PollEnqueue
    <2> QED
      BY <1>3, <2>2, ZenonT(40) DEF PollEnqueue, FGoto, thread
  <1>4. ASSUME NEW f \in Futures, PollEnd(f) PROVE TypeOK'
    BY <1>4 DEF PollEnd, FGoto, Leave, shared, thread
  <1>5. ASSUME NEW f \in Futures, DropLocked(f) PROVE TypeOK'
    <2>1. queue' \in Seq(Futures) /\ drained' \in [Threads -> Seq(Futures)]
      BY <1>5, TakeOutLists DEF DropLocked
    <2> QED
      BY <1>5, <2>1 DEF DropLocked, FGoto, Free, thread
  <1>6. ASSUME NEW f \in Futures, Drop(f) PROVE TypeOK'
    BY <1>6, ZenonT(40) DEF Drop, FGoto, Leave, Free, shared, thread
  <1>7. ASSUME NEW f \in Futures, NEW k \in Tasks, Poll(f, k) PROVE TypeOK'
    <2>1. /\ \E l \in {"done", "state"} : fpc' = [fpc EXCEPT ![f] = l]
          /\ \E w \in {NONE, k} : cx' = [cx EXCEPT ![f] = w]
          /\ woken' = woken \ {f}
      BY <1>7 DEF Poll, FGoto, Leave
    <2> QED
      BY <1>7, <2>1 DEF Poll, shared, thread
  <1>8. ASSUME NEW f \in Futures, NEW k \in Kinds, New(f, k) PROVE TypeOK'
    BY <1>8 DEF New, FGoto, shared, thread
  <1>9. ASSUME NEW t \in Threads, ReadEmpty(t) PROVE TypeOK'
    <2>1. closed' \in BOOLEAN
      BY <1>9, Zenon DEF ReadEmpty
    <2>2. Finish(t) \/ Goto(t, "lock")
      BY <1>9 DEF ReadEmpty
    <2>3. UNCHANGED <<queue, drained, mutex, flag, future, woken, wakers, calls>>
      BY <1>9 DEF ReadEmpty
    <2>4. CASE Finish(t)
      <3>1. 0 \in 0..MaxCount
        OBVIOUS
      <3>2. left' \in [Threads -> 0..MaxCount]
        BY <2>4, <3>1 DEF Finish
      <3> QED
        BY <2>1, <2>3, <2>4, <3>2 DEF Finish, future
    <2>5. CASE Goto(t, "lock")
      BY <2>1, <2>3, <2>5 DEF Goto, future
    <2> QED
      BY <2>2, <2>4, <2>5
  <1>10. ASSUME NEW t \in Threads, Lock(t) PROVE TypeOK'
    <2>1. closed' \in BOOLEAN
      BY <1>10, Zenon DEF Lock
    <2>2. Finish(t) \/ Goto(t, "locked")
      BY <1>10 DEF Lock
    <2>3. mutex' \in {mutex, t} /\ UNCHANGED <<queue, drained, flag, future, woken, wakers, calls>>
      BY <1>10 DEF Lock
    <2>4. CASE Finish(t)
      <3>1. 0 \in 0..MaxCount
        OBVIOUS
      <3>2. left' \in [Threads -> 0..MaxCount]
        BY <2>4, <3>1 DEF Finish
      <3> QED
        BY <2>1, <2>3, <2>4, <3>2 DEF Finish, future
    <2>5. CASE Goto(t, "locked")
      BY <2>1, <2>3, <2>5 DEF Goto, future
    <2> QED
      BY <2>2, <2>4, <2>5
  <1>11. ASSUME NEW t \in Threads, NotifyOne(t) PROVE TypeOK'
    <2> DEFINE f == IF op[t] = "one" THEN Head(queue) ELSE queue[Len(queue)]
    <2>1. f \in Futures /\ status[f] = "Queued" /\ Take(t, f)
      BY <1>11, FirstIsQueued DEF NotifyOne, RoomInv
    <2>2. TakeOut(f)
      BY <2>1 DEF Take
    <2> HIDE DEF f
    <2>3. /\ queue' \in Seq(Futures) /\ drained' \in [Threads -> Seq(Futures)]
          /\ wakers' \in [Threads -> Seq(Futures \X Tasks)] /\ waker' \in [Futures -> Tasks \cup {NONE}]
          /\ status' \in [Futures -> {"Unqueued", "Queued", "Dequeued"}]
      BY <2>1, <2>2, TakeOutLists, TakeWaker
    <2> QED
      BY <1>11, <2>3 DEF NotifyOne, Goto
  <1>12. ASSUME NEW t \in Threads, NotifyMany(t) PROVE TypeOK'
    <2> DEFINE f == Head(queue)
    <2>1. f \in Futures /\ status[f] = "Queued" /\ Take(t, f)
      BY <1>12, FirstIsQueued DEF NotifyMany, RoomInv
    <2>2. TakeOut(f)
      BY <2>1 DEF Take
    <2> HIDE DEF f
    <2>3. /\ queue' \in Seq(Futures) /\ drained' \in [Threads -> Seq(Futures)]
          /\ wakers' \in [Threads -> Seq(Futures \X Tasks)] /\ waker' \in [Futures -> Tasks \cup {NONE}]
          /\ status' \in [Futures -> {"Unqueued", "Queued", "Dequeued"}]
      BY <2>1, <2>2, TakeOutLists, TakeWaker
    <2>4. left' \in [Threads -> 0..MaxCount]
      BY <1>12 DEF NotifyMany
    <2>5. mutex' \in Threads \cup {NONE} /\ \E l \in {"wake_more", "locked"} : pc' = [pc EXCEPT ![t] = l]
      BY <1>12 DEF NotifyMany
    <2> QED
      BY <1>12, <2>3, <2>4, <2>5 DEF NotifyMany
  <1>13. ASSUME NEW t \in Threads, NotifyManyEnd(t) PROVE TypeOK'
    BY <1>13 DEF NotifyManyEnd, Goto, future
  <1>14. ASSUME NEW t \in Threads, DrainQueue(t) PROVE TypeOK'
    <2>1. closed' \in BOOLEAN
      BY <1>14, Zenon DEF DrainQueue, StateAfterDrain
    <2>2. queue' \in Seq(Futures) /\ drained' \in [Threads -> Seq(Futures)]
      BY <1>14, EmptySeq DEF DrainQueue
    <2> QED
      BY <1>14, <2>1, <2>2 DEF DrainQueue, Goto, future
  <1>15. ASSUME NEW t \in Threads, DrainNext(t) PROVE TypeOK'
    <2> DEFINE f == Head(drained[t])
    <2>1. f \in Futures /\ status[f] = "Queued" /\ Take(t, f)
      BY <1>15, FirstIsQueued DEF DrainNext, RoomInv
    <2>2. TakeOut(f)
      BY <2>1 DEF Take
    <2> HIDE DEF f
    <2>3. /\ queue' \in Seq(Futures) /\ drained' \in [Threads -> Seq(Futures)]
          /\ wakers' \in [Threads -> Seq(Futures \X Tasks)] /\ waker' \in [Futures -> Tasks \cup {NONE}]
          /\ status' \in [Futures -> {"Unqueued", "Queued", "Dequeued"}]
      BY <2>1, <2>2, TakeOutLists, TakeWaker
    <2>4. \/ mutex' = NONE /\ pc' = [pc EXCEPT ![t] = "wake_more"] /\ UNCHANGED <<op, left>>
          \/ UNCHANGED <<mutex, pc, op, left>>
      BY <1>15 DEF DrainNext, Goto
    <2> QED
      BY <1>15, <2>3, <2>4 DEF DrainNext
  <1>16. ASSUME NEW t \in Threads, DrainEnd(t) PROVE TypeOK'
    BY <1>16 DEF DrainEnd, Goto, future
  <1>17. ASSUME NEW t \in Threads, Wake(t) PROVE TypeOK'
    <2>1. Tail(wakers[t]) \in Seq(Futures \X Tasks) /\ Head(wakers[t])[1] \in Futures
      BY <1>17, HeadTailList DEF Wake
    <2> QED
      BY <1>17, <2>1 DEF Wake, shared, future
  <1>18. ASSUME NEW t \in Threads, WakeEnd(t) PROVE TypeOK'
    BY <1>18 DEF WakeEnd, Finish, future
  <1>19. ASSUME NEW t \in Threads, WakeMore(t) PROVE TypeOK'
    BY <1>19 DEF WakeMore, Goto, future
  <1>20. ASSUME NEW t \in Threads, NEW o \in Ops, NEW c \in 0..MaxCount, Call(t, o, c) PROVE TypeOK'
    <2>1. flag' \in BOOLEAN
      BY <1>20, Zenon DEF Call
    <2>2. /\ op' \in [Threads -> Ops \cup {NONE}] /\ left' \in [Threads -> 0..MaxCount]
          /\ calls' \in [Threads -> 0..MaxCalls]
      BY <1>20, SMTT(30) DEF Call, Ops
    <2> QED
      BY <1>20, <2>1, <2>2 DEF Call, future
  <1>21. CASE UNCHANGED vars
    BY <1>21 DEF vars, shared, future, thread
  <1> QED
    BY <1>1, <1>2, <1>3, <1>4, <1>5, <1>6, <1>7, <1>8, <1>9, <1>10, <1>11, <1>12, <1>13, <1>14,
       <1>15, <1>16, <1>17, <1>18, <1>19, <1>20, <1>21
    DEF Next, FutureStep, ThreadStep

(* What is empty stays empty. *)
LEMMA TakeOutEmpty ==
    ASSUME TypeOK, ListInv, NEW f \in Futures, TakeOut(f)
    PROVE  /\ queue = <<>> => queue' = <<>>
           /\ \A t \in Threads : drained[t] = <<>> => drained'[t] = <<>>
  <1>1. queue = <<>> => ~InSeq(f, queue)
    BY EmptyList DEF TypeOK
  <1>2. \A t \in Threads : drained[t] = <<>> => ~InSeq(f, drained[t])
    BY EmptyList DEF TypeOK
  <1> QED
    BY <1>1, <1>2, TakeOutLists

(* A node that leaves the list it is in, and is not Queued any more. *)
LEMMA TakeOutInv ==
    ASSUME TypeOK, ListInv, NEW f \in Futures, TakeOut(f),
           NEW s \in {"Unqueued", "Dequeued"}, status' = [status EXCEPT ![f] = s]
    PROVE  ListInv'
  <1>1. \A g \in Futures : status'[g] = "Queued" <=> status[g] = "Queued" /\ g # f
    BY DEF TypeOK
  <1>2. /\ Distinct(queue')
        /\ \A g \in Futures : InSeq(g, queue') <=> InSeq(g, queue) /\ g # f
        /\ \A t \in Threads : Distinct(drained'[t])
        /\ \A t \in Threads, g \in Futures : InSeq(g, drained'[t]) <=> InSeq(g, drained[t]) /\ g # f
    BY TakeOutLists
  <1> QED
    BY <1>1, <1>2 DEF ListInv

(* A node is appended only if it is in no list, and taken out of the one it is in. *)
LEMMA ListStep == IInv /\ [Next]_vars => ListInv'
  <1> SUFFICES ASSUME IInv, [Next]_vars PROVE ListInv'
    OBVIOUS
  <1> USE DEF IInv, TypeOK, ListInv, WakerInv
  <1>1. ASSUME NEW f \in Futures, PollState(f) PROVE ListInv'
    BY <1>1 DEF PollState, Requeue, StoredWaker, FGoto, shared, thread
  <1>2. ASSUME NEW f \in Futures, PollLocked(f) PROVE ListInv'
    BY <1>2 DEF PollLocked, Requeue, StoredWaker, UpdatedWaker, FGoto, shared, thread
  <1>3. ASSUME NEW f \in Futures, PollEnqueue(f) PROVE ListInv'
    <2>1. CASE Closed
      BY <1>3, <2>1 DEF PollEnqueue
    <2>2. CASE ~Closed
      <3>1. queue \in Seq(Futures) /\ ~InSeq(f, queue) /\ \A t \in Threads : ~InSeq(f, drained[t])
        BY <1>3 DEF PollEnqueue
      <3>2. /\ queue' = Append(queue, f) /\ UNCHANGED drained
            /\ status' = [status EXCEPT ![f] = "Queued"]
        BY <1>3, <2>2 DEF PollEnqueue
      <3>3. /\ Distinct(queue')
            /\ \A g : InSeq(g, queue') <=> InSeq(g, queue) \/ g = f
        BY <3>1, <3>2, AppendList
      <3> QED
        BY <3>1, <3>2, <3>3
    <2> QED
      BY <2>1, <2>2
  <1>4. ASSUME NEW f \in Futures, PollEnd(f) PROVE ListInv'
    BY <1>4 DEF PollEnd, FGoto, Leave, shared, thread
  <1>5. ASSUME NEW f \in Futures, DropLocked(f) PROVE ListInv'
    <2>1. CASE status[f] = "Queued"
      <3>1. TakeOut(f) /\ status' = [status EXCEPT ![f] = "Unqueued"]
        BY <1>5, <2>1 DEF DropLocked, Free
      <3> QED
        BY <3>1, TakeOutInv
    <2>2. CASE status[f] # "Queued"
      BY <1>5, <2>2 DEF DropLocked, Free
    <2> QED
      BY <2>1, <2>2
  <1>6. ASSUME NEW f \in Futures, Drop(f) PROVE ListInv'
    BY <1>6, ZenonT(40) DEF Drop, FGoto, Leave, Free, shared, thread
  <1>7. ASSUME NEW f \in Futures, NEW k \in Tasks, Poll(f, k) PROVE ListInv'
    BY <1>7 DEF Poll, FGoto, Leave, shared, thread
  <1>8. ASSUME NEW f \in Futures, NEW k \in Kinds, New(f, k) PROVE ListInv'
    BY <1>8 DEF New, FGoto, shared, thread
  <1>9. ASSUME NEW t \in Threads, ReadEmpty(t) PROVE ListInv'
    BY <1>9 DEF ReadEmpty, Finish, Goto, future
  <1>10. ASSUME NEW t \in Threads, Lock(t) PROVE ListInv'
    BY <1>10 DEF Lock, Finish, Goto, future
  <1>11. ASSUME NEW t \in Threads, NotifyOne(t) PROVE ListInv'
    <2> DEFINE f == IF op[t] = "one" THEN Head(queue) ELSE queue[Len(queue)]
    <2>1. f \in Futures /\ status[f] = "Queued" /\ Take(t, f)
      BY <1>11, FirstIsQueued DEF NotifyOne, RoomInv
    <2>2. TakeOut(f)
      BY <2>1 DEF Take
    <2> HIDE DEF f
    <2>3. status' = [status EXCEPT ![f] = "Dequeued"]
      BY <2>1 DEF Take
    <2> QED
      BY <2>1, <2>2, <2>3, TakeOutInv
  <1>12. ASSUME NEW t \in Threads, NotifyMany(t) PROVE ListInv'
    <2> DEFINE f == Head(queue)
    <2>1. f \in Futures /\ status[f] = "Queued" /\ Take(t, f)
      BY <1>12, FirstIsQueued DEF NotifyMany, RoomInv
    <2>2. TakeOut(f)
      BY <2>1 DEF Take
    <2> HIDE DEF f
    <2>3. status' = [status EXCEPT ![f] = "Dequeued"]
      BY <2>1 DEF Take
    <2> QED
      BY <2>1, <2>2, <2>3, TakeOutInv
  <1>13. ASSUME NEW t \in Threads, NotifyManyEnd(t) PROVE ListInv'
    BY <1>13 DEF NotifyManyEnd, Goto, future
  <1>14. ASSUME NEW t \in Threads, DrainQueue(t) PROVE ListInv'
    <2>1. drained[t] = <<>>
      BY <1>14 DEF DrainQueue, DrainInv
    <2>2. /\ \A g : ~InSeq(g, drained[t])
          /\ \A g : ~InSeq(g, queue')
          /\ Distinct(queue')
      BY <1>14, <2>1 DEF DrainQueue, InSeq, Distinct
    <2>3. \A u \in Threads : drained'[u] = IF u = t THEN queue ELSE drained[u]
      BY <1>14 DEF DrainQueue
    <2>4. UNCHANGED status
      BY <1>14 DEF DrainQueue, future
    <2>5. \A u \in Threads : Distinct(drained'[u])
      BY <2>3, ZenonT(40)
    <2>6. \A g \in Futures, u \in Threads :
            InSeq(g, drained'[u]) <=> IF u = t THEN InSeq(g, queue) ELSE InSeq(g, drained[u])
      BY <2>3
    <2> QED
      BY <2>2, <2>4, <2>5, <2>6
  <1>15. ASSUME NEW t \in Threads, DrainNext(t) PROVE ListInv'
    <2> DEFINE f == Head(drained[t])
    <2>1. f \in Futures /\ status[f] = "Queued" /\ Take(t, f)
      BY <1>15, FirstIsQueued DEF DrainNext, RoomInv
    <2>2. TakeOut(f)
      BY <2>1 DEF Take
    <2> HIDE DEF f
    <2>3. status' = [status EXCEPT ![f] = "Dequeued"]
      BY <2>1 DEF Take
    <2> QED
      BY <2>1, <2>2, <2>3, TakeOutInv
  <1>16. ASSUME NEW t \in Threads, DrainEnd(t) PROVE ListInv'
    BY <1>16 DEF DrainEnd, Goto, future
  <1>17. ASSUME NEW t \in Threads, Wake(t) PROVE ListInv'
    BY <1>17 DEF Wake, shared, future
  <1>18. ASSUME NEW t \in Threads, WakeEnd(t) PROVE ListInv'
    BY <1>18 DEF WakeEnd, Finish, future
  <1>19. ASSUME NEW t \in Threads, WakeMore(t) PROVE ListInv'
    BY <1>19 DEF WakeMore, Goto, future
  <1>20. ASSUME NEW t \in Threads, NEW o \in Ops, NEW c \in 0..MaxCount, Call(t, o, c) PROVE ListInv'
    BY <1>20 DEF Call, future
  <1>21. CASE UNCHANGED vars
    BY <1>21 DEF vars, shared, future, thread
  <1> QED
    BY <1>1, <1>2, <1>3, <1>4, <1>5, <1>6, <1>7, <1>8, <1>9, <1>10, <1>11, <1>12, <1>13, <1>14,
       <1>15, <1>16, <1>17, <1>18, <1>19, <1>20, <1>21
    DEF Next, FutureStep, ThreadStep

(* Only a drain holds nodes besides the queue. *)
LEMMA DrainStep == IInv /\ [Next]_vars => DrainInv'
  <1> SUFFICES ASSUME IInv, [Next]_vars PROVE DrainInv'
    OBVIOUS
  <1> USE DEF IInv, TypeOK, DrainInv
  <1>1. ASSUME NEW f \in Futures, PollState(f) PROVE DrainInv'
    BY <1>1 DEF PollState, Requeue, StoredWaker, FGoto, shared, thread
  <1>2. ASSUME NEW f \in Futures, PollLocked(f) PROVE DrainInv'
    BY <1>2 DEF PollLocked, Requeue, StoredWaker, UpdatedWaker, FGoto, shared, thread
  <1>3. ASSUME NEW f \in Futures, PollEnqueue(f) PROVE DrainInv'
    BY <1>3 DEF PollEnqueue, FGoto, Closed, thread
  <1>4. ASSUME NEW f \in Futures, PollEnd(f) PROVE DrainInv'
    BY <1>4 DEF PollEnd, FGoto, Leave, shared, thread
  <1>5. ASSUME NEW f \in Futures, DropLocked(f) PROVE DrainInv'
    <2>1. \A t \in Threads : drained'[t] # <<>> => drained[t] # <<>>
      BY <1>5, TakeOutEmpty DEF DropLocked
    <2> QED
      BY <1>5, <2>1 DEF DropLocked, thread
  <1>6. ASSUME NEW f \in Futures, Drop(f) PROVE DrainInv'
    BY <1>6 DEF Drop, FGoto, Leave, Free, shared, thread
  <1>7. ASSUME NEW f \in Futures, NEW k \in Tasks, Poll(f, k) PROVE DrainInv'
    BY <1>7 DEF Poll, FGoto, Leave, shared, thread
  <1>8. ASSUME NEW f \in Futures, NEW k \in Kinds, New(f, k) PROVE DrainInv'
    BY <1>8 DEF New, FGoto, shared, thread
  <1>9. ASSUME NEW t \in Threads, ReadEmpty(t) PROVE DrainInv'
    <2>1. pc[t] \in {"read", "lock"} /\ \E l \in {"idle", "lock"} : pc' = [pc EXCEPT ![t] = l]
      BY <1>9 DEF ReadEmpty, Finish, Goto
    <2>2. \A u \in Threads : u # t => op'[u] = op[u]
      BY <1>9 DEF ReadEmpty, Finish, Goto
    <2>3. UNCHANGED <<queue, drained>>
      BY <1>9 DEF ReadEmpty
    <2>4. closed' => closed \/ queue = <<>>
      BY <1>9, Zenon DEF ReadEmpty
    <2>5. closed => closed'
      BY <1>9, Zenon DEF ReadEmpty
    <2> QED
      BY <2>1, <2>2, <2>3, <2>4, <2>5, SMTT(30)
  <1>10. ASSUME NEW t \in Threads, Lock(t) PROVE DrainInv'
    BY <1>10 DEF Lock, Finish, Goto, future
  <1>11. ASSUME NEW t \in Threads, NotifyOne(t) PROVE DrainInv'
    <2> DEFINE f == IF op[t] = "one" THEN Head(queue) ELSE queue[Len(queue)]
    <2>1. f \in Futures /\ status[f] = "Queued" /\ Take(t, f)
      BY <1>11, FirstIsQueued DEF NotifyOne, RoomInv
    <2>2. TakeOut(f)
      BY <2>1 DEF Take
    <2> HIDE DEF f
    <2>3. \A u \in Threads : drained'[u] # <<>> => drained[u] # <<>>
      BY <2>1, <2>2, TakeOutEmpty
    <2> QED
      BY <1>11, <2>3 DEF NotifyOne, Goto
  <1>12. ASSUME NEW t \in Threads, NotifyMany(t) PROVE DrainInv'
    <2> DEFINE f == Head(queue)
    <2>1. f \in Futures /\ status[f] = "Queued" /\ Take(t, f)
      BY <1>12, FirstIsQueued DEF NotifyMany, RoomInv
    <2>2. TakeOut(f)
      BY <2>1 DEF Take
    <2> HIDE DEF f
    <2>3. \A u \in Threads : drained'[u] # <<>> => drained[u] # <<>>
      BY <2>1, <2>2, TakeOutEmpty
    <2>4. /\ pc[t] = "locked" /\ op[t] = "many" /\ UNCHANGED op
          /\ \E l \in {"wake_more", "locked"} : pc' = [pc EXCEPT ![t] = l]
      BY <1>12 DEF NotifyMany
    <2> QED
      BY <2>3, <2>4
  <1>13. ASSUME NEW t \in Threads, NotifyManyEnd(t) PROVE DrainInv'
    BY <1>13 DEF NotifyManyEnd, Goto, future
  <1>14. ASSUME NEW t \in Threads, DrainQueue(t) PROVE DrainInv'
    BY <1>14 DEF DrainQueue, Goto, StateAfterDrain, future
  <1>15. ASSUME NEW t \in Threads, DrainNext(t) PROVE DrainInv'
    <2> DEFINE f == Head(drained[t])
    <2>1. f \in Futures /\ status[f] = "Queued" /\ Take(t, f)
      BY <1>15, FirstIsQueued DEF DrainNext, RoomInv
    <2>2. TakeOut(f)
      BY <2>1 DEF Take
    <2> HIDE DEF f
    <2>3. \A u \in Threads : drained'[u] # <<>> => drained[u] # <<>>
      BY <2>1, <2>2, TakeOutEmpty
    <2>4. /\ pc[t] = "drain" /\ UNCHANGED op
          /\ pc' = [pc EXCEPT ![t] = "wake_more"] \/ UNCHANGED pc
      BY <1>15 DEF DrainNext, Goto
    <2> QED
      BY <2>3, <2>4
  <1>16. ASSUME NEW t \in Threads, DrainEnd(t) PROVE DrainInv'
    BY <1>16 DEF DrainEnd, Goto, future
  <1>17. ASSUME NEW t \in Threads, Wake(t) PROVE DrainInv'
    BY <1>17 DEF Wake, shared, future
  <1>18. ASSUME NEW t \in Threads, WakeEnd(t) PROVE DrainInv'
    BY <1>18 DEF WakeEnd, Finish, future
  <1>19. ASSUME NEW t \in Threads, WakeMore(t) PROVE DrainInv'
    BY <1>19 DEF WakeMore, Goto, future
  <1>20. ASSUME NEW t \in Threads, NEW o \in Ops, NEW c \in 0..MaxCount, Call(t, o, c) PROVE DrainInv'
    BY <1>20 DEF Call, future
  <1>21. CASE UNCHANGED vars
    BY <1>21 DEF vars, shared, future, thread
  <1> QED
    BY <1>1, <1>2, <1>3, <1>4, <1>5, <1>6, <1>7, <1>8, <1>9, <1>10, <1>11, <1>12, <1>13, <1>14,
       <1>15, <1>16, <1>17, <1>18, <1>19, <1>20, <1>21
    DEF Next, FutureStep, ThreadStep

(* A queue is closed only when it is empty, and a closed queue takes no node. *)
LEMMA CloseStep == IInv /\ [Next]_vars => CloseInv'
  <1> SUFFICES ASSUME IInv, [Next]_vars PROVE CloseInv'
    OBVIOUS
  <1> USE DEF IInv, TypeOK, CloseInv
  <1>1. ASSUME NEW f \in Futures, PollState(f) PROVE CloseInv'
    BY <1>1 DEF PollState, Requeue, StoredWaker, FGoto, shared, thread
  <1>2. ASSUME NEW f \in Futures, PollLocked(f) PROVE CloseInv'
    BY <1>2 DEF PollLocked, Requeue, StoredWaker, UpdatedWaker, FGoto, shared, thread
  <1>3. ASSUME NEW f \in Futures, PollEnqueue(f) PROVE CloseInv'
    BY <1>3 DEF PollEnqueue, FGoto, Closed, thread
  <1>4. ASSUME NEW f \in Futures, PollEnd(f) PROVE CloseInv'
    BY <1>4 DEF PollEnd, FGoto, Leave, shared, thread
  <1>5. ASSUME NEW f \in Futures, DropLocked(f) PROVE CloseInv'
    <2>1. queue = <<>> => queue' = <<>>
      BY <1>5, TakeOutEmpty DEF DropLocked
    <2> QED
      BY <1>5, <2>1 DEF DropLocked, thread
  <1>6. ASSUME NEW f \in Futures, Drop(f) PROVE CloseInv'
    BY <1>6 DEF Drop, FGoto, Leave, Free, shared, thread
  <1>7. ASSUME NEW f \in Futures, NEW k \in Tasks, Poll(f, k) PROVE CloseInv'
    BY <1>7 DEF Poll, FGoto, Leave, shared, thread
  <1>8. ASSUME NEW f \in Futures, NEW k \in Kinds, New(f, k) PROVE CloseInv'
    BY <1>8 DEF New, FGoto, shared, thread
  <1>9. ASSUME NEW t \in Threads, ReadEmpty(t) PROVE CloseInv'
    <2>1. pc[t] \in {"read", "lock"} /\ \E l \in {"idle", "lock"} : pc' = [pc EXCEPT ![t] = l]
      BY <1>9 DEF ReadEmpty, Finish, Goto
    <2>2. \A u \in Threads : u # t => op'[u] = op[u]
      BY <1>9 DEF ReadEmpty, Finish, Goto
    <2>3. UNCHANGED <<queue, drained>>
      BY <1>9 DEF ReadEmpty
    <2>4. closed' => closed \/ queue = <<>>
      BY <1>9, Zenon DEF ReadEmpty
    <2>5. closed => closed'
      BY <1>9, Zenon DEF ReadEmpty
    <2> QED
      BY <2>1, <2>2, <2>3, <2>4, <2>5
  <1>10. ASSUME NEW t \in Threads, Lock(t) PROVE CloseInv'
    <2>1. pc[t] \in {"read", "lock"} /\ \E l \in {"idle", "locked"} : pc' = [pc EXCEPT ![t] = l]
      BY <1>10 DEF Lock, Finish, Goto
    <2>2. \A u \in Threads : u # t => op'[u] = op[u]
      BY <1>10 DEF Lock, Finish, Goto
    <2>3. UNCHANGED <<queue, drained>>
      BY <1>10 DEF Lock
    <2>4. closed' => closed \/ queue = <<>>
      BY <1>10, Zenon DEF Lock
    <2>5. closed => closed'
      BY <1>10, Zenon DEF Lock
    <2> QED
      BY <2>1, <2>2, <2>3, <2>4, <2>5
  <1>11. ASSUME NEW t \in Threads, NotifyOne(t) PROVE CloseInv'
    <2> DEFINE f == IF op[t] = "one" THEN Head(queue) ELSE queue[Len(queue)]
    <2>1. f \in Futures /\ status[f] = "Queued" /\ Take(t, f)
      BY <1>11, FirstIsQueued DEF NotifyOne, RoomInv
    <2>2. TakeOut(f)
      BY <2>1 DEF Take
    <2> HIDE DEF f
    <2>3. queue = <<>> => queue' = <<>>
      BY <2>1, <2>2, TakeOutEmpty
    <2> QED
      BY <1>11, <2>3 DEF NotifyOne, Goto
  <1>12. ASSUME NEW t \in Threads, NotifyMany(t) PROVE CloseInv'
    <2> DEFINE f == Head(queue)
    <2>1. f \in Futures /\ status[f] = "Queued" /\ Take(t, f)
      BY <1>12, FirstIsQueued DEF NotifyMany, RoomInv
    <2>2. TakeOut(f)
      BY <2>1 DEF Take
    <2> HIDE DEF f
    <2>3. queue = <<>> => queue' = <<>>
      BY <2>1, <2>2, TakeOutEmpty
    <2>4. /\ pc[t] = "locked" /\ op[t] = "many" /\ UNCHANGED <<op, closed>>
          /\ \E l \in {"wake_more", "locked"} : pc' = [pc EXCEPT ![t] = l]
      BY <1>12 DEF NotifyMany
    <2> QED
      BY <2>3, <2>4
  <1>13. ASSUME NEW t \in Threads, NotifyManyEnd(t) PROVE CloseInv'
    BY <1>13 DEF NotifyManyEnd, Goto, future
  <1>14. ASSUME NEW t \in Threads, DrainQueue(t) PROVE CloseInv'
    <2>1. /\ queue # <<>> /\ pc[t] = "locked" /\ UNCHANGED op
          /\ pc' = [pc EXCEPT ![t] = "drain"] /\ queue' = <<>>
      BY <1>14 DEF DrainQueue, RoomInv, Goto
    <2>2. closed' <=> op[t] = "close"
      BY <1>14, <2>1, Zenon DEF DrainQueue, StateAfterDrain
    <2> QED
      BY <2>1, <2>2
  <1>15. ASSUME NEW t \in Threads, DrainNext(t) PROVE CloseInv'
    <2> DEFINE f == Head(drained[t])
    <2>1. f \in Futures /\ status[f] = "Queued" /\ Take(t, f)
      BY <1>15, FirstIsQueued DEF DrainNext, RoomInv
    <2>2. TakeOut(f)
      BY <2>1 DEF Take
    <2> HIDE DEF f
    <2>3. queue = <<>> => queue' = <<>>
      BY <2>1, <2>2, TakeOutEmpty
    <2>4. /\ pc[t] = "drain" /\ UNCHANGED <<op, closed>>
          /\ pc' = [pc EXCEPT ![t] = "wake_more"] \/ UNCHANGED pc
      BY <1>15 DEF DrainNext, Goto
    <2> QED
      BY <2>3, <2>4
  <1>16. ASSUME NEW t \in Threads, DrainEnd(t) PROVE CloseInv'
    BY <1>16 DEF DrainEnd, Goto, future
  <1>17. ASSUME NEW t \in Threads, Wake(t) PROVE CloseInv'
    BY <1>17 DEF Wake, shared, future
  <1>18. ASSUME NEW t \in Threads, WakeEnd(t) PROVE CloseInv'
    BY <1>18 DEF WakeEnd, Finish, future
  <1>19. ASSUME NEW t \in Threads, WakeMore(t) PROVE CloseInv'
    BY <1>19 DEF WakeMore, Goto, future
  <1>20. ASSUME NEW t \in Threads, NEW o \in Ops, NEW c \in 0..MaxCount, Call(t, o, c) PROVE CloseInv'
    BY <1>20 DEF Call, future
  <1>21. CASE UNCHANGED vars
    BY <1>21 DEF vars, shared, future, thread
  <1> QED
    BY <1>1, <1>2, <1>3, <1>4, <1>5, <1>6, <1>7, <1>8, <1>9, <1>10, <1>11, <1>12, <1>13, <1>14,
       <1>15, <1>16, <1>17, <1>18, <1>19, <1>20, <1>21
    DEF Next, FutureStep, ThreadStep

(* Who has found a node under the lock keeps finding it; full lists are woken first. *)
LEMMA RoomStep == IInv /\ [Next]_vars => RoomInv'
  <1> SUFFICES ASSUME IInv, [Next]_vars PROVE RoomInv'
    OBVIOUS
  <1> USE DEF IInv, TypeOK, RoomInv
  <1>1. ASSUME NEW f \in Futures, PollState(f) PROVE RoomInv'
    BY <1>1 DEF PollState, Requeue, StoredWaker, FGoto, shared, thread
  <1>2. ASSUME NEW f \in Futures, PollLocked(f) PROVE RoomInv'
    BY <1>2 DEF PollLocked, Requeue, StoredWaker, UpdatedWaker, FGoto, shared, thread
  <1>3. ASSUME NEW f \in Futures, PollEnqueue(f) PROVE RoomInv'
    <2>1. queue # <<>> => queue' # <<>>
      BY <1>3, AppendList DEF PollEnqueue
    <2> QED
      BY <1>3, <2>1 DEF PollEnqueue, thread
  <1>4. ASSUME NEW f \in Futures, PollEnd(f) PROVE RoomInv'
    BY <1>4 DEF PollEnd, FGoto, Leave, shared, thread
  <1>5. ASSUME NEW f \in Futures, DropLocked(f) PROVE RoomInv'
    <2>1. \A t \in Threads : pc[t] \notin {"locked", "drain"}
      BY <1>5 DEF DropLocked, LockInv
    <2> QED
      BY <1>5, <2>1 DEF DropLocked, thread
  <1>6. ASSUME NEW f \in Futures, Drop(f) PROVE RoomInv'
    BY <1>6 DEF Drop, FGoto, Leave, Free, shared, thread
  <1>7. ASSUME NEW f \in Futures, NEW k \in Tasks, Poll(f, k) PROVE RoomInv'
    BY <1>7 DEF Poll, FGoto, Leave, shared, thread
  <1>8. ASSUME NEW f \in Futures, NEW k \in Kinds, New(f, k) PROVE RoomInv'
    BY <1>8 DEF New, FGoto, shared, thread
  <1>9. ASSUME NEW t \in Threads, ReadEmpty(t) PROVE RoomInv'
    BY <1>9, SMTT(30) DEF ReadEmpty, Finish, Goto, future
  <1>10. ASSUME NEW t \in Threads, Lock(t) PROVE RoomInv'
    BY <1>10, SMTT(30) DEF Lock, Finish, Goto, future
  <1>11. ASSUME NEW t \in Threads, NotifyOne(t) PROVE RoomInv'
    <2> DEFINE f == IF op[t] = "one" THEN Head(queue) ELSE queue[Len(queue)]
    <2>1. f \in Futures /\ status[f] = "Queued" /\ Take(t, f)
      BY <1>11, FirstIsQueued DEF NotifyOne, RoomInv
    <2>2. TakeOut(f)
      BY <2>1 DEF Take
    <2> HIDE DEF f
    <2>3. \A u \in Threads : u # t => wakers'[u] = wakers[u]
      BY <2>1, TakeWaker
    <2>4. Len(wakers'[t]) = Len(wakers[t]) + 1 /\ Len(wakers[t]) < Capacity
      BY <1>11, <2>1, TakeWaker DEF NotifyOne
    <2>5. \A u \in Threads : u # t => pc[u] \notin {"locked", "drain"}
      BY <1>11 DEF NotifyOne, LockInv
    <2>6. \A u \in Threads : u # t => pc'[u] = pc[u] /\ op'[u] = op[u]
      BY <1>11 DEF NotifyOne, Goto
    <2>7. pc'[t] = "wake"
      BY <1>11 DEF NotifyOne, Goto
    <2> QED
      BY <2>3, <2>5, <2>6, <2>7
  <1>12. ASSUME NEW t \in Threads, NotifyMany(t) PROVE RoomInv'
    <2> DEFINE f == Head(queue)
    <2>1. f \in Futures /\ status[f] = "Queued" /\ Take(t, f)
      BY <1>12, FirstIsQueued DEF NotifyMany, RoomInv
    <2>2. TakeOut(f)
      BY <2>1 DEF Take
    <2> HIDE DEF f
    <2>3. \A u \in Threads : u # t => wakers'[u] = wakers[u]
      BY <2>1, TakeWaker
    <2>4. Len(wakers'[t]) = Len(wakers[t]) + 1 /\ Len(wakers[t]) < Capacity
      BY <1>12, <2>1, TakeWaker DEF NotifyMany
    <2>5. \A u \in Threads : u # t => pc[u] \notin {"locked", "drain"}
      BY <1>12 DEF NotifyMany, LockInv
    <2>6. \A u \in Threads : u # t => pc'[u] = pc[u] /\ op'[u] = op[u]
      BY <1>12 DEF NotifyMany, Goto
    <2>7. op'[t] = "many" /\ pc[t] = "locked" /\ pc'[t] = IF Len(wakers'[t]) = Capacity THEN "wake_more" ELSE "locked"
      BY <1>12 DEF NotifyMany
    <2>8. Len(wakers[t]) \in Nat /\ Capacity \in Nat
      OBVIOUS
    <2>9. pc'[t] \in {"wake_more", "locked"} /\ (pc'[t] = "locked" => Len(wakers'[t]) < Capacity)
      BY <2>4, <2>7, <2>8
    <2> QED
      BY <2>3, <2>5, <2>6, <2>7, <2>9
  <1>13. ASSUME NEW t \in Threads, NotifyManyEnd(t) PROVE RoomInv'
    BY <1>13 DEF NotifyManyEnd, Goto, future
  <1>14. ASSUME NEW t \in Threads, DrainQueue(t) PROVE RoomInv'
    <2>1. /\ pc[t] = "locked" /\ pc' = [pc EXCEPT ![t] = "drain"] /\ UNCHANGED <<op, wakers>>
          /\ \A u \in Threads : u # t => pc[u] \notin {"locked", "drain"}
      BY <1>14 DEF DrainQueue, Goto, LockInv
    <2> QED
      BY <2>1
  <1>15. ASSUME NEW t \in Threads, DrainNext(t) PROVE RoomInv'
    <2> DEFINE f == Head(drained[t])
    <2>1. f \in Futures /\ status[f] = "Queued" /\ Take(t, f)
      BY <1>15, FirstIsQueued DEF DrainNext, RoomInv
    <2>2. TakeOut(f)
      BY <2>1 DEF Take
    <2> HIDE DEF f
    <2>3. \A u \in Threads : u # t => wakers'[u] = wakers[u]
      BY <2>1, TakeWaker
    <2>4. Len(wakers'[t]) = Len(wakers[t]) + 1 /\ Len(wakers[t]) < Capacity
      BY <1>15, <2>1, TakeWaker DEF DrainNext
    <2>5. \A u \in Threads : u # t => pc[u] \notin {"locked", "drain"}
      BY <1>15 DEF DrainNext, LockInv
    <2>6. \A u \in Threads : u # t => pc'[u] = pc[u] /\ op'[u] = op[u]
      BY <1>15 DEF DrainNext, Goto
    <2>7. pc'[t] = IF Len(wakers'[t]) = Capacity /\ drained'[t] # <<>> THEN "wake_more" ELSE "drain"
      BY <1>15 DEF DrainNext, Goto
    <2>8. Len(wakers[t]) \in Nat /\ Capacity \in Nat
      OBVIOUS
    <2>9. pc'[t] \in {"wake_more", "drain"} /\ (pc'[t] = "drain" /\ drained'[t] # <<>> => Len(wakers'[t]) < Capacity)
      BY <2>4, <2>7, <2>8
    <2> QED
      BY <2>3, <2>5, <2>6, <2>7, <2>9
  <1>16. ASSUME NEW t \in Threads, DrainEnd(t) PROVE RoomInv'
    BY <1>16 DEF DrainEnd, Goto, future
  <1>17. ASSUME NEW t \in Threads, Wake(t) PROVE RoomInv'
    <2>1. pc[t] \in {"wake", "wake_more"} /\ UNCHANGED <<pc, op, queue, drained>>
      BY <1>17 DEF Wake, shared
    <2>2. \A u \in Threads : u # t => wakers'[u] = wakers[u]
      BY <1>17 DEF Wake
    <2> QED
      BY <2>1, <2>2
  <1>18. ASSUME NEW t \in Threads, WakeEnd(t) PROVE RoomInv'
    BY <1>18 DEF WakeEnd, Finish, future
  <1>19. ASSUME NEW t \in Threads, WakeMore(t) PROVE RoomInv'
    BY <1>19, SMTT(30) DEF WakeMore, Goto, future
  <1>20. ASSUME NEW t \in Threads, NEW o \in Ops, NEW c \in 0..MaxCount, Call(t, o, c) PROVE RoomInv'
    BY <1>20 DEF Call, future
  <1>21. CASE UNCHANGED vars
    BY <1>21 DEF vars, shared, future, thread
  <1> QED
    BY <1>1, <1>2, <1>3, <1>4, <1>5, <1>6, <1>7, <1>8, <1>9, <1>10, <1>11, <1>12, <1>13, <1>14,
       <1>15, <1>16, <1>17, <1>18, <1>19, <1>20, <1>21
    DEF Next, FutureStep, ThreadStep

(* A waiter holds the waker of its poll from before its insertion. *)
LEMMA WakerStep == IInv /\ [Next]_vars => WakerInv'
  <1> SUFFICES ASSUME IInv, [Next]_vars PROVE WakerInv'
    OBVIOUS
  <1> USE DEF IInv, TypeOK, WakerInv
  <1>1. ASSUME NEW f \in Futures, PollState(f) PROVE WakerInv'
    BY <1>1 DEF PollState, Requeue, StoredWaker, FGoto, shared, thread
  <1>2. ASSUME NEW f \in Futures, PollLocked(f) PROVE WakerInv'
    BY <1>2 DEF PollLocked, Requeue, StoredWaker, UpdatedWaker, FGoto, shared, thread
  <1>3. ASSUME NEW f \in Futures, PollEnqueue(f) PROVE WakerInv'
    BY <1>3 DEF PollEnqueue, FGoto, Closed, thread
  <1>4. ASSUME NEW f \in Futures, PollEnd(f) PROVE WakerInv'
    BY <1>4 DEF PollEnd, FGoto, Leave, shared, thread
  <1>5. ASSUME NEW f \in Futures, DropLocked(f) PROVE WakerInv'
    BY <1>5 DEF DropLocked, FGoto, Free, thread
  <1>6. ASSUME NEW f \in Futures, Drop(f) PROVE WakerInv'
    <2>1. CASE status[f] = "Queued"
      BY <1>6, <2>1, ZenonT(40) DEF Drop, FGoto, Leave
    <2>2. CASE status[f] # "Queued"
      <3>1. \A g \in Futures : g # f =>
                status'[g] = status[g] /\ waker'[g] = waker[g] /\ fpc'[g] = fpc[g] /\ cx'[g] = cx[g]
        BY <1>6, <2>2 DEF Drop, FGoto, Leave, Free
      <3>2. status'[f] = "Unqueued" /\ fpc'[f] = "gone" /\ cx'[f] = NONE
        BY <1>6, <2>2 DEF Drop, FGoto, Leave, Free
      <3> QED
        BY <3>1, <3>2, ZenonT(40)
    <2> QED
      BY <2>1, <2>2
  <1>7. ASSUME NEW f \in Futures, NEW k \in Tasks, Poll(f, k) PROVE WakerInv'
    <2>1. /\ \/ fpc' = [fpc EXCEPT ![f] = "done"] /\ cx' = [cx EXCEPT ![f] = NONE]
             \/ fpc' = [fpc EXCEPT ![f] = "state"] /\ cx' = [cx EXCEPT ![f] = k]
          /\ UNCHANGED <<status, waker>>
      BY <1>7 DEF Poll, FGoto, Leave
    <2>2. \A g \in Futures : g # f => fpc'[g] = fpc[g] /\ cx'[g] = cx[g]
      BY <2>1
    <2>3. (fpc'[f] = "done" /\ cx'[f] = NONE) \/ (fpc'[f] = "state" /\ cx'[f] = k)
      BY <2>1
    <2>4. k # NONE
      OBVIOUS
    <2> QED
      BY <2>1, <2>2, <2>3, <2>4, ZenonT(40)
  <1>8. ASSUME NEW f \in Futures, NEW k \in Kinds, New(f, k) PROVE WakerInv'
    BY <1>8 DEF New, FGoto, shared, thread
  <1>9. ASSUME NEW t \in Threads, ReadEmpty(t) PROVE WakerInv'
    BY <1>9 DEF ReadEmpty, Finish, Goto, future
  <1>10. ASSUME NEW t \in Threads, Lock(t) PROVE WakerInv'
    BY <1>10 DEF Lock, Finish, Goto, future
  <1>11. ASSUME NEW t \in Threads, NotifyOne(t) PROVE WakerInv'
    <2> DEFINE f == IF op[t] = "one" THEN Head(queue) ELSE queue[Len(queue)]
    <2>1. f \in Futures /\ status[f] = "Queued" /\ Take(t, f)
      BY <1>11, FirstIsQueued DEF NotifyOne, RoomInv
    <2>2. TakeOut(f)
      BY <2>1 DEF Take
    <2> HIDE DEF f
    <2>3. status' = [status EXCEPT ![f] = "Dequeued"] /\ waker' = [waker EXCEPT ![f] = NONE]
      BY <2>1 DEF Take
    <2> QED
      BY <1>11, <2>1, <2>3 DEF NotifyOne
  <1>12. ASSUME NEW t \in Threads, NotifyMany(t) PROVE WakerInv'
    <2> DEFINE f == Head(queue)
    <2>1. f \in Futures /\ status[f] = "Queued" /\ Take(t, f)
      BY <1>12, FirstIsQueued DEF NotifyMany, RoomInv
    <2>2. TakeOut(f)
      BY <2>1 DEF Take
    <2> HIDE DEF f
    <2>3. status' = [status EXCEPT ![f] = "Dequeued"] /\ waker' = [waker EXCEPT ![f] = NONE]
      BY <2>1 DEF Take
    <2> QED
      BY <1>12, <2>1, <2>3 DEF NotifyMany
  <1>13. ASSUME NEW t \in Threads, NotifyManyEnd(t) PROVE WakerInv'
    BY <1>13 DEF NotifyManyEnd, Goto, future
  <1>14. ASSUME NEW t \in Threads, DrainQueue(t) PROVE WakerInv'
    BY <1>14 DEF DrainQueue, Goto, StateAfterDrain, future
  <1>15. ASSUME NEW t \in Threads, DrainNext(t) PROVE WakerInv'
    <2> DEFINE f == Head(drained[t])
    <2>1. f \in Futures /\ status[f] = "Queued" /\ Take(t, f)
      BY <1>15, FirstIsQueued DEF DrainNext, RoomInv
    <2>2. TakeOut(f)
      BY <2>1 DEF Take
    <2> HIDE DEF f
    <2>3. status' = [status EXCEPT ![f] = "Dequeued"] /\ waker' = [waker EXCEPT ![f] = NONE]
      BY <2>1 DEF Take
    <2> QED
      BY <1>15, <2>1, <2>3 DEF DrainNext
  <1>16. ASSUME NEW t \in Threads, DrainEnd(t) PROVE WakerInv'
    BY <1>16 DEF DrainEnd, Goto, future
  <1>17. ASSUME NEW t \in Threads, Wake(t) PROVE WakerInv'
    BY <1>17 DEF Wake, shared, future
  <1>18. ASSUME NEW t \in Threads, WakeEnd(t) PROVE WakerInv'
    BY <1>18 DEF WakeEnd, Finish, future
  <1>19. ASSUME NEW t \in Threads, WakeMore(t) PROVE WakerInv'
    BY <1>19 DEF WakeMore, Goto, future
  <1>20. ASSUME NEW t \in Threads, NEW o \in Ops, NEW c \in 0..MaxCount, Call(t, o, c) PROVE WakerInv'
    BY <1>20 DEF Call, future
  <1>21. CASE UNCHANGED vars
    BY <1>21 DEF vars, shared, future, thread
  <1> QED
    BY <1>1, <1>2, <1>3, <1>4, <1>5, <1>6, <1>7, <1>8, <1>9, <1>10, <1>11, <1>12, <1>13, <1>14,
       <1>15, <1>16, <1>17, <1>18, <1>19, <1>20, <1>21
    DEF Next, FutureStep, ThreadStep

(* poll of wait_until is Ready without its predicate only after a refusal. *)
LEMMA PanicStep == IInv /\ [Next]_vars => PanicInv'
  <1> SUFFICES ASSUME IInv, [Next]_vars PROVE PanicInv'
    OBVIOUS
  <1> USE DEF IInv, TypeOK, PanicInv
  <1>1. ASSUME NEW f \in Futures, PollState(f) PROVE PanicInv'
    BY <1>1 DEF PollState, Requeue, StoredWaker, FGoto, shared, thread
  <1>2. ASSUME NEW f \in Futures, PollLocked(f) PROVE PanicInv'
    BY <1>2 DEF PollLocked, Requeue, StoredWaker, UpdatedWaker, FGoto, shared, thread
  <1>3. ASSUME NEW f \in Futures, PollEnqueue(f) PROVE PanicInv'
    BY <1>3 DEF PollEnqueue, FGoto, Closed, thread
  <1>4. ASSUME NEW f \in Futures, PollEnd(f) PROVE PanicInv'
    BY <1>4 DEF PollEnd, FGoto, Leave, shared, thread
  <1>5. ASSUME NEW f \in Futures, DropLocked(f) PROVE PanicInv'
    BY <1>5 DEF DropLocked, FGoto, Free, thread
  <1>6. ASSUME NEW f \in Futures, Drop(f) PROVE PanicInv'
    BY <1>6 DEF Drop, FGoto, Leave, Free, shared, thread
  <1>7. ASSUME NEW f \in Futures, NEW k \in Tasks, Poll(f, k) PROVE PanicInv'
    BY <1>7 DEF Poll, FGoto, Leave, shared, thread
  <1>8. ASSUME NEW f \in Futures, NEW k \in Kinds, New(f, k) PROVE PanicInv'
    BY <1>8 DEF New, FGoto, shared, thread
  <1>9. ASSUME NEW t \in Threads, ReadEmpty(t) PROVE PanicInv'
    BY <1>9 DEF ReadEmpty, Finish, Goto, future
  <1>10. ASSUME NEW t \in Threads, Lock(t) PROVE PanicInv'
    BY <1>10 DEF Lock, Finish, Goto, future
  <1>11. ASSUME NEW t \in Threads, NotifyOne(t) PROVE PanicInv'
    BY <1>11 DEF NotifyOne, Take, Goto
  <1>12. ASSUME NEW t \in Threads, NotifyMany(t) PROVE PanicInv'
    BY <1>12 DEF NotifyMany, Take
  <1>13. ASSUME NEW t \in Threads, NotifyManyEnd(t) PROVE PanicInv'
    BY <1>13 DEF NotifyManyEnd, Goto, future
  <1>14. ASSUME NEW t \in Threads, DrainQueue(t) PROVE PanicInv'
    <2>1. ~closed /\ UNCHANGED <<fpc, kind>>
      BY <1>14 DEF DrainQueue, RoomInv, CloseInv, future
    <2> QED
      BY <2>1
  <1>15. ASSUME NEW t \in Threads, DrainNext(t) PROVE PanicInv'
    BY <1>15 DEF DrainNext, Take, Goto
  <1>16. ASSUME NEW t \in Threads, DrainEnd(t) PROVE PanicInv'
    BY <1>16 DEF DrainEnd, Goto, future
  <1>17. ASSUME NEW t \in Threads, Wake(t) PROVE PanicInv'
    BY <1>17 DEF Wake, shared, future
  <1>18. ASSUME NEW t \in Threads, WakeEnd(t) PROVE PanicInv'
    BY <1>18 DEF WakeEnd, Finish, future
  <1>19. ASSUME NEW t \in Threads, WakeMore(t) PROVE PanicInv'
    BY <1>19 DEF WakeMore, Goto, future
  <1>20. ASSUME NEW t \in Threads, NEW o \in Ops, NEW c \in 0..MaxCount, Call(t, o, c) PROVE PanicInv'
    BY <1>20 DEF Call, future
  <1>21. CASE UNCHANGED vars
    BY <1>21 DEF vars, shared, future, thread
  <1> QED
    BY <1>1, <1>2, <1>3, <1>4, <1>5, <1>6, <1>7, <1>8, <1>9, <1>10, <1>11, <1>12, <1>13, <1>14,
       <1>15, <1>16, <1>17, <1>18, <1>19, <1>20, <1>21
    DEF Next, FutureStep, ThreadStep

(* A waker is woken, in the list of a notifier, or in a node that is Queued. *)
LEMMA WakeStep == IInv /\ [Next]_vars => WakeInv'
  <1> SUFFICES ASSUME IInv, [Next]_vars PROVE WakeInv'
    OBVIOUS
  <1> USE DEF IInv, TypeOK, WakeInv, WakerInv, Pending, WillWake
  <1>1. ASSUME NEW f \in Futures, PollState(f) PROVE WakeInv'
    BY <1>1, ZenonT(40) DEF PollState, Requeue, StoredWaker, FGoto, shared, thread
  <1>2. ASSUME NEW f \in Futures, PollLocked(f) PROVE WakeInv'
    <2>1. \A g \in Futures : g # f =>
            /\ status'[g] = status[g] /\ waker'[g] = waker[g]
            /\ fpc'[g] = fpc[g] /\ cx'[g] = cx[g] /\ (g \in woken <=> g \in woken')
      BY <1>2 DEF PollLocked, Requeue, FGoto
    <2>2. UNCHANGED wakers
      BY <1>2 DEF PollLocked, thread
    <2>3. \/ fpc'[f] \in {"enqueue", "ready"}
          \/ fpc'[f] = "pending" /\ waker'[f] = cx'[f] /\ status'[f] = "Queued"
      BY <1>2 DEF PollLocked, Requeue, UpdatedWaker, FGoto
    <2> QED
      BY <2>1, <2>2, <2>3, ZenonT(40)
  <1>3. ASSUME NEW f \in Futures, PollEnqueue(f) PROVE WakeInv'
    BY <1>3, ZenonT(40) DEF PollEnqueue, FGoto, Closed, thread
  <1>4. ASSUME NEW f \in Futures, PollEnd(f) PROVE WakeInv'
    BY <1>4 DEF PollEnd, FGoto, Leave, shared, thread
  <1>5. ASSUME NEW f \in Futures, DropLocked(f) PROVE WakeInv'
    BY <1>5 DEF DropLocked, FGoto, Free, thread
  <1>6. ASSUME NEW f \in Futures, Drop(f) PROVE WakeInv'
    <2>1. \A g \in Futures : g # f =>
            /\ status'[g] = status[g] /\ waker'[g] = waker[g]
            /\ fpc'[g] = fpc[g] /\ cx'[g] = cx[g] /\ (g \in woken <=> g \in woken')
      BY <1>6 DEF Drop, FGoto, Leave, Free
    <2>2. UNCHANGED wakers
      BY <1>6 DEF Drop, thread
    <2>3. fpc'[f] \in {"drop", "gone"}
      BY <1>6 DEF Drop, FGoto, Leave
    <2> QED
      BY <2>1, <2>2, <2>3, ZenonT(40)
  <1>7. ASSUME NEW f \in Futures, NEW k \in Tasks, Poll(f, k) PROVE WakeInv'
    <2>1. \A g \in Futures : g # f =>
            /\ status'[g] = status[g] /\ waker'[g] = waker[g]
            /\ fpc'[g] = fpc[g] /\ cx'[g] = cx[g] /\ (g \in woken <=> g \in woken')
      BY <1>7 DEF Poll, FGoto, Leave
    <2>2. UNCHANGED wakers
      BY <1>7 DEF Poll, thread
    <2>3. fpc'[f] # "pending" /\ fpc'[f] # "idle"
      BY <1>7 DEF Poll, FGoto, Leave
    <2> QED
      BY <2>1, <2>2, <2>3, ZenonT(40)
  <1>8. ASSUME NEW f \in Futures, NEW k \in Kinds, New(f, k) PROVE WakeInv'
    BY <1>8 DEF New, FGoto, shared, thread
  <1>9. ASSUME NEW t \in Threads, ReadEmpty(t) PROVE WakeInv'
    BY <1>9 DEF ReadEmpty, Finish, Goto, future
  <1>10. ASSUME NEW t \in Threads, Lock(t) PROVE WakeInv'
    BY <1>10 DEF Lock, Finish, Goto, future
  <1>11. ASSUME NEW t \in Threads, NotifyOne(t) PROVE WakeInv'
    <2> DEFINE f == IF op[t] = "one" THEN Head(queue) ELSE queue[Len(queue)]
    <2>1. f \in Futures /\ status[f] = "Queued" /\ Take(t, f)
      BY <1>11, FirstIsQueued DEF NotifyOne, RoomInv
    <2>2. TakeOut(f)
      BY <2>1 DEF Take
    <2> HIDE DEF f
    <2>3. /\ \A u \in Threads : u # t => wakers'[u] = wakers[u]
          /\ \A x : InSeq(x, wakers'[t]) <=> InSeq(x, wakers[t]) \/ x = <<f, waker[f]>>
      BY <2>1, TakeWaker
    <2>4. status' = [status EXCEPT ![f] = "Dequeued"] /\ waker' = [waker EXCEPT ![f] = NONE]
      BY <2>1 DEF Take
    <2>5. UNCHANGED <<fpc, cx, woken>>
      BY <1>11 DEF NotifyOne
    <2>6. \A g \in Futures, u \in Threads : InSeq(<<g, cx[g]>>, wakers[u]) => InSeq(<<g, cx[g]>>, wakers'[u])
      BY <2>3
    <2>7. waker[f] = cx[f] => InSeq(<<f, cx[f]>>, wakers'[t])
      BY <2>3
    <2>8. \A g \in Futures : g # f => status'[g] = status[g] /\ waker'[g] = waker[g]
      BY <2>4
    <2> QED
      BY <2>1, <2>5, <2>6, <2>7, <2>8, ZenonT(40)
  <1>12. ASSUME NEW t \in Threads, NotifyMany(t) PROVE WakeInv'
    <2> DEFINE f == Head(queue)
    <2>1. f \in Futures /\ status[f] = "Queued" /\ Take(t, f)
      BY <1>12, FirstIsQueued DEF NotifyMany, RoomInv
    <2>2. TakeOut(f)
      BY <2>1 DEF Take
    <2> HIDE DEF f
    <2>3. /\ \A u \in Threads : u # t => wakers'[u] = wakers[u]
          /\ \A x : InSeq(x, wakers'[t]) <=> InSeq(x, wakers[t]) \/ x = <<f, waker[f]>>
      BY <2>1, TakeWaker
    <2>4. status' = [status EXCEPT ![f] = "Dequeued"] /\ waker' = [waker EXCEPT ![f] = NONE]
      BY <2>1 DEF Take
    <2>5. UNCHANGED <<fpc, cx, woken>>
      BY <1>12 DEF NotifyMany
    <2>6. \A g \in Futures, u \in Threads : InSeq(<<g, cx[g]>>, wakers[u]) => InSeq(<<g, cx[g]>>, wakers'[u])
      BY <2>3
    <2>7. waker[f] = cx[f] => InSeq(<<f, cx[f]>>, wakers'[t])
      BY <2>3
    <2>8. \A g \in Futures : g # f => status'[g] = status[g] /\ waker'[g] = waker[g]
      BY <2>4
    <2> QED
      BY <2>1, <2>5, <2>6, <2>7, <2>8, ZenonT(40)
  <1>13. ASSUME NEW t \in Threads, NotifyManyEnd(t) PROVE WakeInv'
    BY <1>13 DEF NotifyManyEnd, Goto, future
  <1>14. ASSUME NEW t \in Threads, DrainQueue(t) PROVE WakeInv'
    BY <1>14 DEF DrainQueue, Goto, StateAfterDrain, future
  <1>15. ASSUME NEW t \in Threads, DrainNext(t) PROVE WakeInv'
    <2> DEFINE f == Head(drained[t])
    <2>1. f \in Futures /\ status[f] = "Queued" /\ Take(t, f)
      BY <1>15, FirstIsQueued DEF DrainNext, RoomInv
    <2>2. TakeOut(f)
      BY <2>1 DEF Take
    <2> HIDE DEF f
    <2>3. /\ \A u \in Threads : u # t => wakers'[u] = wakers[u]
          /\ \A x : InSeq(x, wakers'[t]) <=> InSeq(x, wakers[t]) \/ x = <<f, waker[f]>>
      BY <2>1, TakeWaker
    <2>4. status' = [status EXCEPT ![f] = "Dequeued"] /\ waker' = [waker EXCEPT ![f] = NONE]
      BY <2>1 DEF Take
    <2>5. UNCHANGED <<fpc, cx, woken>>
      BY <1>15 DEF DrainNext
    <2>6. \A g \in Futures, u \in Threads : InSeq(<<g, cx[g]>>, wakers[u]) => InSeq(<<g, cx[g]>>, wakers'[u])
      BY <2>3
    <2>7. waker[f] = cx[f] => InSeq(<<f, cx[f]>>, wakers'[t])
      BY <2>3
    <2>8. \A g \in Futures : g # f => status'[g] = status[g] /\ waker'[g] = waker[g]
      BY <2>4
    <2> QED
      BY <2>1, <2>5, <2>6, <2>7, <2>8, ZenonT(40)
  <1>16. ASSUME NEW t \in Threads, DrainEnd(t) PROVE WakeInv'
    BY <1>16 DEF DrainEnd, Goto, future
  <1>17. ASSUME NEW t \in Threads, Wake(t) PROVE WakeInv'
    <2> DEFINE w == Head(wakers[t])
    <2>1. wakers[t] \in Seq(Futures \X Tasks) /\ wakers[t] # <<>>
      BY <1>17 DEF Wake
    <2>3. /\ \A u \in Threads : u # t => wakers'[u] = wakers[u]
          /\ wakers'[t] = Tail(wakers[t])
      BY <1>17 DEF Wake
    <2>2. \A x : InSeq(x, wakers[t]) => x = w \/ InSeq(x, wakers'[t])
      BY <2>1, <2>3, HeadTailList
    <2> HIDE DEF w
    <2>4. woken \subseteq woken' /\ \A f \in Futures : w = <<f, cx[f]>> => f \in woken'
      BY <1>17 DEF Wake, w
    <2>5. UNCHANGED <<status, waker, fpc, cx>>
      BY <1>17 DEF Wake, future
    <2>6. \A f \in Futures, u \in Threads :
            InSeq(<<f, cx[f]>>, wakers[u]) => f \in woken' \/ InSeq(<<f, cx[f]>>, wakers'[u])
      <3> TAKE f \in Futures, u \in Threads
      <3> DEFINE x == <<f, cx[f]>>
      <3>1. x = w => f \in woken'
        BY <2>4
      <3> HIDE DEF x
      <3>2. InSeq(x, wakers[u]) => f \in woken' \/ InSeq(x, wakers'[u])
        BY <2>2, <2>3, <3>1
      <3> QED
        BY <3>2 DEF x
    <2> QED
      BY <2>4, <2>5, <2>6
  <1>18. ASSUME NEW t \in Threads, WakeEnd(t) PROVE WakeInv'
    BY <1>18 DEF WakeEnd, Finish, future
  <1>19. ASSUME NEW t \in Threads, WakeMore(t) PROVE WakeInv'
    BY <1>19 DEF WakeMore, Goto, future
  <1>20. ASSUME NEW t \in Threads, NEW o \in Ops, NEW c \in 0..MaxCount, Call(t, o, c) PROVE WakeInv'
    BY <1>20 DEF Call, future
  <1>21. CASE UNCHANGED vars
    BY <1>21 DEF vars, shared, future, thread
  <1> QED
    BY <1>1, <1>2, <1>3, <1>4, <1>5, <1>6, <1>7, <1>8, <1>9, <1>10, <1>11, <1>12, <1>13, <1>14,
       <1>15, <1>16, <1>17, <1>18, <1>19, <1>20, <1>21
    DEF Next, FutureStep, ThreadStep

(* In the beginning nobody waits. *)
LEMMA InitInv == Init => IInv
  <1> SUFFICES ASSUME Init PROVE IInv
    OBVIOUS
  <1>1. TypeOK
    <2>1. <<>> \in Seq(Futures) /\ <<>> \in Seq(Futures \X Tasks) /\ 0 \in 0..MaxCount /\ 0 \in 0..MaxCalls
      BY EmptySeq
    <2>2. drained \in [Threads -> Seq(Futures)] /\ wakers \in [Threads -> Seq(Futures \X Tasks)]
      BY <2>1 DEF Init
    <2> QED
      BY <2>1, <2>2 DEF Init, TypeOK
  <1>2. ListInv /\ DrainInv /\ RoomInv
    BY DEF Init, ListInv, DrainInv, RoomInv, InSeq, Distinct
  <1>3. LockInv /\ CloseInv /\ WakerInv /\ PanicInv /\ WakeInv
    BY DEF Init, LockInv, CloseInv, WakerInv, PanicInv, WakeInv, Pending
  <1> QED
    BY <1>1, <1>2, <1>3 DEF IInv

(* The invariant of WaitQueue: who may hold the lock, where each node is,  *)
(* what a closed queue and a full WakerList imply, and where the waker of  *)
(* every waiting future is.                                                *)
THEOREM Invariant == Spec => []IInv
  <1>1. IInv /\ [Next]_vars => IInv'
    BY LockStep, TypeStep, ListStep, DrainStep, CloseStep, RoomStep, WakerStep, PanicStep, WakeStep DEF IInv
  <1> QED
    BY <1>1, InitInv, PTL DEF Spec

(* Every variable has its type; a list of wakers has wakers only, so no    *)
(* notifier has taken a waker that was not there.                          *)
THEOREM TypeCorrect == Spec => []TypeOK
  <1>1. IInv => TypeOK
    BY DEF IInv
  <1> QED
    BY <1>1, Invariant, PTL

(* The unchecked dequeue, pop, unwrap and push of wait_queue.rs are never  *)
(* used outside of what they require.                                      *)
THEOREM UncheckedOperations == Spec => []UncheckedIsSafe
  <1>1. IInv => UncheckedIsSafe
    BY DEF IInv, RoomInv, WakerInv, UncheckedIsSafe
  <1> QED
    BY <1>1, Invariant, PTL

(* A future that returned Pending is woken by whoever dequeues its node:   *)
(* its last waker is in the node, in a list that is woken, or was woken.   *)
THEOREM WakeupsAreKept == Spec => []NoLostWakeup
  <1>1. IInv => NoLostWakeup
    BY DEF IInv, WakeInv, WillWake, ListInv, NoLostWakeup
  <1> QED
    BY <1>1, Invariant, PTL

(* The panic of wait_until means what its message says. *)
THEOREM PanicMeansClosed == Spec => []PanicOnlyIfClosed
  <1>1. IInv => PanicOnlyIfClosed
    BY DEF IInv, PanicInv, CloseInv, PanicOnlyIfClosed, Closed
  <1> QED
    BY <1>1, Invariant, PTL

(* Nothing opens a closed queue, and close returns from a closed one. *)
CloseAct ==
    /\ closed => closed'
    /\ \A t \in Threads : op[t] = "close" /\ pc[t] # "idle" /\ pc'[t] = "idle" => closed'

(* Every step keeps a closed queue closed. *)
LEMMA CloseActs == IInv /\ [Next]_vars => CloseAct
  <1> SUFFICES ASSUME IInv, [Next]_vars PROVE CloseAct
    OBVIOUS
  <1> USE DEF IInv, TypeOK, CloseInv, CloseAct
  <1>1. ASSUME NEW f \in Futures, PollState(f) PROVE CloseAct
    BY <1>1 DEF PollState, Requeue, StoredWaker, FGoto, shared, thread
  <1>2. ASSUME NEW f \in Futures, PollLocked(f) PROVE CloseAct
    BY <1>2 DEF PollLocked, Requeue, StoredWaker, UpdatedWaker, FGoto, shared, thread
  <1>3. ASSUME NEW f \in Futures, PollEnqueue(f) PROVE CloseAct
    BY <1>3 DEF PollEnqueue, FGoto, Closed, thread
  <1>4. ASSUME NEW f \in Futures, PollEnd(f) PROVE CloseAct
    BY <1>4 DEF PollEnd, FGoto, Leave, shared, thread
  <1>5. ASSUME NEW f \in Futures, DropLocked(f) PROVE CloseAct
    BY <1>5 DEF DropLocked, FGoto, Free, thread
  <1>6. ASSUME NEW f \in Futures, Drop(f) PROVE CloseAct
    BY <1>6 DEF Drop, FGoto, Leave, Free, shared, thread
  <1>7. ASSUME NEW f \in Futures, NEW k \in Tasks, Poll(f, k) PROVE CloseAct
    BY <1>7 DEF Poll, FGoto, Leave, shared, thread
  <1>8. ASSUME NEW f \in Futures, NEW k \in Kinds, New(f, k) PROVE CloseAct
    BY <1>8 DEF New, FGoto, shared, thread
  <1>9. ASSUME NEW t \in Threads, ReadEmpty(t) PROVE CloseAct
    <2>1. closed => closed'
      BY <1>9, Zenon DEF ReadEmpty
    <2>2. op[t] = "close" => closed' \/ pc'[t] # "idle"
      <3>1. CASE queue = <<>>
        BY <1>9, <3>1, Zenon DEF ReadEmpty
      <3>2. CASE queue # <<>>
        BY <1>9, <3>2 DEF ReadEmpty, Goto
      <3> QED
        BY <3>1, <3>2
    <2>3. \A u \in Threads : u # t => pc'[u] = pc[u]
      BY <1>9 DEF ReadEmpty, Goto, Finish
    <2> QED
      BY <2>1, <2>2, <2>3
  <1>10. ASSUME NEW t \in Threads, Lock(t) PROVE CloseAct
    <2>1. closed => closed'
      BY <1>10, Zenon DEF Lock
    <2>2. op[t] = "close" => closed' \/ pc'[t] # "idle"
      <3>1. CASE queue = <<>>
        BY <1>10, <3>1, Zenon DEF Lock
      <3>2. CASE queue # <<>>
        BY <1>10, <3>2 DEF Lock, Goto
      <3> QED
        BY <3>1, <3>2
    <2>3. \A u \in Threads : u # t => pc'[u] = pc[u]
      BY <1>10 DEF Lock, Goto, Finish
    <2> QED
      BY <2>1, <2>2, <2>3
  <1>11. ASSUME NEW t \in Threads, NotifyOne(t) PROVE CloseAct
    <2>1. UNCHANGED closed
      BY <1>11 DEF NotifyOne
    <2>2. op[t] = "close" => pc'[t] # "idle"
      BY <1>11 DEF NotifyOne, Goto
    <2>3. \A u \in Threads : u # t => pc'[u] = pc[u]
      BY <1>11 DEF NotifyOne, Goto
    <2> QED
      BY <2>1, <2>2, <2>3
  <1>12. ASSUME NEW t \in Threads, NotifyMany(t) PROVE CloseAct
    <2>1. UNCHANGED closed
      BY <1>12 DEF NotifyMany
    <2>2. op[t] = "close" => pc'[t] # "idle"
      BY <1>12 DEF NotifyMany, Goto
    <2>3. \A u \in Threads : u # t => pc'[u] = pc[u]
      BY <1>12 DEF NotifyMany, Goto
    <2> QED
      BY <2>1, <2>2, <2>3
  <1>13. ASSUME NEW t \in Threads, NotifyManyEnd(t) PROVE CloseAct
    BY <1>13 DEF NotifyManyEnd, Goto, future
  <1>14. ASSUME NEW t \in Threads, DrainQueue(t) PROVE CloseAct
    <2>1. ~closed
      BY <1>14 DEF DrainQueue, RoomInv
    <2>2. \A u \in Threads : pc'[u] # "idle" \/ pc[u] = "idle"
      BY <1>14 DEF DrainQueue, Goto
    <2> QED
      BY <2>1, <2>2
  <1>15. ASSUME NEW t \in Threads, DrainNext(t) PROVE CloseAct
    <2>1. UNCHANGED closed
      BY <1>15 DEF DrainNext
    <2>2. op[t] = "close" => pc'[t] # "idle"
      BY <1>15 DEF DrainNext, Goto
    <2>3. \A u \in Threads : u # t => pc'[u] = pc[u]
      BY <1>15 DEF DrainNext, Goto
    <2> QED
      BY <2>1, <2>2, <2>3
  <1>16. ASSUME NEW t \in Threads, DrainEnd(t) PROVE CloseAct
    BY <1>16 DEF DrainEnd, Goto, future
  <1>17. ASSUME NEW t \in Threads, Wake(t) PROVE CloseAct
    BY <1>17 DEF Wake, shared, future
  <1>18. ASSUME NEW t \in Threads, WakeEnd(t) PROVE CloseAct
    BY <1>18 DEF WakeEnd, Finish, future
  <1>19. ASSUME NEW t \in Threads, WakeMore(t) PROVE CloseAct
    BY <1>19 DEF WakeMore, Goto, future
  <1>20. ASSUME NEW t \in Threads, NEW o \in Ops, NEW c \in 0..MaxCount, Call(t, o, c) PROVE CloseAct
    BY <1>20 DEF Call, future
  <1>21. CASE UNCHANGED vars
    BY <1>21 DEF vars, shared, future, thread
  <1> QED
    BY <1>1, <1>2, <1>3, <1>4, <1>5, <1>6, <1>7, <1>8, <1>9, <1>10, <1>11, <1>12, <1>13, <1>14,
       <1>15, <1>16, <1>17, <1>18, <1>19, <1>20, <1>21
    DEF Next, FutureStep, ThreadStep

(* A closed queue stays closed, and it is closed when close returns. *)
THEOREM CloseHolds == Spec => CloseIsFinal
  <1>1. IInv /\ IInv' /\ [Next]_vars =>
          [/\ Closed => Closed'
           /\ \A t \in Threads : op[t] = "close" /\ pc[t] # "idle" /\ pc'[t] = "idle" => Closed']_vars
    BY CloseActs DEF IInv, CloseInv, CloseAct, Closed
  <1> QED
    BY <1>1, Invariant, PTL DEF Spec, CloseIsFinal
=============================================================================
