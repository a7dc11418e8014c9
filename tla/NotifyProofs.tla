---------------------------- MODULE NotifyProofs ----------------------------
(***************************************************************************)
(* Notify of examples/notify.rs is safe for any number of futures, threads *)
(* and tasks.                                                              *)
(***************************************************************************)
EXTENDS Notify, ListProofs, FiniteSetTheorems

(* Futures and threads are at points of their own code. *)
ThreadPC == {"idle", "single", "wake", "waiters", "count", "drain", "wake_more"}
UnqueuedPC == {"new", "gone", "unqueued", "update", "enqueue"}
DequeuedPC == {"drop", "single", "wake"}
FuturePC == {"idle", "recheck", "lock", "cancel"} \cup UnqueuedPC \cup DequeuedPC

PcInv ==
    /\ \A t \in Threads : pc[t] \in ThreadPC
    /\ \A f \in Futures : pc[f] \in FuturePC
    /\ \A a \in Actors : pc[a] = "single" => op[a] \in {"One", "Last"}

(* Only notify_waiters holds the lock from one step to the next. *)
LockInv ==
    /\ \A t \in Threads : pc[t] \in {"count", "drain"} => mutex = t
    /\ mutex # NONE => pc[mutex] \in {"count", "drain"}

(* A node is Queued exactly if it is in the queue or in the list of a      *)
(* drain, and then it is at one place only.                                *)
ListInv ==
    /\ Distinct(queue)
    /\ \A t \in Threads : Distinct(drained[t])
    /\ \A f \in Futures, t \in Threads : InSeq(f, queue) => ~InSeq(f, drained[t])
    /\ \A f \in Futures, t, u \in Threads : InSeq(f, drained[t]) /\ InSeq(f, drained[u]) => t = u
    /\ \A f \in Futures :
        Status(f) = "Queued" <=> InSeq(f, queue) \/ \E t \in Threads : InSeq(f, drained[t])

DrainInv == \A t \in Threads : drained[t] # <<>> => pc[t] \in {"drain", "wake_more"}

(* The notification is stored only while nobody waits, and never the state *)
(* that an insertion compares with.                                        *)
StateInv ==
    /\ queue # <<>> => state = STATE_UNNOTIFIED
    /\ \A f \in Futures : fut[f].seen # STATE_NOTIFIED

(* What the point where a future stands tells about its node, and what the *)
(* node tells about the notification.                                      *)
NodeInv ==
    \A f \in Futures :
        /\ pc[f] \in UnqueuedPC => Status(f) = "Unqueued"
        /\ pc[f] \in DequeuedPC => Status(f) = "Dequeued"
        /\ pc[f] \in {"recheck", "lock", "cancel"} => Status(f) # "Unqueued"
        /\ Status(f) # "Dequeued" => node[f].notification = NONE
        /\ Status(f) = "Dequeued" /\ ~fut[f].completed => node[f].notification # NONE

IInv ==
    /\ Types /\ PcInv /\ LockInv /\ ListInv /\ DrainInv
    /\ StateInv /\ NodeInv /\ NoStaleWaiter

-----------------------------------------------------------------------------
(* As long as nobody polls a future that the stored notification made      *)
(* ready:                                                                  *)

(* A future that is ready waits for its destructor, or finds once more     *)
(* that the generation was counted.                                        *)
OnceInv ==
    \A f \in Futures :
        /\ fut[f].completed => \/ pc[f] = "idle" /\ Status(f) # "Queued"
                               \/ pc[f] = "unqueued" /\ Stale(f)
        /\ pc[f] = "idle" => ~fut[f].enabling

(* The waker in a node that was not queued yet. *)
WakerInv ==
    \A f \in Futures :
        /\ pc[f] \in {"new", "gone"} => node[f].waker = NONE /\ fut[f].cx = NONE
        /\ pc[f] = "idle" /\ Status(f) = "Unqueued" /\ ~fut[f].completed =>
            node[f].waker = NONE /\ fut[f].cx = NONE
        /\ pc[f] \in {"unqueued", "update"} /\ ~fut[f].completed => node[f].waker \in {NONE, fut[f].cx}
        /\ pc[f] \in {"unqueued", "update", "enqueue"} /\ fut[f].enabling /\ ~fut[f].completed => fut[f].cx = NONE
        /\ pc[f] = "enqueue" => node[f].waker = fut[f].cx
        /\ fut[f].completed /\ pc[f] = "idle" => fut[f].cx = NONE

(* The last waker of f is in its node, was woken, or is about to be. *)
WillWake(f) ==
    \/ node[f].waker = fut[f].cx /\ Status(f) = "Queued"
    \/ f \in woken
    \/ \E a \in Actors : InSeq(<<f, fut[f].cx>>, wakers[a])

WakeInv ==
    \A f \in Futures :
        fut[f].cx # NONE /\ (pc[f] \in {"idle", "recheck"} \/ (pc[f] = "lock" /\ fut[f].enabling)) =>
            WillWake(f)

OnceIInv == OnceInv /\ WakerInv /\ WakeInv

(* Who owes a notification to somebody: a call that hands one out, or a    *)
(* future that was given one.                                              *)
Owes(a) == pc[a] = "single" \/ (a \in Futures /\ Carries(a))
Owing == {a \in Actors : Owes(a)}

CountInv == tokens = (IF state = STATE_NOTIFIED THEN 1 ELSE 0) + Cardinality(Owing)
-----------------------------------------------------------------------------
(* What a step does, field by field. *)
Points == {"new", "gone", "idle", "unqueued", "update", "enqueue", "recheck", "lock", "cancel", "drop",
           "single", "wake", "waiters", "count", "drain", "wake_more"}
NodeRecord == [status : {"Unqueued", "Queued", "Dequeued"}, waker : Tasks \cup {NONE},
               notification : {"One", "Last", "All", NONE}]
Nodes == [Futures -> NodeRecord]
FutRecord == [created : 0..generation, completed : BOOLEAN, cx : Tasks \cup {NONE},
              enabling : BOOLEAN, seen : 0..2]
Futs == [Futures -> FutRecord]

PcAt(a, l) ==
    /\ pc' \in [Actors -> Points] /\ pc'[a] = l
    /\ \A b \in Actors : b # a => pc'[b] = pc[b]
NodeAt(f, s, w, n) ==
    /\ node' \in Nodes
    /\ node'[f].status = s /\ node'[f].waker = w /\ node'[f].notification = n
    /\ \A g \in Futures : g # f => node'[g] = node[g]
FutAt(f, c, done, x, e, s) ==
    /\ fut' \in Futs
    /\ fut'[f].created = c /\ fut'[f].completed = done /\ fut'[f].cx = x
    /\ fut'[f].enabling = e /\ fut'[f].seen = s
    /\ \A g \in Futures : g # f => fut'[g] = fut[g]

(* The future f is ready, or gone. *)
ReadyAt(f) ==
    PcAt(f, "idle") /\ FutAt(f, fut[f].created, TRUE, NONE, FALSE, 2) /\ woken' = woken \ {f}
GoneAt(f) ==
    /\ PcAt(f, "gone") /\ NodeAt(f, "Unqueued", NONE, NONE)
    /\ FutAt(f, 0, FALSE, NONE, FALSE, 2) /\ woken' = woken \ {f}
ReturnAt(a) ==
    \/ a \in Threads /\ PcAt(a, "idle") /\ UNCHANGED <<node, fut, woken>>
    \/ a \in Futures /\ ~Dropping(a) /\ ReadyAt(a) /\ UNCHANGED node
    \/ a \in Futures /\ Dropping(a) /\ GoneAt(a)
PendAt(f) ==
    /\ PcAt(f, "idle") /\ FutAt(f, fut[f].created, fut[f].completed, fut[f].cx, FALSE, fut[f].seen)
    /\ UNCHANGED woken

(* The node f leaves its list. *)
OutOfList(f) ==
    /\ queue' \in Seq(Futures) /\ Distinct(queue')
    /\ drained' \in [Threads -> Seq(Futures)]
    /\ \A g : InSeq(g, queue') <=> InSeq(g, queue) /\ g # f
    /\ queue = <<>> => queue' = <<>>
    /\ \A t \in Threads :
        /\ Distinct(drained'[t])
        /\ \A g : InSeq(g, drained'[t]) <=> InSeq(g, drained[t]) /\ g # f
        /\ drained[t] = <<>> => drained'[t] = <<>>

(* The notification n is given to f, which a finds first. *)
TakeAt(a, f, n) ==
    /\ f \in Futures /\ Status(f) = "Queued"
    /\ OutOfList(f) /\ NodeAt(f, "Dequeued", NONE, n)
    /\ wakers' \in [Actors -> Seq(Futures \X Tasks)]
    /\ \A b \in Actors : b # a => wakers'[b] = wakers[b]
    /\ \A x : InSeq(x, wakers[a]) => InSeq(x, wakers'[a])
    /\ node[f].waker # NONE => InSeq(<<f, node[f].waker>>, wakers'[a])

USE NotifyAssumption

(* One actor moves. *)
LEMMA MoveEffect ==
    ASSUME Types, NEW a \in Actors, NEW l \in Points, Goto(a, l)
    PROVE  PcAt(a, l)
  BY DEF Types, Points, PcAt, Goto

(* poll or enable returns Ready. *)
LEMMA ReadyEffect ==
    ASSUME Types, NEW f \in Futures, Ready(f)
    PROVE  ReadyAt(f)
  <1>1. PcAt(f, "idle")
    BY MoveEffect DEF Ready, Points, Actors
  <1> DEFINE q == NewFuture(fut[f].created)
             r == [q EXCEPT !.completed = TRUE]
  <1>2. fut' = [fut EXCEPT ![f] = r]
    BY Zenon DEF Ready, Completed
  <1>3. q \in FutRecord /\ q.created = fut[f].created /\ q.cx = NONE /\ q.enabling = FALSE /\ q.seen = 2
    BY DEF NewFuture, Types, FutRecord
  <1> HIDE DEF q
  <1>4. /\ r \in FutRecord /\ r.created = q.created /\ r.completed = TRUE /\ r.cx = q.cx
        /\ r.enabling = q.enabling /\ r.seen = q.seen
    BY <1>3 DEF FutRecord
  <1> HIDE DEF r
  <1>5. FutAt(f, fut[f].created, TRUE, NONE, FALSE, 2)
    BY <1>2, <1>3, <1>4 DEF FutAt, Futs, FutRecord, Types
  <1> QED
    BY <1>1, <1>5 DEF Ready, ReadyAt

(* The destructor ends. *)
LEMMA GoneEffect ==
    ASSUME Types, NEW f \in Futures, Gone(f)
    PROVE  GoneAt(f)
  <1>1. PcAt(f, "gone")
    BY MoveEffect DEF Gone, Points, Actors
  <1>2. fut' = [fut EXCEPT ![f] = [created |-> 0, completed |-> FALSE, cx |-> NONE,
                                  enabling |-> FALSE, seen |-> 2]]
    BY DEF Gone, NewFuture, Types
  <1>3. FutAt(f, 0, FALSE, NONE, FALSE, 2)
    BY <1>2 DEF FutAt, Futs, FutRecord, Types
  <1>4. NodeAt(f, "Unqueued", NONE, NONE)
    BY DEF Gone, NewNode, NodeAt, Nodes, NodeRecord, Types
  <1> QED
    BY <1>1, <1>3, <1>4 DEF Gone, GoneAt

(* A call returns to who made it. *)
LEMMA ReturnEffect ==
    ASSUME Types, NEW a \in Actors, Return(a)
    PROVE  ReturnAt(a)
  BY MoveEffect, ReadyEffect, GoneEffect DEF Return, ReturnAt, Points

(* poll returns Pending. *)
LEMMA PendEffect ==
    ASSUME Types, NEW f \in Futures, Pend(f)
    PROVE  PendAt(f)
  <1>1. PcAt(f, "idle")
    BY MoveEffect DEF Pend, Points, Actors
  <1>2. FutAt(f, fut[f].created, fut[f].completed, fut[f].cx, FALSE, fut[f].seen)
    <2> DEFINE r == [fut[f] EXCEPT !.enabling = FALSE]
    <2>1. fut' = [fut EXCEPT ![f] = r]
      BY Zenon DEF Pend
    <2>2. fut[f] \in FutRecord
      BY DEF Types, FutRecord
    <2>3. /\ r \in FutRecord /\ r.created = fut[f].created /\ r.completed = fut[f].completed
          /\ r.cx = fut[f].cx /\ r.enabling = FALSE /\ r.seen = fut[f].seen
      BY <2>2 DEF FutRecord
    <2> HIDE DEF r
    <2> QED
      BY <2>1, <2>3 DEF FutAt, Futs, FutRecord, Types
  <1> QED
    BY <1>1, <1>2 DEF Pend, PendAt

(* TakeOut removes f from the list it is in and leaves the others alone. *)
LEMMA TakeOutEffect ==
    ASSUME Types, ListInv, NEW f \in Futures, TakeOut(f)
    PROVE  OutOfList(f)
  <1>1. queue \in Seq(Futures) /\ Distinct(queue) /\ queue' = Without(queue, f)
    BY DEF Types, ListInv, TakeOut
  <1>2. /\ queue' \in Seq(Futures) /\ Distinct(queue')
        /\ \A g : InSeq(g, queue') <=> InSeq(g, queue) /\ g # f
    BY <1>1, WithoutList
  <1>3. queue = <<>> => queue' = <<>>
    BY <1>1, <1>2, EmptyList
  <1>4. ASSUME NEW t \in Threads
        PROVE  /\ drained'[t] \in Seq(Futures) /\ Distinct(drained'[t])
               /\ \A g : InSeq(g, drained'[t]) <=> InSeq(g, drained[t]) /\ g # f
               /\ drained[t] = <<>> => drained'[t] = <<>>
    <2>1. drained[t] \in Seq(Futures) /\ Distinct(drained[t]) /\ drained'[t] = Without(drained[t], f)
      BY DEF Types, ListInv, TakeOut
    <2>2. /\ drained'[t] \in Seq(Futures) /\ Distinct(drained'[t])
          /\ \A g : InSeq(g, drained'[t]) <=> InSeq(g, drained[t]) /\ g # f
      BY <2>1, WithoutList
    <2> QED
      BY <2>1, <2>2, EmptyList
  <1>5. drained' = [t \in Threads |-> drained'[t]]
    BY DEF TakeOut
  <1>6. drained' \in [Threads -> Seq(Futures)]
    BY <1>4, <1>5
  <1> QED
    BY <1>2, <1>3, <1>4, <1>6 DEF OutOfList

(* Take moves the waker of f, if there is one, to the list of a. *)
LEMMA TakeEffect ==
    ASSUME Types, ListInv, NEW a \in Actors, NEW f \in Futures, Status(f) = "Queued",
           NEW n \in {"One", "Last", "All"}, Take(a, f, n)
    PROVE  TakeAt(a, f, n)
  <1>1. OutOfList(f)
    BY TakeOutEffect DEF Take
  <1>2. NodeAt(f, "Dequeued", NONE, n)
    BY DEF Take, NodeAt, Nodes, NodeRecord, Types
  <1> DEFINE e == TakenWaker(f)
             w == wakers[a] \o e
  <1>3. wakers[a] \in Seq(Futures \X Tasks) /\ wakers' = [wakers EXCEPT ![a] = w]
    BY DEF Types, Take
  <1>4. node[f].waker \in Tasks \cup {NONE}
    BY DEF Types
  <1>5. e \in Seq(Futures \X Tasks)
    <2>1. <<>> \in Seq(Futures \X Tasks)
      OBVIOUS
    <2>2. node[f].waker \in Tasks => <<<<f, node[f].waker>>>> \in Seq(Futures \X Tasks)
      OBVIOUS
    <2> QED
      BY <1>4, <2>1, <2>2 DEF TakenWaker
  <1>6. node[f].waker # NONE => Len(e) = 1 /\ e[1] = <<f, node[f].waker>>
    BY <1>4 DEF TakenWaker
  <1> HIDE DEF e
  <1>7. /\ w \in Seq(Futures \X Tasks) /\ Len(w) = Len(wakers[a]) + Len(e)
        /\ \A i \in 1..Len(wakers[a]) + Len(e) :
            w[i] = IF i <= Len(wakers[a]) THEN wakers[a][i] ELSE e[i - Len(wakers[a])]
    BY <1>3, <1>5, ConcatProperties
  <1> HIDE DEF w
  <1>8. Len(wakers[a]) \in Nat /\ Len(e) \in Nat
    BY <1>3, <1>5
  <1>9. \A x : InSeq(x, wakers[a]) => InSeq(x, w)
    <2>1. \A i \in 1..Len(wakers[a]) : i \in 1..Len(w) /\ w[i] = wakers[a][i]
      BY <1>7, <1>8
    <2> QED
      BY <2>1 DEF InSeq
  <1>10. node[f].waker # NONE => InSeq(<<f, node[f].waker>>, w)
    <2> SUFFICES ASSUME node[f].waker # NONE PROVE InSeq(<<f, node[f].waker>>, w)
      OBVIOUS
    <2>1. Len(wakers[a]) + 1 \in 1..Len(w) /\ w[Len(wakers[a]) + 1] = e[1]
      <3> DEFINE m == Len(wakers[a])
      <3>1. Len(e) = 1 /\ m \in Nat
        BY <1>6, <1>8
      <3>2. m + 1 \in 1..m + Len(e) /\ ~(m + 1 <= m) /\ (m + 1) - m = 1
        BY <3>1
      <3> QED
        BY <1>7, <3>2
    <2> QED
      BY <1>6, <2>1 DEF InSeq
  <1>11. /\ wakers' \in [Actors -> Seq(Futures \X Tasks)] /\ wakers'[a] = w
         /\ \A b \in Actors : b # a => wakers'[b] = wakers[b]
    BY <1>3, <1>7 DEF Types
  <1> QED
    BY <1>1, <1>2, <1>9, <1>10, <1>11 DEF TakeAt

StoreAt(a, new) ==
    /\ queue = <<>> /\ state' = STATE_NOTIFIED
    /\ tokens' = tokens + new - (IF state = STATE_NOTIFIED THEN 1 ELSE 0)
    /\ op' = [op EXCEPT ![a] = NONE] /\ ReturnAt(a)
    /\ UNCHANGED <<queue, drained, mutex, generation, wakers>>
SingleAt(a, n, new) ==
    \/ StoreAt(a, new)
    \/ /\ queue # <<>> /\ op' = [op EXCEPT ![a] = n] /\ tokens' = tokens + new /\ PcAt(a, "single")
       /\ UNCHANGED <<queue, drained, state, mutex, generation, node, fut, woken, wakers>>
PassAt(f) ==
    /\ Status(f) = "Dequeued"
    /\ \/ Owed(f) /\ SingleAt(f, node[f].notification, 0)
       \/ /\ ~Owed(f) /\ ReturnAt(f)
          /\ UNCHANGED <<queue, drained, state, mutex, generation, op, wakers, tokens>>
ReadyDequeuedAt(f) ==
    /\ Status(f) = "Dequeued" /\ ReadyAt(f)
    /\ tokens' = IF IsSingle(f) /\ ~fut[f].completed THEN tokens - 1 ELSE tokens
    /\ UNCHANGED <<queue, drained, state, mutex, generation, node, op, wakers>>

WakeSingleAt(a) ==
    /\ pc[a] = "single" /\ mutex = NONE
    /\ \/ StoreAt(a, 0)
       \/ /\ queue # <<>> /\ op[a] \in {"One", "Last"}
          /\ \E f \in Futures : InSeq(f, queue) /\ TakeAt(a, f, op[a])
          /\ op' = [op EXCEPT ![a] = NONE] /\ PcAt(a, "wake")
          /\ UNCHANGED <<state, mutex, generation, fut, woken, tokens>>

WakeAt(a) ==
    /\ pc[a] \in {"wake", "wake_more"} /\ woken \subseteq woken' /\ woken' \subseteq Futures
    /\ wakers' \in [Actors -> Seq(Futures \X Tasks)]
    /\ \A f \in Futures, b \in Actors :
         InSeq(<<f, fut[f].cx>>, wakers[b]) =>
             f \in woken' \/ InSeq(<<f, fut[f].cx>>, wakers'[b])
    /\ UNCHANGED <<queue, drained, state, mutex, generation, node, fut, op, tokens, pc>>

WakeEndAt(a) ==
    /\ pc[a] = "wake" /\ ReturnAt(a)
    /\ UNCHANGED <<queue, drained, state, mutex, generation, op, wakers, tokens>>

PollUnqueuedAt(f) ==
    /\ pc[f] = "unqueued"
    /\ \/ Stale(f) /\ ReadyAt(f)
       \/ ~Stale(f) /\ PcAt(f, "update") /\ UNCHANGED <<fut, woken>>
    /\ UNCHANGED <<queue, drained, state, mutex, generation, node, op, wakers, tokens>>

PollUpdateAt(f) ==
    /\ pc[f] = "update"
    /\ \/ /\ queue = <<>> /\ state = STATE_NOTIFIED /\ state' = STATE_UNNOTIFIED
          /\ tokens' = tokens - 1 /\ ReadyAt(f) /\ UNCHANGED node
       \/ /\ OptState # STATE_NOTIFIED
          /\ FutAt(f, fut[f].created, fut[f].completed, fut[f].cx, fut[f].enabling, OptState)
          /\ NodeAt(f, node[f].status,
                    IF fut[f].enabling \/ node[f].waker # NONE THEN node[f].waker ELSE fut[f].cx,
                    node[f].notification)
          /\ PcAt(f, "enqueue") /\ UNCHANGED <<state, tokens, woken>>
    /\ UNCHANGED <<queue, drained, mutex, generation, op, wakers>>

PollEnqueueAt(f) ==
    /\ pc[f] = "enqueue"
    /\ \/ /\ OptState = fut[f].seen /\ queue' = Append(queue, f) /\ state' = STATE_UNNOTIFIED
          /\ NodeAt(f, "Queued", node[f].waker, node[f].notification) /\ PcAt(f, "recheck")
       \/ PcAt(f, "unqueued") /\ UNCHANGED <<queue, state, node>>
    /\ FutAt(f, fut[f].created, fut[f].completed, fut[f].cx, fut[f].enabling, 2)
    /\ UNCHANGED <<drained, mutex, generation, woken, op, wakers, tokens>>

PollRecheckAt(f) ==
    /\ pc[f] = "recheck"
    /\ \/ PassAt(f)
       \/ /\ Status(f) = "Queued" /\ PcAt(f, "cancel")
          /\ UNCHANGED <<queue, drained, state, mutex, generation, node, fut, woken, op, wakers, tokens>>
       \/ /\ ~Stale(f) /\ PendAt(f)
          /\ UNCHANGED <<queue, drained, state, mutex, generation, node, op, wakers, tokens>>

PollLockedAt(f) ==
    /\ pc[f] = "lock" /\ mutex = NONE
    /\ \/ ReadyDequeuedAt(f)
       \/ /\ Status(f) = "Queued" /\ OutOfList(f)
          /\ NodeAt(f, "Dequeued", node[f].waker, node[f].notification)
          /\ ReadyAt(f) /\ UNCHANGED <<state, mutex, generation, tokens>>
       \/ /\ Status(f) = "Queued" /\ ~Stale(f)
          /\ NodeAt(f, "Queued", UpdatedWaker(f), node[f].notification) /\ PendAt(f)
          /\ UNCHANGED <<queue, drained, state, mutex, generation, tokens>>
    /\ UNCHANGED <<op, wakers>>

CancelLockedAt(f) ==
    /\ pc[f] = "cancel" /\ mutex = NONE
    /\ \/ PassAt(f)
       \/ /\ Status(f) = "Queued" /\ OutOfList(f)
          /\ \/ ReadyAt(f) /\ NodeAt(f, "Dequeued", node[f].waker, node[f].notification)
             \/ Dropping(f) /\ GoneAt(f)
          /\ UNCHANGED <<state, mutex, generation, op, wakers, tokens>>

DropDequeuedAt(f) ==
    pc[f] = "drop" /\ PassAt(f)

PollAt(f, k) ==
    /\ pc[f] = "idle" /\ (fut[f].completed => CallAfterReady \/ Settled(f))
    /\ \/ ReadyDequeuedAt(f)
       \/ /\ Status(f) # "Dequeued"
          /\ PcAt(f, IF Status(f) = "Unqueued" THEN "unqueued" ELSE "lock")
          /\ FutAt(f, fut[f].created, fut[f].completed, IF k = NONE THEN fut[f].cx ELSE k,
                   k = NONE, fut[f].seen)
          /\ woken' = IF k = NONE THEN woken ELSE woken \ {f}
          /\ UNCHANGED <<queue, drained, state, mutex, generation, node, op, wakers, tokens>>

NotifiedAt(f) ==
    /\ pc[f] = "new" /\ PcAt(f, "idle") /\ FutAt(f, generation, FALSE, NONE, FALSE, 2)
    /\ UNCHANGED <<queue, drained, state, mutex, generation, node, woken, op, wakers, tokens>>

DropAt(f) ==
    /\ pc[f] = "idle"
    /\ \/ Status(f) # "Queued" /\ (fut[f].completed \/ Status(f) = "Unqueued") /\ GoneAt(f)
       \/ /\ Status(f) = "Queued" \/ (~fut[f].completed /\ Status(f) = "Dequeued")
          /\ PcAt(f, IF Status(f) = "Queued" THEN "cancel" ELSE "drop")
          /\ FutAt(f, fut[f].created, fut[f].completed, NONE, fut[f].enabling, fut[f].seen)
          /\ woken' = woken \ {f} /\ UNCHANGED node
    /\ UNCHANGED <<queue, drained, state, mutex, generation, op, wakers, tokens>>

DrainNextAt(t) ==
    /\ pc[t] = "drain"
    /\ \E f \in Futures : InSeq(f, drained[t]) /\ TakeAt(t, f, "All")
    /\ \/ mutex' = NONE /\ PcAt(t, "wake_more")
       \/ mutex' = t /\ PcAt(t, "drain")
    /\ UNCHANGED <<state, generation>>

CallAt(t) ==
    /\ pc[t] = "idle" /\ calls' \in [Threads -> 0..MaxCalls]
    /\ \/ \E n \in {"One", "Last"} : SingleAt(t, n, 1)
       \/ /\ PcAt(t, "waiters")
          /\ UNCHANGED <<queue, drained, state, mutex, generation, node, fut, woken, op, wakers, tokens>>

(* notify_one or notify_last, without the lock. *)
LEMMA SingleEffect ==
    ASSUME Types, NEW a \in Actors, NEW n, NEW new, NotifySingle(a, n, new)
    PROVE  SingleAt(a, n, new)
  BY ReturnEffect, MoveEffect DEF NotifySingle, Store, SingleAt, StoreAt, Points, shared

(* cancel of a node that was dequeued. *)
LEMMA PassEffect ==
    ASSUME Types, NEW f \in Futures, PassOn(f)
    PROVE  PassAt(f)
  BY ReturnEffect, SingleEffect DEF PassOn, PassAt, Actors, shared

(* The node that a notifier takes is Queued. *)
LEMMA FirstIsQueued ==
    ASSUME Types, ListInv
    PROVE  /\ queue # <<>> => \A f \in {Head(queue), queue[Len(queue)]} :
                f \in Futures /\ Status(f) = "Queued" /\ InSeq(f, queue)
           /\ \A t \in Threads : drained[t] # <<>> =>
                /\ Head(drained[t]) \in Futures /\ Status(Head(drained[t])) = "Queued"
                /\ InSeq(Head(drained[t]), drained[t])
  <1>1. queue \in Seq(Futures) /\ \A t \in Threads : drained[t] \in Seq(Futures)
    BY DEF Types
  <1>2. queue # <<>> => \A f \in {Head(queue), queue[Len(queue)]} : f \in Futures /\ InSeq(f, queue)
    BY <1>1, HeadTailList
  <1>3. \A t \in Threads : drained[t] # <<>> =>
            Head(drained[t]) \in Futures /\ InSeq(Head(drained[t]), drained[t])
    BY <1>1, HeadTailList
  <1> QED
    BY <1>2, <1>3 DEF ListInv

(* What WakeSingle does, field by field. *)
LEMMA WakeSingleEffect ==
    ASSUME Types, ListInv, PcInv, NEW a \in Actors, WakeSingle(a)
    PROVE  WakeSingleAt(a)
  <1> USE DEF WakeSingleAt
  <1>1. CASE Store(a, 0)
    BY <1>1, SingleEffect, ReturnEffect DEF WakeSingle, Store, StoreAt
  <1>2. CASE ~Store(a, 0)
    <2> DEFINE f == IF op[a] = "One" THEN Head(queue) ELSE queue[Len(queue)]
    <2>1. /\ pc[a] = "single" /\ mutex = NONE /\ queue # <<>> /\ Take(a, f, op[a])
          /\ op' = [op EXCEPT ![a] = NONE] /\ Goto(a, "wake")
          /\ UNCHANGED <<state, mutex, generation, fut, woken, tokens>>
      BY <1>2 DEF WakeSingle
    <2>2. f \in Futures /\ Status(f) = "Queued" /\ InSeq(f, queue)
      BY <2>1, FirstIsQueued
    <2>3. op[a] \in {"One", "Last"}
      BY <2>1 DEF PcInv
    <2> HIDE DEF f
    <2>4. TakeAt(a, f, op[a])
      BY <2>1, <2>2, <2>3, TakeEffect
    <2>5. PcAt(a, "wake")
      BY <2>1, MoveEffect DEF Points
    <2> QED
      BY <2>1, <2>2, <2>3, <2>4, <2>5
  <1> QED
    BY <1>1, <1>2

(* What Wake does, field by field. *)
LEMMA WakeEffect ==
    ASSUME Types, NEW a \in Actors, Wake(a)
    PROVE  WakeAt(a)
  <1> USE DEF WakeAt
  <1> DEFINE w == Head(wakers[a])
  <1>1. wakers[a] \in Seq(Futures \X Tasks) /\ wakers[a] # <<>>
    BY DEF Wake, Types
  <1>2. w \in Futures \X Tasks /\ Tail(wakers[a]) \in Seq(Futures \X Tasks)
    BY <1>1, HeadTailList
  <1>3. /\ wakers' = [wakers EXCEPT ![a] = Tail(wakers[a])]
        /\ woken' = woken \cup {f \in {w[1]} : fut[f].cx = w[2]}
    BY DEF Wake
  <1>4. \A x : InSeq(x, wakers[a]) => x = w \/ InSeq(x, Tail(wakers[a]))
    BY <1>1, HeadTailList
  <1> HIDE DEF w
  <1>5. /\ wakers' \in [Actors -> Seq(Futures \X Tasks)]
        /\ \A b \in Actors : b # a => wakers'[b] = wakers[b]
        /\ wakers'[a] = Tail(wakers[a])
    BY <1>2, <1>3 DEF Types
  <1>6. woken \subseteq woken' /\ woken' \subseteq Futures
    BY <1>2, <1>3 DEF Types
  <1>7. \A f \in Futures : w = <<f, fut[f].cx>> => f \in woken'
    BY <1>3
  <1>8. ASSUME NEW f \in Futures, NEW b \in Actors, InSeq(<<f, fut[f].cx>>, wakers[b])
        PROVE  f \in woken' \/ InSeq(<<f, fut[f].cx>>, wakers'[b])
    <2> DEFINE x == <<f, fut[f].cx>>
    <2>1. x = w => f \in woken'
      BY <1>7
    <2> HIDE DEF x
    <2>2. InSeq(x, wakers[b]) => f \in woken' \/ InSeq(x, wakers'[b])
      BY <1>4, <1>5, <2>1
    <2> QED
      BY <1>8, <2>2 DEF x
  <1> QED
    BY <1>5, <1>6, <1>8 DEF Wake, shared

(* What WakeEnd does, field by field. *)
LEMMA WakeEndEffect ==
    ASSUME Types, NEW a \in Actors, WakeEnd(a)
    PROVE  WakeEndAt(a)
  BY ReturnEffect DEF WakeEnd, shared, WakeEndAt

(* What PollUnqueued does, field by field. *)
LEMMA PollUnqueuedEffect ==
    ASSUME Types, NEW f \in Futures, PollUnqueued(f)
    PROVE  PollUnqueuedAt(f)
  BY ReadyEffect, MoveEffect DEF PollUnqueued, shared, Points, Actors, PollUnqueuedAt

(* What PollUpdate does, field by field. *)
LEMMA PollUpdateEffect ==
    ASSUME Types, NEW f \in Futures, PollUpdate(f)
    PROVE  PollUpdateAt(f)
  <1> USE DEF PollUpdateAt
  <1>1. CASE OptState = STATE_NOTIFIED
    BY <1>1, ReadyEffect DEF PollUpdate, OptState, STATE_NOTIFIED
  <1>2. CASE OptState # STATE_NOTIFIED
    <2> DEFINE w == IF fut[f].enabling \/ node[f].waker # NONE THEN node[f].waker ELSE fut[f].cx
               r == [fut[f] EXCEPT !.seen = OptState]
               d == [node[f] EXCEPT !.waker = w]
    <2>1. fut' = [fut EXCEPT ![f] = r] /\ node' = [node EXCEPT ![f] = d]
      BY <1>2, Zenon DEF PollUpdate
    <2>2. fut[f] \in FutRecord /\ OptState \in 0..2
      BY DEF Types, FutRecord, OptState, STATE_NOTIFIED, STATE_UNNOTIFIED
    <2>3. /\ r \in FutRecord /\ r.created = fut[f].created /\ r.completed = fut[f].completed
          /\ r.cx = fut[f].cx /\ r.enabling = fut[f].enabling /\ r.seen = OptState
      BY <2>2 DEF FutRecord
    <2>4. node[f] \in NodeRecord /\ w \in Tasks \cup {NONE}
      BY DEF Types, NodeRecord
    <2> HIDE DEF w
    <2>5. d \in NodeRecord /\ d.status = node[f].status /\ d.waker = w /\ d.notification = node[f].notification
      BY <2>4 DEF NodeRecord
    <2> HIDE DEF r, d
    <2>6. FutAt(f, fut[f].created, fut[f].completed, fut[f].cx, fut[f].enabling, OptState)
      BY <2>1, <2>3 DEF FutAt, Futs, FutRecord, Types
    <2>7. NodeAt(f, node[f].status, w, node[f].notification)
      BY <2>1, <2>5 DEF NodeAt, Nodes, NodeRecord, Types
    <2>8. PcAt(f, "enqueue")
      BY <1>2, MoveEffect DEF PollUpdate, Points, Actors
    <2> QED
      BY <1>2, <2>6, <2>7, <2>8 DEF PollUpdate, w
  <1> QED
    BY <1>1, <1>2

(* What PollEnqueue does, field by field. *)
LEMMA PollEnqueueEffect ==
    ASSUME Types, NEW f \in Futures, PollEnqueue(f)
    PROVE  PollEnqueueAt(f)
  <1> USE DEF PollEnqueueAt
  <1> DEFINE r == [fut[f] EXCEPT !.seen = 2]
             d == [node[f] EXCEPT !.status = "Queued"]
  <1>1. fut' = [fut EXCEPT ![f] = r]
    BY Zenon DEF PollEnqueue
  <1>2. fut[f] \in FutRecord
    BY DEF Types, FutRecord
  <1>3. /\ r \in FutRecord /\ r.created = fut[f].created /\ r.completed = fut[f].completed
        /\ r.cx = fut[f].cx /\ r.enabling = fut[f].enabling /\ r.seen = 2
    BY <1>2 DEF FutRecord
  <1>4. node[f] \in NodeRecord
    BY DEF Types, NodeRecord
  <1>5. d \in NodeRecord /\ d.status = "Queued" /\ d.waker = node[f].waker /\ d.notification = node[f].notification
    BY <1>4 DEF NodeRecord
  <1> HIDE DEF r, d
  <1>6. FutAt(f, fut[f].created, fut[f].completed, fut[f].cx, fut[f].enabling, 2)
    BY <1>1, <1>3 DEF FutAt, Futs, FutRecord, Types
  <1>7. CASE OptState = fut[f].seen
    <2>1. node' = [node EXCEPT ![f] = d]
      BY <1>7, Zenon DEF PollEnqueue, d
    <2>2. NodeAt(f, "Queued", node[f].waker, node[f].notification)
      BY <1>5, <2>1 DEF NodeAt, Nodes, NodeRecord, Types
    <2> QED
      BY <1>6, <1>7, <2>2, MoveEffect DEF PollEnqueue, Points, Actors
  <1>8. CASE OptState # fut[f].seen
    BY <1>6, <1>8, MoveEffect DEF PollEnqueue, Points, Actors
  <1> QED
    BY <1>7, <1>8

(* What PollRecheck does, field by field. *)
LEMMA PollRecheckEffect ==
    ASSUME Types, NEW f \in Futures, PollRecheck(f)
    PROVE  PollRecheckAt(f)
  BY PassEffect, MoveEffect, PendEffect
  DEF PollRecheck, StaleAfterInsertion, shared, Points, Actors, PollRecheckAt

(* What PollLocked does, field by field. *)
LEMMA PollLockedEffect ==
    ASSUME Types, ListInv, NEW f \in Futures, PollLocked(f)
    PROVE  PollLockedAt(f)
  <1> USE DEF PollLockedAt
  <1>1. CASE Status(f) = "Dequeued"
    BY <1>1, ReadyEffect DEF PollLocked, ReadyDequeued, ReadyDequeuedAt, shared
  <1>2. CASE Status(f) = "Queued"
    <2>1. node[f] \in NodeRecord /\ node[f].status = "Queued" /\ UpdatedWaker(f) \in Tasks \cup {NONE}
      BY <1>2 DEF Types, NodeRecord, Status, UpdatedWaker
    <2> DEFINE d == [node[f] EXCEPT !.status = "Dequeued"]
               e == [node[f] EXCEPT !.waker = UpdatedWaker(f)]
    <2>2. /\ d \in NodeRecord /\ d.status = "Dequeued" /\ d.waker = node[f].waker
          /\ d.notification = node[f].notification
          /\ e \in NodeRecord /\ e.status = "Queued" /\ e.waker = UpdatedWaker(f)
          /\ e.notification = node[f].notification
      BY <2>1 DEF NodeRecord
    <2>3. CASE Stale(f)
      <3>1. TakeOut(f) /\ node' = [node EXCEPT ![f] = d]
        BY <1>2, <2>3, Zenon DEF PollLocked, ReadyDequeued
      <3> HIDE DEF d
      <3>2. NodeAt(f, "Dequeued", node[f].waker, node[f].notification)
        BY <2>2, <3>1 DEF NodeAt, Nodes, NodeRecord, Types
      <3>3. OutOfList(f)
        BY <3>1, TakeOutEffect
      <3> QED
        BY <1>2, <2>3, <3>2, <3>3, ReadyEffect DEF PollLocked, ReadyDequeued
    <2>4. CASE ~Stale(f)
      <3>1. node' = [node EXCEPT ![f] = e]
        BY <1>2, <2>4, Zenon DEF PollLocked, ReadyDequeued
      <3> HIDE DEF e
      <3>2. NodeAt(f, "Queued", UpdatedWaker(f), node[f].notification)
        BY <2>2, <3>1 DEF NodeAt, Nodes, NodeRecord, Types
      <3> QED
        BY <1>2, <2>4, <3>2, PendEffect DEF PollLocked, ReadyDequeued, shared
    <2> QED
      BY <2>3, <2>4
  <1> QED
    BY <1>1, <1>2 DEF PollLocked, ReadyDequeued

(* What CancelLocked does, field by field. *)
LEMMA CancelLockedEffect ==
    ASSUME Types, ListInv, NEW f \in Futures, CancelLocked(f)
    PROVE  CancelLockedAt(f)
  <1> USE DEF CancelLockedAt
  <1> DEFINE d == [node[f] EXCEPT !.status = "Dequeued"]
  <1>1. node[f] \in NodeRecord
    BY DEF Types, NodeRecord
  <1>2. d \in NodeRecord /\ d.status = "Dequeued" /\ d.waker = node[f].waker /\ d.notification = node[f].notification
    BY <1>1 DEF NodeRecord
  <1>3. node' = [node EXCEPT ![f].status = "Dequeued"] => node' = [node EXCEPT ![f] = d]
    BY Zenon
  <1> HIDE DEF d
  <1>4. node' = [node EXCEPT ![f].status = "Dequeued"] =>
            NodeAt(f, "Dequeued", node[f].waker, node[f].notification)
    <2>1. node' = [node EXCEPT ![f] = d] => NodeAt(f, "Dequeued", node[f].waker, node[f].notification)
      BY <1>2 DEF NodeAt, Nodes, NodeRecord, Types
    <2> QED
      BY <1>3, <2>1, Zenon
  <1> QED
    BY <1>4, PassEffect, TakeOutEffect, ReadyEffect, GoneEffect DEF CancelLocked

(* What DropDequeued does, field by field. *)
LEMMA DropDequeuedEffect ==
    ASSUME Types, NEW f \in Futures, DropDequeued(f)
    PROVE  DropDequeuedAt(f)
  BY PassEffect DEF DropDequeued, DropDequeuedAt

(* What Poll does, field by field. *)
LEMMA PollEffect ==
    ASSUME Types, NEW f \in Futures, NEW k \in Tasks \cup {NONE}, Poll(f, k)
    PROVE  PollAt(f, k)
  <1> USE DEF PollAt
  <1>1. CASE Status(f) = "Dequeued"
    BY <1>1, ReadyEffect DEF Poll, ReadyDequeued, ReadyDequeuedAt, shared
  <1>2. CASE Status(f) # "Dequeued"
    <2> DEFINE x == IF k = NONE THEN fut[f].cx ELSE k
               q == [fut[f] EXCEPT !.cx = x]
               r == [q EXCEPT !.enabling = (k = NONE)]
    <2>1. fut' = [fut EXCEPT ![f].cx = IF k = NONE THEN @ ELSE k, ![f].enabling = (k = NONE)]
      BY <1>2, Zenon DEF Poll, ReadyDequeued
    <2>2. fut' = [fut EXCEPT ![f] = r]
      BY <2>1 DEF Types
    <2>3. fut[f] \in FutRecord /\ x \in Tasks \cup {NONE}
      BY DEF Types, FutRecord
    <2> HIDE DEF x
    <2>4. /\ q \in FutRecord /\ q.created = fut[f].created /\ q.completed = fut[f].completed
          /\ q.cx = x /\ q.seen = fut[f].seen
      BY <2>3 DEF FutRecord
    <2> HIDE DEF q
    <2>5. /\ r \in FutRecord /\ r.created = q.created /\ r.completed = q.completed
          /\ r.cx = q.cx /\ r.enabling = (k = NONE) /\ r.seen = q.seen
      BY <2>4 DEF FutRecord
    <2> HIDE DEF r
    <2>6. FutAt(f, fut[f].created, fut[f].completed, x, k = NONE, fut[f].seen)
      BY <2>2, <2>4, <2>5 DEF FutAt, Futs, FutRecord, Types
    <2>7. PcAt(f, IF Status(f) = "Unqueued" THEN "unqueued" ELSE "lock")
      BY <1>2, MoveEffect DEF Poll, ReadyDequeued, Points, Actors
    <2> QED
      BY <1>2, <2>6, <2>7 DEF Poll, ReadyDequeued, shared, x
  <1> QED
    BY <1>1, <1>2

(* What Notified does, field by field. *)
LEMMA NotifiedEffect ==
    ASSUME Types, NEW f \in Futures, Notified(f)
    PROVE  NotifiedAt(f)
  <1> USE DEF NotifiedAt
  <1>1. FutAt(f, generation, FALSE, NONE, FALSE, 2)
    BY DEF Notified, NewFuture, FutAt, Futs, FutRecord, Types
  <1> QED
    BY <1>1, MoveEffect DEF Notified, shared, Points, Actors

(* What Drop does, field by field. *)
LEMMA DropEffect ==
    ASSUME Types, NEW f \in Futures, Drop(f)
    PROVE  DropAt(f)
  <1> USE DEF DropAt
  <1> DEFINE r == [fut[f] EXCEPT !.cx = NONE]
  <1>1. fut[f] \in FutRecord
    BY DEF Types, FutRecord
  <1>2. /\ r \in FutRecord /\ r.created = fut[f].created /\ r.completed = fut[f].completed
        /\ r.cx = NONE /\ r.enabling = fut[f].enabling /\ r.seen = fut[f].seen
    BY <1>1 DEF FutRecord
  <1>3. fut' = [fut EXCEPT ![f].cx = NONE] => fut' = [fut EXCEPT ![f] = r]
    BY Zenon
  <1> HIDE DEF r
  <1>4. fut' = [fut EXCEPT ![f].cx = NONE] =>
            FutAt(f, fut[f].created, fut[f].completed, NONE, fut[f].enabling, fut[f].seen)
    <2>1. fut' = [fut EXCEPT ![f] = r] =>
            FutAt(f, fut[f].created, fut[f].completed, NONE, fut[f].enabling, fut[f].seen)
      BY <1>2 DEF FutAt, Futs, FutRecord, Types
    <2> QED
      BY <1>3, <2>1, Zenon
  <1> QED
    BY <1>4, GoneEffect, MoveEffect DEF Drop, shared, Points, Actors

(* What DrainNext does, field by field. *)
LEMMA DrainNextEffect ==
    ASSUME Types, ListInv, NEW t \in Threads, DrainNext(t)
    PROVE  DrainNextAt(t)
  <1> USE DEF DrainNextAt
  <1> DEFINE f == Head(drained[t])
  <1>1. /\ pc[t] = "drain" /\ drained[t] # <<>> /\ Take(t, f, "All") /\ UNCHANGED <<state, generation>>
    BY DEF DrainNext
  <1>2. f \in Futures /\ Status(f) = "Queued" /\ InSeq(f, drained[t])
    BY <1>1, FirstIsQueued
  <1> HIDE DEF f
  <1>3. TakeAt(t, f, "All")
    BY <1>1, <1>2, TakeEffect DEF Actors
  <1>4. \/ mutex' = NONE /\ Goto(t, "wake_more")
        \/ mutex' = t /\ Goto(t, "drain")
    BY DEF DrainNext
  <1>5. \/ mutex' = NONE /\ PcAt(t, "wake_more")
        \/ mutex' = t /\ PcAt(t, "drain")
    BY <1>4, MoveEffect DEF Points, Actors
  <1> QED
    BY <1>1, <1>2, <1>3, <1>5

(* What Call does, field by field. *)
LEMMA CallEffect ==
    ASSUME Types, NEW t \in Threads, Call(t)
    PROVE  CallAt(t)
  <1> USE DEF CallAt
  <1>1. calls' \in [Threads -> 0..MaxCalls]
    BY DEF Call, Types
  <1> QED
    BY <1>1, SingleEffect, MoveEffect DEF Call, shared, Points, Actors

(* The kinds of steps.  A call hands out a notification that is new, that  *)
(* it could not hand out without the lock, or that it was given itself.    *)
Source(a, new) ==
    \/ a \in Threads /\ pc[a] = "idle" /\ new = 1
    \/ pc[a] = "single" /\ new = 0
    \/ /\ a \in Futures /\ pc[a] \in {"recheck", "cancel", "drop"} /\ Status(a) = "Dequeued" /\ Owed(a)
       /\ new = 0
Stores(a, new) ==
    /\ Source(a, new) /\ queue = <<>> /\ state' = STATE_NOTIFIED /\ op' = [op EXCEPT ![a] = NONE]
    /\ tokens' = tokens + new - (IF state = STATE_NOTIFIED THEN 1 ELSE 0)
OwesNothing(a) ==
    /\ \/ pc[a] = "wake"
       \/ a \in Futures /\ pc[a] \in {"recheck", "cancel", "drop"} /\ Status(a) = "Dequeued" /\ ~Owed(a)
    /\ UNCHANGED <<state, op, tokens>>
Returns(a) ==
    /\ OwesNothing(a) \/ \E new \in {0, 1} : Stores(a, new)
    /\ UNCHANGED <<queue, drained, mutex, generation, wakers>>

ThreadReturns(t) == t \in Threads /\ Returns(t) /\ PcAt(t, "idle") /\ UNCHANGED <<node, fut, woken>>
FutureReturns(f) == Returns(f) /\ ReadyAt(f) /\ UNCHANGED node
FutureDies(f) == Returns(f) /\ GoneAt(f)
HandsOut(a) ==
    /\ \E new \in {0, 1} : Source(a, new) /\ tokens' = tokens + new
    /\ \E n \in {"One", "Last"} : op' = [op EXCEPT ![a] = n]
    /\ queue # <<>> /\ PcAt(a, "single")
    /\ UNCHANGED <<queue, drained, state, mutex, generation, node, fut, woken, wakers>>
GivesOne(a, f) ==
    /\ pc[a] = "single" /\ mutex = NONE /\ op[a] \in {"One", "Last"} /\ InSeq(f, queue)
    /\ TakeAt(a, f, op[a]) /\ op' = [op EXCEPT ![a] = NONE] /\ PcAt(a, "wake")
    /\ UNCHANGED <<state, mutex, generation, fut, woken, tokens>>
GivesAll(t, f) ==
    /\ pc[t] = "drain" /\ InSeq(f, drained[t]) /\ TakeAt(t, f, "All")
    /\ \/ mutex' = NONE /\ PcAt(t, "wake_more")
       \/ mutex' = t /\ PcAt(t, "drain")
    /\ UNCHANGED <<state, generation, fut, woken, op, tokens>>

Unlisted == UNCHANGED <<queue, drained, mutex, generation, op, wakers>>
UsesUp(f) ==
    /\ pc[f] \in {"idle", "lock"} /\ Status(f) = "Dequeued" /\ ReadyAt(f)
    /\ tokens' = IF IsSingle(f) /\ ~fut[f].completed THEN tokens - 1 ELSE tokens
    /\ Unlisted /\ UNCHANGED <<state, node>>
FindsStale(f) ==
    pc[f] = "unqueued" /\ ReadyAt(f) /\ Unlisted /\ UNCHANGED <<state, node, tokens>>
FindsStored(f) ==
    /\ pc[f] = "update" /\ queue = <<>> /\ state = STATE_NOTIFIED /\ state' = STATE_UNNOTIFIED
    /\ tokens' = tokens - 1 /\ ReadyAt(f) /\ Unlisted /\ UNCHANGED node
MovesOn(a) ==
    /\ \/ a \in Futures /\ pc[a] = "unqueued" /\ ~Stale(a) /\ PcAt(a, "update")
       \/ a \in Futures /\ pc[a] = "recheck" /\ Status(a) = "Queued" /\ PcAt(a, "cancel")
       \/ a \in Threads /\ pc[a] = "idle" /\ PcAt(a, "waiters")
    /\ Unlisted /\ UNCHANGED <<state, node, fut, woken, tokens>>
StoresWaker(f) ==
    /\ pc[f] = "update" /\ OptState # STATE_NOTIFIED
    /\ FutAt(f, fut[f].created, fut[f].completed, fut[f].cx, fut[f].enabling, OptState)
    /\ NodeAt(f, node[f].status,
              IF fut[f].enabling \/ node[f].waker # NONE THEN node[f].waker ELSE fut[f].cx,
              node[f].notification)
    /\ PcAt(f, "enqueue") /\ Unlisted /\ UNCHANGED <<state, tokens, woken>>
Enqueues(f) ==
    /\ pc[f] = "enqueue" /\ OptState = fut[f].seen
    /\ queue' = Append(queue, f) /\ state' = STATE_UNNOTIFIED
    /\ NodeAt(f, "Queued", node[f].waker, node[f].notification) /\ PcAt(f, "recheck")
    /\ FutAt(f, fut[f].created, fut[f].completed, fut[f].cx, fut[f].enabling, 2)
    /\ UNCHANGED <<drained, mutex, generation, woken, op, wakers, tokens>>
Repeats(f) ==
    /\ pc[f] = "enqueue" /\ PcAt(f, "unqueued")
    /\ FutAt(f, fut[f].created, fut[f].completed, fut[f].cx, fut[f].enabling, 2)
    /\ Unlisted /\ UNCHANGED <<state, node, woken, tokens>>
Waits(f) ==
    /\ ~Stale(f) /\ PendAt(f)
    /\ \/ pc[f] = "recheck" /\ UNCHANGED node
       \/ /\ pc[f] = "lock" /\ Status(f) = "Queued"
          /\ NodeAt(f, "Queued", UpdatedWaker(f), node[f].notification)
    /\ Unlisted /\ UNCHANGED <<state, tokens>>
Unqueues(f) ==
    /\ pc[f] \in {"lock", "cancel"} /\ mutex = NONE /\ Status(f) = "Queued" /\ OutOfList(f)
    /\ \/ NodeAt(f, "Dequeued", node[f].waker, node[f].notification) /\ ReadyAt(f)
       \/ GoneAt(f)
    /\ UNCHANGED <<state, mutex, generation, op, wakers, tokens>>
Polls(f, k) ==
    /\ pc[f] = "idle" /\ (fut[f].completed => CallAfterReady \/ Settled(f)) /\ Status(f) # "Dequeued"
    /\ PcAt(f, IF Status(f) = "Unqueued" THEN "unqueued" ELSE "lock")
    /\ FutAt(f, fut[f].created, fut[f].completed, IF k = NONE THEN fut[f].cx ELSE k, k = NONE, fut[f].seen)
    /\ woken' = IF k = NONE THEN woken ELSE woken \ {f}
    /\ Unlisted /\ UNCHANGED <<state, node, tokens>>
IsMade(f) ==
    /\ pc[f] = "new" /\ PcAt(f, "idle") /\ FutAt(f, generation, FALSE, NONE, FALSE, 2)
    /\ Unlisted /\ UNCHANGED <<state, node, woken, tokens>>
IsDropped(f) ==
    /\ pc[f] = "idle"
    /\ \/ Status(f) # "Queued" /\ (fut[f].completed \/ Status(f) = "Unqueued") /\ GoneAt(f)
       \/ /\ Status(f) = "Queued" \/ (~fut[f].completed /\ Status(f) = "Dequeued")
          /\ PcAt(f, IF Status(f) = "Queued" THEN "cancel" ELSE "drop")
          /\ FutAt(f, fut[f].created, fut[f].completed, NONE, fut[f].enabling, fut[f].seen)
          /\ woken' = woken \ {f} /\ UNCHANGED node
    /\ Unlisted /\ UNCHANGED <<state, tokens>>

WaitersSteps(t) ==
    /\ WaitersLock(t) \/ WaitersDrain(t) \/ WakeMore(t) \/ DrainEnd(t)
    /\ UNCHANGED <<fut, woken, op, tokens>>
ActorSteps(a) == ThreadReturns(a) \/ HandsOut(a) \/ MovesOn(a) \/ WakeAt(a)
FutureSteps(f) ==
    \/ FutureReturns(f) \/ FutureDies(f) \/ UsesUp(f) \/ FindsStale(f) \/ FindsStored(f) \/ StoresWaker(f)
    \/ Enqueues(f) \/ Repeats(f) \/ Waits(f) \/ Unqueues(f) \/ IsMade(f) \/ IsDropped(f)
    \/ \E k \in Tasks \cup {NONE} : Polls(f, k)

(* A call returns to a thread, to a poll, or to the destructor. *)
LEMMA ReturnCases ==
    ASSUME NEW a \in Actors, Returns(a), ReturnAt(a)
    PROVE  ThreadReturns(a) \/ (a \in Futures /\ (FutureReturns(a) \/ FutureDies(a)))
  BY DEF ReturnAt, ThreadReturns, FutureReturns, FutureDies

(* A notification is stored or handed out. *)
LEMMA SingleCases ==
    ASSUME NEW a \in Actors, NEW n \in {"One", "Last"}, NEW new \in {0, 1}, Source(a, new),
           SingleAt(a, n, new)
    PROVE  ActorSteps(a) \/ (a \in Futures /\ FutureSteps(a))
  <1>1. CASE StoreAt(a, new)
    <2>1. Stores(a, new)
      BY <1>1 DEF StoreAt, Stores
    <2>2. Returns(a) /\ ReturnAt(a)
      BY <1>1, <2>1 DEF StoreAt, Returns
    <2> QED
      BY <2>2, ReturnCases DEF ActorSteps, FutureSteps
  <1>2. CASE ~StoreAt(a, new)
    BY <1>2 DEF SingleAt, HandsOut, ActorSteps
  <1> QED
    BY <1>1, <1>2

(* cancel passes a notification on if it owes one. *)
LEMMA PassCases ==
    ASSUME Types, NEW f \in Futures, pc[f] \in {"recheck", "cancel", "drop"}, PassAt(f)
    PROVE  ActorSteps(f) \/ FutureSteps(f)
  <1>0. f \in Actors
    BY DEF Actors
  <1>1. CASE Owed(f)
    <2>1. Source(f, 0) /\ SingleAt(f, node[f].notification, 0) /\ node[f].notification \in {"One", "Last"}
      BY <1>1 DEF PassAt, Source, Owed, IsSingle
    <2> QED
      BY <1>0, <2>1, SingleCases
  <1>2. CASE ~Owed(f)
    <2>1. Returns(f) /\ ReturnAt(f)
      BY <1>2 DEF PassAt, Returns, OwesNothing
    <2> QED
      BY <1>0, <2>1, ReturnCases DEF ActorSteps, FutureSteps
  <1> QED
    BY <1>1, <1>2

(* Every step is one of these. *)
LEMMA StepCases ==
    ASSUME Types, ListInv, PcInv, [Next]_vars
    PROVE  \/ \E a \in Actors : (ActorSteps(a) \/ \E f \in Futures : GivesOne(a, f))
           \/ \E f \in Futures : FutureSteps(f)
           \/ \E t \in Threads : (WaitersSteps(t) \/ \E f \in Futures : GivesAll(t, f))
           \/ UNCHANGED vars
  <1> DEFINE Goal == \/ \E a \in Actors : (ActorSteps(a) \/ \E f \in Futures : GivesOne(a, f))
                     \/ \E f \in Futures : FutureSteps(f)
                     \/ \E t \in Threads : (WaitersSteps(t) \/ \E f \in Futures : GivesAll(t, f))
                     \/ UNCHANGED vars
  <1>1. ASSUME NEW a \in Actors, WakeSingle(a) PROVE Goal
    <2>1. WakeSingleAt(a)
      BY <1>1, WakeSingleEffect
    <2>2. CASE StoreAt(a, 0)
      <3>1. Source(a, 0) /\ SingleAt(a, "One", 0)
        BY <2>1, <2>2 DEF WakeSingleAt, Source, SingleAt
      <3> QED
        BY <3>1, SingleCases
    <2>3. CASE ~StoreAt(a, 0)
      BY <2>1, <2>3 DEF WakeSingleAt, GivesOne
    <2> QED
      BY <2>2, <2>3
  <1>2. ASSUME NEW a \in Actors, Wake(a) PROVE Goal
    BY <1>2, WakeEffect DEF ActorSteps
  <1>3. ASSUME NEW a \in Actors, WakeEnd(a) PROVE Goal
    <2>1. WakeEndAt(a)
      BY <1>3, WakeEndEffect
    <2>2. Returns(a) /\ ReturnAt(a)
      BY <2>1 DEF WakeEndAt, Returns, OwesNothing
    <2> QED
      BY <2>2, ReturnCases DEF ActorSteps, FutureSteps
  <1>4. ASSUME NEW f \in Futures, PollUnqueued(f) PROVE Goal
    <2>1. PollUnqueuedAt(f)
      BY <1>4, PollUnqueuedEffect
    <2>2. FindsStale(f) \/ MovesOn(f)
      BY <2>1 DEF PollUnqueuedAt, FindsStale, MovesOn, Unlisted
    <2> QED
      BY <2>2 DEF ActorSteps, FutureSteps, Actors
  <1>5. ASSUME NEW f \in Futures, PollUpdate(f) PROVE Goal
    <2>1. PollUpdateAt(f)
      BY <1>5, PollUpdateEffect
    <2>2. FindsStored(f) \/ StoresWaker(f)
      BY <2>1 DEF PollUpdateAt, FindsStored, StoresWaker, Unlisted
    <2> QED
      BY <2>2 DEF FutureSteps
  <1>6. ASSUME NEW f \in Futures, PollEnqueue(f) PROVE Goal
    <2>1. PollEnqueueAt(f)
      BY <1>6, PollEnqueueEffect
    <2>2. Enqueues(f) \/ Repeats(f)
      BY <2>1 DEF PollEnqueueAt, Enqueues, Repeats, Unlisted
    <2> QED
      BY <2>2 DEF FutureSteps
  <1>7. ASSUME NEW f \in Futures, PollRecheck(f) PROVE Goal
    <2>1. PollRecheckAt(f)
      BY <1>7, PollRecheckEffect
    <2>2. (PassAt(f) /\ pc[f] = "recheck") \/ MovesOn(f) \/ Waits(f)
      BY <2>1 DEF PollRecheckAt, MovesOn, Waits, Unlisted
    <2> QED
      BY <2>2, PassCases DEF ActorSteps, FutureSteps, Actors
  <1>8. ASSUME NEW f \in Futures, PollLocked(f) PROVE Goal
    <2>1. PollLockedAt(f)
      BY <1>8, PollLockedEffect
    <2>2. UsesUp(f) \/ Unqueues(f) \/ Waits(f)
      BY <2>1 DEF PollLockedAt, ReadyDequeuedAt, UsesUp, Unqueues, Waits, Unlisted
    <2> QED
      BY <2>2 DEF FutureSteps
  <1>9. ASSUME NEW f \in Futures, CancelLocked(f) PROVE Goal
    <2>1. CancelLockedAt(f)
      BY <1>9, CancelLockedEffect
    <2>2. (PassAt(f) /\ pc[f] = "cancel") \/ Unqueues(f)
      BY <2>1 DEF CancelLockedAt, Unqueues
    <2> QED
      BY <2>2, PassCases DEF FutureSteps, Actors
  <1>10. ASSUME NEW f \in Futures, DropDequeued(f) PROVE Goal
    <2>1. PassAt(f) /\ pc[f] = "drop"
      BY <1>10, DropDequeuedEffect DEF DropDequeuedAt
    <2> QED
      BY <2>1, PassCases DEF Actors
  <1>11. ASSUME NEW f \in Futures, NEW k \in Tasks \cup {NONE}, Poll(f, k) PROVE Goal
    <2>1. PollAt(f, k)
      BY <1>11, PollEffect
    <2>2. UsesUp(f) \/ Polls(f, k)
      BY <2>1 DEF PollAt, ReadyDequeuedAt, UsesUp, Polls, Unlisted
    <2> QED
      BY <2>2 DEF FutureSteps
  <1>12. ASSUME NEW f \in Futures, Notified(f) PROVE Goal
    <2>1. IsMade(f)
      BY <1>12, NotifiedEffect DEF NotifiedAt, IsMade, Unlisted
    <2> QED
      BY <2>1 DEF FutureSteps
  <1>13. ASSUME NEW f \in Futures, Drop(f) PROVE Goal
    <2>1. DropAt(f)
      BY <1>13, DropEffect
    <2>2. IsDropped(f)
      BY <2>1 DEF DropAt, IsDropped, Unlisted
    <2> QED
      BY <2>2 DEF FutureSteps
  <1>14. ASSUME NEW t \in Threads, WaitersStep(t) PROVE Goal
    <2>1. CASE DrainNext(t)
      <3>1. DrainNextAt(t) /\ UNCHANGED <<fut, woken, op, tokens>>
        BY <1>14, <2>1, DrainNextEffect DEF WaitersStep
      <3>2. \E f \in Futures : GivesAll(t, f)
        BY <3>1 DEF DrainNextAt, GivesAll
      <3> QED
        BY <3>2
    <2>2. CASE ~DrainNext(t)
      BY <1>14, <2>2 DEF WaitersStep, WaitersSteps
    <2> QED
      BY <2>1, <2>2
  <1>15. ASSUME NEW t \in Threads, Call(t) PROVE Goal
    <2>1. CallAt(t) /\ t \in Actors
      BY <1>15, CallEffect DEF Actors
    <2>2. Source(t, 1)
      BY <2>1 DEF CallAt, Source
    <2>3. MovesOn(t) \/ \E n \in {"One", "Last"} : SingleAt(t, n, 1)
      BY <2>1 DEF CallAt, MovesOn, Unlisted
    <2> QED
      BY <2>1, <2>2, <2>3, SingleCases DEF ActorSteps
  <1> HIDE DEF Goal
  <1>16. Goal
    <2>1. UNCHANGED vars => Goal
      BY DEF Goal
    <2> QED
      BY <2>1, <1>1, <1>2, <1>3, <1>4, <1>5, <1>6, <1>7, <1>8, <1>9, <1>10, <1>11, <1>12, <1>13,
         <1>14, <1>15
      DEF Next, NotifyStep, FutureStep, PollStep
  <1> QED
    BY <1>16 DEF Goal

(* Every actor keeps to its own code. *)
LEMMA PcStep == IInv /\ [Next]_vars => PcInv'
  <1> SUFFICES ASSUME IInv, [Next]_vars PROVE PcInv'
    OBVIOUS
  <1> USE DEF PcInv, Actors, ThreadPC, FuturePC, UnqueuedPC, DequeuedPC
  <1> USE DEF IInv, Types
  <1>1. ASSUME NEW a \in Actors, ThreadReturns(a) PROVE PcInv'
    BY <1>1 DEF ThreadReturns, Returns, OwesNothing, Stores, Source, PcAt
  <1>2. ASSUME NEW a \in Actors, HandsOut(a) PROVE PcInv'
    BY <1>2 DEF HandsOut, Source, PcAt
  <1>3. ASSUME NEW a \in Actors, MovesOn(a) PROVE PcInv'
    BY <1>3, ZenonT(40) DEF MovesOn, Unlisted, PcAt
  <1>4. ASSUME NEW a \in Actors, WakeAt(a) PROVE PcInv'
    BY <1>4 DEF WakeAt
  <1>5. ASSUME NEW a \in Actors, NEW f \in Futures, GivesOne(a, f) PROVE PcInv'
    BY <1>5 DEF GivesOne, PcAt
  <1>6. ASSUME NEW f \in Futures, FutureReturns(f) PROVE PcInv'
    BY <1>6 DEF FutureReturns, Returns, OwesNothing, Stores, Source, ReadyAt, PcAt
  <1>7. ASSUME NEW f \in Futures, FutureDies(f) PROVE PcInv'
    BY <1>7, ZenonT(40) DEF FutureDies, Returns, OwesNothing, Stores, Source, GoneAt, PcAt
  <1>8. ASSUME NEW f \in Futures, UsesUp(f) PROVE PcInv'
    BY <1>8 DEF UsesUp, Unlisted, ReadyAt, PcAt
  <1>9. ASSUME NEW f \in Futures, FindsStale(f) PROVE PcInv'
    BY <1>9 DEF FindsStale, Unlisted, ReadyAt, PcAt
  <1>10. ASSUME NEW f \in Futures, FindsStored(f) PROVE PcInv'
    BY <1>10 DEF FindsStored, Unlisted, ReadyAt, PcAt
  <1>11. ASSUME NEW f \in Futures, StoresWaker(f) PROVE PcInv'
    BY <1>11 DEF StoresWaker, Unlisted, PcAt
  <1>12. ASSUME NEW f \in Futures, Enqueues(f) PROVE PcInv'
    BY <1>12 DEF Enqueues, PcAt
  <1>13. ASSUME NEW f \in Futures, Repeats(f) PROVE PcInv'
    BY <1>13 DEF Repeats, Unlisted, PcAt
  <1>14. ASSUME NEW f \in Futures, Waits(f) PROVE PcInv'
    BY <1>14 DEF Waits, Unlisted, PendAt, PcAt
  <1>15. ASSUME NEW f \in Futures, Unqueues(f) PROVE PcInv'
    BY <1>15 DEF Unqueues, ReadyAt, GoneAt, PcAt
  <1>16. ASSUME NEW f \in Futures, IsMade(f) PROVE PcInv'
    BY <1>16 DEF IsMade, Unlisted, PcAt
  <1>17. ASSUME NEW f \in Futures, IsDropped(f) PROVE PcInv'
    BY <1>17, ZenonT(40) DEF IsDropped, Unlisted, GoneAt, PcAt
  <1>18. ASSUME NEW f \in Futures, NEW k \in Tasks \cup {NONE}, Polls(f, k) PROVE PcInv'
    BY <1>18, ZenonT(40) DEF Polls, Unlisted, PcAt
  <1>19. ASSUME NEW t \in Threads, WaitersLock(t), UNCHANGED <<fut, woken, op, tokens>> PROVE PcInv'
    BY <1>19 DEF WaitersLock, Goto
  <1>20. ASSUME NEW t \in Threads, WaitersDrain(t), UNCHANGED <<fut, woken, op, tokens>> PROVE PcInv'
    BY <1>20 DEF WaitersDrain, Goto
  <1>21. ASSUME NEW t \in Threads, WakeMore(t), UNCHANGED <<fut, woken, op, tokens>> PROVE PcInv'
    BY <1>21 DEF WakeMore, Goto
  <1>22. ASSUME NEW t \in Threads, DrainEnd(t), UNCHANGED <<fut, woken, op, tokens>> PROVE PcInv'
    BY <1>22 DEF DrainEnd, Goto, LeftWakers
  <1>23. ASSUME NEW t \in Threads, NEW f \in Futures, GivesAll(t, f) PROVE PcInv'
    BY <1>23 DEF GivesAll, PcAt
  <1>24. CASE UNCHANGED vars
    BY <1>24 DEF vars, shared
  <1> HIDE DEF PcInv, Actors, ThreadPC, FuturePC, UnqueuedPC, DequeuedPC
  <1> QED
    BY <1>1, <1>2, <1>3, <1>4, <1>5, <1>6, <1>7, <1>8, <1>9, <1>10, <1>11, <1>12, <1>13, <1>14,
       <1>15, <1>16, <1>17, <1>18, <1>19, <1>20, <1>21, <1>22, <1>23, <1>24, StepCases
    DEF ActorSteps, FutureSteps, WaitersSteps, IInv

(* The lock is taken only when it is free and given back by its holder. *)
LEMMA LockStep == IInv /\ [Next]_vars => LockInv'
  <1> SUFFICES ASSUME IInv, [Next]_vars PROVE LockInv'
    OBVIOUS
  <1> USE DEF LockInv, PcInv, Actors, ThreadPC, FuturePC, UnqueuedPC, DequeuedPC
  <1> USE DEF IInv, Types
  <1>1. ASSUME NEW a \in Actors, ThreadReturns(a) PROVE LockInv'
    BY <1>1 DEF ThreadReturns, Returns, OwesNothing, Stores, Source, PcAt
  <1>2. ASSUME NEW a \in Actors, HandsOut(a) PROVE LockInv'
    BY <1>2 DEF HandsOut, Source, PcAt
  <1>3. ASSUME NEW a \in Actors, MovesOn(a) PROVE LockInv'
    BY <1>3 DEF MovesOn, Unlisted, PcAt
  <1>4. ASSUME NEW a \in Actors, WakeAt(a) PROVE LockInv'
    BY <1>4 DEF WakeAt
  <1>5. ASSUME NEW a \in Actors, NEW f \in Futures, GivesOne(a, f) PROVE LockInv'
    BY <1>5 DEF GivesOne, PcAt
  <1>6. ASSUME NEW f \in Futures, FutureReturns(f) PROVE LockInv'
    BY <1>6 DEF FutureReturns, Returns, OwesNothing, Stores, Source, ReadyAt, PcAt
  <1>7. ASSUME NEW f \in Futures, FutureDies(f) PROVE LockInv'
    BY <1>7 DEF FutureDies, Returns, OwesNothing, Stores, Source, GoneAt, PcAt
  <1>8. ASSUME NEW f \in Futures, UsesUp(f) PROVE LockInv'
    BY <1>8 DEF UsesUp, Unlisted, ReadyAt, PcAt
  <1>9. ASSUME NEW f \in Futures, FindsStale(f) PROVE LockInv'
    BY <1>9 DEF FindsStale, Unlisted, ReadyAt, PcAt
  <1>10. ASSUME NEW f \in Futures, FindsStored(f) PROVE LockInv'
    BY <1>10 DEF FindsStored, Unlisted, ReadyAt, PcAt
  <1>11. ASSUME NEW f \in Futures, StoresWaker(f) PROVE LockInv'
    BY <1>11 DEF StoresWaker, Unlisted, PcAt
  <1>12. ASSUME NEW f \in Futures, Enqueues(f) PROVE LockInv'
    BY <1>12 DEF Enqueues, PcAt
  <1>13. ASSUME NEW f \in Futures, Repeats(f) PROVE LockInv'
    BY <1>13 DEF Repeats, Unlisted, PcAt
  <1>14. ASSUME NEW f \in Futures, Waits(f) PROVE LockInv'
    BY <1>14 DEF Waits, Unlisted, PendAt, PcAt
  <1>15. ASSUME NEW f \in Futures, Unqueues(f) PROVE LockInv'
    BY <1>15 DEF Unqueues, ReadyAt, GoneAt, PcAt
  <1>16. ASSUME NEW f \in Futures, IsMade(f) PROVE LockInv'
    BY <1>16 DEF IsMade, Unlisted, PcAt
  <1>17. ASSUME NEW f \in Futures, IsDropped(f) PROVE LockInv'
    BY <1>17 DEF IsDropped, Unlisted, GoneAt, PcAt
  <1>18. ASSUME NEW f \in Futures, NEW k \in Tasks \cup {NONE}, Polls(f, k) PROVE LockInv'
    BY <1>18 DEF Polls, Unlisted, PcAt
  <1>19. ASSUME NEW t \in Threads, WaitersLock(t), UNCHANGED <<fut, woken, op, tokens>> PROVE LockInv'
    BY <1>19 DEF WaitersLock, Goto
  <1>20. ASSUME NEW t \in Threads, WaitersDrain(t), UNCHANGED <<fut, woken, op, tokens>> PROVE LockInv'
    BY <1>20 DEF WaitersDrain, Goto
  <1>21. ASSUME NEW t \in Threads, WakeMore(t), UNCHANGED <<fut, woken, op, tokens>> PROVE LockInv'
    BY <1>21 DEF WakeMore, Goto
  <1>22. ASSUME NEW t \in Threads, DrainEnd(t), UNCHANGED <<fut, woken, op, tokens>> PROVE LockInv'
    BY <1>22 DEF DrainEnd, Goto, LeftWakers
  <1>23. ASSUME NEW t \in Threads, NEW f \in Futures, GivesAll(t, f) PROVE LockInv'
    BY <1>23 DEF GivesAll, PcAt
  <1>24. CASE UNCHANGED vars
    BY <1>24 DEF vars, shared
  <1> HIDE DEF LockInv, PcInv, Actors, ThreadPC, FuturePC, UnqueuedPC, DequeuedPC
  <1> QED
    BY <1>1, <1>2, <1>3, <1>4, <1>5, <1>6, <1>7, <1>8, <1>9, <1>10, <1>11, <1>12, <1>13, <1>14,
       <1>15, <1>16, <1>17, <1>18, <1>19, <1>20, <1>21, <1>22, <1>23, <1>24, StepCases
    DEF ActorSteps, FutureSteps, WaitersSteps, IInv

(* The place of a future goes with the status of its node. *)
LEMMA NodeStep == IInv /\ [Next]_vars => NodeInv'
  <1> SUFFICES ASSUME IInv, [Next]_vars PROVE NodeInv'
    OBVIOUS
  <1> USE DEF PcInv, NodeInv, Status, Actors, ThreadPC, FuturePC, UnqueuedPC, DequeuedPC
  <1> USE DEF IInv
  <1>1. ASSUME NEW a \in Actors, ThreadReturns(a) PROVE NodeInv'
    BY <1>1 DEF ThreadReturns, Returns, OwesNothing, Stores, Source, PcAt
  <1>2. ASSUME NEW a \in Actors, HandsOut(a) PROVE NodeInv'
    BY <1>2 DEF HandsOut, Source, PcAt
  <1>3. ASSUME NEW a \in Actors, MovesOn(a) PROVE NodeInv'
    BY <1>3 DEF MovesOn, Unlisted, PcAt
  <1>4. ASSUME NEW a \in Actors, WakeAt(a) PROVE NodeInv'
    BY <1>4 DEF WakeAt
  <1>5. ASSUME NEW a \in Actors, NEW f \in Futures, GivesOne(a, f) PROVE NodeInv'
    <2>1. Status(f) = "Queued" /\ NodeAt(f, "Dequeued", NONE, op[a]) /\ UNCHANGED fut
      BY <1>5 DEF GivesOne, TakeAt
    <2>2. a # f /\ \A b \in Actors : b # a => pc'[b] = pc[b]
      BY <1>5, <2>1 DEF GivesOne, PcAt
    <2>3. pc[a] = "single" /\ pc'[a] = "wake" /\ op[a] \in {"One", "Last"}
      BY <1>5 DEF GivesOne, PcAt
    <2>4. pc'[f] = pc[f] /\ pc[f] \notin UnqueuedPC \cup DequeuedPC
      BY <2>1, <2>2
    <2>5. node'[f].status = "Dequeued" /\ node'[f].notification \in {"One", "Last", "All"}
              /\ node'[f].notification # NONE
      BY <2>1, <2>3 DEF NodeAt, NONE
    <2>6. \A g \in Futures : g # f => node'[g] = node[g]
      BY <2>1 DEF NodeAt
    <2> QED
      BY <2>1, <2>2, <2>3, <2>4, <2>5, <2>6
  <1>6. ASSUME NEW f \in Futures, FutureReturns(f) PROVE NodeInv'
    BY <1>6 DEF FutureReturns, Returns, OwesNothing, Stores, Source, ReadyAt, PcAt, FutAt
  <1>7. ASSUME NEW f \in Futures, FutureDies(f) PROVE NodeInv'
    BY <1>7 DEF FutureDies, Returns, OwesNothing, Stores, Source, GoneAt, PcAt, FutAt, NodeAt
  <1>8. ASSUME NEW f \in Futures, UsesUp(f) PROVE NodeInv'
    BY <1>8 DEF UsesUp, Unlisted, ReadyAt, PcAt, FutAt
  <1>9. ASSUME NEW f \in Futures, FindsStale(f) PROVE NodeInv'
    BY <1>9 DEF FindsStale, Unlisted, ReadyAt, PcAt, FutAt
  <1>10. ASSUME NEW f \in Futures, FindsStored(f) PROVE NodeInv'
    BY <1>10 DEF FindsStored, Unlisted, ReadyAt, PcAt, FutAt
  <1>11. ASSUME NEW f \in Futures, StoresWaker(f) PROVE NodeInv'
    BY <1>11 DEF StoresWaker, Unlisted, PcAt, FutAt, NodeAt
  <1>12. ASSUME NEW f \in Futures, Enqueues(f) PROVE NodeInv'
    BY <1>12 DEF Enqueues, PcAt, FutAt, NodeAt
  <1>13. ASSUME NEW f \in Futures, Repeats(f) PROVE NodeInv'
    BY <1>13 DEF Repeats, Unlisted, PcAt, FutAt
  <1>14. ASSUME NEW f \in Futures, Waits(f) PROVE NodeInv'
    BY <1>14 DEF Waits, Unlisted, PendAt, PcAt, FutAt, NodeAt
  <1>15. ASSUME NEW f \in Futures, Unqueues(f) PROVE NodeInv'
    BY <1>15 DEF Unqueues, ReadyAt, GoneAt, PcAt, FutAt, NodeAt
  <1>16. ASSUME NEW f \in Futures, IsMade(f) PROVE NodeInv'
    BY <1>16 DEF IsMade, Unlisted, PcAt, FutAt
  <1>17. ASSUME NEW f \in Futures, IsDropped(f) PROVE NodeInv'
    BY <1>17 DEF IsDropped, Unlisted, GoneAt, PcAt, FutAt, NodeAt
  <1>18. ASSUME NEW f \in Futures, NEW k \in Tasks \cup {NONE}, Polls(f, k) PROVE NodeInv'
    BY <1>18 DEF Polls, Unlisted, PcAt, FutAt
  <1>19. ASSUME NEW t \in Threads, WaitersLock(t), UNCHANGED <<fut, woken, op, tokens>> PROVE NodeInv'
    BY <1>19 DEF WaitersLock, Goto
  <1>20. ASSUME NEW t \in Threads, WaitersDrain(t), UNCHANGED <<fut, woken, op, tokens>> PROVE NodeInv'
    BY <1>20 DEF WaitersDrain, Goto
  <1>21. ASSUME NEW t \in Threads, WakeMore(t), UNCHANGED <<fut, woken, op, tokens>> PROVE NodeInv'
    BY <1>21 DEF WakeMore, Goto
  <1>22. ASSUME NEW t \in Threads, DrainEnd(t), UNCHANGED <<fut, woken, op, tokens>> PROVE NodeInv'
    BY <1>22 DEF DrainEnd, Goto, LeftWakers
  <1>23. ASSUME NEW t \in Threads, NEW f \in Futures, GivesAll(t, f) PROVE NodeInv'
    <2>1. Status(f) = "Queued" /\ NodeAt(f, "Dequeued", NONE, "All") /\ UNCHANGED fut
      BY <1>23 DEF GivesAll, TakeAt
    <2>2. t # f /\ \A b \in Actors : b # t => pc'[b] = pc[b]
      BY <1>23, <2>1 DEF GivesAll, PcAt
    <2>3. t \notin Futures
      BY <1>23 DEF GivesAll, PcAt
    <2>4. pc'[f] = pc[f] /\ pc[f] \notin UnqueuedPC \cup DequeuedPC
      BY <2>1, <2>2
    <2>5. node'[f].status = "Dequeued" /\ node'[f].notification \in {"One", "Last", "All"}
              /\ node'[f].notification # NONE
      BY <2>1, <2>3 DEF NodeAt, NONE
    <2>6. \A g \in Futures : g # f => node'[g] = node[g]
      BY <2>1 DEF NodeAt
    <2> QED
      BY <2>1, <2>2, <2>3, <2>4, <2>5, <2>6
  <1>24. CASE UNCHANGED vars
    BY <1>24 DEF vars, shared
  <1> HIDE DEF PcInv, NodeInv, Status, Actors, ThreadPC, FuturePC, UnqueuedPC, DequeuedPC
  <1> QED
    BY <1>1, <1>2, <1>3, <1>4, <1>5, <1>6, <1>7, <1>8, <1>9, <1>10, <1>11, <1>12, <1>13, <1>14,
       <1>15, <1>16, <1>17, <1>18, <1>19, <1>20, <1>21, <1>22, <1>23, <1>24, StepCases
    DEF ActorSteps, FutureSteps, WaitersSteps, IInv

(* A notification is stored only while nobody waits. *)
LEMMA StateStep == IInv /\ [Next]_vars => StateInv'
  <1> SUFFICES ASSUME IInv, [Next]_vars PROVE StateInv'
    OBVIOUS
  <1> USE DEF StateInv, STATE_NOTIFIED, STATE_UNNOTIFIED
  <1> USE DEF IInv
  <1>1. ASSUME NEW a \in Actors, ThreadReturns(a) PROVE StateInv'
    BY <1>1 DEF ThreadReturns, Returns, OwesNothing, Stores, Source
  <1>2. ASSUME NEW a \in Actors, HandsOut(a) PROVE StateInv'
    BY <1>2 DEF HandsOut, Source
  <1>3. ASSUME NEW a \in Actors, MovesOn(a) PROVE StateInv'
    BY <1>3 DEF MovesOn, Unlisted
  <1>4. ASSUME NEW a \in Actors, WakeAt(a) PROVE StateInv'
    BY <1>4 DEF WakeAt
  <1>5. ASSUME NEW a \in Actors, NEW f \in Futures, GivesOne(a, f) PROVE StateInv'
    BY <1>5 DEF GivesOne, TakeAt, OutOfList
  <1>6. ASSUME NEW f \in Futures, FutureReturns(f) PROVE StateInv'
    BY <1>6 DEF FutureReturns, Returns, OwesNothing, Stores, Source, ReadyAt, FutAt
  <1>7. ASSUME NEW f \in Futures, FutureDies(f) PROVE StateInv'
    BY <1>7 DEF FutureDies, Returns, OwesNothing, Stores, Source, GoneAt, FutAt
  <1>8. ASSUME NEW f \in Futures, UsesUp(f) PROVE StateInv'
    BY <1>8 DEF UsesUp, Unlisted, ReadyAt, FutAt
  <1>9. ASSUME NEW f \in Futures, FindsStale(f) PROVE StateInv'
    BY <1>9 DEF FindsStale, Unlisted, ReadyAt, FutAt
  <1>10. ASSUME NEW f \in Futures, FindsStored(f) PROVE StateInv'
    BY <1>10 DEF FindsStored, Unlisted, ReadyAt, FutAt
  <1>11. ASSUME NEW f \in Futures, StoresWaker(f) PROVE StateInv'
    BY <1>11 DEF StoresWaker, Unlisted, FutAt
  <1>12. ASSUME NEW f \in Futures, Enqueues(f) PROVE StateInv'
    BY <1>12 DEF Enqueues, FutAt
  <1>13. ASSUME NEW f \in Futures, Repeats(f) PROVE StateInv'
    BY <1>13 DEF Repeats, Unlisted, FutAt
  <1>14. ASSUME NEW f \in Futures, Waits(f) PROVE StateInv'
    BY <1>14 DEF Waits, Unlisted, PendAt, FutAt
  <1>15. ASSUME NEW f \in Futures, Unqueues(f) PROVE StateInv'
    BY <1>15 DEF Unqueues, OutOfList, ReadyAt, GoneAt, FutAt
  <1>16. ASSUME NEW f \in Futures, IsMade(f) PROVE StateInv'
    BY <1>16 DEF IsMade, Unlisted, FutAt
  <1>17. ASSUME NEW f \in Futures, IsDropped(f) PROVE StateInv'
    BY <1>17 DEF IsDropped, Unlisted, GoneAt, FutAt
  <1>18. ASSUME NEW f \in Futures, NEW k \in Tasks \cup {NONE}, Polls(f, k) PROVE StateInv'
    BY <1>18 DEF Polls, Unlisted, FutAt
  <1>19. ASSUME NEW t \in Threads, WaitersLock(t), UNCHANGED <<fut, woken, op, tokens>> PROVE StateInv'
    BY <1>19 DEF WaitersLock, Goto
  <1>20. ASSUME NEW t \in Threads, WaitersDrain(t), UNCHANGED <<fut, woken, op, tokens>> PROVE StateInv'
    BY <1>20 DEF WaitersDrain, Goto
  <1>21. ASSUME NEW t \in Threads, WakeMore(t), UNCHANGED <<fut, woken, op, tokens>> PROVE StateInv'
    BY <1>21 DEF WakeMore, Goto
  <1>22. ASSUME NEW t \in Threads, DrainEnd(t), UNCHANGED <<fut, woken, op, tokens>> PROVE StateInv'
    BY <1>22 DEF DrainEnd, Goto, LeftWakers
  <1>23. ASSUME NEW t \in Threads, NEW f \in Futures, GivesAll(t, f) PROVE StateInv'
    BY <1>23 DEF GivesAll, TakeAt, OutOfList
  <1>24. CASE UNCHANGED vars
    BY <1>24 DEF vars, shared
  <1> HIDE DEF StateInv, STATE_NOTIFIED, STATE_UNNOTIFIED
  <1> QED
    BY <1>1, <1>2, <1>3, <1>4, <1>5, <1>6, <1>7, <1>8, <1>9, <1>10, <1>11, <1>12, <1>13, <1>14,
       <1>15, <1>16, <1>17, <1>18, <1>19, <1>20, <1>21, <1>22, <1>23, <1>24, StepCases
    DEF ActorSteps, FutureSteps, WaitersSteps, IInv

(* Only call counts. *)
LEMMA CallsStep == Types /\ [Next]_vars => calls' \in [Threads -> 0..MaxCalls]
  <1> SUFFICES ASSUME Types, [Next]_vars PROVE calls' \in [Threads -> 0..MaxCalls]
    OBVIOUS
  <1>1. ASSUME NEW t \in Threads, Call(t) PROVE calls' \in [Threads -> 0..MaxCalls]
    BY <1>1, CallEffect DEF CallAt
  <1>2. UNCHANGED calls => calls' \in [Threads -> 0..MaxCalls]
    BY DEF Types
  <1> QED
    BY <1>1, <1>2 DEF Next, NotifyStep, FutureStep, PollStep, WaitersStep, vars

(* The variables keep their types. *)
LEMMA TypeStep == IInv /\ [Next]_vars => Types'
  <1> SUFFICES ASSUME IInv, [Next]_vars PROVE Types'
    OBVIOUS
  <1> USE DEF Types, Actors, Points, NodeRecord, FutRecord, Nodes, Futs, STATE_NOTIFIED,
     STATE_UNNOTIFIED
  <1> USE DEF IInv
  <1>c. calls' \in [Threads -> 0..MaxCalls]
    BY CallsStep
  <1>1. ASSUME NEW a \in Actors, ThreadReturns(a) PROVE Types'
    BY <1>1, <1>c DEF ThreadReturns, Returns, OwesNothing, Stores, Source, PcAt
  <1>2. ASSUME NEW a \in Actors, HandsOut(a) PROVE Types'
    <2>1. op' \in [Actors -> {"One", "Last", NONE}]
      BY <1>2 DEF HandsOut
    <2> QED
      BY <1>2, <1>c, <2>1 DEF HandsOut, PcAt
  <1>3. ASSUME NEW a \in Actors, MovesOn(a) PROVE Types'
    BY <1>3, <1>c DEF MovesOn, Unlisted, PcAt
  <1>4. ASSUME NEW a \in Actors, WakeAt(a) PROVE Types'
    BY <1>4, <1>c DEF WakeAt
  <1>5. ASSUME NEW a \in Actors, NEW f \in Futures, GivesOne(a, f) PROVE Types'
    BY <1>5, <1>c DEF GivesOne, TakeAt, OutOfList, PcAt, NodeAt
  <1>6. ASSUME NEW f \in Futures, FutureReturns(f) PROVE Types'
    BY <1>6, <1>c DEF FutureReturns, Returns, OwesNothing, Stores, Source, ReadyAt, PcAt, FutAt
  <1>7. ASSUME NEW f \in Futures, FutureDies(f) PROVE Types'
    BY <1>7, <1>c DEF FutureDies, Returns, OwesNothing, Stores, Source, GoneAt, PcAt, FutAt, NodeAt
  <1>8. ASSUME NEW f \in Futures, UsesUp(f) PROVE Types'
    BY <1>8, <1>c DEF UsesUp, Unlisted, ReadyAt, PcAt, FutAt
  <1>9. ASSUME NEW f \in Futures, FindsStale(f) PROVE Types'
    BY <1>9, <1>c DEF FindsStale, Unlisted, ReadyAt, PcAt, FutAt
  <1>10. ASSUME NEW f \in Futures, FindsStored(f) PROVE Types'
    BY <1>10, <1>c DEF FindsStored, Unlisted, ReadyAt, PcAt, FutAt
  <1>11. ASSUME NEW f \in Futures, StoresWaker(f) PROVE Types'
    BY <1>11, <1>c DEF StoresWaker, Unlisted, PcAt, FutAt, NodeAt
  <1>12. ASSUME NEW f \in Futures, Enqueues(f) PROVE Types'
    <2>1. queue' \in Seq(Futures)
      BY <1>12, AppendList DEF Enqueues
    <2> QED
      BY <1>12, <1>c, <2>1 DEF Enqueues, PcAt, FutAt, NodeAt
  <1>13. ASSUME NEW f \in Futures, Repeats(f) PROVE Types'
    BY <1>13, <1>c DEF Repeats, Unlisted, PcAt, FutAt
  <1>14. ASSUME NEW f \in Futures, Waits(f) PROVE Types'
    BY <1>14, <1>c DEF Waits, Unlisted, PendAt, PcAt, FutAt, NodeAt
  <1>15. ASSUME NEW f \in Futures, Unqueues(f) PROVE Types'
    BY <1>15, <1>c DEF Unqueues, OutOfList, ReadyAt, GoneAt, PcAt, FutAt, NodeAt
  <1>16. ASSUME NEW f \in Futures, IsMade(f) PROVE Types'
    BY <1>16, <1>c DEF IsMade, Unlisted, PcAt, FutAt
  <1>17. ASSUME NEW f \in Futures, IsDropped(f) PROVE Types'
    BY <1>17, <1>c DEF IsDropped, Unlisted, GoneAt, PcAt, FutAt, NodeAt
  <1>18. ASSUME NEW f \in Futures, NEW k \in Tasks \cup {NONE}, Polls(f, k) PROVE Types'
    BY <1>18, <1>c DEF Polls, Unlisted, PcAt, FutAt
  <1>19. ASSUME NEW t \in Threads, WaitersLock(t), UNCHANGED <<fut, woken, op, tokens>> PROVE Types'
    <2>1. generation' = generation + 1 /\ UNCHANGED fut
      BY <1>19 DEF WaitersLock
    <2>2. generation' \in Nat /\ 0..generation \subseteq 0..generation'
      BY <2>1
    <2>3. fut' \in [Futures -> [created : 0..generation', completed : BOOLEAN, cx : Tasks \cup {NONE},
                               enabling : BOOLEAN, seen : 0..2]]
      BY <2>1, <2>2
    <2> QED
      BY <1>19, <1>c, <2>2, <2>3 DEF WaitersLock, Goto
  <1>20. ASSUME NEW t \in Threads, WaitersDrain(t), UNCHANGED <<fut, woken, op, tokens>> PROVE Types'
    <2>1. queue' \in Seq(Futures) /\ drained' \in [Threads -> Seq(Futures)]
      BY <1>20 DEF WaitersDrain
    <2>2. state' \in {STATE_UNNOTIFIED, STATE_NOTIFIED}
      BY <1>20 DEF WaitersDrain
    <2>3. pc' = [pc EXCEPT ![t] = "drain"] /\ UNCHANGED <<mutex, generation, node, wakers, fut, woken, op>>
      BY <1>20 DEF WaitersDrain, Goto
    <2> QED
      BY <1>c, <2>1, <2>2, <2>3
  <1>21. ASSUME NEW t \in Threads, WakeMore(t), UNCHANGED <<fut, woken, op, tokens>> PROVE Types'
    BY <1>21, <1>c DEF WakeMore, Goto
  <1>22. ASSUME NEW t \in Threads, DrainEnd(t), UNCHANGED <<fut, woken, op, tokens>> PROVE Types'
    BY <1>22, <1>c DEF DrainEnd, Goto, LeftWakers
  <1>23. ASSUME NEW t \in Threads, NEW f \in Futures, GivesAll(t, f) PROVE Types'
    BY <1>23, <1>c DEF GivesAll, TakeAt, OutOfList, PcAt, NodeAt
  <1>24. CASE UNCHANGED vars
    BY <1>24, <1>c DEF vars, shared
  <1> HIDE DEF Types, Actors, Points, NodeRecord, FutRecord, Nodes, Futs, STATE_NOTIFIED, STATE_UNNOTIFIED
  <1> QED
    BY <1>1, <1>2, <1>3, <1>4, <1>5, <1>6, <1>7, <1>8, <1>9, <1>10, <1>11, <1>12, <1>13, <1>14,
       <1>15, <1>16, <1>17, <1>18, <1>19, <1>20, <1>21, <1>22, <1>23, <1>24, StepCases
    DEF ActorSteps, FutureSteps, WaitersSteps, IInv

(* Only a drain holds nodes besides the queue. *)
LEMMA DrainStep == IInv /\ [Next]_vars => DrainInv'
  <1> SUFFICES ASSUME IInv, [Next]_vars PROVE DrainInv'
    OBVIOUS
  <1> USE DEF DrainInv
  <1> USE DEF IInv, Types, Actors
  <1>1. ASSUME NEW a \in Actors, ThreadReturns(a) PROVE DrainInv'
    BY <1>1 DEF ThreadReturns, Returns, OwesNothing, Stores, Source, PcAt
  <1>2. ASSUME NEW a \in Actors, HandsOut(a) PROVE DrainInv'
    BY <1>2 DEF HandsOut, Source, PcAt
  <1>3. ASSUME NEW a \in Actors, MovesOn(a) PROVE DrainInv'
    BY <1>3 DEF MovesOn, Unlisted, PcAt
  <1>4. ASSUME NEW a \in Actors, WakeAt(a) PROVE DrainInv'
    BY <1>4 DEF WakeAt
  <1>5. ASSUME NEW a \in Actors, NEW f \in Futures, GivesOne(a, f) PROVE DrainInv'
    BY <1>5 DEF GivesOne, TakeAt, OutOfList, PcAt
  <1>6. ASSUME NEW f \in Futures, FutureReturns(f) PROVE DrainInv'
    BY <1>6 DEF FutureReturns, Returns, OwesNothing, Stores, Source, ReadyAt, PcAt
  <1>7. ASSUME NEW f \in Futures, FutureDies(f) PROVE DrainInv'
    BY <1>7 DEF FutureDies, Returns, OwesNothing, Stores, Source, GoneAt, PcAt
  <1>8. ASSUME NEW f \in Futures, UsesUp(f) PROVE DrainInv'
    BY <1>8 DEF UsesUp, Unlisted, ReadyAt, PcAt
  <1>9. ASSUME NEW f \in Futures, FindsStale(f) PROVE DrainInv'
    BY <1>9 DEF FindsStale, Unlisted, ReadyAt, PcAt
  <1>10. ASSUME NEW f \in Futures, FindsStored(f) PROVE DrainInv'
    BY <1>10 DEF FindsStored, Unlisted, ReadyAt, PcAt
  <1>11. ASSUME NEW f \in Futures, StoresWaker(f) PROVE DrainInv'
    BY <1>11 DEF StoresWaker, Unlisted, PcAt
  <1>12. ASSUME NEW f \in Futures, Enqueues(f) PROVE DrainInv'
    BY <1>12 DEF Enqueues, PcAt
  <1>13. ASSUME NEW f \in Futures, Repeats(f) PROVE DrainInv'
    BY <1>13 DEF Repeats, Unlisted, PcAt
  <1>14. ASSUME NEW f \in Futures, Waits(f) PROVE DrainInv'
    BY <1>14 DEF Waits, Unlisted, PendAt, PcAt
  <1>15. ASSUME NEW f \in Futures, Unqueues(f) PROVE DrainInv'
    BY <1>15 DEF Unqueues, OutOfList, ReadyAt, GoneAt, PcAt
  <1>16. ASSUME NEW f \in Futures, IsMade(f) PROVE DrainInv'
    BY <1>16 DEF IsMade, Unlisted, PcAt
  <1>17. ASSUME NEW f \in Futures, IsDropped(f) PROVE DrainInv'
    BY <1>17 DEF IsDropped, Unlisted, GoneAt, PcAt
  <1>18. ASSUME NEW f \in Futures, NEW k \in Tasks \cup {NONE}, Polls(f, k) PROVE DrainInv'
    BY <1>18 DEF Polls, Unlisted, PcAt
  <1>19. ASSUME NEW t \in Threads, WaitersLock(t), UNCHANGED <<fut, woken, op, tokens>> PROVE DrainInv'
    BY <1>19 DEF WaitersLock, Goto
  <1>20. ASSUME NEW t \in Threads, WaitersDrain(t), UNCHANGED <<fut, woken, op, tokens>> PROVE DrainInv'
    BY <1>20 DEF WaitersDrain, Goto
  <1>21. ASSUME NEW t \in Threads, WakeMore(t), UNCHANGED <<fut, woken, op, tokens>> PROVE DrainInv'
    BY <1>21 DEF WakeMore, Goto
  <1>22. ASSUME NEW t \in Threads, DrainEnd(t), UNCHANGED <<fut, woken, op, tokens>> PROVE DrainInv'
    BY <1>22 DEF DrainEnd, Goto, LeftWakers
  <1>23. ASSUME NEW t \in Threads, NEW f \in Futures, GivesAll(t, f) PROVE DrainInv'
    BY <1>23 DEF GivesAll, TakeAt, OutOfList, PcAt
  <1>24. CASE UNCHANGED vars
    BY <1>24 DEF vars, shared
  <1> HIDE DEF DrainInv
  <1> QED
    BY <1>1, <1>2, <1>3, <1>4, <1>5, <1>6, <1>7, <1>8, <1>9, <1>10, <1>11, <1>12, <1>13, <1>14,
       <1>15, <1>16, <1>17, <1>18, <1>19, <1>20, <1>21, <1>22, <1>23, <1>24, StepCases
    DEF ActorSteps, FutureSteps, WaitersSteps, IInv

(* The generation is looked at after the insertion, so a future that     *)
(* starts to wait is either seen by the drain or sees the new generation.  *)
LEMMA StaleStep == IInv /\ [Next]_vars => NoStaleWaiter'
  <1> SUFFICES ASSUME IInv, [Next]_vars PROVE NoStaleWaiter'
    OBVIOUS
  <1> USE DEF NoStaleWaiter, Stale
  <1>a. \A g \in Futures : Status(g) # "Queued" => ~InSeq(g, queue)
    BY DEF IInv, ListInv
  <1>b. \A g \in Futures :
          /\ pc[g] \in UnqueuedPC => Status(g) = "Unqueued"
          /\ pc[g] \in DequeuedPC => Status(g) = "Dequeued"
    BY DEF IInv, NodeInv
  <1>c. /\ \A t \in Threads : pc[t] \in {"count", "drain"} => mutex = t
        /\ pc \in [Actors -> Points] /\ Threads \subseteq Actors /\ Futures \subseteq Actors
        /\ Futures \cap Threads = {}
    BY DEF IInv, LockInv, Types, Points, Actors
  <1> USE DEF IInv, UnqueuedPC, DequeuedPC
  <1>1. ASSUME NEW a \in Actors, ThreadReturns(a) PROVE NoStaleWaiter'
    BY <1>1, <1>a, <1>b, <1>c DEF ThreadReturns, Returns, OwesNothing, Stores, Source, PcAt
  <1>2. ASSUME NEW a \in Actors, HandsOut(a) PROVE NoStaleWaiter'
    BY <1>2, <1>a, <1>b, <1>c DEF HandsOut, Source, PcAt
  <1>3. ASSUME NEW a \in Actors, MovesOn(a) PROVE NoStaleWaiter'
    BY <1>3, <1>a, <1>b, <1>c DEF MovesOn, Unlisted, PcAt
  <1>4. ASSUME NEW a \in Actors, WakeAt(a) PROVE NoStaleWaiter'
    BY <1>4, <1>a, <1>b, <1>c DEF WakeAt
  <1>5. ASSUME NEW a \in Actors, NEW f \in Futures, GivesOne(a, f) PROVE NoStaleWaiter'
    BY <1>5, <1>a, <1>b, <1>c DEF GivesOne, TakeAt, OutOfList, PcAt, NodeAt
  <1>6. ASSUME NEW f \in Futures, FutureReturns(f) PROVE NoStaleWaiter'
    BY <1>6, <1>a, <1>b, <1>c
    DEF FutureReturns, Returns, OwesNothing, Stores, Source, ReadyAt, PcAt, FutAt
  <1>7. ASSUME NEW f \in Futures, FutureDies(f) PROVE NoStaleWaiter'
    BY <1>7, <1>a, <1>b, <1>c
    DEF FutureDies, Returns, OwesNothing, Stores, Source, GoneAt, PcAt, FutAt, NodeAt
  <1>8. ASSUME NEW f \in Futures, UsesUp(f) PROVE NoStaleWaiter'
    BY <1>8, <1>a, <1>b, <1>c DEF UsesUp, Unlisted, ReadyAt, PcAt, FutAt
  <1>9. ASSUME NEW f \in Futures, FindsStale(f) PROVE NoStaleWaiter'
    BY <1>9, <1>a, <1>b, <1>c DEF FindsStale, Unlisted, ReadyAt, PcAt, FutAt
  <1>10. ASSUME NEW f \in Futures, FindsStored(f) PROVE NoStaleWaiter'
    BY <1>10, <1>a, <1>b, <1>c DEF FindsStored, Unlisted, ReadyAt, PcAt, FutAt
  <1>11. ASSUME NEW f \in Futures, StoresWaker(f) PROVE NoStaleWaiter'
    BY <1>11, <1>a, <1>b, <1>c DEF StoresWaker, Unlisted, PcAt, FutAt, NodeAt
  <1>12. ASSUME NEW f \in Futures, Enqueues(f) PROVE NoStaleWaiter'
    <2>1. \A g \in Futures : g # f => (InSeq(g, queue') <=> InSeq(g, queue))
      BY <1>12, AppendList DEF Enqueues, Types
    <2>2. pc'[f] = "recheck" /\ \A b \in Actors : b # f => pc'[b] = pc[b]
      BY <1>12 DEF Enqueues, PcAt
    <2>3. UNCHANGED generation /\ \A g \in Futures : g # f => fut'[g] = fut[g]
      BY <1>12 DEF Enqueues, FutAt
    <2> QED
      BY <1>c, <2>1, <2>2, <2>3
  <1>13. ASSUME NEW f \in Futures, Repeats(f) PROVE NoStaleWaiter'
    BY <1>13, <1>a, <1>b, <1>c DEF Repeats, Unlisted, PcAt, FutAt
  <1>14. ASSUME NEW f \in Futures, Waits(f) PROVE NoStaleWaiter'
    BY <1>14, <1>a, <1>b, <1>c DEF Waits, Unlisted, PendAt, PcAt, FutAt, NodeAt
  <1>15. ASSUME NEW f \in Futures, Unqueues(f) PROVE NoStaleWaiter'
    BY <1>15, <1>a, <1>b, <1>c DEF Unqueues, OutOfList, ReadyAt, GoneAt, PcAt, FutAt, NodeAt
  <1>16. ASSUME NEW f \in Futures, IsMade(f) PROVE NoStaleWaiter'
    BY <1>16, <1>a, <1>b, <1>c DEF IsMade, Unlisted, PcAt, FutAt
  <1>17. ASSUME NEW f \in Futures, IsDropped(f) PROVE NoStaleWaiter'
    BY <1>17, <1>a, <1>b, <1>c DEF IsDropped, Unlisted, GoneAt, PcAt, FutAt, NodeAt
  <1>18. ASSUME NEW f \in Futures, NEW k \in Tasks \cup {NONE}, Polls(f, k) PROVE NoStaleWaiter'
    BY <1>18, <1>a, <1>b, <1>c DEF Polls, Unlisted, PcAt, FutAt
  <1>19. ASSUME NEW t \in Threads, WaitersLock(t), UNCHANGED <<fut, woken, op, tokens>> PROVE NoStaleWaiter'
    BY <1>19, <1>a, <1>b, <1>c DEF WaitersLock, Goto
  <1>20. ASSUME NEW t \in Threads, WaitersDrain(t), UNCHANGED <<fut, woken, op, tokens>> PROVE NoStaleWaiter'
    <2>1. \A g \in Futures : ~InSeq(g, queue')
      BY <1>20 DEF WaitersDrain, InSeq
    <2> QED
      BY <2>1
  <1>21. ASSUME NEW t \in Threads, WakeMore(t), UNCHANGED <<fut, woken, op, tokens>> PROVE NoStaleWaiter'
    BY <1>21, <1>a, <1>b, <1>c DEF WakeMore, Goto
  <1>22. ASSUME NEW t \in Threads, DrainEnd(t), UNCHANGED <<fut, woken, op, tokens>> PROVE NoStaleWaiter'
    BY <1>22, <1>a, <1>b, <1>c DEF DrainEnd, Goto, LeftWakers
  <1>23. ASSUME NEW t \in Threads, NEW f \in Futures, GivesAll(t, f) PROVE NoStaleWaiter'
    BY <1>23, <1>a, <1>b, <1>c, ZenonT(40) DEF GivesAll, TakeAt, OutOfList, PcAt, NodeAt
  <1>24. CASE UNCHANGED vars
    BY <1>24, <1>a, <1>b, <1>c DEF vars, shared
  <1> HIDE DEF NoStaleWaiter, Stale
  <1> QED
    BY <1>1, <1>2, <1>3, <1>4, <1>5, <1>6, <1>7, <1>8, <1>9, <1>10, <1>11, <1>12, <1>13, <1>14,
       <1>15, <1>16, <1>17, <1>18, <1>19, <1>20, <1>21, <1>22, <1>23, <1>24, StepCases
    DEF ActorSteps, FutureSteps, WaitersSteps, IInv

(* A node that leaves its list and is not Queued any more leaves the       *)
(* others where they are.                                                  *)
LEMMA ListOut ==
    ASSUME Types, ListInv, NEW f \in Futures, OutOfList(f), node'[f].status # "Queued",
           \A g \in Futures : g # f => node'[g] = node[g]
    PROVE  ListInv'
  <1>1. Distinct(queue') /\ \A t \in Threads : Distinct(drained'[t])
    BY DEF OutOfList
  <1>2. /\ \A g : InSeq(g, queue') <=> InSeq(g, queue) /\ g # f
        /\ \A t \in Threads : \A g : InSeq(g, drained'[t]) <=> InSeq(g, drained[t]) /\ g # f
    BY DEF OutOfList
  <1>3. \A g \in Futures, t \in Threads : InSeq(g, queue') => ~InSeq(g, drained'[t])
    BY <1>2 DEF ListInv
  <1>4. \A g \in Futures, t, u \in Threads : InSeq(g, drained'[t]) /\ InSeq(g, drained'[u]) => t = u
    BY <1>2 DEF ListInv
  <1>5. \A g \in Futures :
            node'[g].status = "Queued" <=> InSeq(g, queue') \/ \E t \in Threads : InSeq(g, drained'[t])
    BY <1>2 DEF ListInv, Status
  <1> QED
    BY <1>1, <1>3, <1>4, <1>5 DEF ListInv, Status

(* A node is Queued exactly if it is in a list, and only once. *)
LEMMA ListStep == IInv /\ [Next]_vars => ListInv'
  <1> SUFFICES ASSUME IInv, [Next]_vars PROVE ListInv'
    OBVIOUS
  <1> USE DEF ListInv, Status
  <1> USE DEF IInv, Types, NodeInv, UnqueuedPC, DequeuedPC
  <1>1. ASSUME NEW a \in Actors, ThreadReturns(a) PROVE ListInv'
    BY <1>1 DEF ThreadReturns, Returns, OwesNothing, Stores, Source
  <1>2. ASSUME NEW a \in Actors, HandsOut(a) PROVE ListInv'
    BY <1>2 DEF HandsOut, Source
  <1>3. ASSUME NEW a \in Actors, MovesOn(a) PROVE ListInv'
    BY <1>3 DEF MovesOn, Unlisted
  <1>4. ASSUME NEW a \in Actors, WakeAt(a) PROVE ListInv'
    BY <1>4 DEF WakeAt
  <1>5. ASSUME NEW a \in Actors, NEW f \in Futures, GivesOne(a, f) PROVE ListInv'
    <2>1. OutOfList(f) /\ node'[f].status # "Queued" /\ \A g \in Futures : g # f => node'[g] = node[g]
      BY <1>5 DEF GivesOne, TakeAt, NodeAt
    <2> HIDE DEF ListInv, Types
    <2> QED
      BY <2>1, ListOut
  <1>6. ASSUME NEW f \in Futures, FutureReturns(f) PROVE ListInv'
    BY <1>6 DEF FutureReturns, Returns, OwesNothing, Stores, Source, ReadyAt
  <1>7. ASSUME NEW f \in Futures, FutureDies(f) PROVE ListInv'
    BY <1>7 DEF FutureDies, Returns, OwesNothing, Stores, Source, GoneAt, NodeAt
  <1>8. ASSUME NEW f \in Futures, UsesUp(f) PROVE ListInv'
    BY <1>8 DEF UsesUp, Unlisted, ReadyAt
  <1>9. ASSUME NEW f \in Futures, FindsStale(f) PROVE ListInv'
    BY <1>9 DEF FindsStale, Unlisted, ReadyAt
  <1>10. ASSUME NEW f \in Futures, FindsStored(f) PROVE ListInv'
    BY <1>10 DEF FindsStored, Unlisted, ReadyAt
  <1>11. ASSUME NEW f \in Futures, StoresWaker(f) PROVE ListInv'
    BY <1>11, ZenonT(40) DEF StoresWaker, Unlisted, NodeAt
  <1>12. ASSUME NEW f \in Futures, Enqueues(f) PROVE ListInv'
    <2>1. ~InSeq(f, queue) /\ \A t \in Threads : ~InSeq(f, drained[t])
      BY <1>12 DEF Enqueues
    <2>2. /\ Distinct(queue') /\ \A g : InSeq(g, queue') <=> InSeq(g, queue) \/ g = f
      BY <1>12, <2>1, AppendList DEF Enqueues
    <2>3. UNCHANGED drained /\ node'[f].status = "Queued" /\ \A g \in Futures : g # f => node'[g] = node[g]
      BY <1>12 DEF Enqueues, NodeAt
    <2> QED
      BY <2>1, <2>2, <2>3, ZenonT(40)
  <1>13. ASSUME NEW f \in Futures, Repeats(f) PROVE ListInv'
    BY <1>13 DEF Repeats, Unlisted
  <1>14. ASSUME NEW f \in Futures, Waits(f) PROVE ListInv'
    BY <1>14 DEF Waits, Unlisted, PendAt, NodeAt
  <1>15. ASSUME NEW f \in Futures, Unqueues(f) PROVE ListInv'
    <2>1. OutOfList(f) /\ node'[f].status # "Queued" /\ \A g \in Futures : g # f => node'[g] = node[g]
      BY <1>15 DEF Unqueues, NodeAt, GoneAt
    <2> HIDE DEF ListInv, Types
    <2> QED
      BY <2>1, ListOut
  <1>16. ASSUME NEW f \in Futures, IsMade(f) PROVE ListInv'
    BY <1>16 DEF IsMade, Unlisted
  <1>17. ASSUME NEW f \in Futures, IsDropped(f) PROVE ListInv'
    BY <1>17, ZenonT(40) DEF IsDropped, Unlisted, GoneAt, NodeAt
  <1>18. ASSUME NEW f \in Futures, NEW k \in Tasks \cup {NONE}, Polls(f, k) PROVE ListInv'
    BY <1>18 DEF Polls, Unlisted
  <1>19. ASSUME NEW t \in Threads, WaitersLock(t), UNCHANGED <<fut, woken, op, tokens>> PROVE ListInv'
    BY <1>19 DEF WaitersLock, Goto
  <1>20. ASSUME NEW t \in Threads, WaitersDrain(t), UNCHANGED <<fut, woken, op, tokens>> PROVE ListInv'
    <2>1. drained[t] = <<>>
      BY <1>20 DEF WaitersDrain, DrainInv
    <2>2. \A g : ~InSeq(g, drained[t]) /\ ~InSeq(g, queue')
      BY <1>20, <2>1 DEF WaitersDrain, InSeq
    <2>3. drained'[t] = queue /\ \A u \in Threads : u # t => drained'[u] = drained[u]
      BY <1>20 DEF WaitersDrain
    <2>4. UNCHANGED node /\ Distinct(queue')
      BY <1>20 DEF WaitersDrain, Distinct
    <2>5. \A u \in Threads : Distinct(drained'[u])
      BY <2>3
    <2>6. \A g \in Futures, u \in Threads : InSeq(g, drained'[u]) <=>
              IF u = t THEN InSeq(g, queue) ELSE InSeq(g, drained[u])
      BY <2>3
    <2>7. \A g \in Futures, u, v \in Threads : InSeq(g, drained'[u]) /\ InSeq(g, drained'[v]) => u = v
      BY <2>6
    <2>8. \A g \in Futures : Status(g) = "Queued" <=> \E u \in Threads : InSeq(g, drained'[u])
      BY <2>2, <2>6
    <2> QED
      BY <2>2, <2>4, <2>5, <2>7, <2>8
  <1>21. ASSUME NEW t \in Threads, WakeMore(t), UNCHANGED <<fut, woken, op, tokens>> PROVE ListInv'
    BY <1>21 DEF WakeMore, Goto
  <1>22. ASSUME NEW t \in Threads, DrainEnd(t), UNCHANGED <<fut, woken, op, tokens>> PROVE ListInv'
    BY <1>22 DEF DrainEnd, Goto, LeftWakers
  <1>23. ASSUME NEW t \in Threads, NEW f \in Futures, GivesAll(t, f) PROVE ListInv'
    <2>1. OutOfList(f) /\ node'[f].status # "Queued" /\ \A g \in Futures : g # f => node'[g] = node[g]
      BY <1>23 DEF GivesAll, TakeAt, NodeAt
    <2> HIDE DEF ListInv, Types
    <2> QED
      BY <2>1, ListOut
  <1>24. CASE UNCHANGED vars
    BY <1>24 DEF vars, shared
  <1> HIDE DEF ListInv, Status
  <1> QED
    BY <1>1, <1>2, <1>3, <1>4, <1>5, <1>6, <1>7, <1>8, <1>9, <1>10, <1>11, <1>12, <1>13, <1>14,
       <1>15, <1>16, <1>17, <1>18, <1>19, <1>20, <1>21, <1>22, <1>23, <1>24, StepCases
    DEF ActorSteps, FutureSteps, WaitersSteps, IInv

(* In the beginning nobody waits and no future has been created. *)
LEMMA InitInv == Init => IInv
  <1> SUFFICES ASSUME Init PROVE IInv
    OBVIOUS
  <1>1. Types
    <2>1. <<>> \in Seq(Futures) /\ <<>> \in Seq(Futures \X Tasks) /\ 0 \in 0..MaxCalls
      BY EmptySeq
    <2>2. drained \in [Threads -> Seq(Futures)] /\ wakers \in [Actors -> Seq(Futures \X Tasks)]
      BY <2>1 DEF Init
    <2>3. generation = 0 /\ 0 \in 0..generation
      BY DEF Init
    <2>4. NewFuture(0) \in FutRecord /\ NewNode \in NodeRecord
      BY <2>3 DEF NewFuture, NewNode, FutRecord, NodeRecord
    <2>5. fut \in [Futures -> FutRecord] /\ node \in [Futures -> NodeRecord]
      BY <2>4 DEF Init
    <2>6. pc \in [Actors -> Points]
      BY DEF Init, Points
    <2> QED
      BY <2>1, <2>2, <2>3, <2>5, <2>6
      DEF Init, Types, FutRecord, NodeRecord, Points, STATE_UNNOTIFIED
  <1>2. PcInv /\ LockInv
    BY DEF Init, PcInv, LockInv, ThreadPC, FuturePC, UnqueuedPC, Actors
  <1>3. \A f \in Futures :
            /\ node[f].status = "Unqueued" /\ node[f].notification = NONE
            /\ fut[f].seen = 2 /\ pc[f] = "new"
    BY DEF Init, NewNode, NewFuture, Actors
  <1>4. ListInv /\ DrainInv /\ NoStaleWaiter
    <2>1. queue = <<>> /\ \A t \in Threads : drained[t] = <<>>
      BY DEF Init
    <2>2. \A g : ~InSeq(g, <<>>)
      BY DEF InSeq
    <2>3. Distinct(<<>>)
      BY DEF Distinct
    <2> QED
      BY <1>3, <2>1, <2>2, <2>3 DEF ListInv, DrainInv, NoStaleWaiter, Status
  <1>5. StateInv /\ NodeInv
    <2>1. queue = <<>>
      BY DEF Init
    <2> QED
      BY <1>3, <2>1 DEF StateInv, NodeInv, UnqueuedPC, DequeuedPC, Status, STATE_NOTIFIED
  <1> QED
    BY <1>1, <1>2, <1>4, <1>5 DEF IInv

(* The invariant of Notify: where each actor stands, who may hold the      *)
(* lock, where each node is, what the stored state implies, and what the   *)
(* place of a future tells about its node.                                 *)
THEOREM Invariant == Spec => []IInv
  <1>1. IInv /\ [Next]_vars => IInv'
    BY PcStep, LockStep, NodeStep, StateStep, TypeStep, DrainStep, StaleStep, ListStep DEF IInv
  <1> QED
    BY <1>1, InitInv, PTL DEF Spec

(* notify_waiters leaves nobody behind: a future that was created before   *)
(* it and has returned Pending is not in the queue after the drain, though *)
(* the node may be inserted while generation is being counted.             *)
THEOREM NobodyIsLeftBehind == Spec => []NoStaleWaiter
  <1>1. IInv => NoStaleWaiter
    BY DEF IInv
  <1> QED
    BY <1>1, Invariant, PTL

(* The unwrap in cancel never meets a node without a notification, even if *)
(* poll and enable are called after the future is ready.                   *)
THEOREM CancelUnwraps == Spec => []CancelUnwrapIsSafe
  <1>1. IInv => CancelUnwrapIsSafe
    BY DEF IInv, NodeInv, CancelUnwrapIsSafe
  <1> QED
    BY <1>1, Invariant, PTL

-----------------------------------------------------------------------------
(* From here on nobody polls or enables a future that the stored           *)
(* notification made ready.                                                *)

(* A future that is ready is not queued again. *)
LEMMA OnceStep == IInv /\ ~CallAfterReady /\ OnceInv /\ [Next]_vars => OnceInv'
  <1> SUFFICES ASSUME IInv, ~CallAfterReady, OnceInv, [Next]_vars PROVE OnceInv'
    OBVIOUS
  <1> USE DEF OnceInv, Status, Stale
  <1>p. /\ generation \in Nat /\ \A g \in Futures : fut[g].created \in Nat /\ fut[g].created <= generation
        /\ pc \in [Actors -> Points] /\ Futures \subseteq Actors /\ Threads \subseteq Actors
    BY DEF IInv, Types, Points, Actors
  <1>a. /\ \A g \in Futures :
            /\ pc[g] \in UnqueuedPC => Status(g) = "Unqueued"
            /\ pc[g] \in DequeuedPC => Status(g) = "Dequeued"
            /\ pc[g] \in {"recheck", "lock", "cancel"} => Status(g) # "Unqueued"
        /\ \A t \in Threads : t \notin Futures
    BY DEF IInv, NodeInv
  <1> USE DEF UnqueuedPC, DequeuedPC, Actors
  <1>r. ASSUME NEW f \in Futures, ReadyAt(f), generation' = generation, Status(f)' # "Queued",
               \A g \in Futures : g # f => node'[g] = node[g]
        PROVE  OnceInv'
    <2>1. pc'[f] = "idle" /\ ~fut'[f].enabling
      BY <1>r DEF ReadyAt, PcAt, FutAt
    <2>2. \A g \in Futures : g # f =>
            /\ fut'[g] = fut[g] /\ pc'[g] = pc[g]
            /\ Stale(g)' <=> Stale(g)
            /\ Status(g)' = Status(g)
      BY <1>r, <1>p DEF ReadyAt, PcAt, FutAt
    <2> QED
      BY <1>r, <2>1, <2>2
  <1>1. ASSUME NEW a \in Actors, ThreadReturns(a) PROVE OnceInv'
    BY <1>1, <1>a, <1>p DEF ThreadReturns, Returns, OwesNothing, Stores, Source, PcAt
  <1>2. ASSUME NEW a \in Actors, HandsOut(a) PROVE OnceInv'
    BY <1>2, <1>a, <1>p DEF HandsOut, Source, PcAt
  <1>3. ASSUME NEW a \in Actors, MovesOn(a) PROVE OnceInv'
    BY <1>3, <1>a, <1>p DEF MovesOn, Unlisted, PcAt
  <1>4. ASSUME NEW a \in Actors, WakeAt(a) PROVE OnceInv'
    BY <1>4, <1>a, <1>p DEF WakeAt
  <1>5. ASSUME NEW a \in Actors, NEW f \in Futures, GivesOne(a, f) PROVE OnceInv'
    <2>1. fut' = fut /\ generation' = generation /\ pc[a] = "single" /\ pc'[a] = "wake"
      BY <1>5 DEF GivesOne, PcAt
    <2>2. \A g \in Futures : /\ Status(g)' # "Queued" \/ Status(g)' = Status(g)
                             /\ g # a => pc'[g] = pc[g]
      BY <1>5, <1>p DEF GivesOne, TakeAt, PcAt, NodeAt
    <2> QED
      BY <2>1, <2>2
  <1>6. ASSUME NEW f \in Futures, FutureReturns(f) PROVE OnceInv'
    BY <1>6, <1>a, <1>r DEF FutureReturns, Returns, OwesNothing, Stores, Source
  <1>7. ASSUME NEW f \in Futures, FutureDies(f) PROVE OnceInv'
    BY <1>7, <1>a, <1>p DEF FutureDies, Returns, OwesNothing, Stores, Source, GoneAt, PcAt, FutAt, NodeAt
  <1>8. ASSUME NEW f \in Futures, UsesUp(f) PROVE OnceInv'
    BY <1>8, <1>r DEF UsesUp, Unlisted
  <1>9. ASSUME NEW f \in Futures, FindsStale(f) PROVE OnceInv'
    BY <1>9, <1>a, <1>r DEF FindsStale, Unlisted
  <1>10. ASSUME NEW f \in Futures, FindsStored(f) PROVE OnceInv'
    BY <1>10, <1>a, <1>r DEF FindsStored, Unlisted
  <1>11. ASSUME NEW f \in Futures, StoresWaker(f) PROVE OnceInv'
    BY <1>11, <1>a, <1>p DEF StoresWaker, Unlisted, PcAt, FutAt, NodeAt
  <1>12. ASSUME NEW f \in Futures, Enqueues(f) PROVE OnceInv'
    BY <1>12, <1>a, <1>p DEF Enqueues, PcAt, FutAt, NodeAt
  <1>13. ASSUME NEW f \in Futures, Repeats(f) PROVE OnceInv'
    BY <1>13, <1>a, <1>p DEF Repeats, Unlisted, PcAt, FutAt
  <1>14. ASSUME NEW f \in Futures, Waits(f) PROVE OnceInv'
    BY <1>14, <1>a, <1>p DEF Waits, Unlisted, PendAt, PcAt, FutAt, NodeAt
  <1>15. ASSUME NEW f \in Futures, Unqueues(f) PROVE OnceInv'
    <2>1. CASE ReadyAt(f)
      BY <1>15, <2>1, <1>r DEF Unqueues, ReadyAt, GoneAt, PcAt, NodeAt
    <2>2. CASE GoneAt(f)
      BY <1>15, <2>2, <1>a, <1>p DEF Unqueues, GoneAt, PcAt, FutAt, NodeAt
    <2> QED
      BY <1>15, <2>1, <2>2 DEF Unqueues
  <1>16. ASSUME NEW f \in Futures, IsMade(f) PROVE OnceInv'
    BY <1>16, <1>a, <1>p DEF IsMade, Unlisted, PcAt, FutAt
  <1>17. ASSUME NEW f \in Futures, IsDropped(f) PROVE OnceInv'
    BY <1>17, <1>a, <1>p DEF IsDropped, Unlisted, GoneAt, PcAt, FutAt, NodeAt
  <1>18. ASSUME NEW f \in Futures, NEW k \in Tasks \cup {NONE}, Polls(f, k) PROVE OnceInv'
    BY <1>18, <1>a, <1>p DEF Settled, Polls, Unlisted, PcAt, FutAt
  <1>19. ASSUME NEW t \in Threads, WaitersLock(t), UNCHANGED <<fut, woken, op, tokens>> PROVE OnceInv'
    BY <1>19, <1>a, <1>p DEF WaitersLock, Goto
  <1>20. ASSUME NEW t \in Threads, WaitersDrain(t), UNCHANGED <<fut, woken, op, tokens>> PROVE OnceInv'
    BY <1>20, <1>a, <1>p DEF WaitersDrain, Goto
  <1>21. ASSUME NEW t \in Threads, WakeMore(t), UNCHANGED <<fut, woken, op, tokens>> PROVE OnceInv'
    BY <1>21, <1>a, <1>p DEF WakeMore, Goto
  <1>22. ASSUME NEW t \in Threads, DrainEnd(t), UNCHANGED <<fut, woken, op, tokens>> PROVE OnceInv'
    BY <1>22, <1>a, <1>p DEF DrainEnd, Goto, LeftWakers
  <1>23. ASSUME NEW t \in Threads, NEW f \in Futures, GivesAll(t, f) PROVE OnceInv'
    <2>1. fut' = fut /\ generation' = generation
      BY <1>23 DEF GivesAll
    <2>2. \A g \in Futures : /\ Status(g)' # "Queued" \/ Status(g)' = Status(g)
                             /\ pc'[g] = pc[g]
      BY <1>23, <1>a, <1>p DEF GivesAll, TakeAt, PcAt, NodeAt
    <2> QED
      BY <2>1, <2>2
  <1>24. CASE UNCHANGED vars
    BY <1>24, <1>a, <1>p DEF vars, shared
  <1> HIDE DEF OnceInv, Status, Stale
  <1> QED
    BY <1>1, <1>2, <1>3, <1>4, <1>5, <1>6, <1>7, <1>8, <1>9, <1>10, <1>11, <1>12, <1>13, <1>14,
       <1>15, <1>16, <1>17, <1>18, <1>19, <1>20, <1>21, <1>22, <1>23, <1>24, StepCases
    DEF ActorSteps, FutureSteps, WaitersSteps, IInv

(* The waker of the poll is stored before the node is inserted. *)
LEMMA WakerStep == IInv /\ ~CallAfterReady /\ OnceInv /\ WakerInv /\ [Next]_vars => WakerInv'
  <1> SUFFICES ASSUME IInv, ~CallAfterReady, OnceInv, WakerInv, [Next]_vars PROVE WakerInv'
    OBVIOUS
  <1> USE DEF OnceInv, WakerInv, Status
  <1>a. /\ \A g \in Futures :
            /\ pc[g] \in UnqueuedPC => Status(g) = "Unqueued"
            /\ pc[g] \in DequeuedPC => Status(g) = "Dequeued"
            /\ pc[g] \in {"recheck", "lock", "cancel"} => Status(g) # "Unqueued"
        /\ \A t \in Threads : t \notin Futures
    BY DEF IInv, NodeInv
  <1> USE DEF UnqueuedPC, DequeuedPC, Actors
  <1>1. ASSUME NEW a \in Actors, ThreadReturns(a) PROVE WakerInv'
    BY <1>1, <1>a DEF ThreadReturns, Returns, OwesNothing, Stores, Source, PcAt
  <1>2. ASSUME NEW a \in Actors, HandsOut(a) PROVE WakerInv'
    BY <1>2, <1>a DEF HandsOut, Source, PcAt
  <1>3. ASSUME NEW a \in Actors, MovesOn(a) PROVE WakerInv'
    BY <1>3, <1>a DEF MovesOn, Unlisted, PcAt
  <1>4. ASSUME NEW a \in Actors, WakeAt(a) PROVE WakerInv'
    BY <1>4, <1>a DEF WakeAt
  <1>5. ASSUME NEW a \in Actors, NEW f \in Futures, GivesOne(a, f) PROVE WakerInv'
    <2>1. /\ Status(f) = "Queued" /\ node'[f].status = "Dequeued" /\ node'[f].waker = NONE
          /\ UNCHANGED <<fut, woken>> /\ \A g \in Futures : g # f => node'[g] = node[g]
      BY <1>5 DEF GivesOne, TakeAt, NodeAt
    <2>2. /\ \A b \in Actors : b # a => pc'[b] = pc[b]
          /\ pc[a] = "single" /\ pc'[a] = "wake"
      BY <1>5, <1>a DEF GivesOne, PcAt
    <2>3. f # a /\ pc'[f] = pc[f] /\ pc[f] \notin UnqueuedPC \cup DequeuedPC
      BY <1>a, <2>1, <2>2
    <2> QED
      BY <2>1, <2>2, <2>3
  <1>6. ASSUME NEW f \in Futures, FutureReturns(f) PROVE WakerInv'
    BY <1>6, <1>a DEF FutureReturns, Returns, OwesNothing, Stores, Source, ReadyAt, PcAt, FutAt
  <1>7. ASSUME NEW f \in Futures, FutureDies(f) PROVE WakerInv'
    BY <1>7, <1>a DEF FutureDies, Returns, OwesNothing, Stores, Source, GoneAt, PcAt, FutAt, NodeAt
  <1>8. ASSUME NEW f \in Futures, UsesUp(f) PROVE WakerInv'
    BY <1>8, <1>a DEF UsesUp, Unlisted, ReadyAt, PcAt, FutAt
  <1>9. ASSUME NEW f \in Futures, FindsStale(f) PROVE WakerInv'
    BY <1>9, <1>a DEF FindsStale, Unlisted, ReadyAt, PcAt, FutAt
  <1>10. ASSUME NEW f \in Futures, FindsStored(f) PROVE WakerInv'
    BY <1>10, <1>a DEF FindsStored, Unlisted, ReadyAt, PcAt, FutAt
  <1>11. ASSUME NEW f \in Futures, StoresWaker(f) PROVE WakerInv'
    BY <1>11, <1>a DEF StoresWaker, Unlisted, PcAt, FutAt, NodeAt
  <1>12. ASSUME NEW f \in Futures, Enqueues(f) PROVE WakerInv'
    BY <1>12, <1>a DEF Enqueues, PcAt, FutAt, NodeAt
  <1>13. ASSUME NEW f \in Futures, Repeats(f) PROVE WakerInv'
    BY <1>13, <1>a DEF Repeats, Unlisted, PcAt, FutAt
  <1>14. ASSUME NEW f \in Futures, Waits(f) PROVE WakerInv'
    BY <1>14, <1>a DEF Waits, Unlisted, PendAt, PcAt, FutAt, NodeAt
  <1>15. ASSUME NEW f \in Futures, Unqueues(f) PROVE WakerInv'
    BY <1>15, <1>a DEF Unqueues, ReadyAt, GoneAt, PcAt, FutAt, NodeAt
  <1>16. ASSUME NEW f \in Futures, IsMade(f) PROVE WakerInv'
    BY <1>16, <1>a DEF IsMade, Unlisted, PcAt, FutAt
  <1>17. ASSUME NEW f \in Futures, IsDropped(f) PROVE WakerInv'
    BY <1>17, <1>a DEF IsDropped, Unlisted, GoneAt, PcAt, FutAt, NodeAt
  <1>18. ASSUME NEW f \in Futures, NEW k \in Tasks \cup {NONE}, Polls(f, k) PROVE WakerInv'
    BY <1>18, <1>a DEF Polls, Unlisted, PcAt, FutAt
  <1>19. ASSUME NEW t \in Threads, WaitersLock(t), UNCHANGED <<fut, woken, op, tokens>> PROVE WakerInv'
    BY <1>19, <1>a DEF WaitersLock, Goto
  <1>20. ASSUME NEW t \in Threads, WaitersDrain(t), UNCHANGED <<fut, woken, op, tokens>> PROVE WakerInv'
    BY <1>20, <1>a DEF WaitersDrain, Goto
  <1>21. ASSUME NEW t \in Threads, WakeMore(t), UNCHANGED <<fut, woken, op, tokens>> PROVE WakerInv'
    BY <1>21, <1>a DEF WakeMore, Goto
  <1>22. ASSUME NEW t \in Threads, DrainEnd(t), UNCHANGED <<fut, woken, op, tokens>> PROVE WakerInv'
    BY <1>22, <1>a DEF DrainEnd, Goto, LeftWakers
  <1>23. ASSUME NEW t \in Threads, NEW f \in Futures, GivesAll(t, f) PROVE WakerInv'
    <2>1. /\ Status(f) = "Queued" /\ node'[f].status = "Dequeued" /\ node'[f].waker = NONE
          /\ UNCHANGED <<fut, woken>> /\ \A g \in Futures : g # f => node'[g] = node[g]
      BY <1>23 DEF GivesAll, TakeAt, NodeAt
    <2>2. /\ \A b \in Actors : b # t => pc'[b] = pc[b]
          /\ t \notin Futures
      BY <1>23, <1>a DEF GivesAll, PcAt
    <2>3. f # t /\ pc'[f] = pc[f] /\ pc[f] \notin UnqueuedPC \cup DequeuedPC
      BY <1>a, <2>1, <2>2
    <2> QED
      BY <2>1, <2>2, <2>3
  <1>24. CASE UNCHANGED vars
    BY <1>24, <1>a DEF vars, shared
  <1> HIDE DEF OnceInv, WakerInv, Status
  <1> QED
    BY <1>1, <1>2, <1>3, <1>4, <1>5, <1>6, <1>7, <1>8, <1>9, <1>10, <1>11, <1>12, <1>13, <1>14,
       <1>15, <1>16, <1>17, <1>18, <1>19, <1>20, <1>21, <1>22, <1>23, <1>24, StepCases
    DEF ActorSteps, FutureSteps, WaitersSteps, IInv

(* A waker is woken, in the list of a notifier, or in a node that is Queued. *)
LEMMA WakeStep == IInv /\ ~CallAfterReady /\ OnceInv /\ WakerInv /\ WakeInv /\ [Next]_vars => WakeInv'
  <1> SUFFICES ASSUME IInv, ~CallAfterReady, OnceInv, WakerInv, WakeInv, [Next]_vars PROVE WakeInv'
    OBVIOUS
  <1> USE DEF WakerInv, WakeInv, WillWake, OnceInv, Status, UpdatedWaker
  <1>a. /\ \A g \in Futures :
            /\ pc[g] \in UnqueuedPC => Status(g) = "Unqueued"
            /\ pc[g] \in DequeuedPC => Status(g) = "Dequeued"
            /\ pc[g] \in {"recheck", "lock", "cancel"} => Status(g) # "Unqueued"
        /\ \A t \in Threads : t \notin Futures
    BY DEF IInv, NodeInv
  <1> USE DEF UnqueuedPC, DequeuedPC, Actors
  <1>1. ASSUME NEW a \in Actors, ThreadReturns(a) PROVE WakeInv'
    BY <1>1, <1>a DEF ThreadReturns, Returns, OwesNothing, Stores, Source, PcAt
  <1>2. ASSUME NEW a \in Actors, HandsOut(a) PROVE WakeInv'
    BY <1>2, <1>a DEF HandsOut, Source, PcAt
  <1>3. ASSUME NEW a \in Actors, MovesOn(a) PROVE WakeInv'
    BY <1>3, <1>a DEF MovesOn, Unlisted, PcAt
  <1>4. ASSUME NEW a \in Actors, WakeAt(a) PROVE WakeInv'
    BY <1>4, <1>a DEF WakeAt
  <1>5. ASSUME NEW a \in Actors, NEW f \in Futures, GivesOne(a, f) PROVE WakeInv'
    <2>1. /\ Status(f) = "Queued" /\ node'[f].status = "Dequeued" /\ node'[f].waker = NONE
          /\ UNCHANGED <<fut, woken>> /\ \A g \in Futures : g # f => node'[g] = node[g]
      BY <1>5 DEF GivesOne, TakeAt, NodeAt
    <2>2. /\ \A b \in Actors : b # a => pc'[b] = pc[b]
          /\ pc[a] = "single" /\ pc'[a] = "wake"
      BY <1>5, <1>a DEF GivesOne, PcAt
    <2>3. f # a /\ pc'[f] = pc[f] /\ pc[f] \notin UnqueuedPC \cup DequeuedPC
      BY <1>a, <2>1, <2>2
    <2>4. /\ \A b \in Actors : \A x : InSeq(x, wakers[b]) => InSeq(x, wakers'[b])
          /\ node[f].waker # NONE => InSeq(<<f, node[f].waker>>, wakers'[a])
      BY <1>5 DEF GivesOne, TakeAt
    <2>5. \A g \in Futures : g # f => (WillWake(g) => WillWake(g)')
      BY <2>1, <2>4
    <2>6. WillWake(f) /\ fut[f].cx # NONE => WillWake(f)'
      BY <2>1, <2>4
    <2> HIDE DEF WillWake
    <2> QED
      BY <2>1, <2>2, <2>3, <2>5, <2>6
  <1>6. ASSUME NEW f \in Futures, FutureReturns(f) PROVE WakeInv'
    BY <1>6, <1>a DEF FutureReturns, Returns, OwesNothing, Stores, Source, ReadyAt, PcAt, FutAt
  <1>7. ASSUME NEW f \in Futures, FutureDies(f) PROVE WakeInv'
    BY <1>7, <1>a DEF FutureDies, Returns, OwesNothing, Stores, Source, GoneAt, PcAt, FutAt, NodeAt
  <1>8. ASSUME NEW f \in Futures, UsesUp(f) PROVE WakeInv'
    BY <1>8, <1>a DEF UsesUp, Unlisted, ReadyAt, PcAt, FutAt
  <1>9. ASSUME NEW f \in Futures, FindsStale(f) PROVE WakeInv'
    BY <1>9, <1>a DEF FindsStale, Unlisted, ReadyAt, PcAt, FutAt
  <1>10. ASSUME NEW f \in Futures, FindsStored(f) PROVE WakeInv'
    BY <1>10, <1>a DEF FindsStored, Unlisted, ReadyAt, PcAt, FutAt
  <1>11. ASSUME NEW f \in Futures, StoresWaker(f) PROVE WakeInv'
    BY <1>11, <1>a DEF StoresWaker, Unlisted, PcAt, FutAt, NodeAt
  <1>12. ASSUME NEW f \in Futures, Enqueues(f) PROVE WakeInv'
    BY <1>12, <1>a DEF Enqueues, PcAt, FutAt, NodeAt
  <1>13. ASSUME NEW f \in Futures, Repeats(f) PROVE WakeInv'
    BY <1>13, <1>a DEF Repeats, Unlisted, PcAt, FutAt
  <1>14. ASSUME NEW f \in Futures, Waits(f) PROVE WakeInv'
    BY <1>14, <1>a DEF Waits, Unlisted, PendAt, PcAt, FutAt, NodeAt
  <1>15. ASSUME NEW f \in Futures, Unqueues(f) PROVE WakeInv'
    BY <1>15, <1>a DEF Unqueues, ReadyAt, GoneAt, PcAt, FutAt, NodeAt
  <1>16. ASSUME NEW f \in Futures, IsMade(f) PROVE WakeInv'
    BY <1>16, <1>a DEF IsMade, Unlisted, PcAt, FutAt
  <1>17. ASSUME NEW f \in Futures, IsDropped(f) PROVE WakeInv'
    BY <1>17, <1>a DEF IsDropped, Unlisted, GoneAt, PcAt, FutAt, NodeAt
  <1>18. ASSUME NEW f \in Futures, NEW k \in Tasks \cup {NONE}, Polls(f, k) PROVE WakeInv'
    BY <1>18, <1>a DEF Polls, Unlisted, PcAt, FutAt
  <1>19. ASSUME NEW t \in Threads, WaitersLock(t), UNCHANGED <<fut, woken, op, tokens>> PROVE WakeInv'
    BY <1>19, <1>a DEF WaitersLock, Goto
  <1>20. ASSUME NEW t \in Threads, WaitersDrain(t), UNCHANGED <<fut, woken, op, tokens>> PROVE WakeInv'
    BY <1>20, <1>a DEF WaitersDrain, Goto
  <1>21. ASSUME NEW t \in Threads, WakeMore(t), UNCHANGED <<fut, woken, op, tokens>> PROVE WakeInv'
    BY <1>21, <1>a DEF WakeMore, Goto
  <1>22. ASSUME NEW t \in Threads, DrainEnd(t), UNCHANGED <<fut, woken, op, tokens>> PROVE WakeInv'
    BY <1>22, <1>a DEF DrainEnd, Goto, LeftWakers
  <1>23. ASSUME NEW t \in Threads, NEW f \in Futures, GivesAll(t, f) PROVE WakeInv'
    <2>1. /\ Status(f) = "Queued" /\ node'[f].status = "Dequeued" /\ node'[f].waker = NONE
          /\ UNCHANGED <<fut, woken>> /\ \A g \in Futures : g # f => node'[g] = node[g]
      BY <1>23 DEF GivesAll, TakeAt, NodeAt
    <2>2. /\ \A b \in Actors : b # t => pc'[b] = pc[b]
          /\ t \notin Futures
      BY <1>23, <1>a DEF GivesAll, PcAt
    <2>3. f # t /\ pc'[f] = pc[f] /\ pc[f] \notin UnqueuedPC \cup DequeuedPC
      BY <1>a, <2>1, <2>2
    <2>4. /\ \A b \in Actors : \A x : InSeq(x, wakers[b]) => InSeq(x, wakers'[b])
          /\ node[f].waker # NONE => InSeq(<<f, node[f].waker>>, wakers'[t])
      BY <1>23 DEF GivesAll, TakeAt
    <2>5. \A g \in Futures : g # f => (WillWake(g) => WillWake(g)')
      BY <2>1, <2>4
    <2>6. WillWake(f) /\ fut[f].cx # NONE => WillWake(f)'
      BY <2>1, <2>4
    <2> HIDE DEF WillWake
    <2> QED
      BY <2>1, <2>2, <2>3, <2>5, <2>6
  <1>24. CASE UNCHANGED vars
    BY <1>24, <1>a DEF vars, shared
  <1> HIDE DEF WakerInv, WakeInv, WillWake, OnceInv, Status, UpdatedWaker
  <1> QED
    BY <1>1, <1>2, <1>3, <1>4, <1>5, <1>6, <1>7, <1>8, <1>9, <1>10, <1>11, <1>12, <1>13, <1>14,
       <1>15, <1>16, <1>17, <1>18, <1>19, <1>20, <1>21, <1>22, <1>23, <1>24, StepCases
    DEF ActorSteps, FutureSteps, WaitersSteps, IInv

(* How the number of notifications that are owed changes. *)
LEMMA OwingType == IsFiniteSet(Owing) /\ Cardinality(Owing) \in Nat
  BY FS_Subset, FS_CardinalityType DEF Owing

(* Nobody owes more or less, ... *)
LEMMA OwingSame ==
    ASSUME \A b \in Actors : Owes(b)' <=> Owes(b)
    PROVE  Cardinality(Owing') = Cardinality(Owing)
  <1>1. Owing' = Owing
    BY DEF Owing
  <1> QED
    BY <1>1

(* ... one actor more owes a notification, ... *)
LEMMA OwingMore ==
    ASSUME NEW a \in Actors, ~Owes(a), Owes(a)', \A b \in Actors : b # a => (Owes(b)' <=> Owes(b))
    PROVE  Cardinality(Owing') = Cardinality(Owing) + 1
  <1>1. Owing' = Owing \cup {a} /\ a \notin Owing
    BY DEF Owing
  <1> QED
    BY <1>1, OwingType, FS_AddElement

(* ... one actor less, ... *)
LEMMA OwingLess ==
    ASSUME NEW a \in Actors, Owes(a), ~Owes(a)', \A b \in Actors : b # a => (Owes(b)' <=> Owes(b))
    PROVE  Cardinality(Owing') = Cardinality(Owing) - 1
  <1>1. Owing' = Owing \ {a} /\ a \in Owing
    BY DEF Owing
  <1> QED
    BY <1>1, OwingType, FS_RemoveElement

(* ... or the notification moves from a to f. *)
LEMMA OwingMoved ==
    ASSUME NEW a \in Actors, NEW f \in Actors, a # f, Owes(a), ~Owes(a)', ~Owes(f), Owes(f)',
           \A b \in Actors : b # a /\ b # f => (Owes(b)' <=> Owes(b))
    PROVE  Cardinality(Owing') = Cardinality(Owing)
  <1> DEFINE S == Owing \ {a}
  <1>1. Owing' = S \cup {f} /\ a \in Owing /\ f \notin S
    BY DEF Owing
  <1>2. IsFiniteSet(S) /\ Cardinality(S) = Cardinality(Owing) - 1
    BY <1>1, OwingType, FS_RemoveElement
  <1> HIDE DEF S
  <1>3. Cardinality(S \cup {f}) = Cardinality(S) + 1
    BY <1>1, <1>2, FS_AddElement
  <1> QED
    BY <1>1, <1>2, <1>3, OwingType

(* No notification is lost, and none is made up. *)
LEMMA CountStep == IInv /\ ~CallAfterReady /\ OnceInv /\ CountInv /\ [Next]_vars => CountInv'
  <1> SUFFICES ASSUME IInv, ~CallAfterReady, OnceInv, CountInv, [Next]_vars PROVE CountInv'
    OBVIOUS
  <1> USE DEF Actors
  <1>a. /\ \A g \in Futures :
            /\ pc[g] \in UnqueuedPC => Status(g) = "Unqueued"
            /\ pc[g] \in DequeuedPC => Status(g) = "Dequeued"
            /\ pc[g] \in {"recheck", "lock", "cancel"} => Status(g) # "Unqueued"
            /\ fut[g].completed => pc[g] \in {"idle", "unqueued"} /\ Status(g) # "Queued"
        /\ \A t \in Threads : t \notin Futures
    BY DEF IInv, NodeInv, OnceInv, UnqueuedPC
  <1>b. /\ queue # <<>> => state = STATE_UNNOTIFIED
        /\ state \in {STATE_UNNOTIFIED, STATE_NOTIFIED}
        /\ \A f \in Futures : fut[f].seen # STATE_NOTIFIED
    BY DEF IInv, StateInv, Types
  <1> USE DEF UnqueuedPC, DequeuedPC
  <1>1. ASSUME NEW a \in Actors, ThreadReturns(a) PROVE CountInv'
    <2>0. a \in Actors /\ Returns(a) /\ (\A b \in Actors : b # a => (Owes(b)' <=> Owes(b))) /\ ~Owes(a)'
      BY <1>1, <1>a DEF Owes, Carries, IsSingle, Status, ThreadReturns, PcAt
    <2>1. CASE OwesNothing(a)
      <3>1. ~Owes(a) /\ UNCHANGED <<state, tokens>>
        BY <1>1, <1>a, <2>1
        DEF Owes, Carries, IsSingle, Status, OwesNothing, Owed, Dropping, ThreadReturns
      <3>2. \A b \in Actors : Owes(b)' <=> Owes(b)
        BY <2>0, <3>1
      <3> QED
        BY <3>1, <3>2, OwingSame DEF CountInv
    <2>2. ASSUME NEW new \in {0, 1}, Stores(a, new) PROVE CountInv'
      <3>1. /\ state' = STATE_NOTIFIED
            /\ tokens' = tokens + new - (IF state = STATE_NOTIFIED THEN 1 ELSE 0)
        BY <2>2 DEF Stores
      <3>2. tokens' = Cardinality(Owing) + new
        BY <3>1, OwingType DEF CountInv
      <3>3. CASE new = 1
        <4>1. ~Owes(a)
          BY <1>1, <1>a, <2>2, <3>3
          DEF Owes, Carries, IsSingle, Status, Stores, Source, ThreadReturns
        <4>2. \A b \in Actors : Owes(b)' <=> Owes(b)
          BY <2>0, <4>1
        <4> QED
          BY <3>1, <3>2, <3>3, <4>2, OwingSame, OwingType DEF CountInv
      <3>4. CASE new = 0
        <4>1. Owes(a)
          BY <1>1, <1>a, <2>2, <3>4
          DEF Owes, Carries, IsSingle, Status, Stores, Source, Owed, ThreadReturns
        <4>2. Cardinality(Owing') = Cardinality(Owing) - 1
          BY <2>0, <4>1, OwingLess
        <4> QED
          BY <3>1, <3>2, <3>4, <4>2, OwingType DEF CountInv
      <3> QED
        BY <3>3, <3>4
    <2> QED
      BY <2>0, <2>1, <2>2 DEF Returns
  <1>2. ASSUME NEW a \in Actors, HandsOut(a) PROVE CountInv'
    <2>0. Owes(a)' /\ \A b \in Actors : b # a => (Owes(b)' <=> Owes(b))
      BY <1>2, <1>a DEF Owes, Carries, IsSingle, Status, HandsOut, PcAt
    <2>1. PICK new \in {0, 1} : Source(a, new) /\ tokens' = tokens + new
      BY <1>2 DEF HandsOut
    <2>2. UNCHANGED state
      BY <1>2 DEF HandsOut
    <2>3. CASE new = 1
      <3>1. ~Owes(a)
        BY <1>a, <2>1, <2>3 DEF Owes, Carries, IsSingle, Status, Source
      <3> QED
        BY <2>0, <2>1, <2>2, <2>3, <3>1, OwingMore, OwingType DEF CountInv
    <2>4. CASE new = 0
      <3>1. Owes(a)
        BY <1>a, <2>1, <2>4 DEF Owes, Carries, IsSingle, Status, Source, Owed
      <3>2. \A b \in Actors : Owes(b)' <=> Owes(b)
        BY <2>0, <3>1
      <3> QED
        BY <2>1, <2>2, <2>4, <3>2, OwingSame, OwingType DEF CountInv
    <2> QED
      BY <2>3, <2>4
  <1>3. ASSUME NEW a \in Actors, MovesOn(a) PROVE CountInv'
    <2>1. \A b \in Actors : Owes(b)' <=> Owes(b)
      BY <1>3, <1>a DEF Owes, Carries, IsSingle, Status, MovesOn, Unlisted, PcAt
    <2>2. UNCHANGED <<state, tokens>>
      BY <1>3, <1>b DEF MovesOn, Unlisted
    <2> QED
      BY <2>1, <2>2, OwingSame DEF CountInv
  <1>4. ASSUME NEW a \in Actors, WakeAt(a) PROVE CountInv'
    <2>1. \A b \in Actors : Owes(b)' <=> Owes(b)
      BY <1>4, <1>a DEF Owes, Carries, IsSingle, Status, WakeAt
    <2>2. UNCHANGED <<state, tokens>>
      BY <1>4, <1>b DEF WakeAt
    <2> QED
      BY <2>1, <2>2, OwingSame DEF CountInv
  <1>5. ASSUME NEW a \in Actors, NEW f \in Futures, GivesOne(a, f) PROVE CountInv'
    <2>1. /\ Status(f) = "Queued" /\ node'[f].status = "Dequeued" /\ node'[f].waker = NONE
          /\ UNCHANGED <<fut, woken>> /\ \A g \in Futures : g # f => node'[g] = node[g]
      BY <1>5 DEF GivesOne, TakeAt, NodeAt
    <2>2. /\ \A b \in Actors : b # a => pc'[b] = pc[b]
          /\ pc[a] = "single" /\ pc'[a] = "wake"
      BY <1>5, <1>a DEF GivesOne, PcAt
    <2>3. f # a /\ pc'[f] = pc[f] /\ pc[f] \notin UnqueuedPC \cup DequeuedPC
      BY <1>a, <2>1, <2>2
    <2>4. ~fut[f].completed /\ node'[f].notification \in {"One", "Last"}
      BY <1>5, <1>a, <2>1 DEF GivesOne, TakeAt, NodeAt, Status
    <2>5. Owes(a) /\ ~Owes(a)'
      BY <2>2 DEF Owes, Carries
    <2>6. ~Owes(f) /\ Owes(f)'
      BY <2>1, <2>3, <2>4 DEF Owes, Carries, IsSingle, Status
    <2>7. \A b \in Actors : b # a /\ b # f => (Owes(b)' <=> Owes(b))
      BY <2>1, <2>2 DEF Owes, Carries, IsSingle, Status
    <2>8. UNCHANGED <<state, tokens>> /\ f \in Actors
      BY <1>5 DEF GivesOne
    <2> QED
      BY <2>3, <2>5, <2>6, <2>7, <2>8, OwingMoved DEF CountInv
  <1>6. ASSUME NEW f \in Futures, FutureReturns(f) PROVE CountInv'
    <2>0. f \in Actors /\ Returns(f) /\ (\A b \in Actors : b # f => (Owes(b)' <=> Owes(b))) /\ ~Owes(f)'
      BY <1>6, <1>a DEF Owes, Carries, IsSingle, Status, FutureReturns, PcAt, ReadyAt, FutAt
    <2>1. CASE OwesNothing(f)
      <3>1. ~Owes(f) /\ UNCHANGED <<state, tokens>>
        BY <1>6, <1>a, <2>1
        DEF Owes, Carries, IsSingle, Status, OwesNothing, Owed, Dropping, FutureReturns
      <3>2. \A b \in Actors : Owes(b)' <=> Owes(b)
        BY <2>0, <3>1
      <3> QED
        BY <3>1, <3>2, OwingSame DEF CountInv
    <2>2. ASSUME NEW new \in {0, 1}, Stores(f, new) PROVE CountInv'
      <3>1. /\ state' = STATE_NOTIFIED
            /\ tokens' = tokens + new - (IF state = STATE_NOTIFIED THEN 1 ELSE 0)
        BY <2>2 DEF Stores
      <3>2. tokens' = Cardinality(Owing) + new
        BY <3>1, OwingType DEF CountInv
      <3>3. CASE new = 1
        <4>1. ~Owes(f)
          BY <1>6, <1>a, <2>2, <3>3
          DEF Owes, Carries, IsSingle, Status, Stores, Source, FutureReturns
        <4>2. \A b \in Actors : Owes(b)' <=> Owes(b)
          BY <2>0, <4>1
        <4> QED
          BY <3>1, <3>2, <3>3, <4>2, OwingSame, OwingType DEF CountInv
      <3>4. CASE new = 0
        <4>1. Owes(f)
          BY <1>6, <1>a, <2>2, <3>4
          DEF Owes, Carries, IsSingle, Status, Stores, Source, Owed, FutureReturns
        <4>2. Cardinality(Owing') = Cardinality(Owing) - 1
          BY <2>0, <4>1, OwingLess
        <4> QED
          BY <3>1, <3>2, <3>4, <4>2, OwingType DEF CountInv
      <3> QED
        BY <3>3, <3>4
    <2> QED
      BY <2>0, <2>1, <2>2 DEF Returns
  <1>7. ASSUME NEW f \in Futures, FutureDies(f) PROVE CountInv'
    <2>0. f \in Actors /\ Returns(f) /\ (\A b \in Actors : b # f => (Owes(b)' <=> Owes(b))) /\ ~Owes(f)'
      BY <1>7, <1>a DEF Owes, Carries, IsSingle, Status, FutureDies, PcAt, GoneAt, FutAt, NodeAt
    <2>1. CASE OwesNothing(f)
      <3>1. ~Owes(f) /\ UNCHANGED <<state, tokens>>
        BY <1>7, <1>a, <2>1
        DEF Owes, Carries, IsSingle, Status, OwesNothing, Owed, Dropping, FutureDies
      <3>2. \A b \in Actors : Owes(b)' <=> Owes(b)
        BY <2>0, <3>1
      <3> QED
        BY <3>1, <3>2, OwingSame DEF CountInv
    <2>2. ASSUME NEW new \in {0, 1}, Stores(f, new) PROVE CountInv'
      <3>1. /\ state' = STATE_NOTIFIED
            /\ tokens' = tokens + new - (IF state = STATE_NOTIFIED THEN 1 ELSE 0)
        BY <2>2 DEF Stores
      <3>2. tokens' = Cardinality(Owing) + new
        BY <3>1, OwingType DEF CountInv
      <3>3. CASE new = 1
        <4>1. ~Owes(f)
          BY <1>7, <1>a, <2>2, <3>3 DEF Owes, Carries, IsSingle, Status, Stores, Source, FutureDies
        <4>2. \A b \in Actors : Owes(b)' <=> Owes(b)
          BY <2>0, <4>1
        <4> QED
          BY <3>1, <3>2, <3>3, <4>2, OwingSame, OwingType DEF CountInv
      <3>4. CASE new = 0
        <4>1. Owes(f)
          BY <1>7, <1>a, <2>2, <3>4
          DEF Owes, Carries, IsSingle, Status, Stores, Source, Owed, FutureDies
        <4>2. Cardinality(Owing') = Cardinality(Owing) - 1
          BY <2>0, <4>1, OwingLess
        <4> QED
          BY <3>1, <3>2, <3>4, <4>2, OwingType DEF CountInv
      <3> QED
        BY <3>3, <3>4
    <2> QED
      BY <2>0, <2>1, <2>2 DEF Returns
  <1>8. ASSUME NEW f \in Futures, UsesUp(f) PROVE CountInv'
    <2>0. f \in Actors /\ UNCHANGED state /\ ~Owes(f)' /\ \A b \in Actors : b # f => (Owes(b)' <=> Owes(b))
      BY <1>8, <1>a DEF Owes, Carries, IsSingle, Status, UsesUp, ReadyAt, PcAt, FutAt
    <2>1. CASE IsSingle(f) /\ ~fut[f].completed
      <3>1. Owes(f) /\ tokens' = tokens - 1
        BY <1>8, <2>1 DEF Owes, Carries, UsesUp
      <3> QED
        BY <2>0, <3>1, OwingLess, OwingType DEF CountInv
    <2>2. CASE ~(IsSingle(f) /\ ~fut[f].completed)
      <3>1. ~Owes(f) /\ tokens' = tokens
        BY <1>8, <2>2 DEF Owes, Carries, UsesUp
      <3>2. \A b \in Actors : Owes(b)' <=> Owes(b)
        BY <2>0, <3>1
      <3> QED
        BY <2>0, <3>1, <3>2, OwingSame DEF CountInv
    <2> QED
      BY <2>1, <2>2
  <1>9. ASSUME NEW f \in Futures, FindsStale(f) PROVE CountInv'
    <2>1. \A b \in Actors : Owes(b)' <=> Owes(b)
      BY <1>9, <1>a DEF Owes, Carries, IsSingle, Status, FindsStale, Unlisted, ReadyAt, PcAt, FutAt
    <2>2. UNCHANGED <<state, tokens>>
      BY <1>9, <1>b DEF FindsStale, Unlisted
    <2> QED
      BY <2>1, <2>2, OwingSame DEF CountInv
  <1>10. ASSUME NEW f \in Futures, FindsStored(f) PROVE CountInv'
    <2>1. \A b \in Actors : Owes(b)' <=> Owes(b)
      BY <1>10, <1>a DEF Owes, Carries, IsSingle, Status, FindsStored, ReadyAt, PcAt, FutAt
    <2>2. tokens' = tokens - 1 /\ state = STATE_NOTIFIED /\ state' = STATE_UNNOTIFIED
      BY <1>10 DEF FindsStored
    <2> QED
      BY <2>1, <2>2, OwingSame, OwingType DEF CountInv, STATE_NOTIFIED, STATE_UNNOTIFIED
  <1>11. ASSUME NEW f \in Futures, StoresWaker(f) PROVE CountInv'
    <2>1. \A b \in Actors : Owes(b)' <=> Owes(b)
      BY <1>11, <1>a DEF Owes, Carries, IsSingle, Status, StoresWaker, Unlisted, PcAt, FutAt, NodeAt
    <2>2. UNCHANGED <<state, tokens>>
      BY <1>11, <1>b DEF StoresWaker, Unlisted
    <2> QED
      BY <2>1, <2>2, OwingSame DEF CountInv
  <1>12. ASSUME NEW f \in Futures, Enqueues(f) PROVE CountInv'
    <2>1. \A b \in Actors : Owes(b)' <=> Owes(b)
      BY <1>12, <1>a DEF Owes, Carries, IsSingle, Status, Enqueues, PcAt, FutAt, NodeAt
    <2>2. UNCHANGED <<state, tokens>>
      BY <1>12, <1>b DEF Enqueues, OptState, STATE_NOTIFIED, STATE_UNNOTIFIED
    <2> QED
      BY <2>1, <2>2, OwingSame DEF CountInv
  <1>13. ASSUME NEW f \in Futures, Repeats(f) PROVE CountInv'
    <2>1. \A b \in Actors : Owes(b)' <=> Owes(b)
      BY <1>13, <1>a DEF Owes, Carries, IsSingle, Status, Repeats, Unlisted, PcAt, FutAt
    <2>2. UNCHANGED <<state, tokens>>
      BY <1>13, <1>b DEF Repeats, Unlisted
    <2> QED
      BY <2>1, <2>2, OwingSame DEF CountInv
  <1>14. ASSUME NEW f \in Futures, Waits(f) PROVE CountInv'
    <2>1. \A b \in Actors : Owes(b)' <=> Owes(b)
      BY <1>14, <1>a
      DEF Owes, Carries, IsSingle, Status, Waits, Unlisted, PendAt, PcAt, FutAt, NodeAt
    <2>2. UNCHANGED <<state, tokens>>
      BY <1>14, <1>b DEF Waits, Unlisted
    <2> QED
      BY <2>1, <2>2, OwingSame DEF CountInv
  <1>15. ASSUME NEW f \in Futures, Unqueues(f) PROVE CountInv'
    <2>1. \A b \in Actors : Owes(b)' <=> Owes(b)
      BY <1>15, <1>a
      DEF Owes, Carries, IsSingle, Status, Unqueues, ReadyAt, GoneAt, PcAt, FutAt, NodeAt
    <2>2. UNCHANGED <<state, tokens>>
      BY <1>15, <1>b DEF Unqueues
    <2> QED
      BY <2>1, <2>2, OwingSame DEF CountInv
  <1>16. ASSUME NEW f \in Futures, IsMade(f) PROVE CountInv'
    <2>1. \A b \in Actors : Owes(b)' <=> Owes(b)
      BY <1>16, <1>a DEF Owes, Carries, IsSingle, Status, IsMade, Unlisted, PcAt, FutAt
    <2>2. UNCHANGED <<state, tokens>>
      BY <1>16, <1>b DEF IsMade, Unlisted
    <2> QED
      BY <2>1, <2>2, OwingSame DEF CountInv
  <1>17. ASSUME NEW f \in Futures, IsDropped(f) PROVE CountInv'
    <2>1. \A b \in Actors : Owes(b)' <=> Owes(b)
      BY <1>17, <1>a
      DEF Owes, Carries, IsSingle, Status, IsDropped, Unlisted, GoneAt, PcAt, FutAt, NodeAt
    <2>2. UNCHANGED <<state, tokens>>
      BY <1>17, <1>b DEF IsDropped, Unlisted
    <2> QED
      BY <2>1, <2>2, OwingSame DEF CountInv
  <1>18. ASSUME NEW f \in Futures, NEW k \in Tasks \cup {NONE}, Polls(f, k) PROVE CountInv'
    <2>1. \A b \in Actors : Owes(b)' <=> Owes(b)
      BY <1>18, <1>a DEF Owes, Carries, IsSingle, Status, Polls, Unlisted, PcAt, FutAt
    <2>2. UNCHANGED <<state, tokens>>
      BY <1>18, <1>b DEF Polls, Unlisted
    <2> QED
      BY <2>1, <2>2, OwingSame DEF CountInv
  <1>19. ASSUME NEW t \in Threads, WaitersLock(t), UNCHANGED <<fut, woken, op, tokens>> PROVE CountInv'
    <2>1. \A b \in Actors : Owes(b)' <=> Owes(b)
      BY <1>19, <1>a DEF Owes, Carries, IsSingle, Status, WaitersLock, Goto
    <2>2. UNCHANGED <<state, tokens>>
      BY <1>19, <1>b DEF WaitersLock
    <2> QED
      BY <2>1, <2>2, OwingSame DEF CountInv
  <1>20. ASSUME NEW t \in Threads, WaitersDrain(t), UNCHANGED <<fut, woken, op, tokens>> PROVE CountInv'
    <2>1. \A b \in Actors : Owes(b)' <=> Owes(b)
      BY <1>20, <1>a DEF Owes, Carries, IsSingle, Status, WaitersDrain, Goto
    <2>2. UNCHANGED <<state, tokens>>
      BY <1>20, <1>b DEF WaitersDrain
    <2> QED
      BY <2>1, <2>2, OwingSame DEF CountInv
  <1>21. ASSUME NEW t \in Threads, WakeMore(t), UNCHANGED <<fut, woken, op, tokens>> PROVE CountInv'
    <2>1. \A b \in Actors : Owes(b)' <=> Owes(b)
      BY <1>21, <1>a DEF Owes, Carries, IsSingle, Status, WakeMore, Goto
    <2>2. UNCHANGED <<state, tokens>>
      BY <1>21, <1>b DEF WakeMore
    <2> QED
      BY <2>1, <2>2, OwingSame DEF CountInv
  <1>22. ASSUME NEW t \in Threads, DrainEnd(t), UNCHANGED <<fut, woken, op, tokens>> PROVE CountInv'
    <2>1. \A b \in Actors : Owes(b)' <=> Owes(b)
      BY <1>22, <1>a DEF Owes, Carries, IsSingle, Status, DrainEnd, Goto, LeftWakers
    <2>2. UNCHANGED <<state, tokens>>
      BY <1>22, <1>b DEF DrainEnd
    <2> QED
      BY <2>1, <2>2, OwingSame DEF CountInv
  <1>23. ASSUME NEW t \in Threads, NEW f \in Futures, GivesAll(t, f) PROVE CountInv'
    <2>1. /\ Status(f) = "Queued" /\ node'[f].status = "Dequeued" /\ node'[f].waker = NONE
          /\ UNCHANGED <<fut, woken>> /\ \A g \in Futures : g # f => node'[g] = node[g]
      BY <1>23 DEF GivesAll, TakeAt, NodeAt
    <2>2. /\ \A b \in Actors : b # t => pc'[b] = pc[b]
          /\ t \notin Futures
      BY <1>23, <1>a DEF GivesAll, PcAt
    <2>3. f # t /\ pc'[f] = pc[f] /\ pc[f] \notin UnqueuedPC \cup DequeuedPC
      BY <1>a, <2>1, <2>2
    <2>4. node'[f].notification = "All" /\ pc[t] \notin {"single"} /\ pc'[t] \notin {"single"}
      BY <1>23 DEF GivesAll, TakeAt, NodeAt, PcAt
    <2>5. \A b \in Actors : Owes(b)' <=> Owes(b)
      BY <1>a, <2>1, <2>2, <2>3, <2>4 DEF Owes, Carries, IsSingle, Status
    <2>6. UNCHANGED <<state, tokens>>
      BY <1>23 DEF GivesAll
    <2> QED
      BY <2>5, <2>6, OwingSame DEF CountInv
  <1>24. CASE UNCHANGED vars
    <2>1. \A b \in Actors : Owes(b)' <=> Owes(b)
      BY <1>24 DEF Owes, Carries, IsSingle, Status, vars
    <2> QED
      BY <1>24, <2>1, OwingSame DEF CountInv, vars, shared
  <1> HIDE DEF Actors
  <1> QED
    BY <1>1, <1>2, <1>3, <1>4, <1>5, <1>6, <1>7, <1>8, <1>9, <1>10, <1>11, <1>12, <1>13, <1>14,
       <1>15, <1>16, <1>17, <1>18, <1>19, <1>20, <1>21, <1>22, <1>23, <1>24, StepCases
    DEF ActorSteps, FutureSteps, WaitersSteps, IInv

(* In the beginning nobody owes anything and no future is ready. *)
LEMMA OnceInit == Init => OnceIInv /\ CountInv
  <1> SUFFICES ASSUME Init PROVE OnceIInv /\ CountInv
    OBVIOUS
  <1>1. \A f \in Futures :
            /\ node[f].status = "Unqueued" /\ node[f].waker = NONE
            /\ fut[f].completed = FALSE /\ fut[f].cx = NONE /\ pc[f] = "new"
    BY DEF Init, NewNode, NewFuture, Actors
  <1>2. OnceIInv
    BY <1>1 DEF OnceIInv, OnceInv, WakerInv, WakeInv, Status
  <1>3. \A a \in Actors : pc[a] # "single"
    BY DEF Init
  <1>4. Owing = {}
    BY <1>1, <1>3 DEF Owing, Owes, Carries, Status
  <1>5. tokens = 0 /\ state # STATE_NOTIFIED
    BY DEF Init, STATE_NOTIFIED, STATE_UNNOTIFIED
  <1>6. CountInv
    BY <1>4, <1>5, FS_EmptySet DEF CountInv
  <1> QED
    BY <1>2, <1>6

(* The invariant of Notify as long as that contract is kept: a future that *)
(* is ready stays so, the waker of one that waits is where a notifier      *)
(* finds it, and every notification is accounted for.                      *)
THEOREM ContractInvariant ==
    ASSUME ~CallAfterReady
    PROVE  Spec => [](IInv /\ OnceIInv /\ CountInv)
  <1> DEFINE I == IInv /\ OnceIInv /\ CountInv
  <1>1. Init => I
    BY InitInv, OnceInit
  <1>2. I /\ [Next]_vars => I'
    <2>1. IInv /\ [Next]_vars => IInv'
      BY PcStep, LockStep, NodeStep, StateStep, TypeStep, DrainStep, StaleStep, ListStep DEF IInv
    <2>2. I /\ [Next]_vars => OnceInv' /\ WakerInv' /\ WakeInv' /\ CountInv'
      BY OnceStep, WakerStep, WakeStep, CountStep DEF OnceIInv
    <2> QED
      BY <2>1, <2>2 DEF OnceIInv
  <1> QED
    BY <1>1, <1>2, PTL DEF Spec

(* The notifications that are owed: those carried and those handed out. *)
LEMMA OwingParts ==
    Cardinality(Owing) = Cardinality({f \in Futures : Carries(f)})
                         + Cardinality({a \in Actors : pc[a] = "single"})
  <1> DEFINE C == {f \in Futures : Carries(f)}
             S == {a \in Actors : pc[a] = "single"}
  <1>1. Owing = C \cup S /\ C \cap S = {}
    BY DEF Owing, Owes, Carries, Actors
  <1>2. C \subseteq Actors /\ S \subseteq Actors
    BY DEF Actors
  <1> HIDE DEF C, S
  <1>3. IsFiniteSet(C) /\ IsFiniteSet(S) /\ Cardinality(C) \in Nat /\ Cardinality(S) \in Nat
    BY <1>2, FS_Subset, FS_CardinalityType
  <1>4. Cardinality(C \cup S) = Cardinality(C) + Cardinality(S) - Cardinality({})
    BY <1>1, <1>3, FS_Union
  <1>5. Cardinality(C \cup S) = Cardinality(C) + Cardinality(S)
    BY <1>3, <1>4, FS_EmptySet
  <1> QED
    BY <1>1, <1>5 DEF C, S

(* No notify_one or notify_last is lost: what is not used up or merged     *)
(* with a stored notification is stored, carried by a waiter, or being     *)
(* handed out, whatever is dropped or cancelled meanwhile.                 *)
THEOREM NotificationsAreKept ==
    ASSUME ~CallAfterReady
    PROVE  Spec => []NotificationsConserved
  <1>1. CountInv => NotificationsConserved
    <2>1. /\ Cardinality({f \in Futures : Carries(f)}) \in Nat
          /\ Cardinality({a \in Actors : pc[a] = "single"}) \in Nat
      <3>1. {f \in Futures : Carries(f)} \subseteq Actors /\ {a \in Actors : pc[a] = "single"} \subseteq Actors
        BY DEF Actors
      <3> QED
        BY <3>1, FS_Subset, FS_CardinalityType
    <2> QED
      BY <2>1, OwingParts DEF CountInv, NotificationsConserved
  <1> QED
    BY <1>1, ContractInvariant, PTL

(* Every variable has its type; no notification is used up twice, or their *)
(* number would drop below zero.                                           *)
THEOREM TypeCorrect ==
    ASSUME ~CallAfterReady
    PROVE  Spec => []TypeOK
  <1>1. IInv /\ CountInv => TypeOK
    BY OwingType DEF IInv, CountInv, TypeOK
  <1> QED
    BY <1>1, ContractInvariant, PTL

(* A future that returned Pending is woken by whoever dequeues its node:   *)
(* the waker of its last poll is in the node, in a list that is woken, or  *)
(* was woken, whenever enable was called.                                  *)
THEOREM WakeupsAreKept ==
    ASSUME ~CallAfterReady
    PROVE  Spec => []NoLostWakeup
  <1>1. IInv /\ OnceIInv => NoLostWakeup
    BY DEF IInv, ListInv, OnceIInv, WakeInv, WillWake, Pending, NoLostWakeup
  <1> QED
    BY <1>1, ContractInvariant, PTL

(* What a step may do to a future that is ready for a reason that lasts. *)
SettledNext ==
    \A g \in Futures :
        Settled(g) => \/ Settled(g)' /\ (pc[g] = "idle" => pc'[g] \in {"idle", "unqueued"})
                      \/ pc'[g] = "gone"

(* The generation never falls back to one that a future was created with. *)
LEMMA SettledStep == IInv /\ [Next]_vars => SettledNext
  <1> SUFFICES ASSUME IInv, [Next]_vars PROVE SettledNext
    OBVIOUS
  <1> USE DEF SettledNext, Settled, Stale, Status
  <1>p. /\ generation \in Nat /\ \A g \in Futures : fut[g].created \in Nat /\ fut[g].created <= generation
        /\ pc \in [Actors -> Points] /\ Futures \subseteq Actors /\ Threads \subseteq Actors
        /\ Futures \cap Threads = {}
    BY NotifyAssumption DEF IInv, Types, Points, Actors
  <1>q. \A g \in Futures : /\ pc[g] \in UnqueuedPC => Status(g) = "Unqueued"
                           /\ pc[g] \in DequeuedPC => Status(g) = "Dequeued"
    BY DEF IInv, NodeInv
  <1> USE DEF UnqueuedPC, DequeuedPC
  <1>1. ASSUME NEW a \in Actors, ThreadReturns(a) PROVE SettledNext
    BY <1>1, <1>p, <1>q DEF ThreadReturns, Returns, PcAt
  <1>2. ASSUME NEW a \in Actors, HandsOut(a) PROVE SettledNext
    BY <1>2, <1>p, <1>q DEF HandsOut, Source, Owed, Dropping, PcAt
  <1>3. ASSUME NEW a \in Actors, MovesOn(a) PROVE SettledNext
    BY <1>3, <1>p, <1>q DEF MovesOn, Unlisted, PcAt
  <1>4. ASSUME NEW a \in Actors, WakeAt(a) PROVE SettledNext
    BY <1>4, <1>p, <1>q DEF WakeAt, shared
  <1>5. ASSUME NEW a \in Actors, NEW f \in Futures, GivesOne(a, f) PROVE SettledNext
    BY <1>5, <1>p, <1>q DEF GivesOne, TakeAt, NodeAt, PcAt
  <1>6. ASSUME NEW f \in Futures, FutureReturns(f) PROVE SettledNext
    BY <1>6, <1>p, <1>q DEF FutureReturns, Returns, ReadyAt, PcAt, FutAt
  <1>7. ASSUME NEW f \in Futures, FutureDies(f) PROVE SettledNext
    BY <1>7, <1>p, <1>q DEF FutureDies, Returns, GoneAt, PcAt, FutAt, NodeAt
  <1>8. ASSUME NEW f \in Futures, UsesUp(f) PROVE SettledNext
    BY <1>8, <1>p, <1>q DEF UsesUp, Unlisted, ReadyAt, PcAt, FutAt
  <1>9. ASSUME NEW f \in Futures, FindsStale(f) PROVE SettledNext
    BY <1>9, <1>p, <1>q DEF FindsStale, Unlisted, ReadyAt, PcAt, FutAt
  <1>10. ASSUME NEW f \in Futures, FindsStored(f) PROVE SettledNext
    BY <1>10, <1>p, <1>q DEF FindsStored, Unlisted, ReadyAt, PcAt, FutAt
  <1>11. ASSUME NEW f \in Futures, StoresWaker(f) PROVE SettledNext
    BY <1>11, <1>p, <1>q DEF StoresWaker, Unlisted, PcAt, FutAt, NodeAt
  <1>12. ASSUME NEW f \in Futures, Enqueues(f) PROVE SettledNext
    BY <1>12, <1>p, <1>q DEF Enqueues, PcAt, FutAt, NodeAt
  <1>13. ASSUME NEW f \in Futures, Repeats(f) PROVE SettledNext
    BY <1>13, <1>p, <1>q DEF Repeats, Unlisted, PcAt, FutAt
  <1>14. ASSUME NEW f \in Futures, Waits(f) PROVE SettledNext
    BY <1>14, <1>p, <1>q DEF Waits, Unlisted, PendAt, PcAt, FutAt, NodeAt
  <1>15. ASSUME NEW f \in Futures, Unqueues(f) PROVE SettledNext
    BY <1>15, <1>p, <1>q DEF Unqueues, ReadyAt, GoneAt, PcAt, FutAt, NodeAt
  <1>16. ASSUME NEW f \in Futures, IsMade(f) PROVE SettledNext
    BY <1>16, <1>p, <1>q DEF IsMade, Unlisted, PcAt, FutAt
  <1>17. ASSUME NEW f \in Futures, IsDropped(f) PROVE SettledNext
    BY <1>17, <1>p, <1>q DEF IsDropped, Unlisted, GoneAt, PcAt, FutAt, NodeAt
  <1>18. ASSUME NEW f \in Futures, NEW k \in Tasks \cup {NONE}, Polls(f, k) PROVE SettledNext
    BY <1>18, <1>p, <1>q DEF Polls, Unlisted, PcAt, FutAt
  <1>19. ASSUME NEW t \in Threads, WaitersLock(t), UNCHANGED <<fut, woken, op, tokens>> PROVE SettledNext
    BY <1>19, <1>p, <1>q DEF WaitersLock, Goto
  <1>20. ASSUME NEW t \in Threads, WaitersDrain(t), UNCHANGED <<fut, woken, op, tokens>> PROVE SettledNext
    BY <1>20, <1>p, <1>q DEF WaitersDrain, Goto
  <1>21. ASSUME NEW t \in Threads, WakeMore(t), UNCHANGED <<fut, woken, op, tokens>> PROVE SettledNext
    BY <1>21, <1>p, <1>q DEF WakeMore, Goto
  <1>22. ASSUME NEW t \in Threads, DrainEnd(t), UNCHANGED <<fut, woken, op, tokens>> PROVE SettledNext
    BY <1>22, <1>p, <1>q DEF DrainEnd, Goto
  <1>23. ASSUME NEW t \in Threads, NEW f \in Futures, GivesAll(t, f) PROVE SettledNext
    BY <1>23, <1>p, <1>q DEF GivesAll, TakeAt, NodeAt, PcAt
  <1>24. CASE UNCHANGED vars
    BY <1>24 DEF vars, shared
  <1> HIDE DEF SettledNext, Settled, Stale, Status, UnqueuedPC, DequeuedPC
  <1> QED
    BY <1>1, <1>2, <1>3, <1>4, <1>5, <1>6, <1>7, <1>8, <1>9, <1>10, <1>11, <1>12, <1>13, <1>14,
       <1>15, <1>16, <1>17, <1>18, <1>19, <1>20, <1>21, <1>22, <1>23, <1>24, StepCases
    DEF ActorSteps, FutureSteps, WaitersSteps, IInv

(* A future whose node was taken out of the queue, or that was created     *)
(* before the last notify_waiters, is ready until it is dropped, whatever  *)
(* is called on it meanwhile.                                              *)
THEOREM SettledFuturesStayReady == Spec => SettledStaysReady
  <1>1. IInv /\ [Next]_vars => [SettledNext]_vars
    BY SettledStep
  <1>2. Spec => [][SettledNext]_vars
    BY <1>1, Invariant, PTL DEF Spec
  <1>3. SettledNext <=> \A f \in Futures :
            Settled(f) => \/ Settled(f)' /\ (pc[f] = "idle" => pc'[f] \in {"idle", "unqueued"})
                          \/ pc'[f] = "gone"
    BY DEF SettledNext
  <1> QED
    BY <1>2, <1>3, PTL DEF SettledStaysReady
=============================================================================
