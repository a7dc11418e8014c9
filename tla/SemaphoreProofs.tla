--------------------------- MODULE SemaphoreProofs ---------------------------
(***************************************************************************)
(* Semaphore of examples/semaphore.rs is safe for any number of clients,   *)
(* requests of any size and any capacity of the list of wakers.            *)
(***************************************************************************)
EXTENDS Semaphore, ListProofs, FiniteSetTheorems

(* Where a client stands while its Acquire future exists. *)
FuturePC == {"poll", "enqueue", "pending", "lock", "error", "cancel"}
WakingPC == {"locked", "drain", "wake", "wake_add", "wake_drain"}

(* add_permits_locked and a drain hold the lock from one step to the next. *)
LockInv ==
    /\ \A c \in Clients : pc[c] \in {"locked", "drain"} => mutex = c
    /\ mutex # NONE => pc[mutex] \in {"locked", "drain"}

(* A node is Queued exactly if it is in the queue or in the list of a      *)
(* drain, and then it is at one place only.                                *)
ListInv ==
    /\ Distinct(queue)
    /\ \A t \in Clients : Distinct(drained[t])
    /\ \A f \in Clients, t \in Clients : InSeq(f, queue) => ~InSeq(f, drained[t])
    /\ \A f \in Clients, t, u \in Clients : InSeq(f, drained[t]) /\ InSeq(f, drained[u]) => t = u
    /\ \A f \in Clients :
        Status(f) = "Queued" <=> InSeq(f, queue) \/ \E t \in Clients : InSeq(f, drained[t])

(* Nodes, wakers and permits are only kept by those that deal with them. *)
DrainInv == \A c \in Clients : drained[c] # <<>> => pc[c] \in {"drain", "wake_drain"}
AddInv   == \A c \in Clients : pc[c] \notin {"add", "locked", "wake_add"} => add[c] = 0
RoomInv ==
    \A c \in Clients :
        /\ pc[c] \notin WakingPC => wakers[c] = <<>>
        /\ pc[c] = "locked" => queue # <<>> /\ Len(wakers[c]) < Capacity
        /\ pc[c] = "drain" /\ drained[c] # <<>> => Len(wakers[c]) < Capacity

(* There are no permits while somebody waits, and close has closed the     *)
(* semaphore once it drains.                                               *)
StateInv ==
    /\ queue # <<>> => state = 0
    /\ \A c \in Clients : pc[c] \in {"drain", "wake_drain"} => IsClosed

(* What the point where a client stands tells about its node, ... *)
NodeInv ==
    \A c \in Clients :
        /\ pc[c] \notin {"pending", "lock", "error", "cancel"} => Status(c) = "Unqueued"
        /\ pc[c] \in {"pending", "lock", "cancel"} => Status(c) # "Unqueued"

(* ... about the waker in it, ... *)
WakerInv ==
    \A c \in Clients :
        /\ Status(c) = "Queued" => node[c].waker # NONE
        /\ pc[c] \in {"poll", "enqueue", "pending", "lock"} => fut[c].cx # NONE
        /\ pc[c] = "enqueue" => node[c].waker = fut[c].cx

(* ... and about what its owner has been given, ... *)
WaitInv == \A c \in Clients : Status(c) # "Unqueued" => node[c].remaining <= fut[c].want

(* ... what it asks for, and takes along when it is inserted, ... *)
AskInv ==
    \A c \in Clients :
        /\ pc[c] \in {"poll", "enqueue"} => fut[c].want > 0
        /\ pc[c] = "enqueue" =>
            /\ node[c].remaining \in 1..fut[c].want
            /\ fut[c].want - node[c].remaining = PartOf(fut[c].seen)
            /\ fut[c].seen # -1 => fut[c].seen % 2 = 0 /\ fut[c].seen < 2 * fut[c].want

(* ... which is everything in the end. *)
ServedInv ==
    \A c \in Clients : Status(c) = "Dequeued" /\ ~IsClosed => node[c].remaining = 0

(* The waiter that has got some permits is the first one. *)
OrderInv ==
    \A c \in Clients : InSeq(c, queue) =>
        /\ node[c].remaining \in 1..fut[c].want
        /\ queue[1] # c => node[c].remaining = fut[c].want

(* The last waker of c is in its node, was woken, or is about to be. *)
WillWake(c) ==
    \/ node[c].waker = fut[c].cx /\ Status(c) = "Queued"
    \/ c \in woken
    \/ \E d \in Clients : InSeq(<<c, fut[c].cx>>, wakers[d])

WakeInv == \A c \in Clients : pc[c] = "pending" => WillWake(c)

IInv ==
    /\ Types /\ LockInv /\ ListInv /\ DrainInv /\ AddInv /\ RoomInv
    /\ StateInv /\ NodeInv /\ WakerInv /\ WaitInv /\ AskInv /\ ServedInv /\ OrderInv /\ WakeInv

-----------------------------------------------------------------------------
(* What the accounting of the code takes for granted: a lone waiter that   *)
(* has got some permits does not give up, acquire_many_owned is only asked *)
(* for one permit, a request fits into an u32 with the shift, and no more  *)
(* than MAX_PERMITS permits are put in.                                    *)
Contract ==
    /\ ~AbandonPartial
    /\ OwnedSizes \subseteq {1}
    /\ \A n \in Sizes \cup {1} : 2 * n <= U32Max + 1
    /\ MaxTotal <= MAX_PERMITS

(* The object that is acquired stands for the permits that were taken. *)
SizeInv ==
    \A c \in Clients : pc[c] \in FuturePC =>
        fut[c].size = fut[c].want /\ fut[c].want \in Sizes \cup {1}

BoundInv == total <= MaxTotal

(* What the state holds at most, and may still be given. *)
LimitInv == state \div 2 <= MAX_PERMITS
OfferInv == \A c \in Clients : add[c] <= MAX_PERMITS /\ fut[c].want <= MAX_PERMITS

(* What CloseIsFinal says of a step. *)
ClosedByClose == ~IsClosed /\ IsClosed' => \E c \in Clients : Close(c) \/ CloseLock(c)
CloseReturns ==
    \A c \in Clients : pc[c] \in {"close", "drain"} /\ pc'[c] \in {"idle", "wake"} => IsClosed'
-----------------------------------------------------------------------------
(* What a step does, field by field. *)
Points == {"idle", "add", "locked", "wake", "wake_add", "wake_drain", "poll", "enqueue", "pending",
           "lock", "error", "cancel", "close", "drain", "panic"}
NodeRecord == [status : {"Unqueued", "Queued", "Dequeued"}, waker : Tasks \cup {NONE}, remaining : Nat]
FutRecord == [want : Nat, size : Nat, cx : Tasks \cup {NONE}, seen : Nat \cup {-1}]

PcAt(c, l) ==
    /\ pc' \in [Clients -> Points] /\ pc'[c] = l
    /\ \A d \in Clients : d # c => pc'[d] = pc[d]
NodeAt(c, s, w, r) ==
    /\ node' \in [Clients -> NodeRecord]
    /\ node'[c].status = s /\ node'[c].waker = w /\ node'[c].remaining = r
    /\ \A d \in Clients : d # c => node'[d] = node[d]
FutAt(c, n, s, x, m) ==
    /\ fut' \in [Clients -> FutRecord]
    /\ fut'[c].want = n /\ fut'[c].size = s /\ fut'[c].cx = x /\ fut'[c].seen = m
    /\ \A d \in Clients : d # c => fut'[d] = fut[d]
HeldAt(c, n) ==
    /\ held' \in [Clients -> Nat] /\ held'[c] = n
    /\ \A d \in Clients : d # c => held'[d] = held[d]
AddAt(c, n) ==
    /\ add' \in [Clients -> Nat] /\ add'[c] = n
    /\ \A d \in Clients : d # c => add'[d] = add[d]
GoneAt(c) ==
    /\ NodeAt(c, "Unqueued", NONE, 0) /\ FutAt(c, 0, 0, NONE, -1)
    /\ woken' = woken \ {c}

(* add_permits, without the lock. *)
AddsAt(c, n) ==
    /\ \/ queue = <<>> /\ state' = CheckAdd(state, n) /\ AddAt(c, 0) /\ PcAt(c, "idle")
       \/ /\ queue # <<>> /\ state' = state
          /\ AddAt(c, n) /\ PcAt(c, IF n = 0 THEN "idle" ELSE "add")
    /\ UNCHANGED <<queue, drained, mutex, wakers>>

(* The node c leaves its list. *)
OutOfList(c) ==
    /\ queue' \in Seq(Clients) /\ Distinct(queue')
    /\ drained' \in [Clients -> Seq(Clients)]
    /\ \A g : InSeq(g, queue') <=> InSeq(g, queue) /\ g # c
    /\ queue = <<>> => queue' = <<>>
    /\ queue' # <<>> /\ queue[1] # c => queue'[1] = queue[1]
    /\ \A t \in Clients :
        /\ Distinct(drained'[t])
        /\ \A g : InSeq(g, drained'[t]) <=> InSeq(g, drained[t]) /\ g # c
        /\ drained[t] = <<>> => drained'[t] = <<>>

(* c takes the waker of d and gives it its node back. *)
TakeAt(c, d, r) ==
    /\ Status(d) = "Queued" /\ OutOfList(d) /\ NodeAt(d, "Dequeued", NONE, r)
    /\ wakers' \in [Clients -> Seq(Clients \X Tasks)]
    /\ \A b \in Clients : b # c => wakers'[b] = wakers[b]
    /\ Len(wakers'[c]) = Len(wakers[c]) + 1
    /\ \A x : InSeq(x, wakers[c]) => InSeq(x, wakers'[c])
    /\ InSeq(<<d, node[d].waker>>, wakers'[c])

(* NONE stands for nobody. *)
LEMMA Nobody == NONE \notin Clients /\ NONE \notin Tasks
  BY SemaphoreAssumption

(* The parameters are natural numbers. *)
LEMMA Parameters ==
    /\ Permits \in Nat /\ Capacity \in Nat /\ Capacity # 0 /\ U32Max \in Nat
    /\ MaxTotal \in Nat /\ MaxCalls \in Nat /\ Sizes \subseteq Nat \ {0} /\ OwnedSizes \subseteq Nat \ {0}
  <1>1. {Permits, Capacity, U32Max, MaxTotal, MaxCalls} \cup Sizes \cup OwnedSizes \subseteq Nat
    BY SemaphoreAssumption
  <1>2. 0 \notin Sizes \cup OwnedSizes \cup {Capacity}
    BY SemaphoreAssumption
  <1> QED
    BY <1>1, <1>2

(* No argument exceeds MAX_PERMITS. *)
LEMMA Limits ==
    /\ MAX_PERMITS \in Nat /\ Permits <= MAX_PERMITS
    /\ \A n \in Sizes \cup OwnedSizes : n \in Nat /\ n > 0 /\ n <= MAX_PERMITS
  <1>1. MAX_PERMITS \in Nat
    BY UsizeAssumption DEF MAX_PERMITS
  <1>2. \A n \in Sizes \cup OwnedSizes \cup {Permits} : n <= MAX_PERMITS
    BY SemaphoreAssumption
  <1> QED
    BY <1>1, <1>2, Parameters

(* check_add_permits keeps the bit CLOSED and the limit. *)
LEMMA CheckAddBound ==
    ASSUME NEW s \in Nat, NEW n \in Nat
    PROVE  /\ CheckAdd(s, n) \in Nat /\ CheckAdd(s, n) % 2 = s % 2
           /\ s \div 2 <= MAX_PERMITS => CheckAdd(s, n) \div 2 <= MAX_PERMITS
           /\ (s \div 2) + n <= MAX_PERMITS => CheckAdd(s, n) = s + 2 * n
  <1>1. /\ s + 2 * n \in Nat /\ (s + 2 * n) % 2 = s % 2 /\ s \div 2 \in Nat
        /\ (s + 2 * n) \div 2 = (s \div 2) + n
    OBVIOUS
  <1>2. CASE PermitsOverflow(s, n)
    <2>1. CheckAdd(s, n) = s /\ ~((s \div 2) + n <= MAX_PERMITS)
      BY <1>1, <1>2, Limits DEF CheckAdd, PermitsOverflow
    <2> QED
      BY <2>1
  <1>3. CASE ~PermitsOverflow(s, n)
    <2>1. CheckAdd(s, n) = s + 2 * n
      BY <1>3 DEF CheckAdd
    <2>2. (s \div 2) + n <= MAX_PERMITS
      BY <1>1, <1>3, Limits DEF PermitsOverflow
    <2> QED
      BY <1>1, <2>1, <2>2
  <1> QED
    BY <1>2, <1>3

(* The type of what check_add_permits returns, its limit, and its value if *)
(* there is room.                                                          *)
LEMMA CheckAddType ==
    ASSUME NEW s \in Nat, NEW n \in Nat
    PROVE  CheckAdd(s, n) \in Nat
  BY CheckAddBound
LEMMA CheckAddLimit ==
    ASSUME NEW s \in Nat, NEW n \in Nat, s \div 2 <= MAX_PERMITS
    PROVE  CheckAdd(s, n) \div 2 <= MAX_PERMITS
  BY CheckAddBound
LEMMA CheckAddExact ==
    ASSUME NEW s \in Nat, NEW n \in Nat, (s \div 2) + n <= MAX_PERMITS
    PROVE  CheckAdd(s, n) = s + 2 * n
  BY CheckAddBound

USE Nobody

(* One client moves. *)
LEMMA MoveEffect ==
    ASSUME Types, NEW c \in Clients, NEW l \in Points, Goto(c, l)
    PROVE  PcAt(c, l)
  BY DEF Types, Points, PcAt, Goto

(* The future is destroyed. *)
LEMMA GoneEffect ==
    ASSUME Types, NEW c \in Clients, Gone(c)
    PROVE  GoneAt(c)
  <1>1. NewNode \in NodeRecord /\ NewFuture \in FutRecord
    BY DEF NewNode, NewFuture, NodeRecord, FutRecord
  <1>2. NodeAt(c, "Unqueued", NONE, 0)
    BY <1>1 DEF Gone, NewNode, NodeAt, NodeRecord, Types
  <1>3. FutAt(c, 0, 0, NONE, -1)
    BY <1>1 DEF Gone, NewFuture, FutAt, FutRecord, Types
  <1> QED
    BY <1>2, <1>3 DEF Gone, GoneAt

(* add_permits finds the queue empty, or has to lock it. *)
LEMMA AddEffect ==
    ASSUME Types, NEW c \in Clients, NEW n \in Nat, AddPermits(c, n)
    PROVE  AddsAt(c, n)
  <1>1. PcAt(c, IF n = 0 \/ queue = <<>> THEN "idle" ELSE "add")
    BY MoveEffect DEF AddPermits, Points
  <1>2. AddAt(c, IF queue = <<>> THEN 0 ELSE n)
    BY DEF AddPermits, AddAt, Types
  <1> QED
    BY <1>1, <1>2 DEF AddPermits, AddsAt

(* The first element of a list stays first unless it is removed. *)
LEMMA FirstWithout ==
    ASSUME NEW S, NEW s \in Seq(S), Distinct(s), NEW x, Without(s, x) # <<>>, s[1] # x
    PROVE  Without(s, x)[1] = s[1]
  <1>1. CASE ~InSeq(x, s)
    BY <1>1 DEF Without
  <1>2. CASE InSeq(x, s)
    <2> DEFINE i == CHOOSE k \in 1..Len(s) : s[k] = x
               r == RemoveAt(s, i)
    <2>1. i \in 1..Len(s) /\ s[i] = x
      BY <1>2 DEF InSeq
    <2>2. Without(s, x) = r
      BY <1>2, Zenon DEF Without
    <2> HIDE DEF i
    <2>3. /\ r \in Seq(S) /\ Len(r) = Len(s) - 1
          /\ \A j \in 1..Len(s) - 1 : r[j] = IF j < i THEN s[j] ELSE s[j + 1]
      BY <2>1, RemoveAtList
    <2> HIDE DEF r
    <2>4. Len(r) # 0 /\ Len(s) \in Nat
      BY <2>2, <2>3, EmptyList
    <2>5. 1 \in 1..Len(s) - 1 /\ 1 < i
      BY <2>1, <2>3, <2>4
    <2> QED
      BY <2>2, <2>3, <2>5
  <1> QED
    BY <1>1, <1>2

(* A list of several elements is not empty without one of them. *)
LEMMA OthersWithout ==
    ASSUME NEW S, NEW s \in Seq(S), Distinct(s), NEW i \in 1..Len(s), Len(s) > 1
    PROVE  Without(s, s[i]) # <<>>
  <1>1. Len(s) \in Nat /\ InSeq(s[i], s)
    BY DEF InSeq
  <1>2. Without(s, s[i]) \in Seq(S) /\ Len(Without(s, s[i])) = Len(s) - 1
    BY <1>1, WithoutList
  <1> QED
    BY <1>1, <1>2, EmptyList

(* TakeOut removes c from the list it is in and leaves the others alone. *)
LEMMA TakeOutEffect ==
    ASSUME Types, ListInv, NEW c \in Clients, TakeOut(c)
    PROVE  OutOfList(c)
  <1>1. queue \in Seq(Clients) /\ Distinct(queue) /\ queue' = Without(queue, c)
    BY DEF Types, ListInv, TakeOut
  <1>2. /\ queue' \in Seq(Clients) /\ Distinct(queue')
        /\ \A g : InSeq(g, queue') <=> InSeq(g, queue) /\ g # c
    BY <1>1, WithoutList
  <1>3. /\ queue = <<>> => queue' = <<>>
        /\ queue' # <<>> /\ queue[1] # c => queue'[1] = queue[1]
    <2>1. queue = <<>> => queue' = <<>>
      BY <1>1, <1>2, EmptyList
    <2>2. queue' # <<>> /\ queue[1] # c => queue'[1] = queue[1]
      BY <1>1, FirstWithout
    <2> QED
      BY <2>1, <2>2
  <1>4. ASSUME NEW t \in Clients
        PROVE  /\ drained'[t] \in Seq(Clients) /\ Distinct(drained'[t])
               /\ \A g : InSeq(g, drained'[t]) <=> InSeq(g, drained[t]) /\ g # c
               /\ drained[t] = <<>> => drained'[t] = <<>>
    <2>1. drained[t] \in Seq(Clients) /\ Distinct(drained[t]) /\ drained'[t] = Without(drained[t], c)
      BY DEF Types, ListInv, TakeOut
    <2>2. /\ drained'[t] \in Seq(Clients) /\ Distinct(drained'[t])
          /\ \A g : InSeq(g, drained'[t]) <=> InSeq(g, drained[t]) /\ g # c
      BY <2>1, WithoutList
    <2> QED
      BY <2>1, <2>2, EmptyList
  <1>5. drained' = [t \in Clients |-> drained'[t]]
    BY DEF TakeOut
  <1>6. drained' \in [Clients -> Seq(Clients)]
    BY <1>4, <1>5
  <1> QED
    BY <1>2, <1>3, <1>4, <1>6 DEF OutOfList

(* Take moves the waker of d to the list of c. *)
LEMMA TakeEffect ==
    ASSUME Types, ListInv, WakerInv, NEW c \in Clients, NEW d \in Clients, Status(d) = "Queued",
           NEW r \in Nat, Take(c, d, r)
    PROVE  TakeAt(c, d, r)
  <1>1. OutOfList(d)
    BY TakeOutEffect DEF Take
  <1>2. NodeAt(d, "Dequeued", NONE, r)
    BY DEF Take, NodeAt, NodeRecord, Types
  <1>3. node[d].waker \in Tasks
    BY DEF Types, WakerInv
  <1> DEFINE e == <<d, node[d].waker>>
             w == Append(wakers[c], e)
  <1>4. wakers[c] \in Seq(Clients \X Tasks) /\ e \in Clients \X Tasks
    BY <1>3 DEF Types
  <1>5. wakers' = [wakers EXCEPT ![c] = w]
    BY Zenon DEF Take
  <1> HIDE DEF e
  <1>6. /\ w \in Seq(Clients \X Tasks) /\ Len(w) = Len(wakers[c]) + 1
        /\ \A x : InSeq(x, w) <=> InSeq(x, wakers[c]) \/ x = e
    BY <1>4, AppendList
  <1> HIDE DEF w
  <1>7. /\ wakers' \in [Clients -> Seq(Clients \X Tasks)] /\ wakers'[c] = w
        /\ \A b \in Clients : b # c => wakers'[b] = wakers[b]
    BY <1>5, <1>6 DEF Types
  <1> QED
    BY <1>1, <1>2, <1>6, <1>7 DEF TakeAt, e

(* The kinds of steps.  Permits are added by a call that tries again, by   *)
(* the destructor of a permit or of a future, or by add_permits.           *)
AddsAgain(c) ==
    /\ \/ pc[c] = "add" /\ mutex = NONE /\ queue = <<>>
       \/ pc[c] = "wake_add" /\ wakers[c] = <<>>
    /\ AddsAt(c, add[c]) /\ UNCHANGED <<node, fut, held, woken, total>>
AddsReleased(c, n) ==
    /\ pc[c] = "idle" /\ n \in 1..held[c] /\ HeldAt(c, held[c] - n)
    /\ AddsAt(c, n) /\ UNCHANGED <<node, fut, woken, total>>
AddsNew(c, n) ==
    /\ pc[c] = "idle"
    /\ \/ Refused(n) /\ UNCHANGED total
       \/ ~Refused(n) /\ total + n <= MaxTotal /\ total' = total + n
    /\ AddsAt(c, n) /\ UNCHANGED <<node, fut, held, woken>>
Abandons(c) ==
    /\ pc[c] \in {"pending", "error", "cancel"} /\ Status(c) = "Dequeued"
    /\ AddsAt(c, Part(c)) /\ GoneAt(c) /\ UNCHANGED <<held, total>>

(* Nothing but the place changes, and the lock is taken. *)
Moves(c) ==
    /\ \/ pc[c] = "wake" /\ wakers[c] = <<>> /\ PcAt(c, "idle")
       \/ pc[c] \in {"pending", "error"} /\ Status(c) = "Queued" /\ PcAt(c, "cancel")
       \/ pc[c] \in {"poll", "pending", "lock"} /\ IsClosed /\ PcAt(c, "error")
       \/ pc[c] = "idle" /\ PcAt(c, "panic")
       \/ pc[c] = "idle" /\ PcAt(c, "close")
    /\ UNCHANGED <<shared, node, fut, held, woken, adding, total>>
GetsLock(c) ==
    /\ mutex = NONE /\ mutex' = c
    /\ \/ pc[c] = "add" /\ queue # <<>> /\ PcAt(c, "locked")
       \/ pc[c] = "wake_drain" /\ wakers[c] = <<>> /\ PcAt(c, "drain")
    /\ UNCHANGED <<queue, drained, state, node, fut, held, woken, adding, total>>
WakeAt(c) ==
    /\ pc[c] \in {"wake", "wake_add", "wake_drain"}
    /\ woken \subseteq woken' /\ woken' \subseteq Clients
    /\ wakers' \in [Clients -> Seq(Clients \X Tasks)]
    /\ \A d \in Clients : d # c => wakers'[d] = wakers[d]
    /\ \A d, b \in Clients : pc[d] = "pending" /\ InSeq(<<d, fut[d].cx>>, wakers[b]) =>
            d \in woken' \/ InSeq(<<d, fut[d].cx>>, wakers'[b])
    /\ UNCHANGED <<shared, node, fut, held, add, total, pc>>

(* Permits are handed out under the lock. *)
First(c, d) == pc[c] = "locked" /\ queue # <<>> /\ queue[1] = d /\ InSeq(d, queue)
ServesPart(c, d) ==
    /\ First(c, d) /\ Status(d) = "Queued" /\ node[d].remaining > add[c]
    /\ NodeAt(d, "Queued", node[d].waker, node[d].remaining - add[c])
    /\ AddAt(c, 0) /\ mutex' = NONE /\ PcAt(c, "wake")
    /\ UNCHANGED <<queue, drained, state, fut, held, woken, wakers, total>>
ServesAll(c, d) ==
    /\ First(c, d) /\ node[d].remaining <= add[c] /\ TakeAt(c, d, 0)
    /\ \/ /\ queue' = <<>> /\ state' = 2 * (add[c] - node[d].remaining)
          /\ AddAt(c, 0) /\ mutex' = NONE /\ PcAt(c, "wake")
       \/ /\ queue' # <<>> /\ state' = state /\ AddAt(c, add[c] - node[d].remaining)
          /\ \/ add[c] = node[d].remaining /\ mutex' = NONE /\ PcAt(c, "wake")
             \/ mutex' = NONE /\ PcAt(c, "wake_add")
             \/ Len(wakers'[c]) # Capacity /\ mutex' = c /\ PcAt(c, "locked")
    /\ UNCHANGED <<fut, held, woken, total>>

(* A request of n permits gives an object that stands for s. *)
Request(n, s) == (n \in Sizes /\ s = n) \/ (n = 1 /\ s \in OwnedSizes)
Tries(c, n, s) ==
    /\ pc[c] = "idle" /\ Request(n, s) /\ CanAcquire(n) /\ state' = state - 2 * n
    /\ HeldAt(c, held[c] + s)
    /\ UNCHANGED <<queue, drained, mutex, node, fut, woken, adding, total, pc>>
Starts(c, n, s, k) ==
    /\ pc[c] = "idle" /\ Request(n, s) /\ FutAt(c, n, s, k, -1) /\ PcAt(c, "poll")
    /\ UNCHANGED <<shared, node, held, woken, adding, total>>
AcquiresNow(c) ==
    /\ pc[c] = "poll" /\ CanAcquire(fut[c].want) /\ state' = state - 2 * fut[c].want
    /\ HeldAt(c, held[c] + fut[c].size) /\ GoneAt(c) /\ PcAt(c, "idle")
    /\ UNCHANGED <<queue, drained, mutex, adding, total>>
AcquiresLate(c) ==
    /\ pc[c] \in {"pending", "lock"} /\ Status(c) = "Dequeued" /\ ~IsClosed
    /\ HeldAt(c, held[c] + fut[c].size) /\ GoneAt(c) /\ PcAt(c, "idle")
    /\ UNCHANGED <<shared, adding, total>>
StoresWaker(c) ==
    /\ pc[c] = "poll" /\ ~CanAcquire(fut[c].want) /\ ~IsClosed
    /\ FutAt(c, fut[c].want, fut[c].size, fut[c].cx, OptState)
    /\ NodeAt(c, Status(c), fut[c].cx, fut[c].want - PartOf(OptState))
    /\ PcAt(c, "enqueue") /\ UNCHANGED <<shared, held, woken, adding, total>>
Enqueues(c) ==
    /\ pc[c] = "enqueue" /\ OptState = fut[c].seen /\ queue' = Append(queue, c) /\ state' = 0
    /\ NodeAt(c, "Queued", node[c].waker, node[c].remaining)
    /\ FutAt(c, fut[c].want, fut[c].size, fut[c].cx, -1)
    /\ PcAt(c, "pending") /\ UNCHANGED <<drained, mutex, held, woken, adding, total>>
Repeats(c) ==
    /\ pc[c] = "enqueue" /\ FutAt(c, fut[c].want, fut[c].size, fut[c].cx, -1)
    /\ PcAt(c, "poll") /\ UNCHANGED <<shared, node, held, woken, adding, total>>
Polls(c, k) ==
    /\ pc[c] = "pending" /\ Status(c) = "Queued"
    /\ FutAt(c, fut[c].want, fut[c].size, k, fut[c].seen) /\ woken' = woken \ {c}
    /\ PcAt(c, "lock") /\ UNCHANGED <<shared, node, held, adding, total>>
UpdatesWaker(c) ==
    /\ pc[c] = "lock" /\ mutex = NONE /\ Status(c) = "Queued"
    /\ NodeAt(c, "Queued", fut[c].cx, node[c].remaining)
    /\ PcAt(c, "pending") /\ UNCHANGED <<shared, fut, held, woken, adding, total>>

(* The future is dropped. *)
DropsUnqueued(c) ==
    /\ pc[c] \in {"pending", "error"} /\ Status(c) = "Unqueued" /\ GoneAt(c)
    /\ PcAt(c, "idle") /\ UNCHANGED <<shared, held, adding, total>>
Cancels(c) ==
    /\ pc[c] = "cancel" /\ mutex = NONE /\ Status(c) = "Queued" /\ OutOfList(c) /\ GoneAt(c)
    /\ UNCHANGED <<held, wakers, total>>
CancelsAlone(c) ==
    /\ Cancels(c) /\ queue = <<c>> /\ (AbandonPartial \/ Part(c) = 0) /\ state' = Part(c)
    /\ queue' = <<>> /\ PcAt(c, "idle") /\ UNCHANGED <<mutex, add>>
CancelsNewest(c) ==
    /\ Cancels(c) /\ queue # <<>> /\ queue[1] # c /\ InSeq(c, queue)
    /\ PcAt(c, "idle") /\ UNCHANGED <<state, mutex, add>>
CancelsAhead(c) ==
    /\ Cancels(c) /\ InSeq(c, queue) /\ queue' # <<>> /\ AddAt(c, Part(c))
    /\ \/ Part(c) = 0 /\ PcAt(c, "idle") /\ mutex' = NONE
       \/ Part(c) > 0 /\ PcAt(c, "locked") /\ mutex' = c
    /\ UNCHANGED state
CancelsDrained(c) ==
    /\ Cancels(c) /\ (\E d \in Clients : InSeq(c, drained[d])) /\ state' = CheckAdd(state, Part(c))
    /\ PcAt(c, "idle") /\ UNCHANGED <<mutex, add>>

(* Permits are forgotten, and the semaphore is closed. *)
Forgets(c) ==
    /\ pc[c] = "idle" /\ total' = total - held[c] /\ HeldAt(c, 0)
    /\ UNCHANGED <<shared, node, fut, woken, adding, pc>>
ForgetsSome(c, n) ==
    /\ pc[c] = "idle" /\ queue = <<>> /\ state' = (state - 2 * n) % (UsizeMax + 1)
    /\ ~StateOverflows(state') /\ total' = total - n
    /\ UNCHANGED <<queue, drained, mutex, node, fut, held, woken, adding, pc>>
Closes(c) ==
    /\ pc[c] \in {"idle", "close"} /\ (Close(c) \/ CloseLock(c)) /\ queue = <<>>
    /\ state' = SetClosed(state) /\ PcAt(c, "idle")
    /\ UNCHANGED <<queue, drained, mutex, node, fut, held, woken, adding, total>>
DrainStarts(c) ==
    /\ pc[c] = "close" /\ CloseLock(c) /\ mutex = NONE /\ queue # <<>>
    /\ drained' = [drained EXCEPT ![c] = queue] /\ queue' = <<>> /\ state' = CLOSED
    /\ mutex' = c /\ PcAt(c, "drain") /\ UNCHANGED <<node, fut, held, woken, adding, total>>
DrainsNext(c, d) ==
    /\ pc[c] = "drain" /\ InSeq(d, drained[c]) /\ TakeAt(c, d, node[d].remaining)
    /\ \/ mutex' = NONE /\ PcAt(c, "wake_drain")
       \/ /\ drained'[c] = <<>> \/ Len(wakers'[c]) # Capacity
          /\ mutex' = c /\ PcAt(c, "drain")
    /\ UNCHANGED <<state, fut, held, woken, add, total>>
DrainEnds(c) ==
    /\ pc[c] = "drain" /\ drained[c] = <<>> /\ mutex' = NONE /\ PcAt(c, "wake")
    /\ UNCHANGED <<queue, drained, state, node, fut, held, woken, adding, total>>

AddSteps(c) ==
    AddsAgain(c) \/ Abandons(c) \/ \E n \in Nat : n \in Sizes /\ (AddsReleased(c, n) \/ AddsNew(c, n))
LockSteps(c) ==
    \/ Moves(c) \/ GetsLock(c) \/ WakeAt(c)
    \/ \E d \in Clients : ServesPart(c, d) \/ ServesAll(c, d) \/ DrainsNext(c, d)
AcquireSteps(c) ==
    \/ \E n, s \in Nat : Tries(c, n, s) \/ \E k \in Tasks : Starts(c, n, s, k)
    \/ AcquiresNow(c) \/ AcquiresLate(c) \/ StoresWaker(c) \/ Enqueues(c) \/ Repeats(c)
    \/ UpdatesWaker(c) \/ \E k \in Tasks : Polls(c, k)
DropSteps(c) ==
    DropsUnqueued(c) \/ CancelsAlone(c) \/ CancelsNewest(c) \/ CancelsAhead(c) \/ CancelsDrained(c)
CallSteps(c) ==
    \/ Forgets(c) \/ Closes(c) \/ DrainStarts(c) \/ DrainEnds(c)
    \/ \E n \in Sizes : ForgetsSome(c, n)
Steps(c) == AddSteps(c) \/ LockSteps(c) \/ AcquireSteps(c) \/ DropSteps(c) \/ CallSteps(c)

(* The permits that a waiter has been given are not negative. *)
LEMMA PartType ==
    ASSUME Types, WaitInv, NEW c \in Clients, Status(c) # "Unqueued"
    PROVE  Part(c) \in Nat
  <1>1. node[c].remaining \in Nat /\ fut[c].want \in Nat /\ node[c].remaining <= fut[c].want
    BY DEF Types, WaitInv
  <1> QED
    BY <1>1 DEF Part

(* A remainder is not larger than what is divided, ... *)
LEMMA RemainderBound ==
    ASSUME NEW s \in Nat, NEW m \in Nat, m > 0
    PROVE  s % m \in 0..s
  OBVIOUS

(* ... so a waiter that stores its waker lacks at least one permit. *)
LEMMA PartBound ==
    ASSUME Types, NEW n \in Nat, ~CanAcquire(n), ~IsClosed, n > 0
    PROVE  /\ OptState \in Nat \cup {-1}
           /\ PartOf(OptState) \in 0..n - 1
           /\ OptState # -1 => OptState < 2 * n /\ OptState % 2 = 0
  <1>1. U32Max + 1 \in Nat /\ U32Max + 1 > 0 /\ state \in Nat
    BY Parameters DEF Types
  <1>2. CASE queue = <<>>
    <2>1. OptState = state /\ state < 2 * n /\ state % 2 # 1
      BY <1>1, <1>2 DEF OptState, CanAcquire, IsClosed, CLOSED
    <2>2. PartOf(state) = (state % (U32Max + 1)) \div 2
      BY <1>1 DEF PartOf
    <2> DEFINE r == state % (U32Max + 1)
    <2>3. r \in 0..state
      BY <1>1, RemainderBound
    <2> HIDE DEF r
    <2>4. r \div 2 \in 0..n - 1 /\ state % 2 = 0
      BY <1>1, <2>1, <2>3
    <2> QED
      BY <1>1, <2>1, <2>2, <2>4 DEF r
  <1>3. CASE queue # <<>>
    BY <1>3 DEF OptState, PartOf
  <1> QED
    BY <1>2, <1>3

(* The head of the queue is a waiter. *)
LEMMA FirstEffect ==
    ASSUME Types, ListInv, RoomInv, NEW c \in Clients, pc[c] = "locked"
    PROVE  /\ Head(queue) \in Clients /\ First(c, Head(queue)) /\ Status(Head(queue)) = "Queued"
  <1>1. queue \in Seq(Clients) /\ queue # <<>>
    BY DEF Types, RoomInv
  <1>2. Head(queue) \in Clients /\ InSeq(Head(queue), queue) /\ Head(queue) = queue[1]
    BY <1>1, HeadTailList
  <1> QED
    BY <1>1, <1>2 DEF ListInv, First

(* add_permits_locked hands out all it has, ... *)
LEMMA ServePartEffect ==
    ASSUME Types, ListInv, RoomInv, NEW c \in Clients, ServePart(c), UNCHANGED <<held, total>>
    PROVE  \E d \in Clients : ServesPart(c, d)
  <1> DEFINE d == Head(queue)
  <1>1. d \in Clients /\ First(c, d) /\ Status(d) = "Queued"
    BY FirstEffect DEF ServePart
  <1>2. node[d].remaining > add[c] /\ node[d].remaining \in Nat /\ add[c] \in Nat
    BY <1>1 DEF ServePart, NotEnough, Types
  <1> DEFINE r == [node[d] EXCEPT !.remaining = node[d].remaining - add[c]]
  <1>3. node' = [node EXCEPT ![d] = r]
    BY Zenon DEF ServePart
  <1>4. /\ AddAt(c, 0) /\ PcAt(c, "wake") /\ mutex' = NONE
        /\ UNCHANGED <<queue, drained, state, fut, woken, wakers>>
    BY MoveEffect DEF ServePart, AddAt, Types, Points
  <1> HIDE DEF d
  <1>5. node[d] \in NodeRecord
    BY <1>1 DEF Types, NodeRecord
  <1>6. /\ r \in NodeRecord /\ r.status = node[d].status /\ r.waker = node[d].waker
        /\ r.remaining = node[d].remaining - add[c]
    BY <1>2, <1>5 DEF NodeRecord
  <1> HIDE DEF r
  <1>7. NodeAt(d, "Queued", node[d].waker, node[d].remaining - add[c])
    BY <1>1, <1>3, <1>6 DEF NodeAt, NodeRecord, Types, Status
  <1> QED
    BY <1>1, <1>2, <1>4, <1>7 DEF ServesPart

(* ... or all that the first waiter lacks. *)
LEMMA ServeAllEffect ==
    ASSUME Types, ListInv, RoomInv, WakerInv, NEW c \in Clients, ServeAll(c), UNCHANGED <<held, total>>
    PROVE  \E d \in Clients : ServesAll(c, d)
  <1> DEFINE d == Head(queue)
             n == add[c] - node[d].remaining
             end == queue' = <<>> \/ n = 0
             full == Len(wakers'[c]) = Capacity
  <1>1. d \in Clients /\ First(c, d) /\ Status(d) = "Queued"
    BY FirstEffect DEF ServeAll
  <1>2. node[d].remaining \in Nat /\ add[c] \in Nat /\ ~(node[d].remaining > add[c])
    BY <1>1 DEF ServeAll, NotEnough, Types
  <1>3. n \in Nat /\ node[d].remaining <= add[c] /\ (n = 0 <=> add[c] = node[d].remaining)
    BY <1>2
  <1>4. Take(c, d, 0) /\ UNCHANGED <<fut, woken>>
    BY DEF ServeAll
  <1>5. TakeAt(c, d, 0)
    BY <1>1, <1>4, TakeEffect
  <1>6. /\ state' = IF queue' = <<>> THEN 2 * n ELSE state
        /\ add' = [add EXCEPT ![c] = IF queue' = <<>> THEN 0 ELSE n]
        /\ mutex' = IF end \/ full THEN NONE ELSE c
        /\ Goto(c, IF end THEN "wake" ELSE IF full THEN "wake_add" ELSE "locked")
    BY Zenon DEF ServeAll, Leftover
  <1> HIDE DEF d, n
  <1>7. AddAt(c, IF queue' = <<>> THEN 0 ELSE n)
    BY <1>3, <1>6 DEF AddAt, Types
  <1>8. PcAt(c, IF end THEN "wake" ELSE IF full THEN "wake_add" ELSE "locked")
    BY <1>6, MoveEffect DEF Points
  <1>9. CASE queue' = <<>>
    BY <1>1, <1>3, <1>4, <1>5, <1>6, <1>7, <1>8, <1>9 DEF ServesAll, n
  <1>10. CASE queue' # <<>> /\ n = 0
    BY <1>1, <1>3, <1>4, <1>5, <1>6, <1>7, <1>8, <1>10 DEF ServesAll, n
  <1>11. CASE queue' # <<>> /\ n # 0 /\ full
    BY <1>1, <1>3, <1>4, <1>5, <1>6, <1>7, <1>8, <1>11 DEF ServesAll, n
  <1>12. CASE queue' # <<>> /\ n # 0 /\ ~full
    BY <1>1, <1>3, <1>4, <1>5, <1>6, <1>7, <1>8, <1>12 DEF ServesAll, n
  <1> QED
    BY <1>9, <1>10, <1>11, <1>12

(* A waker is taken from the list and woken. *)
LEMMA WakeEffect ==
    ASSUME Types, NEW c \in Clients, Wake(c), UNCHANGED <<held, total>>
    PROVE  WakeAt(c)
  <1> DEFINE w == Head(wakers[c])
  <1>1. /\ wakers[c] \in Seq(Clients \X Tasks) /\ wakers[c] # <<>>
        /\ wakers' = [wakers EXCEPT ![c] = Tail(wakers[c])]
    BY DEF Types, Wake
  <1>2. w \in Clients \X Tasks /\ Tail(wakers[c]) \in Seq(Clients \X Tasks)
    BY <1>1, HeadTailList
  <1>3. woken' = woken \cup {d \in {w[1]} : pc[d] # "idle" /\ fut[d].cx = w[2]}
    BY Zenon DEF Wake
  <1>4. \A x : InSeq(x, wakers[c]) => x = w \/ InSeq(x, Tail(wakers[c]))
    BY <1>1, HeadTailList
  <1> HIDE DEF w
  <1>5. woken \subseteq woken' /\ woken' \subseteq Clients
    BY <1>2, <1>3 DEF Types
  <1>6. ASSUME NEW d \in Clients, NEW b \in Clients, pc[d] = "pending", InSeq(<<d, fut[d].cx>>, wakers[b])
        PROVE  d \in woken' \/ InSeq(<<d, fut[d].cx>>, wakers'[b])
    <2>1. CASE b # c
      BY <1>1, <1>6, <2>1 DEF Types
    <2>2. CASE b = c /\ w = <<d, fut[d].cx>>
      BY <1>3, <1>6, <2>2
    <2>3. CASE b = c /\ w # <<d, fut[d].cx>>
      <3>1. InSeq(<<d, fut[d].cx>>, Tail(wakers[c]))
        BY <1>4, <1>6, <2>3
      <3>2. wakers'[c] = Tail(wakers[c])
        BY <1>1 DEF Types
      <3> QED
        BY <2>3, <3>1, <3>2
    <2> QED
      BY <2>1, <2>2, <2>3
  <1>7. /\ wakers' \in [Clients -> Seq(Clients \X Tasks)]
        /\ \A d \in Clients : d # c => wakers'[d] = wakers[d]
    BY <1>1, <1>2 DEF Types
  <1> QED
    BY <1>5, <1>6, <1>7 DEF Wake, WakeAt, shared

(* The queue is locked for the rest of add_permits. *)
LEMMA AddLockEffect ==
    ASSUME Types, NEW c \in Clients, AddLock(c), UNCHANGED <<held, total>>
    PROVE  Steps(c)
  <1>1. add[c] \in Nat
    BY DEF Types
  <1>2. CASE AddPermits(c, add[c]) /\ queue = <<>>
    <2>1. AddsAt(c, add[c])
      BY <1>1, <1>2, AddEffect
    <2> QED
      BY <1>2, <2>1 DEF AddLock, AddsAgain, AddSteps, Steps
  <1>3. CASE mutex' = c /\ Goto(c, "locked") /\ queue # <<>> /\ UNCHANGED <<queue, drained, state, adding>>
    <2>1. PcAt(c, "locked")
      BY <1>3, MoveEffect DEF Points
    <2> QED
      BY <1>3, <2>1 DEF AddLock, GetsLock, LockSteps, Steps
  <1> QED
    BY <1>2, <1>3 DEF AddLock, EmptyWhenLocked

(* The wakers of the list are woken. *)
LEMMA WakeEndEffect ==
    ASSUME Types, NEW c \in Clients, WakeEnd(c), UNCHANGED <<held, total>>
    PROVE  Steps(c)
  <1>1. add[c] \in Nat
    BY DEF Types
  <1>2. CASE pc[c] = "wake" /\ Goto(c, "idle") /\ UNCHANGED <<shared, adding>>
    <2>1. PcAt(c, "idle")
      BY <1>2, MoveEffect DEF Points
    <2> QED
      BY <1>2, <2>1 DEF WakeEnd, Moves, LockSteps, Steps
  <1>3. CASE pc[c] = "wake_add" /\ AddPermits(c, add[c])
    <2>1. AddsAt(c, add[c])
      BY <1>1, <1>3, AddEffect
    <2> QED
      BY <1>3, <2>1 DEF WakeEnd, AddsAgain, AddSteps, Steps
  <1>4. CASE /\ pc[c] = "wake_drain" /\ mutex = NONE /\ mutex' = c /\ Goto(c, "drain")
             /\ UNCHANGED <<queue, drained, state, adding>>
    <2>1. PcAt(c, "drain")
      BY <1>4, MoveEffect DEF Points
    <2> QED
      BY <1>4, <2>1 DEF WakeEnd, GetsLock, LockSteps, Steps
  <1> QED
    BY <1>2, <1>3, <1>4 DEF WakeEnd

(* The permits that a client holds, and a change of their number. *)
LEMMA HeldEffect ==
    ASSUME Types, NEW c \in Clients
    PROVE  /\ held[c] \in Nat
           /\ \A m \in Nat : held' = [held EXCEPT ![c] = m] => HeldAt(c, m)
  <1>1. held \in [Clients -> Nat]
    BY DEF Types
  <1> QED
    BY <1>1 DEF HeldAt

(* poll of a future whose node is not queued yet. *)
LEMMA PollUnqueuedEffect ==
    ASSUME Types, NEW c \in Clients, fut[c].want > 0, PollUnqueued(c), UNCHANGED <<adding, total>>
    PROVE  Steps(c)
  <1>1. fut[c].want \in Nat /\ fut[c].size \in Nat /\ held[c] \in Nat
    BY DEF Types
  <1>2. CASE CanAcquire(fut[c].want) /\ state' = state - 2 * fut[c].want /\ Acquired(c)
    <2>0. held' = [held EXCEPT ![c] = held[c] + fut[c].size]
      BY <1>2 DEF Acquired
    <2>a. held[c] + fut[c].size \in Nat
      BY <1>1
    <2>1. HeldAt(c, held[c] + fut[c].size)
      BY <2>a, <2>0, HeldEffect, Zenon
    <2>2. GoneAt(c) /\ PcAt(c, "idle")
      BY <1>2, GoneEffect, MoveEffect DEF Acquired, Points
    <2> QED
      BY <1>2, <2>1, <2>2 DEF PollUnqueued, AcquiresNow, AcquireSteps, Steps
  <1>3. CASE IsClosed /\ Error(c) /\ UNCHANGED state
    <2>1. PcAt(c, "error")
      BY <1>3, MoveEffect DEF Error, Points
    <2> QED
      BY <1>3, <2>1 DEF PollUnqueued, Error, Moves, LockSteps, Steps, shared
  <1>4. CASE /\ ~CanAcquire(fut[c].want) /\ ~IsClosed
             /\ fut' = [fut EXCEPT ![c].seen = OptState]
             /\ node' = [node EXCEPT ![c].remaining = fut[c].want - PartOf(OptState),
                                     ![c].waker = fut[c].cx]
             /\ Goto(c, "enqueue")
             /\ UNCHANGED <<state, held, woken>>
    <2>1. OptState \in Nat \cup {-1} /\ PartOf(OptState) \in 0..fut[c].want - 1
      BY <1>1, <1>4, PartBound
    <2> DEFINE m == OptState
               n == fut[c].want - PartOf(OptState)
               q == [fut[c] EXCEPT !.seen = m]
               r == [[node[c] EXCEPT !.remaining = n] EXCEPT !.waker = fut[c].cx]
    <2>2. fut' = [fut EXCEPT ![c] = q]
      BY <1>4, Zenon
    <2>3. node' = [node EXCEPT ![c] = r]
      BY <1>4 DEF Types
    <2>4. n \in Nat /\ m \in Nat \cup {-1}
      BY <1>1, <2>1
    <2> HIDE DEF m, n
    <2>5. fut[c] \in FutRecord /\ node[c] \in NodeRecord /\ fut[c].cx \in Tasks \cup {NONE}
      BY DEF Types, FutRecord, NodeRecord
    <2>6. /\ q \in FutRecord /\ q.want = fut[c].want /\ q.size = fut[c].size /\ q.cx = fut[c].cx
          /\ q.seen = m
      BY <2>4, <2>5 DEF FutRecord
    <2>7. r \in NodeRecord /\ r.status = node[c].status /\ r.waker = fut[c].cx /\ r.remaining = n
      BY <2>4, <2>5 DEF NodeRecord
    <2> HIDE DEF q, r
    <2>8. FutAt(c, fut[c].want, fut[c].size, fut[c].cx, m)
      BY <2>2, <2>6 DEF FutAt, FutRecord, Types
    <2>9. NodeAt(c, Status(c), fut[c].cx, n)
      BY <2>3, <2>7 DEF NodeAt, NodeRecord, Types, Status
    <2>10. PcAt(c, "enqueue")
      BY <1>4, MoveEffect DEF Points
    <2>11. StoresWaker(c)
      BY <1>4, <2>8, <2>9, <2>10 DEF PollUnqueued, StoresWaker, m, n, shared
    <2> QED
      BY <2>11 DEF AcquireSteps, Steps
  <1> QED
    BY <1>2, <1>3, <1>4 DEF PollUnqueued

(* The insertion succeeds, or the state has changed. *)
LEMMA PollEnqueueEffect ==
    ASSUME Types, NEW c \in Clients, PollEnqueue(c), UNCHANGED <<adding, total>>
    PROVE  Steps(c)
  <1> DEFINE q == [fut[c] EXCEPT !.seen = -1]
             r == [node[c] EXCEPT !.status = "Queued"]
  <1>1. fut' = [fut EXCEPT ![c] = q] /\ fut[c] \in FutRecord /\ node[c] \in NodeRecord
    BY DEF PollEnqueue, Types, FutRecord, NodeRecord
  <1>2. /\ q \in FutRecord /\ q.want = fut[c].want /\ q.size = fut[c].size /\ q.cx = fut[c].cx
        /\ q.seen = -1
    BY <1>1 DEF FutRecord
  <1>3. /\ r \in NodeRecord /\ r.status = "Queued" /\ r.waker = node[c].waker
        /\ r.remaining = node[c].remaining
    BY <1>1 DEF NodeRecord
  <1> HIDE DEF q
  <1>4. FutAt(c, fut[c].want, fut[c].size, fut[c].cx, -1)
    BY <1>1, <1>2 DEF FutAt, FutRecord, Types
  <1>5. CASE /\ OptState = fut[c].seen /\ queue' = Append(queue, c) /\ state' = 0
             /\ node' = [node EXCEPT ![c].status = "Queued"] /\ Goto(c, "pending")
    <2>1. node' = [node EXCEPT ![c] = r]
      BY <1>5, Zenon
    <2> HIDE DEF r
    <2>2. NodeAt(c, "Queued", node[c].waker, node[c].remaining)
      BY <1>3, <2>1 DEF NodeAt, NodeRecord, Types
    <2>3. PcAt(c, "pending")
      BY <1>5, MoveEffect DEF Points
    <2>4. Enqueues(c)
      BY <1>4, <1>5, <2>2, <2>3 DEF PollEnqueue, Enqueues
    <2> QED
      BY <2>4 DEF AcquireSteps, Steps
  <1>6. CASE Goto(c, "poll") /\ UNCHANGED <<queue, state, node>>
    <2>1. PcAt(c, "poll")
      BY <1>6, MoveEffect DEF Points
    <2>2. Repeats(c)
      BY <1>4, <1>6, <2>1 DEF PollEnqueue, Repeats, shared
    <2> QED
      BY <2>2 DEF AcquireSteps, Steps
  <1> QED
    BY <1>5, <1>6 DEF PollEnqueue, EnqueueMatches

(* The node was dequeued: the permits are there, or close was called. *)
LEMMA PollDequeuedEffect ==
    ASSUME Types, NEW c \in Clients, pc[c] \in {"pending", "lock"}, PollDequeued(c),
           UNCHANGED <<shared, adding, total>>
    PROVE  Steps(c)
  <1>1. fut[c].size \in Nat /\ held[c] \in Nat
    BY DEF Types
  <1>2. CASE ~IsClosed /\ Acquired(c)
    <2>0. held' = [held EXCEPT ![c] = held[c] + fut[c].size]
      BY <1>2 DEF Acquired
    <2>a. held[c] + fut[c].size \in Nat
      BY <1>1
    <2>1. HeldAt(c, held[c] + fut[c].size)
      BY <2>a, <2>0, HeldEffect, Zenon
    <2>2. GoneAt(c) /\ PcAt(c, "idle")
      BY <1>2, GoneEffect, MoveEffect DEF Acquired, Points
    <2> QED
      BY <1>2, <2>1, <2>2 DEF PollDequeued, AcquiresLate, AcquireSteps, Steps
  <1>3. CASE IsClosed /\ Error(c)
    <2>1. PcAt(c, "error")
      BY <1>3, MoveEffect DEF Error, Points
    <2> QED
      BY <1>3, <2>1 DEF Error, Moves, LockSteps, Steps
  <1> QED
    BY <1>2, <1>3 DEF PollDequeued

(* A pending future is polled, ... *)
LEMMA PollEffect ==
    ASSUME Types, NEW c \in Clients, NEW k \in Tasks, Poll(c, k), UNCHANGED <<adding, total>>
    PROVE  Steps(c)
  <1>1. CASE PollDequeued(c)
    BY <1>1, PollDequeuedEffect DEF Poll
  <1>2. CASE /\ Status(c) = "Queued" /\ Goto(c, "lock") /\ fut' = [fut EXCEPT ![c].cx = k]
             /\ woken' = woken \ {c} /\ UNCHANGED <<node, held>>
    <2> DEFINE q == [fut[c] EXCEPT !.cx = k]
    <2>1. fut' = [fut EXCEPT ![c] = q]
      BY <1>2, Zenon
    <2>2. fut[c] \in FutRecord
      BY DEF Types, FutRecord
    <2>3. /\ q \in FutRecord /\ q.want = fut[c].want /\ q.size = fut[c].size /\ q.cx = k
          /\ q.seen = fut[c].seen
      BY <2>2 DEF FutRecord
    <2> HIDE DEF q
    <2>4. FutAt(c, fut[c].want, fut[c].size, k, fut[c].seen)
      BY <2>1, <2>3 DEF FutAt, FutRecord, Types
    <2>5. PcAt(c, "lock")
      BY <1>2, MoveEffect DEF Points
    <2>6. Polls(c, k)
      BY <1>2, <2>4, <2>5 DEF Poll, Polls
    <2> QED
      BY <2>6 DEF AcquireSteps, Steps
  <1> QED
    BY <1>1, <1>2 DEF Poll

(* ... and looks at its node again with the lock. *)
LEMMA PollLockedEffect ==
    ASSUME Types, NEW c \in Clients, PollLocked(c), UNCHANGED <<adding, total>>
    PROVE  Steps(c)
  <1>1. CASE PollDequeued(c)
    BY <1>1, PollDequeuedEffect DEF PollLocked
  <1>2. CASE Status(c) = "Queued" /\ IsClosed /\ Error(c)
    <2>1. PcAt(c, "error")
      BY <1>2, MoveEffect DEF Error, Points
    <2> QED
      BY <1>2, <2>1 DEF PollLocked, Error, Moves, LockSteps, Steps
  <1>3. CASE /\ Status(c) = "Queued" /\ node' = [node EXCEPT ![c].waker = fut[c].cx]
             /\ Goto(c, "pending") /\ UNCHANGED <<fut, held, woken>>
    <2> DEFINE r == [node[c] EXCEPT !.waker = fut[c].cx]
    <2>1. node' = [node EXCEPT ![c] = r]
      BY <1>3, Zenon
    <2>2. node[c] \in NodeRecord /\ fut[c].cx \in Tasks \cup {NONE}
      BY DEF Types, NodeRecord
    <2>3. /\ r \in NodeRecord /\ r.status = node[c].status /\ r.waker = fut[c].cx
          /\ r.remaining = node[c].remaining
      BY <2>2 DEF NodeRecord
    <2> HIDE DEF r
    <2>4. NodeAt(c, "Queued", fut[c].cx, node[c].remaining)
      <3>1. node[c].status = "Queued"
        BY <1>3 DEF Status
      <3> QED
        BY <2>1, <2>3, <3>1 DEF NodeAt, NodeRecord, Types
    <2>5. PcAt(c, "pending")
      BY <1>3, MoveEffect DEF Points
    <2>6. UpdatesWaker(c)
      BY <1>3, <2>4, <2>5 DEF PollLocked, UpdatesWaker
    <2> QED
      BY <2>6 DEF AcquireSteps, Steps
  <1> QED
    BY <1>1, <1>2, <1>3 DEF PollLocked

(* The future is dropped, ... *)
LEMMA DropEffect ==
    ASSUME Types, WaitInv, NEW c \in Clients, Drop(c), UNCHANGED <<held, total>>
    PROVE  Steps(c)
  <1>1. CASE Status(c) = "Unqueued" /\ Goto(c, "idle") /\ Gone(c) /\ UNCHANGED <<shared, adding>>
    <2>1. GoneAt(c) /\ PcAt(c, "idle")
      BY <1>1, GoneEffect, MoveEffect DEF Points
    <2> QED
      BY <1>1, <2>1 DEF Drop, DropsUnqueued, DropSteps, Steps
  <1>2. CASE Status(c) = "Dequeued" /\ AddPermits(c, Part(c)) /\ Gone(c)
    <2>1. AddsAt(c, Part(c)) /\ GoneAt(c)
      BY <1>2, GoneEffect, AddEffect, PartType
    <2> QED
      BY <1>2, <2>1 DEF Drop, Abandons, AddSteps, Steps
  <1>3. CASE Status(c) = "Queued" /\ Goto(c, "cancel") /\ UNCHANGED <<shared, node, fut, woken, adding>>
    <2>1. PcAt(c, "cancel")
      BY <1>3, MoveEffect DEF Points
    <2> QED
      BY <1>3, <2>1 DEF Drop, Moves, LockSteps, Steps
  <1> QED
    BY <1>1, <1>2, <1>3 DEF Drop

(* ... and its node is taken out of the list. *)
LEMMA CancelEffect ==
    ASSUME Types, ListInv, WaitInv, NEW c \in Clients, CancelLocked(c), UNCHANGED <<held, total>>
    PROVE  Steps(c)
  <1>0. GoneAt(c) /\ pc[c] = "cancel" /\ mutex = NONE
    BY GoneEffect DEF CancelLocked
  <1>1. CASE Status(c) = "Dequeued" /\ AddPermits(c, Part(c))
    <2>1. AddsAt(c, Part(c))
      BY <1>1, AddEffect, PartType
    <2> QED
      BY <1>0, <1>1, <2>1 DEF Abandons, AddSteps, Steps
  <1>2. CASE /\ Status(c) = "Queued" /\ TakeOut(c)
             /\ CancelAlone(c) \/ CancelNewest(c) \/ CancelAhead(c) \/ CancelDrained(c)
    <2>1. OutOfList(c) /\ Part(c) \in Nat
      BY <1>2, TakeOutEffect, PartType
    <2>2. queue \in Seq(Clients) /\ Distinct(queue) /\ Len(queue) \in Nat /\ queue' = Without(queue, c)
      BY <1>2 DEF Types, ListInv, TakeOut
    <2>3. Cancels(c) <=> UNCHANGED wakers
      BY <1>0, <1>2, <2>1 DEF Cancels
    <2>4. CASE CancelAlone(c)
      <3>1. PcAt(c, "idle")
        BY <2>4, MoveEffect DEF CancelAlone, Points
      <3>2. queue' = <<>>
        <4>0. \A x : InSeq(x, <<c>>) => x = c
          BY DEF InSeq
        <4>1. \A x : ~InSeq(x, queue')
          BY <2>1, <2>4, <4>0 DEF OutOfList, CancelAlone
        <4> QED
          BY <2>1, <4>1, EmptyList DEF OutOfList
      <3>3. CancelsAlone(c)
        BY <2>3, <2>4, <3>1, <3>2 DEF CancelAlone, CancelsAlone, adding
      <3> QED
        BY <3>3 DEF DropSteps, Steps
    <2>5. CASE CancelNewest(c)
      <3>1. PcAt(c, "idle")
        BY <2>5, MoveEffect DEF CancelNewest, Points
      <3>2. queue # <<>> /\ queue[1] # c /\ InSeq(c, queue)
        <4>1. 1 \in 1..Len(queue) /\ Len(queue) \in 1..Len(queue) /\ Len(queue) # 1 /\ queue[Len(queue)] = c
          BY <2>2, <2>5 DEF CancelNewest
        <4>2. queue # <<>>
          BY <2>2, <4>1, EmptyList
        <4> QED
          BY <2>2, <4>1, <4>2 DEF Distinct, InSeq
      <3>3. CancelsNewest(c)
        BY <2>3, <2>5, <3>1, <3>2 DEF CancelNewest, CancelsNewest, adding
      <3> QED
        BY <3>3 DEF DropSteps, Steps
    <2>6. CASE CancelAhead(c)
      <3>1. PICK i \in 1..Len(queue) - 1 : queue[i] = c
        BY <2>6 DEF CancelAhead
      <3>2. i \in 1..Len(queue) /\ Len(queue) > 1
        BY <2>2
      <3>3. InSeq(c, queue) /\ queue' # <<>>
        BY <2>2, <3>1, <3>2, OthersWithout DEF InSeq
      <3>4. AddAt(c, Part(c))
        BY <2>1, <2>6 DEF CancelAhead, PassedOn, AddAt, Types
      <3>5. /\ Goto(c, IF Part(c) > 0 THEN "locked" ELSE "idle")
            /\ mutex' = IF Part(c) > 0 THEN c ELSE NONE
            /\ UNCHANGED <<state, wakers>>
        BY <2>6 DEF CancelAhead, PassedOn
      <3>6. PcAt(c, IF Part(c) > 0 THEN "locked" ELSE "idle")
        BY <3>5, MoveEffect DEF Points
      <3>7. CancelsAhead(c)
        BY <2>1, <2>3, <3>3, <3>4, <3>5, <3>6 DEF CancelsAhead
      <3> QED
        BY <3>7 DEF DropSteps, Steps
    <2>7. CASE CancelDrained(c)
      <3>1. PcAt(c, "idle")
        BY <2>7, MoveEffect DEF CancelDrained, Points
      <3>2. CancelsDrained(c)
        BY <2>3, <2>7, <3>1 DEF CancelDrained, CancelsDrained, adding
      <3> QED
        BY <3>2 DEF DropSteps, Steps
    <2> QED
      BY <1>2, <2>4, <2>5, <2>6, <2>7
  <1> QED
    BY <1>1, <1>2 DEF CancelLocked

(* close finds the queue empty, or drains it. *)
LEMMA CloseLockEffect ==
    ASSUME Types, NEW c \in Clients, CloseLock(c), UNCHANGED <<held, total>>
    PROVE  Steps(c)
  <1>1. CASE /\ queue = <<>> /\ state' = SetClosed(state) /\ Goto(c, "idle")
             /\ UNCHANGED <<queue, drained, mutex>>
    <2>1. PcAt(c, "idle")
      BY <1>1, MoveEffect DEF Points
    <2>2. pc[c] = "close" /\ UNCHANGED <<node, fut, woken, adding>>
      BY DEF CloseLock
    <2>3. Closes(c)
      BY <1>1, <2>1, <2>2 DEF Closes
    <2> QED
      BY <2>3 DEF CallSteps, Steps
  <1>2. CASE /\ queue # <<>> /\ drained' = [drained EXCEPT ![c] = queue] /\ queue' = <<>>
             /\ state' = CLOSED /\ mutex' = c /\ Goto(c, "drain")
    <2>1. PcAt(c, "drain")
      BY <1>2, MoveEffect DEF Points
    <2>2. pc[c] = "close" /\ mutex = NONE /\ UNCHANGED <<node, fut, woken, adding>>
      BY DEF CloseLock
    <2>3. DrainStarts(c)
      BY <1>2, <2>1, <2>2 DEF DrainStarts
    <2> QED
      BY <2>3 DEF CallSteps, Steps
  <1> QED
    BY <1>1, <1>2 DEF CloseLock, StateAfterDrain

(* A drain takes the next node. *)
LEMMA DrainNextEffect ==
    ASSUME Types, ListInv, WakerInv, NEW c \in Clients, DrainNext(c), UNCHANGED <<held, total>>
    PROVE  Steps(c)
  <1> DEFINE d == Head(drained[c])
             full == Len(wakers'[c]) = Capacity /\ drained'[c] # <<>>
  <1>1. drained[c] \in Seq(Clients) /\ drained[c] # <<>>
    BY DEF Types, DrainNext
  <1>2. d \in Clients /\ InSeq(d, drained[c])
    BY <1>1, HeadTailList
  <1>3. /\ Take(c, d, node[d].remaining) /\ pc[c] = "drain" /\ UNCHANGED <<state, fut, woken, add>>
        /\ mutex' = (IF full THEN NONE ELSE c) /\ Goto(c, IF full THEN "wake_drain" ELSE "drain")
    BY Zenon DEF DrainNext
  <1> HIDE DEF d
  <1>4. Status(d) = "Queued" /\ node[d].remaining \in Nat
    BY <1>2 DEF ListInv, Types
  <1>5. TakeAt(c, d, node[d].remaining)
    BY <1>2, <1>3, <1>4, TakeEffect
  <1>6. PcAt(c, IF full THEN "wake_drain" ELSE "drain")
    BY <1>3, MoveEffect DEF Points
  <1>7. DrainsNext(c, d)
    BY <1>2, <1>3, <1>5, <1>6 DEF DrainsNext
  <1> QED
    BY <1>2, <1>7 DEF LockSteps, Steps

(* The drain is over. *)
LEMMA DrainEndEffect ==
    ASSUME Types, NEW c \in Clients, DrainEnd(c), UNCHANGED <<held, total>>
    PROVE  Steps(c)
  <1>1. PcAt(c, "wake")
    BY MoveEffect DEF DrainEnd, Points
  <1>2. wakers' = wakers
    BY DEF DrainEnd, LeftWakers, Types
  <1>3. DrainEnds(c)
    BY <1>1, <1>2 DEF DrainEnd, DrainEnds, adding
  <1> QED
    BY <1>3 DEF CallSteps, Steps

(* try_acquire_many or acquire_many. *)
LEMMA BeginEffect ==
    ASSUME Types, NEW c \in Clients, NEW n \in Nat, NEW s \in Nat, Request(n, s), NEW k \in Tasks,
           TryAcquire(c, n, s) \/ Acquire(c, n, s, k), UNCHANGED total
    PROVE  Steps(c)
  <1>1. CASE TryAcquire(c, n, s)
    <2>1. held' = [held EXCEPT ![c] = held[c] + s] /\ held[c] \in Nat
      BY <1>1, HeldEffect DEF TryAcquire
    <2>a. held[c] + s \in Nat
      BY <2>1
    <2>2. HeldAt(c, held[c] + s)
      BY <2>1, <2>a, HeldEffect, Zenon
    <2>3. Tries(c, n, s)
      BY <1>1, <2>2 DEF TryAcquire, Tries
    <2> QED
      BY <2>3 DEF AcquireSteps, Steps
  <1>2. CASE Acquire(c, n, s, k)
    <2>1. FutAt(c, n, s, k, -1)
      BY <1>2 DEF Acquire, FutAt, FutRecord, Types
    <2>2. PcAt(c, "poll")
      BY <1>2, MoveEffect DEF Acquire, Points
    <2>3. Starts(c, n, s, k)
      BY <1>2, <2>1, <2>2 DEF Acquire, Starts
    <2> QED
      BY <2>3 DEF AcquireSteps, Steps
  <1> QED
    BY <1>1, <1>2

(* Permits are released. *)
LEMMA ReleaseEffect ==
    ASSUME Types, NEW c \in Clients, NEW n \in Nat, n \in Sizes, Release(c, n), UNCHANGED total
    PROVE  Steps(c)
  <1>1. held[c] \in Nat /\ n \in 1..held[c] /\ held' = [held EXCEPT ![c] = held[c] - n]
    BY DEF Release, Types
  <1>a. held[c] - n \in Nat
    BY <1>1
  <1>2. HeldAt(c, held[c] - n)
    BY <1>1, <1>a, HeldEffect, Zenon
  <1>3. AddsAt(c, n)
    BY AddEffect DEF Release
  <1>4. AddsReleased(c, n)
    BY <1>1, <1>2, <1>3 DEF Release, AddsReleased
  <1> QED
    BY <1>4 DEF AddSteps, Steps

(* Permits are added or forgotten, or the semaphore is closed. *)
LEMMA CallEffect ==
    ASSUME Types, NEW c \in Clients, Call(c)
    PROVE  Steps(c) /\ calls' \in 0..MaxCalls
  <1>0. /\ pc[c] = "idle" /\ UNCHANGED <<node, fut, woken>>
        /\ calls' = calls + 1 /\ calls < MaxCalls
    BY DEF Call
  <1>1. calls' \in 0..MaxCalls
    BY <1>0, Parameters DEF Types
  <1>2. CASE Forget(c)
    <2>1. held' = [held EXCEPT ![c] = 0]
      BY <1>2 DEF Forget
    <2>2. HeldAt(c, 0)
      BY <2>1 DEF HeldAt, Types
    <2>3. Forgets(c)
      BY <1>0, <1>2, <2>2 DEF Forget, Forgets
    <2> QED
      BY <1>1, <2>3 DEF CallSteps, Steps
  <1>3. CASE Close(c)
    <2>1. PcAt(c, IF queue = <<>> THEN "idle" ELSE "close")
      BY <1>3, MoveEffect DEF Close, Points
    <2>2. CASE queue = <<>>
      <3>1. Closes(c)
        BY <1>0, <1>3, <2>1, <2>2 DEF Close, Closes
      <3> QED
        BY <1>1, <3>1 DEF CallSteps, Steps
    <2>3. CASE queue # <<>>
      <3>1. Moves(c)
        BY <1>0, <1>3, <2>1, <2>3 DEF Close, Moves, shared
      <3> QED
        BY <1>1, <3>1 DEF LockSteps, Steps
    <2> QED
      BY <2>2, <2>3
  <1>4. ASSUME NEW n \in Sizes, AddNew(c, n) PROVE Steps(c)
    <2>1. n \in Nat
      BY Parameters
    <2>2. AddsAt(c, n)
      BY <1>4, <2>1, AddEffect DEF AddNew
    <2>3. AddsNew(c, n)
      BY <1>0, <1>4, <2>2 DEF AddNew, AddsNew
    <2> QED
      BY <2>1, <2>3 DEF AddSteps, Steps
  <1>5. ASSUME NEW n \in Sizes, ForgetPermits(c, n) PROVE Steps(c)
    <2> DEFINE s == (state - 2 * n) % (UsizeMax + 1)
    <2>1. queue = <<>> /\ UNCHANGED <<queue, drained, mutex, held, adding>>
      BY <1>5 DEF ForgetPermits
    <2>2. \/ Goto(c, "panic") /\ UNCHANGED <<state, total>>
          \/ ~StateOverflows(s) /\ state' = s /\ total' = total - n /\ UNCHANGED pc
      BY <1>5, Zenon DEF ForgetPermits
    <2> HIDE DEF s
    <2>3. CASE Goto(c, "panic") /\ UNCHANGED <<state, total>>
      <3>1. PcAt(c, "panic")
        BY <2>3, MoveEffect DEF Points
      <3>2. Moves(c)
        BY <1>0, <2>1, <2>3, <3>1 DEF Moves, shared
      <3> QED
        BY <3>2 DEF LockSteps, Steps
    <2>4. CASE ~StateOverflows(s) /\ state' = s /\ total' = total - n /\ UNCHANGED pc
      <3>1. ForgetsSome(c, n)
        BY <1>0, <2>1, <2>4 DEF ForgetsSome, s
      <3> QED
        BY <3>1 DEF CallSteps, Steps
    <2> QED
      BY <2>2, <2>3, <2>4
  <1> QED
    BY <1>1, <1>2, <1>3, <1>4, <1>5 DEF Call

(* Every step is one of these. *)
LEMMA StepCases ==
    ASSUME IInv, [Next]_vars
    PROVE  /\ calls' \in 0..MaxCalls
           /\ (\E c \in Clients : Steps(c)) \/ UNCHANGED vars
  <1> USE DEF IInv
  <1>1. UNCHANGED calls => calls' \in 0..MaxCalls
    BY DEF Types
  <1>2. CASE UNCHANGED vars
    BY <1>1, <1>2 DEF vars
  <1>3. ASSUME NEW c \in Clients, Step(c) PROVE Steps(c) /\ UNCHANGED calls
    <2>1. UNCHANGED <<total, calls>>
      BY <1>3 DEF Step
    <2>2. CASE UNCHANGED held
      <3>1. AddLock(c) => Steps(c)
        BY <2>1, <2>2, AddLockEffect
      <3>2. ServePart(c) => Steps(c)
        BY <2>1, <2>2, ServePartEffect DEF LockSteps, Steps
      <3>3. ServeAll(c) => Steps(c)
        BY <2>1, <2>2, ServeAllEffect DEF LockSteps, Steps
      <3>4. Wake(c) => Steps(c)
        BY <2>1, <2>2, WakeEffect DEF LockSteps, Steps
      <3>5. WakeEnd(c) => Steps(c)
        BY <2>1, <2>2, WakeEndEffect
      <3>6. CancelLocked(c) => Steps(c)
        BY <2>1, <2>2, CancelEffect
      <3>7. CloseLock(c) => Steps(c)
        BY <2>1, <2>2, CloseLockEffect
      <3>8. DrainNext(c) => Steps(c)
        BY <2>1, <2>2, DrainNextEffect
      <3>9. DrainEnd(c) => Steps(c)
        BY <2>1, <2>2, DrainEndEffect
      <3>10. UNCHANGED adding /\ PollEnqueue(c) => Steps(c)
        BY <2>1, PollEnqueueEffect
      <3>11. UNCHANGED adding /\ PollUnqueued(c) => Steps(c)
        BY <2>1, PollUnqueuedEffect DEF AskInv, PollUnqueued
      <3>12. UNCHANGED adding /\ PollLocked(c) => Steps(c)
        BY <2>1, PollLockedEffect
      <3> QED
        BY <1>3, <2>1, <3>1, <3>2, <3>3, <3>4, <3>5, <3>6, <3>7, <3>8, <3>9, <3>10, <3>11, <3>12
        DEF Step
    <2>3. CASE ~UNCHANGED held
      <3>1. UNCHANGED adding /\ (PollUnqueued(c) \/ PollEnqueue(c) \/ PollLocked(c))
        BY <1>3, <2>3 DEF Step
      <3>2. PollUnqueued(c) => Steps(c)
        BY <2>1, <3>1, PollUnqueuedEffect DEF AskInv, PollUnqueued
      <3> QED
        BY <2>1, <3>1, <3>2, PollEnqueueEffect, PollLockedEffect
    <2> QED
      BY <2>2, <2>3
  <1>4. ASSUME NEW c \in Clients, Begin(c) PROVE Steps(c) /\ UNCHANGED calls
    <2>1. UNCHANGED <<total, calls>>
      BY <1>4 DEF Begin
    <2>2. ASSUME NEW n \in Sizes, NEW k \in Tasks, TryAcquire(c, n, n) \/ Acquire(c, n, n, k)
          PROVE  Steps(c)
      <3>1. n \in Nat /\ Request(n, n)
        BY Parameters DEF Request
      <3> QED
        BY <2>1, <2>2, <3>1, BeginEffect
    <2>3. ASSUME NEW n \in OwnedSizes, NEW k \in Tasks, TryAcquire(c, 1, n) \/ Acquire(c, 1, n, k)
          PROVE  Steps(c)
      <3>1. n \in Nat /\ 1 \in Nat /\ Request(1, n)
        BY Parameters DEF Request
      <3> QED
        BY <2>1, <2>3, <3>1, BeginEffect
    <2> QED
      BY <1>4, <2>1, <2>2, <2>3 DEF Begin
  <1>5. ASSUME NEW c \in Clients, GiveBack(c) PROVE Steps(c) /\ UNCHANGED calls
    BY <1>5, ReleaseEffect, Parameters DEF GiveBack
  <1>6. ASSUME NEW c \in Clients, GiveUp(c) PROVE Steps(c) /\ UNCHANGED calls
    BY <1>6, DropEffect DEF GiveUp
  <1>7. ASSUME NEW c \in Clients, PollAgain(c) PROVE Steps(c) /\ UNCHANGED calls
    BY <1>7, PollEffect DEF PollAgain
  <1>8. ASSUME NEW c \in Clients, Call(c) PROVE Steps(c) /\ calls' \in 0..MaxCalls
    BY <1>8, CallEffect
  <1> HIDE DEF IInv
  <1> QED
    BY <1>1, <1>2, <1>3, <1>4, <1>5, <1>6, <1>7, <1>8 DEF Next

(* The lock is taken only when it is free and given back by its holder. *)
LEMMA LockStep == IInv /\ [Next]_vars => LockInv'
  <1> SUFFICES ASSUME IInv, [Next]_vars PROVE LockInv'
    OBVIOUS
  <1> USE DEF LockInv
  <1>p. pc \in [Clients -> Points] /\ mutex \in Clients \cup {NONE}
    BY DEF IInv, Types, Points
  <1> USE DEF IInv
  <1>1. ASSUME NEW c \in Clients, AddsAgain(c) PROVE LockInv'
    BY <1>1, <1>p DEF AddsAgain, AddsAt, PcAt
  <1>2. ASSUME NEW c \in Clients, NEW n \in Nat, AddsReleased(c, n) PROVE LockInv'
    BY <1>2, <1>p DEF AddsReleased, AddsAt, PcAt
  <1>3. ASSUME NEW c \in Clients, NEW n \in Sizes, AddsNew(c, n) PROVE LockInv'
    BY <1>3, <1>p DEF AddsNew, AddsAt, PcAt
  <1>4. ASSUME NEW c \in Clients, Abandons(c) PROVE LockInv'
    BY <1>4, <1>p DEF Abandons, AddsAt, PcAt
  <1>5. ASSUME NEW c \in Clients, Moves(c) PROVE LockInv'
    BY <1>5, <1>p DEF Moves, PcAt, shared, adding
  <1>6. ASSUME NEW c \in Clients, GetsLock(c) PROVE LockInv'
    BY <1>6, <1>p DEF GetsLock, PcAt, adding
  <1>7. ASSUME NEW c \in Clients, WakeAt(c) PROVE LockInv'
    BY <1>7, <1>p DEF WakeAt, shared
  <1>8. ASSUME NEW c \in Clients, NEW d \in Clients, ServesPart(c, d) PROVE LockInv'
    BY <1>8, <1>p DEF ServesPart, First, PcAt
  <1>9. ASSUME NEW c \in Clients, NEW d \in Clients, ServesAll(c, d) PROVE LockInv'
    BY <1>9, <1>p DEF ServesAll, First, PcAt
  <1>10. ASSUME NEW c \in Clients, NEW d \in Clients, DrainsNext(c, d) PROVE LockInv'
    BY <1>10, <1>p DEF DrainsNext, PcAt
  <1>11. ASSUME NEW c \in Clients, NEW n \in Nat, NEW s \in Nat, Tries(c, n, s) PROVE LockInv'
    BY <1>11, <1>p DEF Tries, adding
  <1>12. ASSUME NEW c \in Clients, NEW n \in Nat, NEW s \in Nat, NEW k \in Tasks, Starts(c, n, s, k) PROVE LockInv'
    BY <1>12, <1>p DEF Starts, PcAt, shared, adding
  <1>13. ASSUME NEW c \in Clients, AcquiresNow(c) PROVE LockInv'
    BY <1>13, <1>p DEF AcquiresNow, PcAt, adding
  <1>14. ASSUME NEW c \in Clients, AcquiresLate(c) PROVE LockInv'
    BY <1>14, <1>p DEF AcquiresLate, PcAt, shared, adding
  <1>15. ASSUME NEW c \in Clients, StoresWaker(c) PROVE LockInv'
    BY <1>15, <1>p DEF StoresWaker, PcAt, shared, adding
  <1>16. ASSUME NEW c \in Clients, Enqueues(c) PROVE LockInv'
    BY <1>16, <1>p DEF Enqueues, PcAt, adding
  <1>17. ASSUME NEW c \in Clients, Repeats(c) PROVE LockInv'
    BY <1>17, <1>p DEF Repeats, PcAt, shared, adding
  <1>18. ASSUME NEW c \in Clients, NEW k \in Tasks, Polls(c, k) PROVE LockInv'
    BY <1>18, <1>p DEF Polls, PcAt, shared, adding
  <1>19. ASSUME NEW c \in Clients, UpdatesWaker(c) PROVE LockInv'
    BY <1>19, <1>p DEF UpdatesWaker, PcAt, shared, adding
  <1>20. ASSUME NEW c \in Clients, DropsUnqueued(c) PROVE LockInv'
    BY <1>20, <1>p DEF DropsUnqueued, PcAt, shared, adding
  <1>21. ASSUME NEW c \in Clients, CancelsAlone(c) PROVE LockInv'
    BY <1>21, <1>p DEF CancelsAlone, Cancels, PcAt
  <1>22. ASSUME NEW c \in Clients, CancelsNewest(c) PROVE LockInv'
    BY <1>22, <1>p DEF CancelsNewest, Cancels, PcAt
  <1>23. ASSUME NEW c \in Clients, CancelsAhead(c) PROVE LockInv'
    BY <1>23, <1>p DEF CancelsAhead, Cancels, PcAt
  <1>24. ASSUME NEW c \in Clients, CancelsDrained(c) PROVE LockInv'
    BY <1>24, <1>p DEF CancelsDrained, Cancels, PcAt
  <1>25. ASSUME NEW c \in Clients, Forgets(c) PROVE LockInv'
    BY <1>25, <1>p DEF Forgets, shared, adding
  <1>26. ASSUME NEW c \in Clients, NEW n \in Sizes, ForgetsSome(c, n) PROVE LockInv'
    BY <1>26, <1>p DEF ForgetsSome, adding
  <1>27. ASSUME NEW c \in Clients, Closes(c) PROVE LockInv'
    BY <1>27, <1>p DEF Closes, PcAt, adding
  <1>28. ASSUME NEW c \in Clients, DrainStarts(c) PROVE LockInv'
    BY <1>28, <1>p DEF DrainStarts, PcAt, adding
  <1>29. ASSUME NEW c \in Clients, DrainEnds(c) PROVE LockInv'
    BY <1>29, <1>p DEF DrainEnds, PcAt, adding
  <1>30. CASE UNCHANGED vars
    BY <1>30, <1>p DEF vars, shared, adding
  <1> HIDE DEF LockInv
  <1>s. (\E c \in Clients : Steps(c)) \/ UNCHANGED vars
    BY StepCases
  <1> QED
    BY <1>s, <1>1, <1>2, <1>3, <1>4, <1>5, <1>6, <1>7, <1>8, <1>9, <1>10, <1>11, <1>12, <1>13,
       <1>14, <1>15, <1>16, <1>17, <1>18, <1>19, <1>20, <1>21, <1>22, <1>23, <1>24, <1>25, <1>26,
       <1>27, <1>28, <1>29, <1>30
    DEF Steps, AddSteps, LockSteps, AcquireSteps, DropSteps, CallSteps

(* Only a drain holds nodes besides the queue. *)
LEMMA DrainStep == IInv /\ [Next]_vars => DrainInv'
  <1> SUFFICES ASSUME IInv, [Next]_vars PROVE DrainInv'
    OBVIOUS
  <1> USE DEF DrainInv
  <1>p. pc \in [Clients -> Points] /\ mutex \in Clients \cup {NONE}
    BY DEF IInv, Types, Points
  <1>q. drained \in [Clients -> Seq(Clients)]
    BY DEF IInv, Types
  <1> USE DEF IInv
  <1>1. ASSUME NEW c \in Clients, AddsAgain(c) PROVE DrainInv'
    BY <1>1, <1>p, <1>q DEF AddsAgain, AddsAt, PcAt
  <1>2. ASSUME NEW c \in Clients, NEW n \in Nat, AddsReleased(c, n) PROVE DrainInv'
    BY <1>2, <1>p, <1>q DEF AddsReleased, AddsAt, PcAt
  <1>3. ASSUME NEW c \in Clients, NEW n \in Sizes, AddsNew(c, n) PROVE DrainInv'
    BY <1>3, <1>p, <1>q DEF AddsNew, AddsAt, PcAt
  <1>4. ASSUME NEW c \in Clients, Abandons(c) PROVE DrainInv'
    BY <1>4, <1>p, <1>q DEF Abandons, AddsAt, PcAt
  <1>5. ASSUME NEW c \in Clients, Moves(c) PROVE DrainInv'
    BY <1>5, <1>p, <1>q DEF Moves, PcAt, shared, adding
  <1>6. ASSUME NEW c \in Clients, GetsLock(c) PROVE DrainInv'
    BY <1>6, <1>p, <1>q DEF GetsLock, PcAt, adding
  <1>7. ASSUME NEW c \in Clients, WakeAt(c) PROVE DrainInv'
    BY <1>7, <1>p, <1>q DEF WakeAt, shared
  <1>8. ASSUME NEW c \in Clients, NEW d \in Clients, ServesPart(c, d) PROVE DrainInv'
    BY <1>8, <1>p, <1>q DEF ServesPart, First, PcAt
  <1>9. ASSUME NEW c \in Clients, NEW d \in Clients, ServesAll(c, d) PROVE DrainInv'
    BY <1>9, <1>p, <1>q DEF ServesAll, First, TakeAt, OutOfList, PcAt
  <1>10. ASSUME NEW c \in Clients, NEW d \in Clients, DrainsNext(c, d) PROVE DrainInv'
    BY <1>10, <1>p, <1>q DEF DrainsNext, TakeAt, OutOfList, PcAt
  <1>11. ASSUME NEW c \in Clients, NEW n \in Nat, NEW s \in Nat, Tries(c, n, s) PROVE DrainInv'
    BY <1>11, <1>p, <1>q DEF Tries, CanAcquire, adding
  <1>12. ASSUME NEW c \in Clients, NEW n \in Nat, NEW s \in Nat, NEW k \in Tasks, Starts(c, n, s, k) PROVE DrainInv'
    BY <1>12, <1>p, <1>q DEF Starts, PcAt, shared, adding
  <1>13. ASSUME NEW c \in Clients, AcquiresNow(c) PROVE DrainInv'
    BY <1>13, <1>p, <1>q DEF AcquiresNow, CanAcquire, PcAt, adding
  <1>14. ASSUME NEW c \in Clients, AcquiresLate(c) PROVE DrainInv'
    BY <1>14, <1>p, <1>q DEF AcquiresLate, PcAt, shared, adding
  <1>15. ASSUME NEW c \in Clients, StoresWaker(c) PROVE DrainInv'
    BY <1>15, <1>p, <1>q DEF StoresWaker, PcAt, shared, adding
  <1>16. ASSUME NEW c \in Clients, Enqueues(c) PROVE DrainInv'
    BY <1>16, <1>p, <1>q DEF Enqueues, PcAt, adding
  <1>17. ASSUME NEW c \in Clients, Repeats(c) PROVE DrainInv'
    BY <1>17, <1>p, <1>q DEF Repeats, PcAt, shared, adding
  <1>18. ASSUME NEW c \in Clients, NEW k \in Tasks, Polls(c, k) PROVE DrainInv'
    BY <1>18, <1>p, <1>q DEF Polls, PcAt, shared, adding
  <1>19. ASSUME NEW c \in Clients, UpdatesWaker(c) PROVE DrainInv'
    BY <1>19, <1>p, <1>q DEF UpdatesWaker, PcAt, shared, adding
  <1>20. ASSUME NEW c \in Clients, DropsUnqueued(c) PROVE DrainInv'
    BY <1>20, <1>p, <1>q DEF DropsUnqueued, PcAt, shared, adding
  <1>21. ASSUME NEW c \in Clients, CancelsAlone(c) PROVE DrainInv'
    BY <1>21, <1>p, <1>q DEF CancelsAlone, Cancels, OutOfList, PcAt
  <1>22. ASSUME NEW c \in Clients, CancelsNewest(c) PROVE DrainInv'
    BY <1>22, <1>p, <1>q DEF CancelsNewest, Cancels, OutOfList, PcAt
  <1>23. ASSUME NEW c \in Clients, CancelsAhead(c) PROVE DrainInv'
    BY <1>23, <1>p, <1>q DEF CancelsAhead, Cancels, OutOfList, PcAt
  <1>24. ASSUME NEW c \in Clients, CancelsDrained(c) PROVE DrainInv'
    BY <1>24, <1>p, <1>q DEF CancelsDrained, Cancels, OutOfList, PcAt
  <1>25. ASSUME NEW c \in Clients, Forgets(c) PROVE DrainInv'
    BY <1>25, <1>p, <1>q DEF Forgets, shared, adding
  <1>26. ASSUME NEW c \in Clients, NEW n \in Sizes, ForgetsSome(c, n) PROVE DrainInv'
    BY <1>26, <1>p, <1>q DEF ForgetsSome, adding
  <1>27. ASSUME NEW c \in Clients, Closes(c) PROVE DrainInv'
    BY <1>27, <1>p, <1>q DEF Closes, PcAt, adding
  <1>28. ASSUME NEW c \in Clients, DrainStarts(c) PROVE DrainInv'
    BY <1>28, <1>p, <1>q DEF DrainStarts, PcAt, adding
  <1>29. ASSUME NEW c \in Clients, DrainEnds(c) PROVE DrainInv'
    BY <1>29, <1>p, <1>q DEF DrainEnds, PcAt, adding
  <1>30. CASE UNCHANGED vars
    BY <1>30, <1>p, <1>q DEF vars, shared, adding
  <1> HIDE DEF DrainInv
  <1>s. (\E c \in Clients : Steps(c)) \/ UNCHANGED vars
    BY StepCases
  <1> QED
    BY <1>s, <1>1, <1>2, <1>3, <1>4, <1>5, <1>6, <1>7, <1>8, <1>9, <1>10, <1>11, <1>12, <1>13,
       <1>14, <1>15, <1>16, <1>17, <1>18, <1>19, <1>20, <1>21, <1>22, <1>23, <1>24, <1>25, <1>26,
       <1>27, <1>28, <1>29, <1>30
    DEF Steps, AddSteps, LockSteps, AcquireSteps, DropSteps, CallSteps

(* Permits are on their way only in add_permits. *)
LEMMA AddStep == IInv /\ [Next]_vars => AddInv'
  <1> SUFFICES ASSUME IInv, [Next]_vars PROVE AddInv'
    OBVIOUS
  <1> USE DEF AddInv
  <1>p. pc \in [Clients -> Points] /\ mutex \in Clients \cup {NONE}
    BY DEF IInv, Types, Points
  <1>q. add \in [Clients -> Nat] /\ \A b \in Clients : add[b] \in Nat /\ node[b].remaining \in Nat
    BY DEF IInv, Types
  <1> USE DEF IInv
  <1>1. ASSUME NEW c \in Clients, AddsAgain(c) PROVE AddInv'
    BY <1>1, <1>p, <1>q DEF AddsAgain, AddsAt, AddAt, PcAt
  <1>2. ASSUME NEW c \in Clients, NEW n \in Nat, AddsReleased(c, n) PROVE AddInv'
    BY <1>2, <1>p, <1>q DEF AddsReleased, AddsAt, AddAt, PcAt
  <1>3. ASSUME NEW c \in Clients, NEW n \in Sizes, AddsNew(c, n) PROVE AddInv'
    BY <1>3, <1>p, <1>q DEF AddsNew, AddsAt, AddAt, PcAt
  <1>4. ASSUME NEW c \in Clients, Abandons(c) PROVE AddInv'
    BY <1>4, <1>p, <1>q DEF Abandons, AddsAt, AddAt, PcAt
  <1>5. ASSUME NEW c \in Clients, Moves(c) PROVE AddInv'
    BY <1>5, <1>p, <1>q DEF Moves, PcAt, shared, adding
  <1>6. ASSUME NEW c \in Clients, GetsLock(c) PROVE AddInv'
    BY <1>6, <1>p, <1>q DEF GetsLock, PcAt, adding
  <1>7. ASSUME NEW c \in Clients, WakeAt(c) PROVE AddInv'
    BY <1>7, <1>p, <1>q DEF WakeAt, shared
  <1>8. ASSUME NEW c \in Clients, NEW d \in Clients, ServesPart(c, d) PROVE AddInv'
    BY <1>8, <1>p, <1>q DEF ServesPart, First, AddAt, PcAt
  <1>9. ASSUME NEW c \in Clients, NEW d \in Clients, ServesAll(c, d) PROVE AddInv'
    BY <1>9, <1>p, <1>q DEF ServesAll, First, AddAt, PcAt
  <1>10. ASSUME NEW c \in Clients, NEW d \in Clients, DrainsNext(c, d) PROVE AddInv'
    BY <1>10, <1>p, <1>q DEF DrainsNext, PcAt
  <1>11. ASSUME NEW c \in Clients, NEW n \in Nat, NEW s \in Nat, Tries(c, n, s) PROVE AddInv'
    BY <1>11, <1>p, <1>q DEF Tries, CanAcquire, adding
  <1>12. ASSUME NEW c \in Clients, NEW n \in Nat, NEW s \in Nat, NEW k \in Tasks, Starts(c, n, s, k) PROVE AddInv'
    BY <1>12, <1>p, <1>q DEF Starts, PcAt, shared, adding
  <1>13. ASSUME NEW c \in Clients, AcquiresNow(c) PROVE AddInv'
    BY <1>13, <1>p, <1>q DEF AcquiresNow, CanAcquire, PcAt, adding
  <1>14. ASSUME NEW c \in Clients, AcquiresLate(c) PROVE AddInv'
    BY <1>14, <1>p, <1>q DEF AcquiresLate, PcAt, shared, adding
  <1>15. ASSUME NEW c \in Clients, StoresWaker(c) PROVE AddInv'
    BY <1>15, <1>p, <1>q DEF StoresWaker, PcAt, shared, adding
  <1>16. ASSUME NEW c \in Clients, Enqueues(c) PROVE AddInv'
    BY <1>16, <1>p, <1>q DEF Enqueues, PcAt, adding
  <1>17. ASSUME NEW c \in Clients, Repeats(c) PROVE AddInv'
    BY <1>17, <1>p, <1>q DEF Repeats, PcAt, shared, adding
  <1>18. ASSUME NEW c \in Clients, NEW k \in Tasks, Polls(c, k) PROVE AddInv'
    BY <1>18, <1>p, <1>q DEF Polls, PcAt, shared, adding
  <1>19. ASSUME NEW c \in Clients, UpdatesWaker(c) PROVE AddInv'
    BY <1>19, <1>p, <1>q DEF UpdatesWaker, PcAt, shared, adding
  <1>20. ASSUME NEW c \in Clients, DropsUnqueued(c) PROVE AddInv'
    BY <1>20, <1>p, <1>q DEF DropsUnqueued, PcAt, shared, adding
  <1>21. ASSUME NEW c \in Clients, CancelsAlone(c) PROVE AddInv'
    BY <1>21, <1>p, <1>q DEF CancelsAlone, Cancels, PcAt
  <1>22. ASSUME NEW c \in Clients, CancelsNewest(c) PROVE AddInv'
    BY <1>22, <1>p, <1>q DEF CancelsNewest, Cancels, PcAt
  <1>23. ASSUME NEW c \in Clients, CancelsAhead(c) PROVE AddInv'
    BY <1>23, <1>p, <1>q DEF CancelsAhead, Cancels, AddAt, PcAt
  <1>24. ASSUME NEW c \in Clients, CancelsDrained(c) PROVE AddInv'
    BY <1>24, <1>p, <1>q DEF CancelsDrained, Cancels, PcAt
  <1>25. ASSUME NEW c \in Clients, Forgets(c) PROVE AddInv'
    BY <1>25, <1>p, <1>q DEF Forgets, shared, adding
  <1>26. ASSUME NEW c \in Clients, NEW n \in Sizes, ForgetsSome(c, n) PROVE AddInv'
    BY <1>26, <1>p, <1>q DEF ForgetsSome, adding
  <1>27. ASSUME NEW c \in Clients, Closes(c) PROVE AddInv'
    BY <1>27, <1>p, <1>q DEF Closes, PcAt, adding
  <1>28. ASSUME NEW c \in Clients, DrainStarts(c) PROVE AddInv'
    BY <1>28, <1>p, <1>q DEF DrainStarts, PcAt, adding
  <1>29. ASSUME NEW c \in Clients, DrainEnds(c) PROVE AddInv'
    BY <1>29, <1>p, <1>q DEF DrainEnds, PcAt, adding
  <1>30. CASE UNCHANGED vars
    BY <1>30, <1>p, <1>q DEF vars, shared, adding
  <1> HIDE DEF AddInv
  <1>s. (\E c \in Clients : Steps(c)) \/ UNCHANGED vars
    BY StepCases
  <1> QED
    BY <1>s, <1>1, <1>2, <1>3, <1>4, <1>5, <1>6, <1>7, <1>8, <1>9, <1>10, <1>11, <1>12, <1>13,
       <1>14, <1>15, <1>16, <1>17, <1>18, <1>19, <1>20, <1>21, <1>22, <1>23, <1>24, <1>25, <1>26,
       <1>27, <1>28, <1>29, <1>30
    DEF Steps, AddSteps, LockSteps, AcquireSteps, DropSteps, CallSteps

(* The number of words is even, so that forget_permits cannot touch the    *)
(* bit CLOSED, even if the subtraction wraps around.                       *)
LEMMA ParityKept ==
    ASSUME NEW s \in Nat, NEW n \in Nat
    PROVE  /\ (s - 2 * n) % (UsizeMax + 1) \in Nat
           /\ ((s - 2 * n) % (UsizeMax + 1)) % 2 = s % 2
  <1> DEFINE x == s - 2 * n
             m == UsizeMax + 1
             y == x % m
  <1>1. x \in Int /\ x % 2 = s % 2 /\ m \in Nat /\ m > 0 /\ m = 2 * (m \div 2) /\ m \div 2 \in Nat
    BY UsizeAssumption
  <1> HIDE DEF x, m
  <1>2. y \in Nat /\ x \div m \in Int /\ x = m * (x \div m) + y
    BY <1>1
  <1> HIDE DEF y
  <1>3. PICK w \in Int : w = (m \div 2) * (x \div m)
    BY <1>1, <1>2
  <1>4. m * (x \div m) = 2 * w
    BY <1>1, <1>2, <1>3
  <1>5. x = 2 * w + y
    BY <1>2, <1>4
  <1>6. y % 2 = x % 2
    BY <1>1, <1>2, <1>5
  <1> QED
    BY <1>1, <1>2, <1>6 DEF x, m, y

(* A permit is two units of the state. *)
LEMMA Halves ==
    ASSUME NEW s \in Nat, NEW n \in Int
    PROVE  (s + 2 * n) \div 2 = (s \div 2) + n /\ (s - 2 * n) \div 2 = (s \div 2) - n
  OBVIOUS

(* Adding permits does not touch the bit CLOSED. *)
LEMMA AddsClosed ==
    ASSUME state \in Nat, NEW c, NEW n \in Nat, AddsAt(c, n)
    PROVE  IsClosed <=> IsClosed'
  <1>1. UNCHANGED queue /\ (queue = <<>> => state' = CheckAdd(state, n))
    BY DEF AddsAt
  <1> QED
    BY <1>1, CheckAddBound DEF IsClosed, CLOSED

(* Nothing opens a semaphore that is closed. *)
LEMMA ClosedStep == IInv /\ [Next]_vars => (IsClosed => IsClosed')
  <1> SUFFICES ASSUME IInv, [Next]_vars PROVE (IsClosed => IsClosed')
    OBVIOUS
  <1> USE DEF IsClosed, CLOSED
  <1>p. /\ pc \in [Clients -> Points] /\ mutex \in Clients \cup {NONE} /\ state \in Nat
        /\ queue \in Seq(Clients) /\ add \in [Clients -> Nat] /\ drained \in [Clients -> Seq(Clients)]
        /\ \A b \in Clients : add[b] \in Nat /\ node[b].remaining \in Nat /\ fut[b].want \in Nat
    BY DEF IInv, Types, Points
  <1>q. \A b \in Clients : Status(b) # "Unqueued" => Part(b) \in Nat
    BY PartType DEF IInv
  <1>r. /\ \A b \in Clients : pc[b] = "locked" => queue # <<>>
        /\ \A b \in Clients : pc[b] = "enqueue" /\ fut[b].seen # -1 => fut[b].seen % 2 = 0
        /\ queue # <<>> => state = 0
    BY DEF IInv, RoomInv, StateInv, AskInv
  <1>e. \A x : ~InSeq(x, <<>>)
    BY DEF InSeq
  <1>1. ASSUME NEW c \in Clients, AddsAgain(c) PROVE (IsClosed => IsClosed')
    <2>1. add[c] \in Nat /\ AddsAt(c, add[c])
      BY <1>1, <1>p, <1>q, Parameters DEF AddsAgain
    <2> HIDE DEF IsClosed
    <2> QED
      BY <1>p, <2>1, AddsClosed
  <1>2. ASSUME NEW c \in Clients, NEW n \in Nat, AddsReleased(c, n) PROVE (IsClosed => IsClosed')
    <2>1. n \in Nat /\ AddsAt(c, n)
      BY <1>2 DEF AddsReleased
    <2> HIDE DEF IsClosed
    <2> QED
      BY <1>p, <2>1, AddsClosed
  <1>3. ASSUME NEW c \in Clients, NEW n \in Sizes, AddsNew(c, n) PROVE (IsClosed => IsClosed')
    <2>1. n \in Nat /\ AddsAt(c, n)
      BY <1>3, <1>p, <1>q, Parameters DEF AddsNew
    <2> HIDE DEF IsClosed
    <2> QED
      BY <1>p, <2>1, AddsClosed
  <1>4. ASSUME NEW c \in Clients, Abandons(c) PROVE (IsClosed => IsClosed')
    <2>1. Part(c) \in Nat /\ AddsAt(c, Part(c))
      BY <1>4, <1>p, <1>q, Parameters DEF Abandons
    <2> HIDE DEF IsClosed
    <2> QED
      BY <1>p, <2>1, AddsClosed
  <1>5. ASSUME NEW c \in Clients, Moves(c) PROVE (IsClosed => IsClosed')
    BY <1>5, <1>p, <1>q, <1>r, <1>e DEF Moves, shared, adding
  <1>6. ASSUME NEW c \in Clients, GetsLock(c) PROVE (IsClosed => IsClosed')
    BY <1>6, <1>p, <1>q, <1>r, <1>e DEF GetsLock, adding
  <1>7. ASSUME NEW c \in Clients, WakeAt(c) PROVE (IsClosed => IsClosed')
    BY <1>7, <1>p, <1>q, <1>r, <1>e DEF WakeAt, shared
  <1>8. ASSUME NEW c \in Clients, NEW d \in Clients, ServesPart(c, d) PROVE (IsClosed => IsClosed')
    BY <1>8, <1>p, <1>q, <1>r, <1>e DEF ServesPart, First
  <1>9. ASSUME NEW c \in Clients, NEW d \in Clients, ServesAll(c, d) PROVE (IsClosed => IsClosed')
    BY <1>9, <1>p, <1>q, <1>r, <1>e DEF ServesAll, First, TakeAt, OutOfList
  <1>10. ASSUME NEW c \in Clients, NEW d \in Clients, DrainsNext(c, d) PROVE (IsClosed => IsClosed')
    BY <1>10, <1>p, <1>q, <1>r, <1>e DEF DrainsNext, TakeAt, OutOfList
  <1>11. ASSUME NEW c \in Clients, NEW n \in Nat, NEW s \in Nat, Tries(c, n, s) PROVE (IsClosed => IsClosed')
    BY <1>11, <1>p, <1>q, <1>r, <1>e DEF Tries, CanAcquire, adding
  <1>12. ASSUME NEW c \in Clients, NEW n \in Nat, NEW s \in Nat, NEW k \in Tasks, Starts(c, n, s, k)
         PROVE  (IsClosed => IsClosed')
    BY <1>12, <1>p, <1>q, <1>r, <1>e DEF Starts, shared, adding
  <1>13. ASSUME NEW c \in Clients, AcquiresNow(c) PROVE (IsClosed => IsClosed')
    BY <1>13, <1>p, <1>q, <1>r, <1>e DEF AcquiresNow, CanAcquire, adding
  <1>14. ASSUME NEW c \in Clients, AcquiresLate(c) PROVE (IsClosed => IsClosed')
    BY <1>14, <1>p, <1>q, <1>r, <1>e DEF AcquiresLate, shared, adding
  <1>15. ASSUME NEW c \in Clients, StoresWaker(c) PROVE (IsClosed => IsClosed')
    BY <1>15, <1>p, <1>q, <1>r, <1>e DEF StoresWaker, shared, adding
  <1>16. ASSUME NEW c \in Clients, Enqueues(c) PROVE (IsClosed => IsClosed')
    <2>1. queue = <<>> => fut[c].seen = state /\ state # -1
      BY <1>16, <1>p DEF Enqueues, OptState
    <2>2. queue = <<>> => state % 2 = 0
      BY <1>16, <1>r, <2>1 DEF Enqueues
    <2> QED
      BY <2>2
  <1>17. ASSUME NEW c \in Clients, Repeats(c) PROVE (IsClosed => IsClosed')
    BY <1>17, <1>p, <1>q, <1>r, <1>e DEF Repeats, shared, adding
  <1>18. ASSUME NEW c \in Clients, NEW k \in Tasks, Polls(c, k) PROVE (IsClosed => IsClosed')
    BY <1>18, <1>p, <1>q, <1>r, <1>e DEF Polls, shared, adding
  <1>19. ASSUME NEW c \in Clients, UpdatesWaker(c) PROVE (IsClosed => IsClosed')
    BY <1>19, <1>p, <1>q, <1>r, <1>e DEF UpdatesWaker, shared, adding
  <1>20. ASSUME NEW c \in Clients, DropsUnqueued(c) PROVE (IsClosed => IsClosed')
    BY <1>20, <1>p, <1>q, <1>r, <1>e DEF DropsUnqueued, shared, adding
  <1>21. ASSUME NEW c \in Clients, CancelsAlone(c) PROVE (IsClosed => IsClosed')
    BY <1>21, <1>p, <1>q, <1>r, <1>e DEF CancelsAlone, Cancels, OutOfList
  <1>22. ASSUME NEW c \in Clients, CancelsNewest(c) PROVE (IsClosed => IsClosed')
    BY <1>22, <1>p, <1>q, <1>r, <1>e DEF CancelsNewest, Cancels, OutOfList
  <1>23. ASSUME NEW c \in Clients, CancelsAhead(c) PROVE (IsClosed => IsClosed')
    BY <1>23, <1>p, <1>q, <1>r, <1>e DEF CancelsAhead, Cancels, OutOfList
  <1>24. ASSUME NEW c \in Clients, CancelsDrained(c) PROVE (IsClosed => IsClosed')
    <2>1. Part(c) \in Nat /\ state' = CheckAdd(state, Part(c))
      BY <1>24, <1>q DEF CancelsDrained, Cancels
    <2>2. queue = <<>> => queue' = <<>>
      BY <1>24 DEF CancelsDrained, Cancels, OutOfList
    <2> QED
      BY <1>p, <2>1, <2>2, CheckAddBound
  <1>25. ASSUME NEW c \in Clients, Forgets(c) PROVE (IsClosed => IsClosed')
    BY <1>25, <1>p, <1>q, <1>r, <1>e DEF Forgets, shared, adding
  <1>26. ASSUME NEW c \in Clients, NEW n \in Sizes, ForgetsSome(c, n) PROVE (IsClosed => IsClosed')
    <2>1. queue = <<>> /\ state' = (state - 2 * n) % (UsizeMax + 1) /\ n \in Nat
      BY <1>26, Parameters DEF ForgetsSome
    <2>2. state' \in Nat /\ state' % 2 = state % 2
      BY <1>p, <2>1, ParityKept
    <2> QED
      BY <1>26, <2>1, <2>2 DEF ForgetsSome, adding
  <1>27. ASSUME NEW c \in Clients, Closes(c) PROVE (IsClosed => IsClosed')
    BY <1>27, <1>p, <1>q, <1>r, <1>e DEF Closes, adding, SetClosed
  <1>28. ASSUME NEW c \in Clients, DrainStarts(c) PROVE (IsClosed => IsClosed')
    BY <1>28, <1>p, <1>q, <1>r, <1>e DEF DrainStarts, adding
  <1>29. ASSUME NEW c \in Clients, DrainEnds(c) PROVE (IsClosed => IsClosed')
    BY <1>29, <1>p, <1>q, <1>r, <1>e DEF DrainEnds, adding
  <1>30. CASE UNCHANGED vars
    BY <1>30, <1>p, <1>q, <1>r, <1>e DEF vars, shared, adding
  <1> HIDE DEF IsClosed, CLOSED
  <1>s. (\E c \in Clients : Steps(c)) \/ UNCHANGED vars
    BY StepCases
  <1> QED
    BY <1>s, <1>1, <1>2, <1>3, <1>4, <1>5, <1>6, <1>7, <1>8, <1>9, <1>10, <1>11, <1>12, <1>13,
       <1>14, <1>15, <1>16, <1>17, <1>18, <1>19, <1>20, <1>21, <1>22, <1>23, <1>24, <1>25, <1>26,
       <1>27, <1>28, <1>29, <1>30
    DEF Steps, AddSteps, LockSteps, AcquireSteps, DropSteps, CallSteps

(* There are no permits while somebody waits. *)
LEMMA StateStep == IInv /\ [Next]_vars => StateInv'
  <1> SUFFICES ASSUME IInv, [Next]_vars PROVE StateInv'
    OBVIOUS
  <1> USE DEF StateInv
  <1>p. /\ pc \in [Clients -> Points] /\ mutex \in Clients \cup {NONE} /\ state \in Nat
        /\ queue \in Seq(Clients) /\ add \in [Clients -> Nat] /\ drained \in [Clients -> Seq(Clients)]
        /\ \A b \in Clients : add[b] \in Nat /\ node[b].remaining \in Nat /\ fut[b].want \in Nat
    BY DEF IInv, Types, Points
  <1>q. \A b \in Clients : Status(b) # "Unqueued" => Part(b) \in Nat
    BY PartType DEF IInv
  <1>r. IsClosed => IsClosed'
    BY ClosedStep
  <1>e. /\ \A b \in Clients : drained[b] # <<>> => pc[b] \in {"drain", "wake_drain"}
        /\ \A b \in Clients : \A x : InSeq(x, drained[b]) => drained[b] # <<>>
        /\ IsClosed => queue = <<>>
    BY DEF IInv, DrainInv, InSeq, IsClosed
  <1> USE DEF IInv
  <1>1. ASSUME NEW c \in Clients, AddsAgain(c) PROVE StateInv'
    BY <1>1, <1>p, <1>q, <1>r, <1>e DEF AddsAgain, AddsAt, PcAt
  <1>2. ASSUME NEW c \in Clients, NEW n \in Nat, AddsReleased(c, n) PROVE StateInv'
    BY <1>2, <1>p, <1>q, <1>r, <1>e DEF AddsReleased, AddsAt, PcAt
  <1>3. ASSUME NEW c \in Clients, NEW n \in Sizes, AddsNew(c, n) PROVE StateInv'
    BY <1>3, <1>p, <1>q, <1>r, <1>e DEF AddsNew, AddsAt, PcAt
  <1>4. ASSUME NEW c \in Clients, Abandons(c) PROVE StateInv'
    BY <1>4, <1>p, <1>q, <1>r, <1>e DEF Abandons, AddsAt, PcAt
  <1>5. ASSUME NEW c \in Clients, Moves(c) PROVE StateInv'
    BY <1>5, <1>p, <1>q, <1>r, <1>e DEF Moves, PcAt, shared, adding
  <1>6. ASSUME NEW c \in Clients, GetsLock(c) PROVE StateInv'
    BY <1>6, <1>p, <1>q, <1>r, <1>e DEF GetsLock, PcAt, adding
  <1>7. ASSUME NEW c \in Clients, WakeAt(c) PROVE StateInv'
    BY <1>7, <1>p, <1>q, <1>r, <1>e DEF WakeAt, shared
  <1>8. ASSUME NEW c \in Clients, NEW d \in Clients, ServesPart(c, d) PROVE StateInv'
    BY <1>8, <1>p, <1>q, <1>r, <1>e DEF ServesPart, First, PcAt
  <1>9. ASSUME NEW c \in Clients, NEW d \in Clients, ServesAll(c, d) PROVE StateInv'
    BY <1>9, <1>p, <1>q, <1>r, <1>e DEF ServesAll, First, TakeAt, OutOfList, PcAt
  <1>10. ASSUME NEW c \in Clients, NEW d \in Clients, DrainsNext(c, d) PROVE StateInv'
    BY <1>10, <1>p, <1>q, <1>r, <1>e DEF DrainsNext, TakeAt, OutOfList, PcAt
  <1>11. ASSUME NEW c \in Clients, NEW n \in Nat, NEW s \in Nat, Tries(c, n, s) PROVE StateInv'
    BY <1>11, <1>p, <1>q, <1>r, <1>e DEF Tries, CanAcquire, adding
  <1>12. ASSUME NEW c \in Clients, NEW n \in Nat, NEW s \in Nat, NEW k \in Tasks, Starts(c, n, s, k) PROVE StateInv'
    BY <1>12, <1>p, <1>q, <1>r, <1>e DEF Starts, PcAt, shared, adding
  <1>13. ASSUME NEW c \in Clients, AcquiresNow(c) PROVE StateInv'
    BY <1>13, <1>p, <1>q, <1>r, <1>e DEF AcquiresNow, CanAcquire, PcAt, adding
  <1>14. ASSUME NEW c \in Clients, AcquiresLate(c) PROVE StateInv'
    BY <1>14, <1>p, <1>q, <1>r, <1>e DEF AcquiresLate, PcAt, shared, adding
  <1>15. ASSUME NEW c \in Clients, StoresWaker(c) PROVE StateInv'
    BY <1>15, <1>p, <1>q, <1>r, <1>e DEF StoresWaker, PcAt, shared, adding
  <1>16. ASSUME NEW c \in Clients, Enqueues(c) PROVE StateInv'
    BY <1>16, <1>p, <1>q, <1>r, <1>e DEF Enqueues, PcAt, adding
  <1>17. ASSUME NEW c \in Clients, Repeats(c) PROVE StateInv'
    BY <1>17, <1>p, <1>q, <1>r, <1>e DEF Repeats, PcAt, shared, adding
  <1>18. ASSUME NEW c \in Clients, NEW k \in Tasks, Polls(c, k) PROVE StateInv'
    BY <1>18, <1>p, <1>q, <1>r, <1>e DEF Polls, PcAt, shared, adding
  <1>19. ASSUME NEW c \in Clients, UpdatesWaker(c) PROVE StateInv'
    BY <1>19, <1>p, <1>q, <1>r, <1>e DEF UpdatesWaker, PcAt, shared, adding
  <1>20. ASSUME NEW c \in Clients, DropsUnqueued(c) PROVE StateInv'
    BY <1>20, <1>p, <1>q, <1>r, <1>e DEF DropsUnqueued, PcAt, shared, adding
  <1>21. ASSUME NEW c \in Clients, CancelsAlone(c) PROVE StateInv'
    BY <1>21, <1>p, <1>q, <1>r, <1>e DEF CancelsAlone, Cancels, OutOfList, PcAt
  <1>22. ASSUME NEW c \in Clients, CancelsNewest(c) PROVE StateInv'
    BY <1>22, <1>p, <1>q, <1>r, <1>e DEF CancelsNewest, Cancels, OutOfList, PcAt
  <1>23. ASSUME NEW c \in Clients, CancelsAhead(c) PROVE StateInv'
    BY <1>23, <1>p, <1>q, <1>r, <1>e DEF CancelsAhead, Cancels, OutOfList, PcAt
  <1>24. ASSUME NEW c \in Clients, CancelsDrained(c) PROVE StateInv'
    BY <1>24, <1>p, <1>q, <1>r, <1>e DEF CancelsDrained, Cancels, OutOfList, PcAt
  <1>25. ASSUME NEW c \in Clients, Forgets(c) PROVE StateInv'
    BY <1>25, <1>p, <1>q, <1>r, <1>e DEF Forgets, shared, adding
  <1>26. ASSUME NEW c \in Clients, NEW n \in Sizes, ForgetsSome(c, n) PROVE StateInv'
    BY <1>26, <1>p, <1>q, <1>r, <1>e DEF ForgetsSome, adding
  <1>27. ASSUME NEW c \in Clients, Closes(c) PROVE StateInv'
    BY <1>27, <1>p, <1>q, <1>r, <1>e DEF Closes, PcAt, adding
  <1>28. ASSUME NEW c \in Clients, DrainStarts(c) PROVE StateInv'
    BY <1>28, <1>p, <1>q, <1>r, <1>e DEF DrainStarts, PcAt, adding, IsClosed, CLOSED
  <1>29. ASSUME NEW c \in Clients, DrainEnds(c) PROVE StateInv'
    BY <1>29, <1>p, <1>q, <1>r, <1>e DEF DrainEnds, PcAt, adding
  <1>30. CASE UNCHANGED vars
    BY <1>30, <1>p, <1>q, <1>r, <1>e DEF vars, shared, adding
  <1> HIDE DEF StateInv
  <1>s. (\E c \in Clients : Steps(c)) \/ UNCHANGED vars
    BY StepCases
  <1> QED
    BY <1>s, <1>1, <1>2, <1>3, <1>4, <1>5, <1>6, <1>7, <1>8, <1>9, <1>10, <1>11, <1>12, <1>13,
       <1>14, <1>15, <1>16, <1>17, <1>18, <1>19, <1>20, <1>21, <1>22, <1>23, <1>24, <1>25, <1>26,
       <1>27, <1>28, <1>29, <1>30
    DEF Steps, AddSteps, LockSteps, AcquireSteps, DropSteps, CallSteps

(* The place of a client goes with the status of its node. *)
LEMMA NodeStep == IInv /\ [Next]_vars => NodeInv'
  <1> SUFFICES ASSUME IInv, [Next]_vars PROVE NodeInv'
    OBVIOUS
  <1> USE DEF NodeInv, Status
  <1> USE DEF IInv
  <1>1. ASSUME NEW c \in Clients, AddsAgain(c) PROVE NodeInv'
    BY <1>1 DEF AddsAgain, AddsAt, PcAt
  <1>2. ASSUME NEW c \in Clients, NEW n \in Nat, AddsReleased(c, n) PROVE NodeInv'
    BY <1>2 DEF AddsReleased, AddsAt, PcAt
  <1>3. ASSUME NEW c \in Clients, NEW n \in Sizes, AddsNew(c, n) PROVE NodeInv'
    BY <1>3 DEF AddsNew, AddsAt, PcAt
  <1>4. ASSUME NEW c \in Clients, Abandons(c) PROVE NodeInv'
    BY <1>4 DEF Abandons, AddsAt, PcAt, GoneAt, NodeAt
  <1>5. ASSUME NEW c \in Clients, Moves(c) PROVE NodeInv'
    BY <1>5 DEF Moves, PcAt, shared, adding
  <1>6. ASSUME NEW c \in Clients, GetsLock(c) PROVE NodeInv'
    BY <1>6 DEF GetsLock, PcAt, adding
  <1>7. ASSUME NEW c \in Clients, WakeAt(c) PROVE NodeInv'
    BY <1>7 DEF WakeAt, shared
  <1>8. ASSUME NEW c \in Clients, NEW d \in Clients, ServesPart(c, d) PROVE NodeInv'
    BY <1>8 DEF ServesPart, First, NodeAt, PcAt
  <1>9. ASSUME NEW c \in Clients, NEW d \in Clients, ServesAll(c, d) PROVE NodeInv'
    BY <1>9, ZenonT(40) DEF ServesAll, First, TakeAt, NodeAt, PcAt
  <1>10. ASSUME NEW c \in Clients, NEW d \in Clients, DrainsNext(c, d) PROVE NodeInv'
    BY <1>10 DEF DrainsNext, TakeAt, NodeAt, PcAt
  <1>11. ASSUME NEW c \in Clients, NEW n \in Nat, NEW s \in Nat, Tries(c, n, s) PROVE NodeInv'
    BY <1>11 DEF Tries, adding
  <1>12. ASSUME NEW c \in Clients, NEW n \in Nat, NEW s \in Nat, NEW k \in Tasks, Starts(c, n, s, k) PROVE NodeInv'
    BY <1>12 DEF Starts, PcAt, shared, adding
  <1>13. ASSUME NEW c \in Clients, AcquiresNow(c) PROVE NodeInv'
    BY <1>13 DEF AcquiresNow, GoneAt, NodeAt, PcAt, adding
  <1>14. ASSUME NEW c \in Clients, AcquiresLate(c) PROVE NodeInv'
    BY <1>14 DEF AcquiresLate, GoneAt, NodeAt, PcAt, shared, adding
  <1>15. ASSUME NEW c \in Clients, StoresWaker(c) PROVE NodeInv'
    BY <1>15 DEF StoresWaker, NodeAt, PcAt, shared, adding
  <1>16. ASSUME NEW c \in Clients, Enqueues(c) PROVE NodeInv'
    BY <1>16 DEF Enqueues, NodeAt, PcAt, adding
  <1>17. ASSUME NEW c \in Clients, Repeats(c) PROVE NodeInv'
    BY <1>17 DEF Repeats, PcAt, shared, adding
  <1>18. ASSUME NEW c \in Clients, NEW k \in Tasks, Polls(c, k) PROVE NodeInv'
    BY <1>18 DEF Polls, PcAt, shared, adding
  <1>19. ASSUME NEW c \in Clients, UpdatesWaker(c) PROVE NodeInv'
    BY <1>19 DEF UpdatesWaker, NodeAt, PcAt, shared, adding
  <1>20. ASSUME NEW c \in Clients, DropsUnqueued(c) PROVE NodeInv'
    BY <1>20 DEF DropsUnqueued, GoneAt, NodeAt, PcAt, shared, adding
  <1>21. ASSUME NEW c \in Clients, CancelsAlone(c) PROVE NodeInv'
    BY <1>21 DEF CancelsAlone, Cancels, GoneAt, NodeAt, PcAt
  <1>22. ASSUME NEW c \in Clients, CancelsNewest(c) PROVE NodeInv'
    BY <1>22 DEF CancelsNewest, Cancels, GoneAt, NodeAt, PcAt
  <1>23. ASSUME NEW c \in Clients, CancelsAhead(c) PROVE NodeInv'
    BY <1>23 DEF CancelsAhead, Cancels, GoneAt, NodeAt, PcAt
  <1>24. ASSUME NEW c \in Clients, CancelsDrained(c) PROVE NodeInv'
    BY <1>24 DEF CancelsDrained, Cancels, GoneAt, NodeAt, PcAt
  <1>25. ASSUME NEW c \in Clients, Forgets(c) PROVE NodeInv'
    BY <1>25 DEF Forgets, shared, adding
  <1>26. ASSUME NEW c \in Clients, NEW n \in Sizes, ForgetsSome(c, n) PROVE NodeInv'
    BY <1>26 DEF ForgetsSome, adding
  <1>27. ASSUME NEW c \in Clients, Closes(c) PROVE NodeInv'
    BY <1>27 DEF Closes, PcAt, adding
  <1>28. ASSUME NEW c \in Clients, DrainStarts(c) PROVE NodeInv'
    BY <1>28 DEF DrainStarts, PcAt, adding
  <1>29. ASSUME NEW c \in Clients, DrainEnds(c) PROVE NodeInv'
    BY <1>29 DEF DrainEnds, PcAt, adding
  <1>30. CASE UNCHANGED vars
    BY <1>30 DEF vars, shared, adding
  <1> HIDE DEF NodeInv, Status
  <1>s. (\E c \in Clients : Steps(c)) \/ UNCHANGED vars
    BY StepCases
  <1> QED
    BY <1>s, <1>1, <1>2, <1>3, <1>4, <1>5, <1>6, <1>7, <1>8, <1>9, <1>10, <1>11, <1>12, <1>13,
       <1>14, <1>15, <1>16, <1>17, <1>18, <1>19, <1>20, <1>21, <1>22, <1>23, <1>24, <1>25, <1>26,
       <1>27, <1>28, <1>29, <1>30
    DEF Steps, AddSteps, LockSteps, AcquireSteps, DropSteps, CallSteps

(* The waker of the poll is stored before the node is inserted. *)
LEMMA WakerStep == IInv /\ [Next]_vars => WakerInv'
  <1> SUFFICES ASSUME IInv, [Next]_vars PROVE WakerInv'
    OBVIOUS
  <1> USE DEF WakerInv, NodeInv, Status
  <1> USE DEF IInv
  <1>1. ASSUME NEW c \in Clients, AddsAgain(c) PROVE WakerInv'
    BY <1>1 DEF AddsAgain, AddsAt, PcAt
  <1>2. ASSUME NEW c \in Clients, NEW n \in Nat, AddsReleased(c, n) PROVE WakerInv'
    BY <1>2 DEF AddsReleased, AddsAt, PcAt
  <1>3. ASSUME NEW c \in Clients, NEW n \in Sizes, AddsNew(c, n) PROVE WakerInv'
    BY <1>3 DEF AddsNew, AddsAt, PcAt
  <1>4. ASSUME NEW c \in Clients, Abandons(c) PROVE WakerInv'
    BY <1>4 DEF Abandons, AddsAt, PcAt, GoneAt, NodeAt, FutAt
  <1>5. ASSUME NEW c \in Clients, Moves(c) PROVE WakerInv'
    BY <1>5 DEF Moves, PcAt, shared, adding
  <1>6. ASSUME NEW c \in Clients, GetsLock(c) PROVE WakerInv'
    BY <1>6 DEF GetsLock, PcAt, adding
  <1>7. ASSUME NEW c \in Clients, WakeAt(c) PROVE WakerInv'
    BY <1>7 DEF WakeAt, shared
  <1>8. ASSUME NEW c \in Clients, NEW d \in Clients, ServesPart(c, d) PROVE WakerInv'
    BY <1>8 DEF ServesPart, First, NodeAt, PcAt
  <1>9. ASSUME NEW c \in Clients, NEW d \in Clients, ServesAll(c, d) PROVE WakerInv'
    <2>1. /\ Status(d) = "Queued" /\ node'[d].status = "Dequeued" /\ node'[d].waker = NONE /\ node'[d].remaining = 0
          /\ UNCHANGED <<fut, woken>> /\ \A b \in Clients : b # d => node'[b] = node[b]
      BY <1>9 DEF ServesAll, TakeAt, NodeAt
    <2>2. /\ pc[c] = "locked" /\ pc'[c] \in {"wake", "wake_add", "locked"}
          /\ \A b \in Clients : b # c => pc'[b] = pc[b]
      BY <1>9 DEF ServesAll, First, PcAt
    <2> QED
      BY <2>1, <2>2
  <1>10. ASSUME NEW c \in Clients, NEW d \in Clients, DrainsNext(c, d) PROVE WakerInv'
    <2>1. /\ Status(d) = "Queued" /\ node'[d].status = "Dequeued" /\ node'[d].waker = NONE
          /\ node'[d].remaining = node[d].remaining
          /\ UNCHANGED <<fut, woken>> /\ \A b \in Clients : b # d => node'[b] = node[b]
      BY <1>10 DEF DrainsNext, TakeAt, NodeAt
    <2>2. /\ pc[c] = "drain" /\ pc'[c] \in {"wake_drain", "drain"}
          /\ \A b \in Clients : b # c => pc'[b] = pc[b]
      BY <1>10 DEF DrainsNext, First, PcAt
    <2> QED
      BY <2>1, <2>2
  <1>11. ASSUME NEW c \in Clients, NEW n \in Nat, NEW s \in Nat, Tries(c, n, s) PROVE WakerInv'
    BY <1>11 DEF Tries, adding
  <1>12. ASSUME NEW c \in Clients, NEW n \in Nat, NEW s \in Nat, NEW k \in Tasks, Starts(c, n, s, k) PROVE WakerInv'
    BY <1>12 DEF Starts, FutAt, PcAt, shared, adding
  <1>13. ASSUME NEW c \in Clients, AcquiresNow(c) PROVE WakerInv'
    BY <1>13 DEF AcquiresNow, GoneAt, NodeAt, FutAt, PcAt, adding
  <1>14. ASSUME NEW c \in Clients, AcquiresLate(c) PROVE WakerInv'
    BY <1>14 DEF AcquiresLate, GoneAt, NodeAt, FutAt, PcAt, shared, adding
  <1>15. ASSUME NEW c \in Clients, StoresWaker(c) PROVE WakerInv'
    BY <1>15 DEF StoresWaker, FutAt, NodeAt, PcAt, shared, adding
  <1>16. ASSUME NEW c \in Clients, Enqueues(c) PROVE WakerInv'
    BY <1>16 DEF Enqueues, NodeAt, FutAt, PcAt, adding
  <1>17. ASSUME NEW c \in Clients, Repeats(c) PROVE WakerInv'
    BY <1>17 DEF Repeats, FutAt, PcAt, shared, adding
  <1>18. ASSUME NEW c \in Clients, NEW k \in Tasks, Polls(c, k) PROVE WakerInv'
    BY <1>18 DEF Polls, FutAt, PcAt, shared, adding
  <1>19. ASSUME NEW c \in Clients, UpdatesWaker(c) PROVE WakerInv'
    BY <1>19 DEF UpdatesWaker, NodeAt, PcAt, shared, adding
  <1>20. ASSUME NEW c \in Clients, DropsUnqueued(c) PROVE WakerInv'
    BY <1>20 DEF DropsUnqueued, GoneAt, NodeAt, FutAt, PcAt, shared, adding
  <1>21. ASSUME NEW c \in Clients, CancelsAlone(c) PROVE WakerInv'
    BY <1>21 DEF CancelsAlone, Cancels, GoneAt, NodeAt, FutAt, PcAt
  <1>22. ASSUME NEW c \in Clients, CancelsNewest(c) PROVE WakerInv'
    BY <1>22 DEF CancelsNewest, Cancels, GoneAt, NodeAt, FutAt, PcAt
  <1>23. ASSUME NEW c \in Clients, CancelsAhead(c) PROVE WakerInv'
    BY <1>23 DEF CancelsAhead, Cancels, GoneAt, NodeAt, FutAt, PcAt
  <1>24. ASSUME NEW c \in Clients, CancelsDrained(c) PROVE WakerInv'
    BY <1>24 DEF CancelsDrained, Cancels, GoneAt, NodeAt, FutAt, PcAt
  <1>25. ASSUME NEW c \in Clients, Forgets(c) PROVE WakerInv'
    BY <1>25 DEF Forgets, shared, adding
  <1>26. ASSUME NEW c \in Clients, NEW n \in Sizes, ForgetsSome(c, n) PROVE WakerInv'
    BY <1>26 DEF ForgetsSome, adding
  <1>27. ASSUME NEW c \in Clients, Closes(c) PROVE WakerInv'
    BY <1>27 DEF Closes, PcAt, adding
  <1>28. ASSUME NEW c \in Clients, DrainStarts(c) PROVE WakerInv'
    BY <1>28 DEF DrainStarts, PcAt, adding
  <1>29. ASSUME NEW c \in Clients, DrainEnds(c) PROVE WakerInv'
    BY <1>29 DEF DrainEnds, PcAt, adding
  <1>30. CASE UNCHANGED vars
    BY <1>30 DEF vars, shared, adding
  <1> HIDE DEF WakerInv, NodeInv, Status
  <1>s. (\E c \in Clients : Steps(c)) \/ UNCHANGED vars
    BY StepCases
  <1> QED
    BY <1>s, <1>1, <1>2, <1>3, <1>4, <1>5, <1>6, <1>7, <1>8, <1>9, <1>10, <1>11, <1>12, <1>13,
       <1>14, <1>15, <1>16, <1>17, <1>18, <1>19, <1>20, <1>21, <1>22, <1>23, <1>24, <1>25, <1>26,
       <1>27, <1>28, <1>29, <1>30
    DEF Steps, AddSteps, LockSteps, AcquireSteps, DropSteps, CallSteps

(* A waiter is never given more than it asked for. *)
LEMMA WaitStep == IInv /\ [Next]_vars => WaitInv'
  <1> SUFFICES ASSUME IInv, [Next]_vars PROVE WaitInv'
    OBVIOUS
  <1> USE DEF WaitInv, Status
  <1>p. \A b \in Clients : node[b].remaining \in Nat /\ fut[b].want \in Nat /\ add[b] \in Nat
    BY DEF IInv, Types
  <1> USE DEF IInv
  <1>e. \A b \in Clients :
            /\ pc[b] \notin {"pending", "lock", "error", "cancel"} => Status(b) = "Unqueued"
            /\ pc[b] = "enqueue" => node[b].remaining \in 1..fut[b].want
    BY DEF NodeInv, AskInv
  <1>1. ASSUME NEW c \in Clients, AddsAgain(c) PROVE WaitInv'
    BY <1>1, <1>p, <1>e DEF AddsAgain, AddsAt, PcAt
  <1>2. ASSUME NEW c \in Clients, NEW n \in Nat, AddsReleased(c, n) PROVE WaitInv'
    BY <1>2, <1>p, <1>e DEF AddsReleased, AddsAt, PcAt
  <1>3. ASSUME NEW c \in Clients, NEW n \in Sizes, AddsNew(c, n) PROVE WaitInv'
    BY <1>3, <1>p, <1>e DEF AddsNew, AddsAt, PcAt
  <1>4. ASSUME NEW c \in Clients, Abandons(c) PROVE WaitInv'
    BY <1>4, <1>p, <1>e DEF Abandons, AddsAt, PcAt, GoneAt, NodeAt, FutAt
  <1>5. ASSUME NEW c \in Clients, Moves(c) PROVE WaitInv'
    BY <1>5, <1>p, <1>e DEF Moves, PcAt, shared, adding
  <1>6. ASSUME NEW c \in Clients, GetsLock(c) PROVE WaitInv'
    BY <1>6, <1>p, <1>e DEF GetsLock, PcAt, adding
  <1>7. ASSUME NEW c \in Clients, WakeAt(c) PROVE WaitInv'
    BY <1>7, <1>p, <1>e DEF WakeAt, shared
  <1>8. ASSUME NEW c \in Clients, NEW d \in Clients, ServesPart(c, d) PROVE WaitInv'
    BY <1>8, <1>p, <1>e DEF ServesPart, First, NodeAt, PcAt
  <1>9. ASSUME NEW c \in Clients, NEW d \in Clients, ServesAll(c, d) PROVE WaitInv'
    <2>1. /\ Status(d) = "Queued" /\ node'[d].status = "Dequeued" /\ node'[d].waker = NONE /\ node'[d].remaining = 0
          /\ UNCHANGED <<fut, woken>> /\ \A b \in Clients : b # d => node'[b] = node[b]
      BY <1>9 DEF ServesAll, TakeAt, NodeAt
    <2>2. /\ pc[c] = "locked" /\ pc'[c] \in {"wake", "wake_add", "locked"}
          /\ \A b \in Clients : b # c => pc'[b] = pc[b]
      BY <1>9 DEF ServesAll, First, PcAt
    <2> QED
      BY <2>1, <2>2, <1>p, <1>e
  <1>10. ASSUME NEW c \in Clients, NEW d \in Clients, DrainsNext(c, d) PROVE WaitInv'
    BY <1>10, <1>p, <1>e DEF DrainsNext, TakeAt, NodeAt, PcAt
  <1>11. ASSUME NEW c \in Clients, NEW n \in Nat, NEW s \in Nat, Tries(c, n, s) PROVE WaitInv'
    BY <1>11, <1>p, <1>e DEF Tries, adding
  <1>12. ASSUME NEW c \in Clients, NEW n \in Nat, NEW s \in Nat, NEW k \in Tasks, Starts(c, n, s, k) PROVE WaitInv'
    BY <1>12, <1>p, <1>e DEF Starts, FutAt, PcAt, shared, adding
  <1>13. ASSUME NEW c \in Clients, AcquiresNow(c) PROVE WaitInv'
    BY <1>13, <1>p, <1>e DEF AcquiresNow, GoneAt, NodeAt, FutAt, PcAt, adding
  <1>14. ASSUME NEW c \in Clients, AcquiresLate(c) PROVE WaitInv'
    BY <1>14, <1>p, <1>e DEF AcquiresLate, GoneAt, NodeAt, FutAt, PcAt, shared, adding
  <1>15. ASSUME NEW c \in Clients, StoresWaker(c) PROVE WaitInv'
    BY <1>15, <1>p, <1>e DEF StoresWaker, FutAt, NodeAt, PcAt, shared, adding
  <1>16. ASSUME NEW c \in Clients, Enqueues(c) PROVE WaitInv'
    BY <1>16, <1>p, <1>e DEF Enqueues, NodeAt, FutAt, PcAt, adding
  <1>17. ASSUME NEW c \in Clients, Repeats(c) PROVE WaitInv'
    BY <1>17, <1>p, <1>e DEF Repeats, FutAt, PcAt, shared, adding
  <1>18. ASSUME NEW c \in Clients, NEW k \in Tasks, Polls(c, k) PROVE WaitInv'
    BY <1>18, <1>p, <1>e DEF Polls, FutAt, PcAt, shared, adding
  <1>19. ASSUME NEW c \in Clients, UpdatesWaker(c) PROVE WaitInv'
    BY <1>19, <1>p, <1>e DEF UpdatesWaker, NodeAt, PcAt, shared, adding
  <1>20. ASSUME NEW c \in Clients, DropsUnqueued(c) PROVE WaitInv'
    BY <1>20, <1>p, <1>e DEF DropsUnqueued, GoneAt, NodeAt, FutAt, PcAt, shared, adding
  <1>21. ASSUME NEW c \in Clients, CancelsAlone(c) PROVE WaitInv'
    BY <1>21, <1>p, <1>e DEF CancelsAlone, Cancels, GoneAt, NodeAt, FutAt, PcAt
  <1>22. ASSUME NEW c \in Clients, CancelsNewest(c) PROVE WaitInv'
    BY <1>22, <1>p, <1>e DEF CancelsNewest, Cancels, GoneAt, NodeAt, FutAt, PcAt
  <1>23. ASSUME NEW c \in Clients, CancelsAhead(c) PROVE WaitInv'
    BY <1>23, <1>p, <1>e DEF CancelsAhead, Cancels, GoneAt, NodeAt, FutAt, PcAt
  <1>24. ASSUME NEW c \in Clients, CancelsDrained(c) PROVE WaitInv'
    BY <1>24, <1>p, <1>e DEF CancelsDrained, Cancels, GoneAt, NodeAt, FutAt, PcAt
  <1>25. ASSUME NEW c \in Clients, Forgets(c) PROVE WaitInv'
    BY <1>25, <1>p, <1>e DEF Forgets, shared, adding
  <1>26. ASSUME NEW c \in Clients, NEW n \in Sizes, ForgetsSome(c, n) PROVE WaitInv'
    BY <1>26, <1>p, <1>e DEF ForgetsSome, adding
  <1>27. ASSUME NEW c \in Clients, Closes(c) PROVE WaitInv'
    BY <1>27, <1>p, <1>e DEF Closes, PcAt, adding
  <1>28. ASSUME NEW c \in Clients, DrainStarts(c) PROVE WaitInv'
    BY <1>28, <1>p, <1>e DEF DrainStarts, PcAt, adding
  <1>29. ASSUME NEW c \in Clients, DrainEnds(c) PROVE WaitInv'
    BY <1>29, <1>p, <1>e DEF DrainEnds, PcAt, adding
  <1>30. CASE UNCHANGED vars
    BY <1>30, <1>p, <1>e DEF vars, shared, adding
  <1> HIDE DEF WaitInv, Status
  <1>s. (\E c \in Clients : Steps(c)) \/ UNCHANGED vars
    BY StepCases
  <1> QED
    BY <1>s, <1>1, <1>2, <1>3, <1>4, <1>5, <1>6, <1>7, <1>8, <1>9, <1>10, <1>11, <1>12, <1>13,
       <1>14, <1>15, <1>16, <1>17, <1>18, <1>19, <1>20, <1>21, <1>22, <1>23, <1>24, <1>25, <1>26,
       <1>27, <1>28, <1>29, <1>30
    DEF Steps, AddSteps, LockSteps, AcquireSteps, DropSteps, CallSteps

(* The permits that are taken along are those of the state that is compared. *)
LEMMA AskStep == IInv /\ [Next]_vars => AskInv'
  <1> SUFFICES ASSUME IInv, [Next]_vars PROVE AskInv'
    OBVIOUS
  <1> USE DEF AskInv
  <1>p. \A b \in Clients : node[b].remaining \in Nat /\ fut[b].want \in Nat /\ add[b] \in Nat
    BY DEF IInv, Types
  <1> USE DEF IInv
  <1>e. \A b \in Clients : Status(b) = "Queued" => pc[b] \notin {"poll", "enqueue"}
    BY DEF NodeInv
  <1>1. ASSUME NEW c \in Clients, AddsAgain(c) PROVE AskInv'
    BY <1>1, <1>p, <1>e DEF AddsAgain, AddsAt, PcAt
  <1>2. ASSUME NEW c \in Clients, NEW n \in Nat, AddsReleased(c, n) PROVE AskInv'
    BY <1>2, <1>p, <1>e DEF AddsReleased, AddsAt, PcAt
  <1>3. ASSUME NEW c \in Clients, NEW n \in Sizes, AddsNew(c, n) PROVE AskInv'
    BY <1>3, <1>p, <1>e DEF AddsNew, AddsAt, PcAt
  <1>4. ASSUME NEW c \in Clients, Abandons(c) PROVE AskInv'
    BY <1>4, <1>p, <1>e DEF Abandons, AddsAt, PcAt, GoneAt, NodeAt, FutAt
  <1>5. ASSUME NEW c \in Clients, Moves(c) PROVE AskInv'
    BY <1>5, <1>p, <1>e DEF Moves, PcAt, shared, adding
  <1>6. ASSUME NEW c \in Clients, GetsLock(c) PROVE AskInv'
    BY <1>6, <1>p, <1>e DEF GetsLock, PcAt, adding
  <1>7. ASSUME NEW c \in Clients, WakeAt(c) PROVE AskInv'
    BY <1>7, <1>p, <1>e DEF WakeAt, shared
  <1>8. ASSUME NEW c \in Clients, NEW d \in Clients, ServesPart(c, d) PROVE AskInv'
    BY <1>8, <1>p, <1>e DEF ServesPart, First, NodeAt, PcAt
  <1>9. ASSUME NEW c \in Clients, NEW d \in Clients, ServesAll(c, d) PROVE AskInv'
    BY <1>9, <1>p, <1>e, ZenonT(40) DEF ServesAll, First, TakeAt, NodeAt, PcAt
  <1>10. ASSUME NEW c \in Clients, NEW d \in Clients, DrainsNext(c, d) PROVE AskInv'
    BY <1>10, <1>p, <1>e DEF DrainsNext, TakeAt, NodeAt, PcAt
  <1>11. ASSUME NEW c \in Clients, NEW n \in Nat, NEW s \in Nat, Tries(c, n, s) PROVE AskInv'
    BY <1>11, <1>p, <1>e DEF Tries, Request, adding
  <1>12. ASSUME NEW c \in Clients, NEW n \in Nat, NEW s \in Nat, NEW k \in Tasks, Starts(c, n, s, k) PROVE AskInv'
    BY <1>12, <1>p, <1>e, Parameters DEF Starts, Request, FutAt, PcAt, shared, adding
  <1>13. ASSUME NEW c \in Clients, AcquiresNow(c) PROVE AskInv'
    BY <1>13, <1>p, <1>e DEF AcquiresNow, GoneAt, NodeAt, FutAt, PcAt, adding
  <1>14. ASSUME NEW c \in Clients, AcquiresLate(c) PROVE AskInv'
    BY <1>14, <1>p, <1>e DEF AcquiresLate, GoneAt, NodeAt, FutAt, PcAt, shared, adding
  <1>15. ASSUME NEW c \in Clients, StoresWaker(c) PROVE AskInv'
    BY <1>15, <1>p, <1>e, PartBound DEF StoresWaker, FutAt, NodeAt, PcAt, shared, adding
  <1>16. ASSUME NEW c \in Clients, Enqueues(c) PROVE AskInv'
    BY <1>16, <1>p, <1>e DEF Enqueues, NodeAt, FutAt, PcAt, adding
  <1>17. ASSUME NEW c \in Clients, Repeats(c) PROVE AskInv'
    BY <1>17, <1>p, <1>e DEF Repeats, FutAt, PcAt, shared, adding
  <1>18. ASSUME NEW c \in Clients, NEW k \in Tasks, Polls(c, k) PROVE AskInv'
    BY <1>18, <1>p, <1>e DEF Polls, FutAt, PcAt, shared, adding
  <1>19. ASSUME NEW c \in Clients, UpdatesWaker(c) PROVE AskInv'
    BY <1>19, <1>p, <1>e DEF UpdatesWaker, NodeAt, PcAt, shared, adding
  <1>20. ASSUME NEW c \in Clients, DropsUnqueued(c) PROVE AskInv'
    BY <1>20, <1>p, <1>e DEF DropsUnqueued, GoneAt, NodeAt, FutAt, PcAt, shared, adding
  <1>21. ASSUME NEW c \in Clients, CancelsAlone(c) PROVE AskInv'
    BY <1>21, <1>p, <1>e DEF CancelsAlone, Cancels, GoneAt, NodeAt, FutAt, PcAt
  <1>22. ASSUME NEW c \in Clients, CancelsNewest(c) PROVE AskInv'
    BY <1>22, <1>p, <1>e DEF CancelsNewest, Cancels, GoneAt, NodeAt, FutAt, PcAt
  <1>23. ASSUME NEW c \in Clients, CancelsAhead(c) PROVE AskInv'
    BY <1>23, <1>p, <1>e DEF CancelsAhead, Cancels, GoneAt, NodeAt, FutAt, PcAt
  <1>24. ASSUME NEW c \in Clients, CancelsDrained(c) PROVE AskInv'
    BY <1>24, <1>p, <1>e DEF CancelsDrained, Cancels, GoneAt, NodeAt, FutAt, PcAt
  <1>25. ASSUME NEW c \in Clients, Forgets(c) PROVE AskInv'
    BY <1>25, <1>p, <1>e DEF Forgets, shared, adding
  <1>26. ASSUME NEW c \in Clients, NEW n \in Sizes, ForgetsSome(c, n) PROVE AskInv'
    BY <1>26, <1>p, <1>e DEF ForgetsSome, adding
  <1>27. ASSUME NEW c \in Clients, Closes(c) PROVE AskInv'
    BY <1>27, <1>p, <1>e DEF Closes, PcAt, adding
  <1>28. ASSUME NEW c \in Clients, DrainStarts(c) PROVE AskInv'
    BY <1>28, <1>p, <1>e DEF DrainStarts, PcAt, adding
  <1>29. ASSUME NEW c \in Clients, DrainEnds(c) PROVE AskInv'
    BY <1>29, <1>p, <1>e DEF DrainEnds, PcAt, adding
  <1>30. CASE UNCHANGED vars
    BY <1>30, <1>p, <1>e DEF vars, shared, adding
  <1> HIDE DEF AskInv
  <1>s. (\E c \in Clients : Steps(c)) \/ UNCHANGED vars
    BY StepCases
  <1> QED
    BY <1>s, <1>1, <1>2, <1>3, <1>4, <1>5, <1>6, <1>7, <1>8, <1>9, <1>10, <1>11, <1>12, <1>13,
       <1>14, <1>15, <1>16, <1>17, <1>18, <1>19, <1>20, <1>21, <1>22, <1>23, <1>24, <1>25, <1>26,
       <1>27, <1>28, <1>29, <1>30
    DEF Steps, AddSteps, LockSteps, AcquireSteps, DropSteps, CallSteps

(* A waiter is dequeued once it has got all of its permits. *)
LEMMA ServedStep == IInv /\ [Next]_vars => ServedInv'
  <1> SUFFICES ASSUME IInv, [Next]_vars PROVE ServedInv'
    OBVIOUS
  <1> USE DEF ServedInv, Status
  <1>r. IsClosed => IsClosed'
    BY ClosedStep
  <1>e. \A b \in Clients :
            /\ pc[b] \notin {"pending", "lock", "error", "cancel"} => Status(b) = "Unqueued"
            /\ pc[b] = "drain" => IsClosed
    BY DEF IInv, NodeInv, StateInv
  <1> USE DEF IInv
  <1>1. ASSUME NEW c \in Clients, AddsAgain(c) PROVE ServedInv'
    BY <1>1, <1>r, <1>e DEF AddsAgain, AddsAt
  <1>2. ASSUME NEW c \in Clients, NEW n \in Nat, AddsReleased(c, n) PROVE ServedInv'
    BY <1>2, <1>r, <1>e DEF AddsReleased, AddsAt
  <1>3. ASSUME NEW c \in Clients, NEW n \in Sizes, AddsNew(c, n) PROVE ServedInv'
    BY <1>3, <1>r, <1>e DEF AddsNew, AddsAt
  <1>4. ASSUME NEW c \in Clients, Abandons(c) PROVE ServedInv'
    BY <1>4, <1>r, <1>e DEF Abandons, AddsAt, GoneAt, NodeAt
  <1>5. ASSUME NEW c \in Clients, Moves(c) PROVE ServedInv'
    BY <1>5, <1>r, <1>e DEF Moves, shared, adding
  <1>6. ASSUME NEW c \in Clients, GetsLock(c) PROVE ServedInv'
    BY <1>6, <1>r, <1>e DEF GetsLock, adding
  <1>7. ASSUME NEW c \in Clients, WakeAt(c) PROVE ServedInv'
    BY <1>7, <1>r, <1>e DEF WakeAt, shared
  <1>8. ASSUME NEW c \in Clients, NEW d \in Clients, ServesPart(c, d) PROVE ServedInv'
    BY <1>8, <1>r, <1>e DEF ServesPart, First, NodeAt
  <1>9. ASSUME NEW c \in Clients, NEW d \in Clients, ServesAll(c, d) PROVE ServedInv'
    BY <1>9, <1>r, <1>e, ZenonT(40) DEF ServesAll, First, TakeAt, NodeAt
  <1>10. ASSUME NEW c \in Clients, NEW d \in Clients, DrainsNext(c, d) PROVE ServedInv'
    BY <1>10, <1>r, <1>e DEF DrainsNext, TakeAt, NodeAt
  <1>11. ASSUME NEW c \in Clients, NEW n \in Nat, NEW s \in Nat, Tries(c, n, s) PROVE ServedInv'
    BY <1>11, <1>r, <1>e DEF Tries, adding
  <1>12. ASSUME NEW c \in Clients, NEW n \in Nat, NEW s \in Nat, NEW k \in Tasks, Starts(c, n, s, k) PROVE ServedInv'
    BY <1>12, <1>r, <1>e DEF Starts, shared, adding
  <1>13. ASSUME NEW c \in Clients, AcquiresNow(c) PROVE ServedInv'
    BY <1>13, <1>r, <1>e DEF AcquiresNow, GoneAt, NodeAt, adding
  <1>14. ASSUME NEW c \in Clients, AcquiresLate(c) PROVE ServedInv'
    BY <1>14, <1>r, <1>e DEF AcquiresLate, GoneAt, NodeAt, shared, adding
  <1>15. ASSUME NEW c \in Clients, StoresWaker(c) PROVE ServedInv'
    BY <1>15, <1>r, <1>e DEF StoresWaker, NodeAt, shared, adding
  <1>16. ASSUME NEW c \in Clients, Enqueues(c) PROVE ServedInv'
    BY <1>16, <1>r, <1>e DEF Enqueues, NodeAt, adding
  <1>17. ASSUME NEW c \in Clients, Repeats(c) PROVE ServedInv'
    BY <1>17, <1>r, <1>e DEF Repeats, shared, adding
  <1>18. ASSUME NEW c \in Clients, NEW k \in Tasks, Polls(c, k) PROVE ServedInv'
    BY <1>18, <1>r, <1>e DEF Polls, shared, adding
  <1>19. ASSUME NEW c \in Clients, UpdatesWaker(c) PROVE ServedInv'
    BY <1>19, <1>r, <1>e DEF UpdatesWaker, NodeAt, shared, adding
  <1>20. ASSUME NEW c \in Clients, DropsUnqueued(c) PROVE ServedInv'
    BY <1>20, <1>r, <1>e DEF DropsUnqueued, GoneAt, NodeAt, shared, adding
  <1>21. ASSUME NEW c \in Clients, CancelsAlone(c) PROVE ServedInv'
    BY <1>21, <1>r, <1>e DEF CancelsAlone, Cancels, GoneAt, NodeAt
  <1>22. ASSUME NEW c \in Clients, CancelsNewest(c) PROVE ServedInv'
    BY <1>22, <1>r, <1>e DEF CancelsNewest, Cancels, GoneAt, NodeAt
  <1>23. ASSUME NEW c \in Clients, CancelsAhead(c) PROVE ServedInv'
    BY <1>23, <1>r, <1>e DEF CancelsAhead, Cancels, GoneAt, NodeAt
  <1>24. ASSUME NEW c \in Clients, CancelsDrained(c) PROVE ServedInv'
    BY <1>24, <1>r, <1>e DEF CancelsDrained, Cancels, GoneAt, NodeAt
  <1>25. ASSUME NEW c \in Clients, Forgets(c) PROVE ServedInv'
    BY <1>25, <1>r, <1>e DEF Forgets, shared, adding
  <1>26. ASSUME NEW c \in Clients, NEW n \in Sizes, ForgetsSome(c, n) PROVE ServedInv'
    BY <1>26, <1>r, <1>e DEF ForgetsSome, adding
  <1>27. ASSUME NEW c \in Clients, Closes(c) PROVE ServedInv'
    BY <1>27, <1>r, <1>e DEF Closes, adding
  <1>28. ASSUME NEW c \in Clients, DrainStarts(c) PROVE ServedInv'
    BY <1>28, <1>r, <1>e DEF DrainStarts, adding
  <1>29. ASSUME NEW c \in Clients, DrainEnds(c) PROVE ServedInv'
    BY <1>29, <1>r, <1>e DEF DrainEnds, adding
  <1>30. CASE UNCHANGED vars
    BY <1>30, <1>r, <1>e DEF vars, shared, adding
  <1> HIDE DEF ServedInv, Status
  <1>s. (\E c \in Clients : Steps(c)) \/ UNCHANGED vars
    BY StepCases
  <1> QED
    BY <1>s, <1>1, <1>2, <1>3, <1>4, <1>5, <1>6, <1>7, <1>8, <1>9, <1>10, <1>11, <1>12, <1>13,
       <1>14, <1>15, <1>16, <1>17, <1>18, <1>19, <1>20, <1>21, <1>22, <1>23, <1>24, <1>25, <1>26,
       <1>27, <1>28, <1>29, <1>30
    DEF Steps, AddSteps, LockSteps, AcquireSteps, DropSteps, CallSteps

(* A node that leaves its list and is not Queued any more leaves the       *)
(* others where they are.                                                  *)
LEMMA ListOut ==
    ASSUME Types, ListInv, NEW c \in Clients, OutOfList(c), node'[c].status # "Queued",
           \A g \in Clients : g # c => node'[g] = node[g]
    PROVE  ListInv'
  <1>1. Distinct(queue') /\ \A t \in Clients : Distinct(drained'[t])
    BY DEF OutOfList
  <1>2. /\ \A g : InSeq(g, queue') <=> InSeq(g, queue) /\ g # c
        /\ \A t \in Clients : \A g : InSeq(g, drained'[t]) <=> InSeq(g, drained[t]) /\ g # c
    BY DEF OutOfList
  <1>3. \A g \in Clients, t \in Clients : InSeq(g, queue') => ~InSeq(g, drained'[t])
    BY <1>2 DEF ListInv
  <1>4. \A g \in Clients, t, u \in Clients : InSeq(g, drained'[t]) /\ InSeq(g, drained'[u]) => t = u
    BY <1>2 DEF ListInv
  <1>5. \A g \in Clients :
            node'[g].status = "Queued" <=> InSeq(g, queue') \/ \E t \in Clients : InSeq(g, drained'[t])
    BY <1>2 DEF ListInv, Status
  <1> QED
    BY <1>1, <1>3, <1>4, <1>5 DEF ListInv, Status

(* A node is Queued exactly if it is in a list, and only once. *)
LEMMA ListStep == IInv /\ [Next]_vars => ListInv'
  <1> SUFFICES ASSUME IInv, [Next]_vars PROVE ListInv'
    OBVIOUS
  <1> USE DEF ListInv, Status
  <1>e. \A b \in Clients :
            /\ pc[b] \notin {"pending", "lock", "error", "cancel"} => Status(b) = "Unqueued"
            /\ pc[b] \in {"pending", "lock", "cancel"} => Status(b) # "Unqueued"
    BY DEF IInv, NodeInv
  <1> USE DEF IInv
  <1>1. ASSUME NEW c \in Clients, AddsAgain(c) PROVE ListInv'
    BY <1>1, <1>e DEF AddsAgain, AddsAt
  <1>2. ASSUME NEW c \in Clients, NEW n \in Nat, AddsReleased(c, n) PROVE ListInv'
    BY <1>2, <1>e DEF AddsReleased, AddsAt
  <1>3. ASSUME NEW c \in Clients, NEW n \in Sizes, AddsNew(c, n) PROVE ListInv'
    BY <1>3, <1>e DEF AddsNew, AddsAt
  <1>4. ASSUME NEW c \in Clients, Abandons(c) PROVE ListInv'
    BY <1>4, <1>e DEF Abandons, AddsAt, GoneAt, NodeAt
  <1>5. ASSUME NEW c \in Clients, Moves(c) PROVE ListInv'
    BY <1>5, <1>e DEF Moves, shared, adding
  <1>6. ASSUME NEW c \in Clients, GetsLock(c) PROVE ListInv'
    BY <1>6, <1>e DEF GetsLock, adding
  <1>7. ASSUME NEW c \in Clients, WakeAt(c) PROVE ListInv'
    BY <1>7, <1>e DEF WakeAt, shared
  <1>8. ASSUME NEW c \in Clients, NEW d \in Clients, ServesPart(c, d) PROVE ListInv'
    BY <1>8, <1>e DEF ServesPart, First, NodeAt
  <1>9. ASSUME NEW c \in Clients, NEW d \in Clients, ServesAll(c, d) PROVE ListInv'
    <2>1. OutOfList(d) /\ node'[d].status # "Queued" /\ \A g \in Clients : g # d => node'[g] = node[g]
      BY <1>9 DEF ServesAll, TakeAt, NodeAt
    <2> HIDE DEF ListInv
    <2> QED
      BY <2>1, ListOut
  <1>10. ASSUME NEW c \in Clients, NEW d \in Clients, DrainsNext(c, d) PROVE ListInv'
    <2>1. OutOfList(d) /\ node'[d].status # "Queued" /\ \A g \in Clients : g # d => node'[g] = node[g]
      BY <1>10 DEF DrainsNext, TakeAt, NodeAt
    <2> HIDE DEF ListInv
    <2> QED
      BY <2>1, ListOut
  <1>11. ASSUME NEW c \in Clients, NEW n \in Nat, NEW s \in Nat, Tries(c, n, s) PROVE ListInv'
    BY <1>11, <1>e DEF Tries, adding
  <1>12. ASSUME NEW c \in Clients, NEW n \in Nat, NEW s \in Nat, NEW k \in Tasks, Starts(c, n, s, k) PROVE ListInv'
    BY <1>12, <1>e DEF Starts, shared, adding
  <1>13. ASSUME NEW c \in Clients, AcquiresNow(c) PROVE ListInv'
    BY <1>13, <1>e DEF AcquiresNow, GoneAt, NodeAt, adding
  <1>14. ASSUME NEW c \in Clients, AcquiresLate(c) PROVE ListInv'
    BY <1>14, <1>e DEF AcquiresLate, GoneAt, NodeAt, shared, adding
  <1>15. ASSUME NEW c \in Clients, StoresWaker(c) PROVE ListInv'
    BY <1>15, <1>e DEF StoresWaker, NodeAt, shared, adding
  <1>16. ASSUME NEW c \in Clients, Enqueues(c) PROVE ListInv'
    <2>1. ~InSeq(c, queue) /\ \A t \in Clients : ~InSeq(c, drained[t])
      BY <1>16, <1>e DEF Enqueues
    <2>2. queue \in Seq(Clients) /\ queue' = Append(queue, c)
      BY <1>16 DEF Enqueues, Types
    <2>3. Distinct(queue') /\ \A g : InSeq(g, queue') <=> InSeq(g, queue) \/ g = c
      BY <2>1, <2>2, AppendList
    <2>4. UNCHANGED drained /\ node'[c].status = "Queued" /\ \A g \in Clients : g # c => node'[g] = node[g]
      BY <1>16 DEF Enqueues, NodeAt
    <2> QED
      BY <2>1, <2>3, <2>4
  <1>17. ASSUME NEW c \in Clients, Repeats(c) PROVE ListInv'
    BY <1>17, <1>e DEF Repeats, shared, adding
  <1>18. ASSUME NEW c \in Clients, NEW k \in Tasks, Polls(c, k) PROVE ListInv'
    BY <1>18, <1>e DEF Polls, shared, adding
  <1>19. ASSUME NEW c \in Clients, UpdatesWaker(c) PROVE ListInv'
    BY <1>19, <1>e DEF UpdatesWaker, NodeAt, shared, adding
  <1>20. ASSUME NEW c \in Clients, DropsUnqueued(c) PROVE ListInv'
    BY <1>20, <1>e DEF DropsUnqueued, GoneAt, NodeAt, shared, adding
  <1>21. ASSUME NEW c \in Clients, CancelsAlone(c) PROVE ListInv'
    <2>1. OutOfList(c) /\ node'[c].status # "Queued" /\ \A g \in Clients : g # c => node'[g] = node[g]
      BY <1>21 DEF CancelsAlone, Cancels, GoneAt, NodeAt
    <2> HIDE DEF ListInv
    <2> QED
      BY <2>1, ListOut
  <1>22. ASSUME NEW c \in Clients, CancelsNewest(c) PROVE ListInv'
    <2>1. OutOfList(c) /\ node'[c].status # "Queued" /\ \A g \in Clients : g # c => node'[g] = node[g]
      BY <1>22 DEF CancelsNewest, Cancels, GoneAt, NodeAt
    <2> HIDE DEF ListInv
    <2> QED
      BY <2>1, ListOut
  <1>23. ASSUME NEW c \in Clients, CancelsAhead(c) PROVE ListInv'
    <2>1. OutOfList(c) /\ node'[c].status # "Queued" /\ \A g \in Clients : g # c => node'[g] = node[g]
      BY <1>23 DEF CancelsAhead, Cancels, GoneAt, NodeAt
    <2> HIDE DEF ListInv
    <2> QED
      BY <2>1, ListOut
  <1>24. ASSUME NEW c \in Clients, CancelsDrained(c) PROVE ListInv'
    <2>1. OutOfList(c) /\ node'[c].status # "Queued" /\ \A g \in Clients : g # c => node'[g] = node[g]
      BY <1>24 DEF CancelsDrained, Cancels, GoneAt, NodeAt
    <2> HIDE DEF ListInv
    <2> QED
      BY <2>1, ListOut
  <1>25. ASSUME NEW c \in Clients, Forgets(c) PROVE ListInv'
    BY <1>25, <1>e DEF Forgets, shared, adding
  <1>26. ASSUME NEW c \in Clients, NEW n \in Sizes, ForgetsSome(c, n) PROVE ListInv'
    BY <1>26, <1>e DEF ForgetsSome, adding
  <1>27. ASSUME NEW c \in Clients, Closes(c) PROVE ListInv'
    BY <1>27, <1>e DEF Closes, adding
  <1>28. ASSUME NEW c \in Clients, DrainStarts(c) PROVE ListInv'
    <2>1. drained[c] = <<>>
      BY <1>28 DEF DrainStarts, DrainInv
    <2>2. \A g : ~InSeq(g, drained[c]) /\ ~InSeq(g, queue')
      BY <1>28, <2>1 DEF DrainStarts, InSeq
    <2>3. drained'[c] = queue /\ \A u \in Clients : u # c => drained'[u] = drained[u]
      BY <1>28 DEF DrainStarts, Types
    <2>4. UNCHANGED node /\ Distinct(queue')
      BY <1>28 DEF DrainStarts, Distinct
    <2>5. \A u \in Clients : Distinct(drained'[u])
      BY <2>3
    <2>6. \A g \in Clients, u \in Clients : InSeq(g, drained'[u]) <=>
              IF u = c THEN InSeq(g, queue) ELSE InSeq(g, drained[u])
      BY <2>3
    <2>7. \A g \in Clients, u, v \in Clients : InSeq(g, drained'[u]) /\ InSeq(g, drained'[v]) => u = v
      BY <2>6
    <2>8. \A g \in Clients : Status(g) = "Queued" <=> \E u \in Clients : InSeq(g, drained'[u])
      BY <2>2, <2>6
    <2> QED
      BY <2>2, <2>4, <2>5, <2>7, <2>8
  <1>29. ASSUME NEW c \in Clients, DrainEnds(c) PROVE ListInv'
    BY <1>29, <1>e DEF DrainEnds, adding
  <1>30. CASE UNCHANGED vars
    BY <1>30, <1>e DEF vars, shared, adding
  <1> HIDE DEF ListInv, Status
  <1>s. (\E c \in Clients : Steps(c)) \/ UNCHANGED vars
    BY StepCases
  <1> QED
    BY <1>s, <1>1, <1>2, <1>3, <1>4, <1>5, <1>6, <1>7, <1>8, <1>9, <1>10, <1>11, <1>12, <1>13,
       <1>14, <1>15, <1>16, <1>17, <1>18, <1>19, <1>20, <1>21, <1>22, <1>23, <1>24, <1>25, <1>26,
       <1>27, <1>28, <1>29, <1>30
    DEF Steps, AddSteps, LockSteps, AcquireSteps, DropSteps, CallSteps

(* Only the first waiter has got some permits. *)
LEMMA OrderStep == IInv /\ [Next]_vars => OrderInv'
  <1> SUFFICES ASSUME IInv, [Next]_vars PROVE OrderInv'
    OBVIOUS
  <1> USE DEF OrderInv
  <1>e. \A b \in Clients :
            /\ pc[b] \notin {"pending", "lock", "error", "cancel"} => Status(b) = "Unqueued"
            /\ pc[b] \in {"pending", "lock", "cancel"} => Status(b) # "Unqueued"
    BY DEF IInv, NodeInv
  <1>p. \A b \in Clients : node[b].remaining \in Nat /\ fut[b].want \in Nat /\ add[b] \in Nat
    BY DEF IInv, Types
  <1>n. \A x : ~InSeq(x, <<>>)
    BY DEF InSeq
  <1>q. \A b \in Clients : InSeq(b, queue) => Status(b) = "Queued"
    BY DEF IInv, ListInv
  <1> USE DEF IInv
  <1>1. ASSUME NEW c \in Clients, AddsAgain(c) PROVE OrderInv'
    BY <1>1, <1>e, <1>q DEF AddsAgain, AddsAt
  <1>2. ASSUME NEW c \in Clients, NEW n \in Nat, AddsReleased(c, n) PROVE OrderInv'
    BY <1>2, <1>e, <1>q DEF AddsReleased, AddsAt
  <1>3. ASSUME NEW c \in Clients, NEW n \in Sizes, AddsNew(c, n) PROVE OrderInv'
    BY <1>3, <1>e, <1>q DEF AddsNew, AddsAt
  <1>4. ASSUME NEW c \in Clients, Abandons(c) PROVE OrderInv'
    BY <1>4, <1>e, <1>q DEF Abandons, AddsAt, GoneAt, NodeAt, FutAt
  <1>5. ASSUME NEW c \in Clients, Moves(c) PROVE OrderInv'
    BY <1>5, <1>e, <1>q DEF Moves, shared, adding
  <1>6. ASSUME NEW c \in Clients, GetsLock(c) PROVE OrderInv'
    BY <1>6, <1>e, <1>q DEF GetsLock, adding
  <1>7. ASSUME NEW c \in Clients, WakeAt(c) PROVE OrderInv'
    BY <1>7, <1>e, <1>q DEF WakeAt, shared
  <1>8. ASSUME NEW c \in Clients, NEW d \in Clients, ServesPart(c, d) PROVE OrderInv'
    <2>1. /\ queue' = queue /\ queue[1] = d /\ node[d].remaining > add[c] /\ fut' = fut
          /\ node'[d].remaining = node[d].remaining - add[c]
          /\ \A b \in Clients : b # d => node'[b] = node[b]
      BY <1>8 DEF ServesPart, First, NodeAt
    <2>2. node'[d].remaining \in 1..fut[d].want \/ ~InSeq(d, queue)
      BY <1>p, <2>1
    <2> QED
      BY <2>1, <2>2
  <1>9. ASSUME NEW c \in Clients, NEW d \in Clients, ServesAll(c, d) PROVE OrderInv'
    <2>1. /\ OutOfList(d) /\ \A b \in Clients : b # d => node'[b] = node[b] /\ fut'[b] = fut[b]
      BY <1>9 DEF ServesAll, TakeAt, NodeAt
    <2>2. \A b \in Clients : InSeq(b, queue') => InSeq(b, queue) /\ b # d /\ queue' # <<>>
      BY <1>n, <2>1 DEF OutOfList
    <2>3. \A b \in Clients : InSeq(b, queue') /\ queue'[1] # b => queue[1] # b
      BY <2>1, <2>2 DEF OutOfList
    <2> QED
      BY <2>1, <2>2, <2>3
  <1>10. ASSUME NEW c \in Clients, NEW d \in Clients, DrainsNext(c, d) PROVE OrderInv'
    <2>1. /\ OutOfList(d) /\ \A b \in Clients : b # d => node'[b] = node[b] /\ fut'[b] = fut[b]
      BY <1>10 DEF DrainsNext, TakeAt, NodeAt
    <2>2. \A b \in Clients : InSeq(b, queue') => InSeq(b, queue) /\ b # d /\ queue' # <<>>
      BY <1>n, <2>1 DEF OutOfList
    <2>3. \A b \in Clients : InSeq(b, queue') /\ queue'[1] # b => queue[1] # b
      BY <2>1, <2>2 DEF OutOfList
    <2> QED
      BY <2>1, <2>2, <2>3
  <1>11. ASSUME NEW c \in Clients, NEW n \in Nat, NEW s \in Nat, Tries(c, n, s) PROVE OrderInv'
    BY <1>11, <1>e, <1>q DEF Tries, adding
  <1>12. ASSUME NEW c \in Clients, NEW n \in Nat, NEW s \in Nat, NEW k \in Tasks, Starts(c, n, s, k) PROVE OrderInv'
    BY <1>12, <1>e, <1>q DEF Starts, FutAt, shared, adding
  <1>13. ASSUME NEW c \in Clients, AcquiresNow(c) PROVE OrderInv'
    BY <1>13, <1>e, <1>q DEF AcquiresNow, GoneAt, NodeAt, FutAt, adding
  <1>14. ASSUME NEW c \in Clients, AcquiresLate(c) PROVE OrderInv'
    BY <1>14, <1>e, <1>q DEF AcquiresLate, GoneAt, NodeAt, FutAt, shared, adding
  <1>15. ASSUME NEW c \in Clients, StoresWaker(c) PROVE OrderInv'
    BY <1>15, <1>e, <1>q DEF StoresWaker, FutAt, NodeAt, shared, adding
  <1>16. ASSUME NEW c \in Clients, Enqueues(c) PROVE OrderInv'
    <2>1. queue \in Seq(Clients) /\ queue' = Append(queue, c)
      BY <1>16 DEF Enqueues, Types
    <2>2. \A g : InSeq(g, queue') <=> InSeq(g, queue) \/ g = c
      BY <2>1, AppendList
    <2>3. queue = <<>> => queue'[1] = c
      BY <2>1
    <2>4. queue # <<>> => queue'[1] = queue[1]
      <3>1. Len(queue) \in Nat /\ (queue # <<>> => 1 \in 1..Len(queue))
        BY <2>1, EmptyList
      <3> QED
        BY <2>1, <3>1, AppendProperties
    <2>5. queue # <<>> => fut[c].seen = -1
      BY <1>16 DEF Enqueues, OptState
    <2>6. /\ node[c].remaining \in 1..fut[c].want
          /\ fut[c].want - node[c].remaining = PartOf(fut[c].seen)
      BY <1>16 DEF Enqueues, AskInv
    <2>7. queue # <<>> => node[c].remaining = fut[c].want
      BY <1>p, <2>5, <2>6 DEF PartOf
    <2>8. /\ node'[c].remaining = node[c].remaining /\ fut'[c].want = fut[c].want
          /\ \A b \in Clients : b # c => node'[b] = node[b] /\ fut'[b] = fut[b]
      BY <1>16 DEF Enqueues, NodeAt, FutAt
    <2> QED
      BY <1>e, <1>n, <2>2, <2>3, <2>4, <2>6, <2>7, <2>8
  <1>17. ASSUME NEW c \in Clients, Repeats(c) PROVE OrderInv'
    BY <1>17, <1>e, <1>q DEF Repeats, FutAt, shared, adding
  <1>18. ASSUME NEW c \in Clients, NEW k \in Tasks, Polls(c, k) PROVE OrderInv'
    BY <1>18, <1>e, <1>q DEF Polls, FutAt, shared, adding
  <1>19. ASSUME NEW c \in Clients, UpdatesWaker(c) PROVE OrderInv'
    BY <1>19, <1>e, <1>q DEF UpdatesWaker, NodeAt, shared, adding
  <1>20. ASSUME NEW c \in Clients, DropsUnqueued(c) PROVE OrderInv'
    BY <1>20, <1>e, <1>q DEF DropsUnqueued, GoneAt, NodeAt, FutAt, shared, adding
  <1>21. ASSUME NEW c \in Clients, CancelsAlone(c) PROVE OrderInv'
    <2>1. /\ OutOfList(c) /\ \A b \in Clients : b # c => node'[b] = node[b] /\ fut'[b] = fut[b]
      BY <1>21 DEF CancelsAlone, Cancels, GoneAt, NodeAt, FutAt
    <2>2. \A b \in Clients : InSeq(b, queue') => InSeq(b, queue) /\ b # c /\ queue' # <<>>
      BY <1>n, <2>1 DEF OutOfList
    <2>3. \A b \in Clients : InSeq(b, queue') /\ queue'[1] # b => queue[1] # b
      BY <2>1, <2>2 DEF OutOfList
    <2> QED
      BY <2>1, <2>2, <2>3
  <1>22. ASSUME NEW c \in Clients, CancelsNewest(c) PROVE OrderInv'
    <2>1. /\ OutOfList(c) /\ \A b \in Clients : b # c => node'[b] = node[b] /\ fut'[b] = fut[b]
      BY <1>22 DEF CancelsNewest, Cancels, GoneAt, NodeAt, FutAt
    <2>2. \A b \in Clients : InSeq(b, queue') => InSeq(b, queue) /\ b # c /\ queue' # <<>>
      BY <1>n, <2>1 DEF OutOfList
    <2>3. \A b \in Clients : InSeq(b, queue') /\ queue'[1] # b => queue[1] # b
      BY <2>1, <2>2 DEF OutOfList
    <2> QED
      BY <2>1, <2>2, <2>3
  <1>23. ASSUME NEW c \in Clients, CancelsAhead(c) PROVE OrderInv'
    <2>1. /\ OutOfList(c) /\ \A b \in Clients : b # c => node'[b] = node[b] /\ fut'[b] = fut[b]
      BY <1>23 DEF CancelsAhead, Cancels, GoneAt, NodeAt, FutAt
    <2>2. \A b \in Clients : InSeq(b, queue') => InSeq(b, queue) /\ b # c /\ queue' # <<>>
      BY <1>n, <2>1 DEF OutOfList
    <2>3. \A b \in Clients : InSeq(b, queue') /\ queue'[1] # b => queue[1] # b
      BY <2>1, <2>2 DEF OutOfList
    <2> QED
      BY <2>1, <2>2, <2>3
  <1>24. ASSUME NEW c \in Clients, CancelsDrained(c) PROVE OrderInv'
    <2>1. /\ OutOfList(c) /\ \A b \in Clients : b # c => node'[b] = node[b] /\ fut'[b] = fut[b]
      BY <1>24 DEF CancelsDrained, Cancels, GoneAt, NodeAt, FutAt
    <2>2. \A b \in Clients : InSeq(b, queue') => InSeq(b, queue) /\ b # c /\ queue' # <<>>
      BY <1>n, <2>1 DEF OutOfList
    <2>3. \A b \in Clients : InSeq(b, queue') /\ queue'[1] # b => queue[1] # b
      BY <2>1, <2>2 DEF OutOfList
    <2> QED
      BY <2>1, <2>2, <2>3
  <1>25. ASSUME NEW c \in Clients, Forgets(c) PROVE OrderInv'
    BY <1>25, <1>e, <1>q DEF Forgets, shared, adding
  <1>26. ASSUME NEW c \in Clients, NEW n \in Sizes, ForgetsSome(c, n) PROVE OrderInv'
    BY <1>26, <1>e, <1>q DEF ForgetsSome, adding
  <1>27. ASSUME NEW c \in Clients, Closes(c) PROVE OrderInv'
    BY <1>27, <1>e, <1>q DEF Closes, adding
  <1>28. ASSUME NEW c \in Clients, DrainStarts(c) PROVE OrderInv'
    BY <1>28, <1>e, <1>q DEF DrainStarts, adding, InSeq
  <1>29. ASSUME NEW c \in Clients, DrainEnds(c) PROVE OrderInv'
    BY <1>29, <1>e, <1>q DEF DrainEnds, adding
  <1>30. CASE UNCHANGED vars
    BY <1>30, <1>e, <1>q DEF vars, shared, adding
  <1> HIDE DEF OrderInv
  <1>s. (\E c \in Clients : Steps(c)) \/ UNCHANGED vars
    BY StepCases
  <1> QED
    BY <1>s, <1>1, <1>2, <1>3, <1>4, <1>5, <1>6, <1>7, <1>8, <1>9, <1>10, <1>11, <1>12, <1>13,
       <1>14, <1>15, <1>16, <1>17, <1>18, <1>19, <1>20, <1>21, <1>22, <1>23, <1>24, <1>25, <1>26,
       <1>27, <1>28, <1>29, <1>30
    DEF Steps, AddSteps, LockSteps, AcquireSteps, DropSteps, CallSteps

(* The list of wakers has room for the next waker. *)
LEMMA RoomStep == IInv /\ [Next]_vars => RoomInv'
  <1> SUFFICES ASSUME IInv, [Next]_vars PROVE RoomInv'
    OBVIOUS
  <1> USE DEF RoomInv, WakingPC
  <1>p. /\ Capacity \in Nat /\ Capacity # 0 /\ Len(<<>>) = 0
        /\ wakers \in [Clients -> Seq(Clients \X Tasks)] /\ \A b \in Clients : Len(wakers[b]) \in Nat
    <2>1. Capacity \in Nat /\ Capacity # 0
      BY Parameters
    <2>2. wakers \in [Clients -> Seq(Clients \X Tasks)]
      BY DEF IInv, Types
    <2>3. Len(<<>>) = 0 /\ \A b \in Clients : Len(wakers[b]) \in Nat
      BY <2>2
    <2> QED
      BY <2>1, <2>2, <2>3
  <1>e. /\ \A b \in Clients : pc[b] \in {"locked", "drain"} => mutex = b
        /\ \A b \in Clients : drained[b] # <<>> => pc[b] \in {"drain", "wake_drain"}
    BY DEF IInv, LockInv, DrainInv
  <1>n. \A x \in Clients : Append(queue, x) # <<>>
    BY AppendList DEF IInv, Types
  <1> USE DEF IInv
  <1>1. ASSUME NEW c \in Clients, AddsAgain(c) PROVE RoomInv'
    BY <1>1, <1>p, <1>e DEF AddsAgain, AddsAt, PcAt
  <1>2. ASSUME NEW c \in Clients, NEW n \in Nat, AddsReleased(c, n) PROVE RoomInv'
    BY <1>2, <1>p, <1>e DEF AddsReleased, AddsAt, PcAt
  <1>3. ASSUME NEW c \in Clients, NEW n \in Sizes, AddsNew(c, n) PROVE RoomInv'
    BY <1>3, <1>p, <1>e DEF AddsNew, AddsAt, PcAt
  <1>4. ASSUME NEW c \in Clients, Abandons(c) PROVE RoomInv'
    BY <1>4, <1>p, <1>e DEF Abandons, AddsAt, PcAt
  <1>5. ASSUME NEW c \in Clients, Moves(c) PROVE RoomInv'
    BY <1>5, <1>p, <1>e DEF Moves, PcAt, shared, adding
  <1>6. ASSUME NEW c \in Clients, GetsLock(c) PROVE RoomInv'
    BY <1>6, <1>p, <1>e, SMTT(30) DEF GetsLock, PcAt, adding
  <1>7. ASSUME NEW c \in Clients, WakeAt(c) PROVE RoomInv'
    BY <1>7, <1>p, <1>e DEF WakeAt, shared
  <1>8. ASSUME NEW c \in Clients, NEW d \in Clients, ServesPart(c, d) PROVE RoomInv'
    BY <1>8, <1>p, <1>e DEF ServesPart, First, PcAt
  <1>9. ASSUME NEW c \in Clients, NEW d \in Clients, ServesAll(c, d) PROVE RoomInv'
    <2>1. /\ Len(wakers'[c]) = Len(wakers[c]) + 1 /\ Len(wakers[c]) < Capacity /\ mutex = c
          /\ \A b \in Clients : b # c => wakers'[b] = wakers[b]
      BY <1>9, <1>e DEF ServesAll, First, TakeAt
    <2>2. /\ \/ pc'[c] \in {"wake", "wake_add"}
             \/ pc'[c] = "locked" /\ Len(wakers'[c]) # Capacity /\ queue' # <<>>
          /\ \A b \in Clients : b # c => pc'[b] = pc[b]
      BY <1>9 DEF ServesAll, PcAt
    <2>3. pc'[c] = "locked" => Len(wakers'[c]) < Capacity
      BY <1>p, <2>1, <2>2
    <2>4. \A b \in Clients : b # c => pc'[b] \notin {"locked", "drain"}
      BY <1>e, <2>1, <2>2
    <2> QED
      BY <2>1, <2>2, <2>3, <2>4
  <1>10. ASSUME NEW c \in Clients, NEW d \in Clients, DrainsNext(c, d) PROVE RoomInv'
    <2>0. drained[c] # <<>>
      BY <1>10 DEF DrainsNext, InSeq
    <2>1. /\ Len(wakers'[c]) = Len(wakers[c]) + 1 /\ Len(wakers[c]) < Capacity /\ mutex = c
          /\ \A b \in Clients : b # c => wakers'[b] = wakers[b]
      BY <1>10, <1>e, <2>0 DEF DrainsNext, TakeAt
    <2>2. /\ \/ pc'[c] = "wake_drain"
             \/ pc'[c] = "drain" /\ (Len(wakers'[c]) # Capacity \/ drained'[c] = <<>>)
          /\ \A b \in Clients : b # c => pc'[b] = pc[b]
      BY <1>10 DEF DrainsNext, PcAt
    <2>3. pc'[c] = "drain" /\ drained'[c] # <<>> => Len(wakers'[c]) < Capacity
      BY <1>p, <2>1, <2>2
    <2>4. \A b \in Clients : b # c => pc'[b] \notin {"locked", "drain"}
      BY <1>e, <2>1, <2>2
    <2> QED
      BY <2>1, <2>2, <2>3, <2>4
  <1>11. ASSUME NEW c \in Clients, NEW n \in Nat, NEW s \in Nat, Tries(c, n, s) PROVE RoomInv'
    BY <1>11, <1>p, <1>e DEF Tries, adding
  <1>12. ASSUME NEW c \in Clients, NEW n \in Nat, NEW s \in Nat, NEW k \in Tasks, Starts(c, n, s, k) PROVE RoomInv'
    BY <1>12, <1>p, <1>e DEF Starts, PcAt, shared, adding
  <1>13. ASSUME NEW c \in Clients, AcquiresNow(c) PROVE RoomInv'
    BY <1>13, <1>p, <1>e DEF AcquiresNow, PcAt, adding
  <1>14. ASSUME NEW c \in Clients, AcquiresLate(c) PROVE RoomInv'
    BY <1>14, <1>p, <1>e DEF AcquiresLate, PcAt, shared, adding
  <1>15. ASSUME NEW c \in Clients, StoresWaker(c) PROVE RoomInv'
    BY <1>15, <1>p, <1>e DEF StoresWaker, PcAt, shared, adding
  <1>16. ASSUME NEW c \in Clients, Enqueues(c) PROVE RoomInv'
    BY <1>16, <1>p, <1>e, <1>n DEF Enqueues, PcAt, adding
  <1>17. ASSUME NEW c \in Clients, Repeats(c) PROVE RoomInv'
    BY <1>17, <1>p, <1>e DEF Repeats, PcAt, shared, adding
  <1>18. ASSUME NEW c \in Clients, NEW k \in Tasks, Polls(c, k) PROVE RoomInv'
    BY <1>18, <1>p, <1>e DEF Polls, PcAt, shared, adding
  <1>19. ASSUME NEW c \in Clients, UpdatesWaker(c) PROVE RoomInv'
    BY <1>19, <1>p, <1>e DEF UpdatesWaker, PcAt, shared, adding
  <1>20. ASSUME NEW c \in Clients, DropsUnqueued(c) PROVE RoomInv'
    BY <1>20, <1>p, <1>e DEF DropsUnqueued, PcAt, shared, adding
  <1>21. ASSUME NEW c \in Clients, CancelsAlone(c) PROVE RoomInv'
    BY <1>21, <1>p, <1>e DEF CancelsAlone, Cancels, OutOfList, PcAt
  <1>22. ASSUME NEW c \in Clients, CancelsNewest(c) PROVE RoomInv'
    BY <1>22, <1>p, <1>e, ZenonT(40) DEF CancelsNewest, Cancels, OutOfList, PcAt
  <1>23. ASSUME NEW c \in Clients, CancelsAhead(c) PROVE RoomInv'
    <2>1. wakers' = wakers /\ wakers[c] = <<>> /\ mutex = NONE /\ queue' # <<>>
      BY <1>23 DEF CancelsAhead, Cancels
    <2>2. pc'[c] \in {"idle", "locked"} /\ \A b \in Clients : b # c => pc'[b] = pc[b]
      BY <1>23 DEF CancelsAhead, PcAt
    <2>3. \A b \in Clients : b # c => pc'[b] \notin {"locked", "drain"}
      BY <1>e, <2>1, <2>2
    <2>4. Len(wakers[c]) < Capacity
      BY <1>p, <2>1
    <2> QED
      BY <2>1, <2>2, <2>3, <2>4
  <1>24. ASSUME NEW c \in Clients, CancelsDrained(c) PROVE RoomInv'
    BY <1>24, <1>p, <1>e DEF CancelsDrained, Cancels, OutOfList, PcAt
  <1>25. ASSUME NEW c \in Clients, Forgets(c) PROVE RoomInv'
    BY <1>25, <1>p, <1>e DEF Forgets, shared, adding
  <1>26. ASSUME NEW c \in Clients, NEW n \in Sizes, ForgetsSome(c, n) PROVE RoomInv'
    BY <1>26, <1>p, <1>e DEF ForgetsSome, adding
  <1>27. ASSUME NEW c \in Clients, Closes(c) PROVE RoomInv'
    BY <1>27, <1>p, <1>e DEF Closes, PcAt, adding
  <1>28. ASSUME NEW c \in Clients, DrainStarts(c) PROVE RoomInv'
    <2>1. wakers' = wakers /\ wakers[c] = <<>> /\ mutex = NONE
      BY <1>28 DEF DrainStarts, adding
    <2>2. pc'[c] = "drain" /\ \A b \in Clients : b # c => pc'[b] = pc[b]
      BY <1>28 DEF DrainStarts, PcAt
    <2>3. \A b \in Clients : b # c => pc'[b] \notin {"locked", "drain"}
      BY <1>e, <2>1, <2>2
    <2>4. Len(wakers[c]) < Capacity
      BY <1>p, <2>1
    <2> QED
      BY <2>1, <2>2, <2>3, <2>4
  <1>29. ASSUME NEW c \in Clients, DrainEnds(c) PROVE RoomInv'
    BY <1>29, <1>p, <1>e DEF DrainEnds, PcAt, adding
  <1>30. CASE UNCHANGED vars
    BY <1>30, <1>p, <1>e DEF vars, shared, adding
  <1> HIDE DEF RoomInv, WakingPC
  <1>s. (\E c \in Clients : Steps(c)) \/ UNCHANGED vars
    BY StepCases
  <1> QED
    BY <1>s, <1>1, <1>2, <1>3, <1>4, <1>5, <1>6, <1>7, <1>8, <1>9, <1>10, <1>11, <1>12, <1>13,
       <1>14, <1>15, <1>16, <1>17, <1>18, <1>19, <1>20, <1>21, <1>22, <1>23, <1>24, <1>25, <1>26,
       <1>27, <1>28, <1>29, <1>30
    DEF Steps, AddSteps, LockSteps, AcquireSteps, DropSteps, CallSteps

(* A waker is woken, in the list of a notifier, or in a node that is Queued. *)
LEMMA WakeStep == IInv /\ [Next]_vars => WakeInv'
  <1> SUFFICES ASSUME IInv, [Next]_vars PROVE WakeInv'
    OBVIOUS
  <1> USE DEF WakeInv, WillWake, Status
  <1>e. \A b \in Clients :
            /\ pc[b] \notin {"pending", "lock", "error", "cancel"} => Status(b) = "Unqueued"
            /\ pc[b] \in {"pending", "lock", "cancel"} => Status(b) # "Unqueued"
    BY DEF IInv, NodeInv
  <1>w. \A b \in Clients : pc[b] = "enqueue" => node[b].waker = fut[b].cx
    BY DEF IInv, WakerInv
  <1> USE DEF IInv
  <1>1. ASSUME NEW c \in Clients, AddsAgain(c) PROVE WakeInv'
    BY <1>1, <1>e, <1>w DEF AddsAgain, AddsAt, PcAt
  <1>2. ASSUME NEW c \in Clients, NEW n \in Nat, AddsReleased(c, n) PROVE WakeInv'
    BY <1>2, <1>e, <1>w DEF AddsReleased, AddsAt, PcAt
  <1>3. ASSUME NEW c \in Clients, NEW n \in Sizes, AddsNew(c, n) PROVE WakeInv'
    BY <1>3, <1>e, <1>w DEF AddsNew, AddsAt, PcAt
  <1>4. ASSUME NEW c \in Clients, Abandons(c) PROVE WakeInv'
    BY <1>4, <1>e, <1>w DEF Abandons, AddsAt, PcAt, GoneAt, NodeAt, FutAt
  <1>5. ASSUME NEW c \in Clients, Moves(c) PROVE WakeInv'
    BY <1>5, <1>e, <1>w DEF Moves, PcAt, shared, adding
  <1>6. ASSUME NEW c \in Clients, GetsLock(c) PROVE WakeInv'
    BY <1>6, <1>e, <1>w DEF GetsLock, PcAt, adding
  <1>7. ASSUME NEW c \in Clients, WakeAt(c) PROVE WakeInv'
    BY <1>7, <1>e, <1>w DEF WakeAt, shared
  <1>8. ASSUME NEW c \in Clients, NEW d \in Clients, ServesPart(c, d) PROVE WakeInv'
    BY <1>8, <1>e, <1>w DEF ServesPart, First, NodeAt, PcAt
  <1>9. ASSUME NEW c \in Clients, NEW d \in Clients, ServesAll(c, d) PROVE WakeInv'
    <2>1. /\ Status(d) = "Queued" /\ node'[d].status = "Dequeued" /\ node'[d].waker = NONE /\ node'[d].remaining = 0
          /\ UNCHANGED <<fut, woken>> /\ \A b \in Clients : b # d => node'[b] = node[b]
      BY <1>9 DEF ServesAll, TakeAt, NodeAt
    <2>2. /\ pc[c] = "locked" /\ pc'[c] \in {"wake", "wake_add", "locked"}
          /\ \A b \in Clients : b # c => pc'[b] = pc[b]
      BY <1>9 DEF ServesAll, First, PcAt
    <2>3. /\ \A b \in Clients : \A x : InSeq(x, wakers[b]) => InSeq(x, wakers'[b])
          /\ InSeq(<<d, node[d].waker>>, wakers'[c])
      BY <1>9 DEF ServesAll, TakeAt
    <2>4. \A b \in Clients : b # d => (WillWake(b) => WillWake(b)')
      BY <2>1, <2>3
    <2>5. WillWake(d) => WillWake(d)'
      BY <2>1, <2>3
    <2> HIDE DEF WillWake
    <2> QED
      BY <2>1, <2>2, <2>4, <2>5
  <1>10. ASSUME NEW c \in Clients, NEW d \in Clients, DrainsNext(c, d) PROVE WakeInv'
    <2>1. /\ Status(d) = "Queued" /\ node'[d].status = "Dequeued" /\ node'[d].waker = NONE
          /\ node'[d].remaining = node[d].remaining
          /\ UNCHANGED <<fut, woken>> /\ \A b \in Clients : b # d => node'[b] = node[b]
      BY <1>10 DEF DrainsNext, TakeAt, NodeAt
    <2>2. /\ pc[c] = "drain" /\ pc'[c] \in {"wake_drain", "drain"}
          /\ \A b \in Clients : b # c => pc'[b] = pc[b]
      BY <1>10 DEF DrainsNext, First, PcAt
    <2>3. /\ \A b \in Clients : \A x : InSeq(x, wakers[b]) => InSeq(x, wakers'[b])
          /\ InSeq(<<d, node[d].waker>>, wakers'[c])
      BY <1>10 DEF DrainsNext, TakeAt
    <2>4. \A b \in Clients : b # d => (WillWake(b) => WillWake(b)')
      BY <2>1, <2>3
    <2>5. WillWake(d) => WillWake(d)'
      BY <2>1, <2>3
    <2> HIDE DEF WillWake
    <2> QED
      BY <2>1, <2>2, <2>4, <2>5
  <1>11. ASSUME NEW c \in Clients, NEW n \in Nat, NEW s \in Nat, Tries(c, n, s) PROVE WakeInv'
    BY <1>11, <1>e, <1>w DEF Tries, adding
  <1>12. ASSUME NEW c \in Clients, NEW n \in Nat, NEW s \in Nat, NEW k \in Tasks, Starts(c, n, s, k) PROVE WakeInv'
    BY <1>12, <1>e, <1>w DEF Starts, FutAt, PcAt, shared, adding
  <1>13. ASSUME NEW c \in Clients, AcquiresNow(c) PROVE WakeInv'
    BY <1>13, <1>e, <1>w DEF AcquiresNow, GoneAt, NodeAt, FutAt, PcAt, adding
  <1>14. ASSUME NEW c \in Clients, AcquiresLate(c) PROVE WakeInv'
    BY <1>14, <1>e, <1>w DEF AcquiresLate, GoneAt, NodeAt, FutAt, PcAt, shared, adding
  <1>15. ASSUME NEW c \in Clients, StoresWaker(c) PROVE WakeInv'
    BY <1>15, <1>e, <1>w DEF StoresWaker, FutAt, NodeAt, PcAt, shared, adding
  <1>16. ASSUME NEW c \in Clients, Enqueues(c) PROVE WakeInv'
    BY <1>16, <1>e, <1>w DEF Enqueues, NodeAt, FutAt, PcAt, adding
  <1>17. ASSUME NEW c \in Clients, Repeats(c) PROVE WakeInv'
    BY <1>17, <1>e, <1>w DEF Repeats, FutAt, PcAt, shared, adding
  <1>18. ASSUME NEW c \in Clients, NEW k \in Tasks, Polls(c, k) PROVE WakeInv'
    BY <1>18, <1>e, <1>w DEF Polls, FutAt, PcAt, shared, adding
  <1>19. ASSUME NEW c \in Clients, UpdatesWaker(c) PROVE WakeInv'
    BY <1>19, <1>e, <1>w DEF UpdatesWaker, NodeAt, PcAt, shared, adding
  <1>20. ASSUME NEW c \in Clients, DropsUnqueued(c) PROVE WakeInv'
    BY <1>20, <1>e, <1>w DEF DropsUnqueued, GoneAt, NodeAt, FutAt, PcAt, shared, adding
  <1>21. ASSUME NEW c \in Clients, CancelsAlone(c) PROVE WakeInv'
    BY <1>21, <1>e, <1>w DEF CancelsAlone, Cancels, GoneAt, NodeAt, FutAt, PcAt
  <1>22. ASSUME NEW c \in Clients, CancelsNewest(c) PROVE WakeInv'
    BY <1>22, <1>e, <1>w DEF CancelsNewest, Cancels, GoneAt, NodeAt, FutAt, PcAt
  <1>23. ASSUME NEW c \in Clients, CancelsAhead(c) PROVE WakeInv'
    BY <1>23, <1>e, <1>w DEF CancelsAhead, Cancels, GoneAt, NodeAt, FutAt, PcAt
  <1>24. ASSUME NEW c \in Clients, CancelsDrained(c) PROVE WakeInv'
    BY <1>24, <1>e, <1>w DEF CancelsDrained, Cancels, GoneAt, NodeAt, FutAt, PcAt
  <1>25. ASSUME NEW c \in Clients, Forgets(c) PROVE WakeInv'
    BY <1>25, <1>e, <1>w DEF Forgets, shared, adding
  <1>26. ASSUME NEW c \in Clients, NEW n \in Sizes, ForgetsSome(c, n) PROVE WakeInv'
    BY <1>26, <1>e, <1>w DEF ForgetsSome, adding
  <1>27. ASSUME NEW c \in Clients, Closes(c) PROVE WakeInv'
    BY <1>27, <1>e, <1>w DEF Closes, PcAt, adding
  <1>28. ASSUME NEW c \in Clients, DrainStarts(c) PROVE WakeInv'
    BY <1>28, <1>e, <1>w DEF DrainStarts, PcAt, adding
  <1>29. ASSUME NEW c \in Clients, DrainEnds(c) PROVE WakeInv'
    BY <1>29, <1>e, <1>w DEF DrainEnds, PcAt, adding
  <1>30. CASE UNCHANGED vars
    BY <1>30, <1>e, <1>w DEF vars, shared, adding
  <1> HIDE DEF WakeInv, WillWake, Status
  <1>s. (\E c \in Clients : Steps(c)) \/ UNCHANGED vars
    BY StepCases
  <1> QED
    BY <1>s, <1>1, <1>2, <1>3, <1>4, <1>5, <1>6, <1>7, <1>8, <1>9, <1>10, <1>11, <1>12, <1>13,
       <1>14, <1>15, <1>16, <1>17, <1>18, <1>19, <1>20, <1>21, <1>22, <1>23, <1>24, <1>25, <1>26,
       <1>27, <1>28, <1>29, <1>30
    DEF Steps, AddSteps, LockSteps, AcquireSteps, DropSteps, CallSteps

(* There is no subtraction of more permits than there are. *)
LEMMA NumberStep == IInv /\ [Next]_vars => (state' \in Nat /\ total' \in Int)
  <1> SUFFICES ASSUME IInv, [Next]_vars PROVE (state' \in Nat /\ total' \in Int)
    OBVIOUS
  <1>p. /\ pc \in [Clients -> Points] /\ mutex \in Clients \cup {NONE} /\ state \in Nat
        /\ queue \in Seq(Clients) /\ add \in [Clients -> Nat] /\ drained \in [Clients -> Seq(Clients)]
        /\ \A b \in Clients : add[b] \in Nat /\ node[b].remaining \in Nat /\ fut[b].want \in Nat
    BY DEF IInv, Types, Points
  <1>t. total \in Int /\ \A b \in Clients : held[b] \in Nat
    BY DEF IInv, Types
  <1>q. \A b \in Clients : Status(b) # "Unqueued" => Part(b) \in Nat
    BY PartType DEF IInv
  <1>1. ASSUME NEW c \in Clients, AddsAgain(c) PROVE (state' \in Nat /\ total' \in Int)
    <2>1. add[c] \in Nat /\ (state' = state \/ state' = CheckAdd(state, add[c]))
      BY <1>1, <1>p, <1>q, Parameters DEF AddsAgain, AddsAt
    <2>2. total' = total
      BY <1>1 DEF AddsAgain
    <2> QED
      BY <1>p, <1>t, <2>1, <2>2, CheckAddType
  <1>2. ASSUME NEW c \in Clients, NEW n \in Nat, AddsReleased(c, n) PROVE (state' \in Nat /\ total' \in Int)
    <2>1. n \in Nat /\ (state' = state \/ state' = CheckAdd(state, n))
      BY <1>2, <1>p, <1>q, Parameters DEF AddsReleased, AddsAt
    <2>2. total' = total
      BY <1>2 DEF AddsReleased
    <2> QED
      BY <1>p, <1>t, <2>1, <2>2, CheckAddType
  <1>3. ASSUME NEW c \in Clients, NEW n \in Sizes, AddsNew(c, n) PROVE (state' \in Nat /\ total' \in Int)
    <2>1. n \in Nat /\ (state' = state \/ state' = CheckAdd(state, n))
      BY <1>3, <1>p, <1>q, Parameters DEF AddsNew, AddsAt
    <2>2. total' = total \/ total' = total + n
      BY <1>3 DEF AddsNew
    <2>3. state' \in Nat
      BY <1>p, <2>1, CheckAddType
    <2> QED
      BY <1>t, <2>1, <2>2, <2>3
  <1>4. ASSUME NEW c \in Clients, Abandons(c) PROVE (state' \in Nat /\ total' \in Int)
    <2>1. Part(c) \in Nat /\ (state' = state \/ state' = CheckAdd(state, Part(c)))
      BY <1>4, <1>p, <1>q, Parameters DEF Abandons, AddsAt
    <2>2. total' = total
      BY <1>4 DEF Abandons
    <2> QED
      BY <1>p, <1>t, <2>1, <2>2, CheckAddType
  <1>5. ASSUME NEW c \in Clients, Moves(c) PROVE (state' \in Nat /\ total' \in Int)
    BY <1>5, <1>p, <1>q, <1>t DEF Moves, shared, adding
  <1>6. ASSUME NEW c \in Clients, GetsLock(c) PROVE (state' \in Nat /\ total' \in Int)
    BY <1>6, <1>p, <1>q, <1>t DEF GetsLock, adding
  <1>7. ASSUME NEW c \in Clients, WakeAt(c) PROVE (state' \in Nat /\ total' \in Int)
    BY <1>7, <1>p, <1>q, <1>t DEF WakeAt, shared
  <1>8. ASSUME NEW c \in Clients, NEW d \in Clients, ServesPart(c, d) PROVE (state' \in Nat /\ total' \in Int)
    BY <1>8, <1>p, <1>q, <1>t DEF ServesPart, First
  <1>9. ASSUME NEW c \in Clients, NEW d \in Clients, ServesAll(c, d) PROVE (state' \in Nat /\ total' \in Int)
    <2>1. /\ state' = state \/ state' = 2 * (add[c] - node[d].remaining)
          /\ node[d].remaining <= add[c] /\ total' = total
      BY <1>9 DEF ServesAll
    <2>2. add[c] \in Nat /\ node[d].remaining \in Nat
      BY <1>p
    <2> QED
      BY <1>p, <1>t, <2>1, <2>2, SMTT(30)
  <1>10. ASSUME NEW c \in Clients, NEW d \in Clients, DrainsNext(c, d) PROVE (state' \in Nat /\ total' \in Int)
    BY <1>10, <1>p, <1>q, <1>t DEF DrainsNext, TakeAt
  <1>11. ASSUME NEW c \in Clients, NEW n \in Nat, NEW s \in Nat, Tries(c, n, s)
         PROVE  (state' \in Nat /\ total' \in Int)
    BY <1>11, <1>p, <1>q, <1>t DEF Tries, CanAcquire, adding
  <1>12. ASSUME NEW c \in Clients, NEW n \in Nat, NEW s \in Nat, NEW k \in Tasks, Starts(c, n, s, k)
         PROVE  (state' \in Nat /\ total' \in Int)
    BY <1>12, <1>p, <1>q, <1>t DEF Starts, shared, adding
  <1>13. ASSUME NEW c \in Clients, AcquiresNow(c) PROVE (state' \in Nat /\ total' \in Int)
    BY <1>13, <1>p, <1>q, <1>t DEF AcquiresNow, CanAcquire, adding
  <1>14. ASSUME NEW c \in Clients, AcquiresLate(c) PROVE (state' \in Nat /\ total' \in Int)
    BY <1>14, <1>p, <1>q, <1>t DEF AcquiresLate, shared, adding
  <1>15. ASSUME NEW c \in Clients, StoresWaker(c) PROVE (state' \in Nat /\ total' \in Int)
    BY <1>15, <1>p, <1>q, <1>t DEF StoresWaker, shared, adding
  <1>16. ASSUME NEW c \in Clients, Enqueues(c) PROVE (state' \in Nat /\ total' \in Int)
    BY <1>16, <1>p, <1>q, <1>t DEF Enqueues, adding
  <1>17. ASSUME NEW c \in Clients, Repeats(c) PROVE (state' \in Nat /\ total' \in Int)
    BY <1>17, <1>p, <1>q, <1>t DEF Repeats, shared, adding
  <1>18. ASSUME NEW c \in Clients, NEW k \in Tasks, Polls(c, k) PROVE (state' \in Nat /\ total' \in Int)
    BY <1>18, <1>p, <1>q, <1>t DEF Polls, shared, adding
  <1>19. ASSUME NEW c \in Clients, UpdatesWaker(c) PROVE (state' \in Nat /\ total' \in Int)
    BY <1>19, <1>p, <1>q, <1>t DEF UpdatesWaker, shared, adding
  <1>20. ASSUME NEW c \in Clients, DropsUnqueued(c) PROVE (state' \in Nat /\ total' \in Int)
    BY <1>20, <1>p, <1>q, <1>t DEF DropsUnqueued, shared, adding
  <1>21. ASSUME NEW c \in Clients, CancelsAlone(c) PROVE (state' \in Nat /\ total' \in Int)
    BY <1>21, <1>p, <1>q, <1>t DEF CancelsAlone, Cancels
  <1>22. ASSUME NEW c \in Clients, CancelsNewest(c) PROVE (state' \in Nat /\ total' \in Int)
    BY <1>22, <1>p, <1>q, <1>t DEF CancelsNewest, Cancels
  <1>23. ASSUME NEW c \in Clients, CancelsAhead(c) PROVE (state' \in Nat /\ total' \in Int)
    BY <1>23, <1>p, <1>q, <1>t DEF CancelsAhead, Cancels
  <1>24. ASSUME NEW c \in Clients, CancelsDrained(c) PROVE (state' \in Nat /\ total' \in Int)
    <2>1. Part(c) \in Nat /\ state' = CheckAdd(state, Part(c)) /\ total' = total
      BY <1>24, <1>q DEF CancelsDrained, Cancels
    <2> QED
      BY <1>p, <1>t, <2>1, CheckAddType
  <1>25. ASSUME NEW c \in Clients, Forgets(c) PROVE (state' \in Nat /\ total' \in Int)
    BY <1>25, <1>p, <1>q, <1>t DEF Forgets, shared, adding
  <1>26. ASSUME NEW c \in Clients, NEW n \in Sizes, ForgetsSome(c, n) PROVE (state' \in Nat /\ total' \in Int)
    <2>1. n \in Nat /\ state' = (state - 2 * n) % (UsizeMax + 1) /\ total' = total - n
      BY <1>26, Parameters DEF ForgetsSome
    <2>2. state' \in Nat
      BY <1>p, <2>1, ParityKept
    <2> QED
      BY <1>t, <2>1, <2>2
  <1>27. ASSUME NEW c \in Clients, Closes(c) PROVE (state' \in Nat /\ total' \in Int)
    BY <1>27, <1>p, <1>q, <1>t DEF Closes, adding, SetClosed, CLOSED
  <1>28. ASSUME NEW c \in Clients, DrainStarts(c) PROVE (state' \in Nat /\ total' \in Int)
    BY <1>28, <1>p, <1>q, <1>t DEF DrainStarts, adding, CLOSED
  <1>29. ASSUME NEW c \in Clients, DrainEnds(c) PROVE (state' \in Nat /\ total' \in Int)
    BY <1>29, <1>p, <1>q, <1>t DEF DrainEnds, adding
  <1>30. CASE UNCHANGED vars
    BY <1>30, <1>p, <1>q, <1>t DEF vars, shared, adding
  <1>s. (\E c \in Clients : Steps(c)) \/ UNCHANGED vars
    BY StepCases
  <1> QED
    BY <1>s, <1>1, <1>2, <1>3, <1>4, <1>5, <1>6, <1>7, <1>8, <1>9, <1>10, <1>11, <1>12, <1>13,
       <1>14, <1>15, <1>16, <1>17, <1>18, <1>19, <1>20, <1>21, <1>22, <1>23, <1>24, <1>25, <1>26,
       <1>27, <1>28, <1>29, <1>30
    DEF Steps, AddSteps, LockSteps, AcquireSteps, DropSteps, CallSteps

(* The variables keep their types. *)
LEMMA TypeStep == IInv /\ [Next]_vars => Types'
  <1> SUFFICES ASSUME IInv, [Next]_vars PROVE Types'
    OBVIOUS
  <1> USE DEF Types, Points, NodeRecord, FutRecord
  <1>c. calls' \in 0..MaxCalls /\ state' \in Nat /\ total' \in Int
    BY StepCases, NumberStep
  <1> USE DEF IInv
  <1>1. ASSUME NEW c \in Clients, AddsAgain(c) PROVE Types'
    BY <1>1, <1>c DEF AddsAgain, AddsAt, AddAt, PcAt
  <1>2. ASSUME NEW c \in Clients, NEW n \in Nat, AddsReleased(c, n) PROVE Types'
    BY <1>2, <1>c DEF AddsReleased, AddsAt, AddAt, PcAt, HeldAt
  <1>3. ASSUME NEW c \in Clients, NEW n \in Sizes, AddsNew(c, n) PROVE Types'
    BY <1>3, <1>c DEF AddsNew, AddsAt, AddAt, PcAt
  <1>4. ASSUME NEW c \in Clients, Abandons(c) PROVE Types'
    BY <1>4, <1>c DEF Abandons, AddsAt, AddAt, PcAt, GoneAt, NodeAt, FutAt
  <1>5. ASSUME NEW c \in Clients, Moves(c) PROVE Types'
    BY <1>5, <1>c DEF Moves, PcAt, shared, adding
  <1>6. ASSUME NEW c \in Clients, GetsLock(c) PROVE Types'
    BY <1>6, <1>c DEF GetsLock, PcAt, adding
  <1>7. ASSUME NEW c \in Clients, WakeAt(c) PROVE Types'
    BY <1>7, <1>c DEF WakeAt, shared
  <1>8. ASSUME NEW c \in Clients, NEW d \in Clients, ServesPart(c, d) PROVE Types'
    BY <1>8, <1>c DEF ServesPart, First, NodeAt, AddAt, PcAt
  <1>9. ASSUME NEW c \in Clients, NEW d \in Clients, ServesAll(c, d) PROVE Types'
    BY <1>9, <1>c DEF ServesAll, First, TakeAt, OutOfList, NodeAt, AddAt, PcAt
  <1>10. ASSUME NEW c \in Clients, NEW d \in Clients, DrainsNext(c, d) PROVE Types'
    BY <1>10, <1>c DEF DrainsNext, TakeAt, OutOfList, NodeAt, PcAt
  <1>11. ASSUME NEW c \in Clients, NEW n \in Nat, NEW s \in Nat, Tries(c, n, s) PROVE Types'
    BY <1>11, <1>c DEF Tries, HeldAt, adding
  <1>12. ASSUME NEW c \in Clients, NEW n \in Nat, NEW s \in Nat, NEW k \in Tasks, Starts(c, n, s, k) PROVE Types'
    BY <1>12, <1>c DEF Starts, FutAt, PcAt, shared, adding
  <1>13. ASSUME NEW c \in Clients, AcquiresNow(c) PROVE Types'
    BY <1>13, <1>c DEF AcquiresNow, HeldAt, GoneAt, NodeAt, FutAt, PcAt, adding
  <1>14. ASSUME NEW c \in Clients, AcquiresLate(c) PROVE Types'
    BY <1>14, <1>c DEF AcquiresLate, HeldAt, GoneAt, NodeAt, FutAt, PcAt, shared, adding
  <1>15. ASSUME NEW c \in Clients, StoresWaker(c) PROVE Types'
    BY <1>15, <1>c DEF StoresWaker, FutAt, NodeAt, PcAt, shared, adding
  <1>16. ASSUME NEW c \in Clients, Enqueues(c) PROVE Types'
    <2>1. queue' \in Seq(Clients)
      BY <1>16, AppendList DEF Enqueues
    <2> QED
      BY <1>16, <1>c, <2>1 DEF Enqueues, NodeAt, FutAt, PcAt, adding
  <1>17. ASSUME NEW c \in Clients, Repeats(c) PROVE Types'
    BY <1>17, <1>c DEF Repeats, FutAt, PcAt, shared, adding
  <1>18. ASSUME NEW c \in Clients, NEW k \in Tasks, Polls(c, k) PROVE Types'
    BY <1>18, <1>c DEF Polls, FutAt, PcAt, shared, adding
  <1>19. ASSUME NEW c \in Clients, UpdatesWaker(c) PROVE Types'
    BY <1>19, <1>c DEF UpdatesWaker, NodeAt, PcAt, shared, adding
  <1>20. ASSUME NEW c \in Clients, DropsUnqueued(c) PROVE Types'
    BY <1>20, <1>c DEF DropsUnqueued, GoneAt, NodeAt, FutAt, PcAt, shared, adding
  <1>21. ASSUME NEW c \in Clients, CancelsAlone(c) PROVE Types'
    BY <1>21, <1>c DEF CancelsAlone, Cancels, OutOfList, GoneAt, NodeAt, FutAt, PcAt
  <1>22. ASSUME NEW c \in Clients, CancelsNewest(c) PROVE Types'
    BY <1>22, <1>c DEF CancelsNewest, Cancels, OutOfList, GoneAt, NodeAt, FutAt, PcAt
  <1>23. ASSUME NEW c \in Clients, CancelsAhead(c) PROVE Types'
    BY <1>23, <1>c DEF CancelsAhead, Cancels, OutOfList, GoneAt, NodeAt, FutAt, AddAt, PcAt
  <1>24. ASSUME NEW c \in Clients, CancelsDrained(c) PROVE Types'
    BY <1>24, <1>c DEF CancelsDrained, Cancels, OutOfList, GoneAt, NodeAt, FutAt, PcAt
  <1>25. ASSUME NEW c \in Clients, Forgets(c) PROVE Types'
    BY <1>25, <1>c DEF Forgets, HeldAt, shared, adding
  <1>26. ASSUME NEW c \in Clients, NEW n \in Sizes, ForgetsSome(c, n) PROVE Types'
    BY <1>26, <1>c DEF ForgetsSome, adding
  <1>27. ASSUME NEW c \in Clients, Closes(c) PROVE Types'
    BY <1>27, <1>c DEF Closes, PcAt, adding
  <1>28. ASSUME NEW c \in Clients, DrainStarts(c) PROVE Types'
    <2>1. drained' \in [Clients -> Seq(Clients)] /\ queue' \in Seq(Clients) /\ mutex' \in Clients
      BY <1>28 DEF DrainStarts
    <2>2. PcAt(c, "drain") /\ UNCHANGED <<node, fut, held, woken, adding>>
      BY <1>28 DEF DrainStarts
    <2> QED
      BY <1>c, <2>1, <2>2 DEF PcAt, adding
  <1>29. ASSUME NEW c \in Clients, DrainEnds(c) PROVE Types'
    BY <1>29, <1>c DEF DrainEnds, PcAt, adding
  <1>30. CASE UNCHANGED vars
    BY <1>30, <1>c DEF vars, shared, adding
  <1> HIDE DEF Types, Points, NodeRecord, FutRecord
  <1>s. (\E c \in Clients : Steps(c)) \/ UNCHANGED vars
    BY StepCases
  <1> QED
    BY <1>s, <1>1, <1>2, <1>3, <1>4, <1>5, <1>6, <1>7, <1>8, <1>9, <1>10, <1>11, <1>12, <1>13,
       <1>14, <1>15, <1>16, <1>17, <1>18, <1>19, <1>20, <1>21, <1>22, <1>23, <1>24, <1>25, <1>26,
       <1>27, <1>28, <1>29, <1>30
    DEF Steps, AddSteps, LockSteps, AcquireSteps, DropSteps, CallSteps

(* In the beginning nobody waits. *)
LEMMA InitInv == Init => IInv
  <1> SUFFICES ASSUME Init PROVE IInv
    OBVIOUS
  <1>1. Types
    <2>1. <<>> \in Seq(Clients) /\ <<>> \in Seq(Clients \X Tasks)
      BY EmptySeq
    <2>2. drained \in [Clients -> Seq(Clients)] /\ wakers \in [Clients -> Seq(Clients \X Tasks)]
      BY <2>1 DEF Init
    <2>3. NewFuture \in FutRecord /\ NewNode \in NodeRecord
      BY DEF NewFuture, NewNode, FutRecord, NodeRecord
    <2>4. fut \in [Clients -> FutRecord] /\ node \in [Clients -> NodeRecord]
      BY <2>3 DEF Init
    <2>5. state \in Nat /\ total \in Int /\ calls \in 0..MaxCalls
      BY Parameters DEF Init
    <2>6. pc \in [Clients -> Points]
      BY DEF Init, Points
    <2> QED
      BY <2>1, <2>2, <2>4, <2>5, <2>6 DEF Init, Types, FutRecord, NodeRecord, Points
  <1>2. \A c \in Clients :
            /\ node[c].status = "Unqueued" /\ pc[c] = "idle" /\ add[c] = 0
            /\ drained[c] = <<>> /\ wakers[c] = <<>>
    BY DEF Init, NewNode
  <1>3. queue = <<>> /\ mutex = NONE
    BY DEF Init
  <1>4. LockInv /\ DrainInv /\ AddInv /\ RoomInv /\ StateInv
    BY <1>2, <1>3 DEF LockInv, DrainInv, AddInv, RoomInv, StateInv, WakingPC
  <1>5. NodeInv /\ WakerInv /\ WaitInv /\ AskInv /\ ServedInv /\ WakeInv
    BY <1>2 DEF NodeInv, WakerInv, WaitInv, AskInv, ServedInv, WakeInv, Status
  <1>6. ListInv /\ OrderInv
    <2>1. \A g : ~InSeq(g, <<>>)
      BY DEF InSeq
    <2>2. Distinct(<<>>)
      BY DEF Distinct
    <2> QED
      BY <1>2, <1>3, <2>1, <2>2 DEF ListInv, OrderInv, Status
  <1> QED
    BY <1>1, <1>4, <1>5, <1>6 DEF IInv

(* Every step keeps the invariant. *)
LEMMA InvStep == IInv /\ [Next]_vars => IInv'
  BY LockStep, DrainStep, AddStep, StateStep, NodeStep, WakerStep, WaitStep, AskStep, ServedStep,
     ListStep, OrderStep, RoomStep, WakeStep, TypeStep DEF IInv

(* The invariant of the semaphore: who may hold the lock, where each node  *)
(* is, what the place of a client tells about its node, and who has been   *)
(* given what.                                                             *)
THEOREM Invariant == Spec => []IInv
  BY InitInv, InvStep, PTL DEF Spec

(* Permits are handed out in the order of arrival: nobody waits with its   *)
(* request complete, and only the oldest waiter has got some permits, so   *)
(* that cancel need not store a state for the newest of several waiters.   *)
THEOREM FirstComeFirstServed == Spec => []OldestIsServedFirst
  <1>1. IInv => OldestIsServedFirst
    <2> SUFFICES ASSUME IInv, NEW i \in 1..Len(queue)
                 PROVE  /\ node[queue[i]].remaining \in 1..fut[queue[i]].want
                        /\ i > 1 => node[queue[i]].remaining = fut[queue[i]].want
      BY Zenon DEF OldestIsServedFirst
    <2>1. queue \in Seq(Clients) /\ Len(queue) \in Nat /\ Distinct(queue) /\ OrderInv
      BY DEF IInv, Types, ListInv
    <2>2. queue[i] \in Clients /\ InSeq(queue[i], queue)
      BY <2>1, ElementOfSeq DEF InSeq
    <2>3. 1 \in 1..Len(queue)
      BY <2>1
    <2>4. i > 1 => queue[1] # queue[i]
      BY <2>1, <2>3 DEF Distinct
    <2> QED
      BY <2>1, <2>2, <2>4 DEF OrderInv
  <1> QED
    BY <1>1, Invariant, PTL

(* The unwraps of add_permits_locked and of the drain are safe, and the    *)
(* ArrayVec of wakers never overflows.                                     *)
THEOREM UnwrapsNeverPanic == Spec => []UnwrapsAreSafe
  <1>1. IInv => UnwrapsAreSafe
    BY DEF IInv, RoomInv, WakerInv, UnwrapsAreSafe
  <1> QED
    BY <1>1, Invariant, PTL

(* A future that returned Pending is woken by whoever dequeues its node,   *)
(* whatever wakers it is polled with.                                      *)
THEOREM WakeupsAreKept == Spec => []NoLostWakeup
  <1>1. IInv => NoLostWakeup
    BY DEF IInv, ListInv, WakeInv, WillWake, NoLostWakeup
  <1> QED
    BY <1>1, Invariant, PTL

-----------------------------------------------------------------------------
(* Counting permits: Given has h[c] pairs for each client c. *)
Pairs(S, h) == UNION {{c} \X (1..h[c]) : c \in S}

(* The pairs of one client. *)
LEMMA PairsOfOne ==
    ASSUME NEW c, NEW m \in Nat
    PROVE  IsFiniteSet({c} \X (1..m)) /\ Cardinality({c} \X (1..m)) = m
  <1>1. IsFiniteSet({c}) /\ Cardinality({c}) = 1
    BY FS_Singleton
  <1>2. IsFiniteSet(1..m) /\ Cardinality(1..m) = m
    BY FS_Interval
  <1>3. IsFiniteSet({c} \X (1..m)) /\ Cardinality({c} \X (1..m)) = Cardinality({c}) * Cardinality(1..m)
    BY <1>1, <1>2, FS_Product
  <1> QED
    BY <1>1, <1>2, <1>3

(* There are finitely many pairs. *)
LEMMA PairsFinite ==
    ASSUME NEW S \in SUBSET Clients, NEW h \in [Clients -> Nat]
    PROVE  IsFiniteSet(Pairs(S, h))
  <1> DEFINE P(c) == {c} \X (1..h[c])
             T == {P(c) : c \in S}
             f == [c \in S |-> P(c)]
  <1>1. IsFiniteSet(S)
    BY SemaphoreAssumption, FS_Subset
  <1>2. f \in Surjection(S, T)
    BY DEF Surjection
  <1>3. \A p \in T : IsFiniteSet(p)
    <2> SUFFICES ASSUME NEW c \in S PROVE IsFiniteSet(P(c))
      OBVIOUS
    <2> QED
      BY PairsOfOne
  <1>4. Pairs(S, h) = UNION T
    BY DEF Pairs
  <1> HIDE DEF T, f
  <1>5. IsFiniteSet(T)
    BY <1>1, <1>2, FS_Surjection
  <1> QED
    BY <1>3, <1>4, <1>5, FS_UNION

(* If one client accounts for more or less, the number of pairs changes by *)
(* the difference.                                                         *)
LEMMA PairsChange ==
    ASSUME NEW h \in [Clients -> Nat], NEW k \in [Clients -> Nat], NEW c \in Clients,
           \A d \in Clients : d # c => k[d] = h[d]
    PROVE  /\ Cardinality(Pairs(Clients, h)) \in Nat
           /\ Cardinality(Pairs(Clients, k)) = Cardinality(Pairs(Clients, h)) + k[c] - h[c]
  <1> DEFINE R == Pairs(Clients \ {c}, h)
  <1>1. IsFiniteSet(R) /\ Cardinality(R) \in Nat
    BY PairsFinite, FS_CardinalityType
  <1>2. R = Pairs(Clients \ {c}, k)
    BY DEF Pairs
  <1>3. ASSUME NEW g \in [Clients -> Nat], R = Pairs(Clients \ {c}, g)
        PROVE  Cardinality(Pairs(Clients, g)) = Cardinality(R) + g[c]
    <2> DEFINE Q == {c} \X (1..g[c])
    <2>1. Pairs(Clients, g) = R \cup Q
      <3>1. \A p : p \in Pairs(Clients, g) <=> \E d \in Clients : p \in {d} \X (1..g[d])
        BY DEF Pairs
      <3>2. \A p : p \in R <=> \E d \in Clients \ {c} : p \in {d} \X (1..g[d])
        BY <1>3 DEF Pairs
      <3> HIDE DEF R
      <3>3. \A p : p \in Pairs(Clients, g) <=> p \in R \cup Q
        BY <3>1, <3>2
      <3> QED
        BY <3>3
    <2>2. R \cap Q = {}
      <3>1. \A p \in R : p[1] # c
        BY <1>3 DEF Pairs
      <3> HIDE DEF R
      <3> QED
        BY <3>1
    <2>3. IsFiniteSet(Q) /\ Cardinality(Q) = g[c] /\ g[c] \in Nat
      BY PairsOfOne
    <2> HIDE DEF Q, R
    <2>4. Cardinality(R \cup Q) = Cardinality(R) + Cardinality(Q) - Cardinality(R \cap Q)
      BY <1>1, <2>3, FS_Union
    <2> QED
      BY <1>1, <2>1, <2>2, <2>3, <2>4, FS_EmptySet
  <1> HIDE DEF R
  <1>4. Cardinality(Pairs(Clients, h)) = Cardinality(R) + h[c]
    BY <1>3 DEF R
  <1>5. Cardinality(Pairs(Clients, k)) = Cardinality(R) + k[c]
    BY <1>2, <1>3
  <1> QED
    BY <1>1, <1>4, <1>5

Shares == [c \in Clients |-> Share(c)]

(* Every client accounts for a natural number of permits. *)
LEMMA ShareType ==
    ASSUME IInv
    PROVE  Shares \in [Clients -> Nat] /\ Given = Pairs(Clients, Shares) /\ Cardinality(Given) \in Nat
  <1>1. ASSUME NEW c \in Clients PROVE Share(c) \in Nat
    <2>1. held[c] \in Nat /\ add[c] \in Nat /\ (Status(c) # "Unqueued" => Part(c) \in Nat)
      BY PartType DEF IInv, Types
    <2> QED
      BY <2>1 DEF Share
  <1>2. Shares \in [Clients -> Nat]
    BY <1>1 DEF Shares
  <1>3. Given = Pairs(Clients, Shares)
    BY DEF Given, Pairs, Shares
  <1> QED
    BY <1>2, <1>3, PairsFinite, FS_CardinalityType

(* ShareType in the next state. *)
LEMMA ShareTypeNext ==
    ASSUME IInv'
    PROVE  Shares' \in [Clients -> Nat] /\ Given' = Pairs(Clients, Shares')
  <1>1. ASSUME NEW c \in Clients PROVE Share(c)' \in Nat
    <2>1. /\ held'[c] \in Nat /\ add'[c] \in Nat /\ node'[c].remaining \in Nat /\ fut'[c].want \in Nat
          /\ Status(c)' # "Unqueued" => node'[c].remaining <= fut'[c].want
      BY DEF IInv, Types, WaitInv
    <2> QED
      BY <2>1 DEF Share, Part
  <1>2. Shares' \in [Clients -> Nat]
    BY <1>1 DEF Shares
  <1>3. Given' = Pairs(Clients, Shares')
    BY DEF Given, Pairs, Shares
  <1> QED
    BY <1>2, <1>3

(* One client accounts for more or less than before, ... *)
LEMMA ShareOne ==
    ASSUME IInv, IInv', NEW c \in Clients, \A b \in Clients : b # c => Share(b)' = Share(b)
    PROVE  /\ Share(c) \in Nat /\ Share(c)' \in Nat
           /\ Cardinality(Given') = Cardinality(Given) + Share(c)' - Share(c)
  <1> DEFINE h == Shares
             k == Shares'
  <1>1. h \in [Clients -> Nat] /\ k \in [Clients -> Nat]
    BY ShareType, ShareTypeNext
  <1>2. h[c] = Share(c) /\ k[c] = Share(c)' /\ \A b \in Clients : b # c => k[b] = h[b]
    BY DEF Shares
  <1>3. Given = Pairs(Clients, h) /\ Given' = Pairs(Clients, k)
    BY ShareType, ShareTypeNext
  <1> HIDE DEF h, k
  <1>4. Cardinality(Pairs(Clients, k)) = Cardinality(Pairs(Clients, h)) + k[c] - h[c]
    BY <1>1, <1>2, PairsChange
  <1> QED
    BY <1>1, <1>2, <1>3, <1>4

(* ... nobody does, ... *)
LEMMA ShareSame ==
    ASSUME \A b \in Clients : Share(b)' = Share(b)
    PROVE  Cardinality(Given') = Cardinality(Given)
  <1>1. Given' = Given
    BY DEF Given
  <1> QED
    BY <1>1

(* ... or two clients do. *)
LEMMA ShareTwo ==
    ASSUME IInv, IInv', NEW c \in Clients, NEW d \in Clients, c # d,
           \A b \in Clients : b # c /\ b # d => Share(b)' = Share(b)
    PROVE  /\ Share(c) \in Nat /\ Share(c)' \in Nat /\ Share(d) \in Nat /\ Share(d)' \in Nat
           /\ Cardinality(Given') = Cardinality(Given) + Share(c)' - Share(c) + Share(d)' - Share(d)
  <1> DEFINE h == Shares
             k == Shares'
             m == [h EXCEPT ![c] = k[c]]
  <1>1. h \in [Clients -> Nat] /\ k \in [Clients -> Nat]
    BY ShareType, ShareTypeNext
  <1>2. /\ h[c] = Share(c) /\ k[c] = Share(c)' /\ h[d] = Share(d) /\ k[d] = Share(d)'
        /\ \A b \in Clients : b # c /\ b # d => k[b] = h[b]
    BY DEF Shares
  <1>3. Given = Pairs(Clients, h) /\ Given' = Pairs(Clients, k)
    BY ShareType, ShareTypeNext
  <1> HIDE DEF h, k
  <1>4. /\ m \in [Clients -> Nat] /\ m[c] = k[c] /\ m[d] = h[d]
        /\ \A b \in Clients : b # c => m[b] = h[b]
        /\ \A b \in Clients : b # d => k[b] = m[b]
    BY <1>1, <1>2
  <1> HIDE DEF m
  <1>5. /\ Cardinality(Pairs(Clients, h)) \in Nat
        /\ Cardinality(Pairs(Clients, m)) = Cardinality(Pairs(Clients, h)) + m[c] - h[c]
    BY <1>1, <1>4, PairsChange
  <1>6. Cardinality(Pairs(Clients, k)) = Cardinality(Pairs(Clients, m)) + k[d] - m[d]
    BY <1>1, <1>4, PairsChange
  <1> QED
    BY <1>1, <1>2, <1>3, <1>4, <1>5, <1>6

(* A state below the modulus is not changed by taking the remainder, ... *)
LEMMA RemainderSame ==
    ASSUME NEW s \in Nat, NEW m \in Nat, s < m
    PROVE  s % m = s
  OBVIOUS

(* ... and a small negative number comes out large. *)
LEMMA RemainderWraps ==
    ASSUME NEW x \in Int, NEW m \in Nat, -m <= x, x < 0
    PROVE  x % m = x + m
  OBVIOUS

(* The state has room for MAX_PERMITS permits and the bit CLOSED. *)
LEMMA StateHasRoom ==
    ASSUME NEW s \in Nat, s \div 2 <= MAX_PERMITS
    PROVE  ~StateOverflows(s)
  <1>1. UsizeMax \in Nat /\ UsizeMax > 1 /\ UsizeMax % 2 = 1
    BY UsizeAssumption
  <1>2. s <= UsizeMax \div 2
    BY <1>1 DEF MAX_PERMITS
  <1> QED
    BY <1>1, <1>2 DEF StateOverflows, INTRUSIVE_QUEUE_MAX_STATE

(* A client accounts for permits that are not in the state. *)
LEMMA ShareBound ==
    ASSUME IInv, NEW c \in Clients
    PROVE  Share(c) \in Nat /\ Share(c) <= Cardinality(Given)
  <1>1. Shares \in [Clients -> Nat] /\ Shares[c] = Share(c)
    BY ShareType DEF Shares
  <1>2. Given = Pairs(Clients, Shares) /\ IsFiniteSet(Given)
    BY <1>1, ShareType, PairsFinite
  <1>3. {c} \X (1..Share(c)) \subseteq Given
    BY DEF Given
  <1>4. Cardinality({c} \X (1..Share(c))) = Share(c)
    BY <1>1, PairsOfOne
  <1> QED
    BY <1>1, <1>2, <1>3, <1>4, FS_Subset

(* Under the contract the state stays below the limit, ... *)
LEMMA StateBound ==
    ASSUME IInv, Contract, BoundInv, PermitsConserved
    PROVE  /\ state \div 2 <= MAX_PERMITS /\ ~StateOverflows(state) /\ total \in Nat
           /\ \A c \in Clients : (state \div 2) + Share(c) <= MAX_PERMITS
  <1>1. total = (state \div 2) + Cardinality(Given) /\ Cardinality(Given) \in Nat /\ total <= MaxTotal
    BY ShareType DEF BoundInv, PermitsConserved
  <1>2. /\ state \in Nat /\ state \div 2 \in Nat
        /\ MaxTotal \in Nat /\ MaxTotal <= MAX_PERMITS /\ MAX_PERMITS \in Nat
    BY Parameters, Limits DEF Contract, IInv, Types
  <1>3. state \div 2 <= MAX_PERMITS /\ total \in Nat
    BY <1>1, <1>2
  <1>4. ASSUME NEW c \in Clients PROVE (state \div 2) + Share(c) <= MAX_PERMITS
    BY <1>1, <1>2, ShareBound
  <1> QED
    BY <1>2, <1>3, <1>4, StateHasRoom

(* ... so that the assertion of check_add_permits does not fail for        *)
(* permits that come back.                                                 *)
LEMMA ComesBack ==
    ASSUME IInv, Contract, BoundInv, PermitsConserved, NEW c \in Clients, NEW n \in Nat, n <= Share(c)
    PROVE  CheckAdd(state, n) = state + 2 * n
  <1>0. state \in Nat /\ Share(c) \in Nat /\ MAX_PERMITS \in Nat
    BY ShareBound, Limits DEF IInv, Types
  <1>1. state \in Nat /\ state \div 2 \in Nat /\ Share(c) \in Nat /\ MAX_PERMITS \in Nat
    BY <1>0
  <1>2. (state \div 2) + Share(c) <= MAX_PERMITS
    BY StateBound
  <1>3. (state \div 2) + n <= MAX_PERMITS
    BY <1>1, <1>2
  <1> QED
    BY <1>1, <1>3, CheckAddExact

(* forget_permits takes the permits that are there, or panics. *)
LEMMA ForgetBound ==
    ASSUME state \in Nat, state \div 2 <= MAX_PERMITS, NEW c \in Clients, NEW n \in Sizes, ForgetsSome(c, n)
    PROVE  n \in Nat /\ 2 * n <= state /\ state' = state - 2 * n
  <1> DEFINE x == state - 2 * n
             m == UsizeMax + 1
  <1>1. state' = x % m /\ ~(x % m > UsizeMax \div 2)
    BY DEF ForgetsSome, StateOverflows, INTRUSIVE_QUEUE_MAX_STATE
  <1>2. /\ n \in Nat /\ n <= UsizeMax \div 8 /\ state \div 2 <= UsizeMax \div 8
        /\ UsizeMax \in Nat /\ UsizeMax > 1
    BY Limits, UsizeAssumption DEF MAX_PERMITS
  <1>3. x \in Int /\ m \in Nat /\ -m <= x /\ x < m /\ x + m > UsizeMax \div 2
    BY <1>2
  <1>4. x < 0 <=> ~(2 * n <= state)
    BY <1>2
  <1> HIDE DEF x, m
  <1>5. ~(x < 0)
    BY <1>1, <1>3, RemainderWraps
  <1>6. x \in Nat /\ x % m = x
    BY <1>3, <1>5, RemainderSame
  <1> QED
    BY <1>1, <1>2, <1>4, <1>5, <1>6 DEF x

(* The permits that a waiter takes along are those in the state. *)
LEMMA PartIsState ==
    ASSUME Contract, NEW n \in Sizes \cup {1}, NEW s \in Nat, s < 2 * n
    PROVE  PartOf(s) = s \div 2
  <1>1. U32Max + 1 \in Nat /\ n \in Nat /\ 2 * n <= U32Max + 1
    BY Parameters DEF Contract
  <1>2. s % (U32Max + 1) = s
    BY <1>1, RemainderSame
  <1> QED
    BY <1>2 DEF PartOf

(* Every request is for as many permits as its object stands for. *)
LEMMA SizeStep == IInv /\ Contract /\ SizeInv /\ [Next]_vars => SizeInv'
  <1> SUFFICES ASSUME IInv, Contract, SizeInv, [Next]_vars PROVE SizeInv'
    OBVIOUS
  <1> USE DEF SizeInv, FuturePC
  <1>e. \A b \in Clients : pc[b] \in Points
    BY DEF IInv, Types, Points
  <1>1. ASSUME NEW c \in Clients, AddsAgain(c) PROVE SizeInv'
    BY <1>1 DEF AddsAgain, AddsAt, PcAt
  <1>2. ASSUME NEW c \in Clients, NEW n \in Nat, AddsReleased(c, n) PROVE SizeInv'
    BY <1>2 DEF AddsReleased, AddsAt, PcAt
  <1>3. ASSUME NEW c \in Clients, NEW n \in Sizes, AddsNew(c, n) PROVE SizeInv'
    BY <1>3 DEF AddsNew, AddsAt, PcAt
  <1>4. ASSUME NEW c \in Clients, Abandons(c) PROVE SizeInv'
    BY <1>4 DEF Abandons, AddsAt, PcAt, GoneAt, FutAt
  <1>5. ASSUME NEW c \in Clients, Moves(c) PROVE SizeInv'
    BY <1>5 DEF Moves, PcAt, shared, adding
  <1>6. ASSUME NEW c \in Clients, GetsLock(c) PROVE SizeInv'
    BY <1>6 DEF GetsLock, PcAt, adding
  <1>7. ASSUME NEW c \in Clients, WakeAt(c) PROVE SizeInv'
    BY <1>7 DEF WakeAt, shared
  <1>8. ASSUME NEW c \in Clients, NEW d \in Clients, ServesPart(c, d) PROVE SizeInv'
    BY <1>8 DEF ServesPart, First, PcAt
  <1>9. ASSUME NEW c \in Clients, NEW d \in Clients, ServesAll(c, d) PROVE SizeInv'
    BY <1>9 DEF ServesAll, First, TakeAt, PcAt
  <1>10. ASSUME NEW c \in Clients, NEW d \in Clients, DrainsNext(c, d) PROVE SizeInv'
    BY <1>10 DEF DrainsNext, TakeAt, PcAt
  <1>11. ASSUME NEW c \in Clients, NEW n \in Nat, NEW s \in Nat, Tries(c, n, s) PROVE SizeInv'
    BY <1>11 DEF Tries, Request, adding
  <1>12. ASSUME NEW c \in Clients, NEW n \in Nat, NEW s \in Nat, NEW k \in Tasks, Starts(c, n, s, k) PROVE SizeInv'
    BY <1>12, Parameters DEF Starts, Request, FutAt, PcAt, shared, adding, Contract
  <1>13. ASSUME NEW c \in Clients, AcquiresNow(c) PROVE SizeInv'
    BY <1>13 DEF AcquiresNow, GoneAt, FutAt, PcAt, adding
  <1>14. ASSUME NEW c \in Clients, AcquiresLate(c) PROVE SizeInv'
    BY <1>14 DEF AcquiresLate, GoneAt, FutAt, PcAt, shared, adding
  <1>15. ASSUME NEW c \in Clients, StoresWaker(c) PROVE SizeInv'
    BY <1>15 DEF StoresWaker, FutAt, PcAt, shared, adding
  <1>16. ASSUME NEW c \in Clients, Enqueues(c) PROVE SizeInv'
    BY <1>16 DEF Enqueues, FutAt, PcAt, adding
  <1>17. ASSUME NEW c \in Clients, Repeats(c) PROVE SizeInv'
    BY <1>17 DEF Repeats, FutAt, PcAt, shared, adding
  <1>18. ASSUME NEW c \in Clients, NEW k \in Tasks, Polls(c, k) PROVE SizeInv'
    BY <1>18 DEF Polls, FutAt, PcAt, shared, adding
  <1>19. ASSUME NEW c \in Clients, UpdatesWaker(c) PROVE SizeInv'
    BY <1>19 DEF UpdatesWaker, PcAt, shared, adding
  <1>20. ASSUME NEW c \in Clients, DropsUnqueued(c) PROVE SizeInv'
    BY <1>20 DEF DropsUnqueued, GoneAt, FutAt, PcAt, shared, adding
  <1>21. ASSUME NEW c \in Clients, CancelsAlone(c) PROVE SizeInv'
    BY <1>21 DEF CancelsAlone, Cancels, GoneAt, FutAt, PcAt
  <1>22. ASSUME NEW c \in Clients, CancelsNewest(c) PROVE SizeInv'
    BY <1>22 DEF CancelsNewest, Cancels, GoneAt, FutAt, PcAt
  <1>23. ASSUME NEW c \in Clients, CancelsAhead(c) PROVE SizeInv'
    BY <1>23 DEF CancelsAhead, Cancels, GoneAt, FutAt, PcAt
  <1>24. ASSUME NEW c \in Clients, CancelsDrained(c) PROVE SizeInv'
    BY <1>24 DEF CancelsDrained, Cancels, GoneAt, FutAt, PcAt
  <1>25. ASSUME NEW c \in Clients, Forgets(c) PROVE SizeInv'
    BY <1>25 DEF Forgets, shared, adding
  <1>26. ASSUME NEW c \in Clients, NEW n \in Sizes, ForgetsSome(c, n) PROVE SizeInv'
    BY <1>26 DEF ForgetsSome, adding
  <1>27. ASSUME NEW c \in Clients, Closes(c) PROVE SizeInv'
    BY <1>27 DEF Closes, PcAt, adding
  <1>28. ASSUME NEW c \in Clients, DrainStarts(c) PROVE SizeInv'
    BY <1>28 DEF DrainStarts, PcAt, adding
  <1>29. ASSUME NEW c \in Clients, DrainEnds(c) PROVE SizeInv'
    BY <1>29 DEF DrainEnds, PcAt, adding
  <1>30. CASE UNCHANGED vars
    BY <1>30 DEF vars, shared, adding
  <1> HIDE DEF SizeInv, FuturePC
  <1>s. (\E c \in Clients : Steps(c)) \/ UNCHANGED vars
    BY StepCases
  <1> QED
    BY <1>s, <1>1, <1>2, <1>3, <1>4, <1>5, <1>6, <1>7, <1>8, <1>9, <1>10, <1>11, <1>12, <1>13,
       <1>14, <1>15, <1>16, <1>17, <1>18, <1>19, <1>20, <1>21, <1>22, <1>23, <1>24, <1>25, <1>26,
       <1>27, <1>28, <1>29, <1>30
    DEF Steps, AddSteps, LockSteps, AcquireSteps, DropSteps, CallSteps

(* Only add_permits creates permits. *)
LEMMA BoundStep == IInv /\ BoundInv /\ [Next]_vars => BoundInv'
  <1> SUFFICES ASSUME IInv, BoundInv, [Next]_vars PROVE BoundInv'
    OBVIOUS
  <1> USE DEF BoundInv
  <1>p. total \in Int /\ MaxTotal \in Nat /\ (\A b \in Clients : held[b] \in Nat) /\ Sizes \subseteq Nat
    BY Parameters DEF IInv, Types
  <1>1. ASSUME NEW c \in Clients, AddsAgain(c) PROVE BoundInv'
    BY <1>1, <1>p DEF AddsAgain, AddsAt
  <1>2. ASSUME NEW c \in Clients, NEW n \in Nat, AddsReleased(c, n) PROVE BoundInv'
    BY <1>2, <1>p DEF AddsReleased, AddsAt
  <1>3. ASSUME NEW c \in Clients, NEW n \in Sizes, AddsNew(c, n) PROVE BoundInv'
    BY <1>3, <1>p DEF AddsNew, AddsAt
  <1>4. ASSUME NEW c \in Clients, Abandons(c) PROVE BoundInv'
    BY <1>4, <1>p DEF Abandons, AddsAt
  <1>5. ASSUME NEW c \in Clients, Moves(c) PROVE BoundInv'
    BY <1>5, <1>p DEF Moves, shared, adding
  <1>6. ASSUME NEW c \in Clients, GetsLock(c) PROVE BoundInv'
    BY <1>6, <1>p DEF GetsLock, adding
  <1>7. ASSUME NEW c \in Clients, WakeAt(c) PROVE BoundInv'
    BY <1>7, <1>p DEF WakeAt, shared
  <1>8. ASSUME NEW c \in Clients, NEW d \in Clients, ServesPart(c, d) PROVE BoundInv'
    BY <1>8, <1>p DEF ServesPart
  <1>9. ASSUME NEW c \in Clients, NEW d \in Clients, ServesAll(c, d) PROVE BoundInv'
    BY <1>9, <1>p DEF ServesAll
  <1>10. ASSUME NEW c \in Clients, NEW d \in Clients, DrainsNext(c, d) PROVE BoundInv'
    BY <1>10, <1>p DEF DrainsNext
  <1>11. ASSUME NEW c \in Clients, NEW n \in Nat, NEW s \in Nat, Tries(c, n, s) PROVE BoundInv'
    BY <1>11, <1>p DEF Tries, adding
  <1>12. ASSUME NEW c \in Clients, NEW n \in Nat, NEW s \in Nat, NEW k \in Tasks, Starts(c, n, s, k) PROVE BoundInv'
    BY <1>12, <1>p DEF Starts, shared, adding
  <1>13. ASSUME NEW c \in Clients, AcquiresNow(c) PROVE BoundInv'
    BY <1>13, <1>p DEF AcquiresNow, adding
  <1>14. ASSUME NEW c \in Clients, AcquiresLate(c) PROVE BoundInv'
    BY <1>14, <1>p DEF AcquiresLate, shared, adding
  <1>15. ASSUME NEW c \in Clients, StoresWaker(c) PROVE BoundInv'
    BY <1>15, <1>p DEF StoresWaker, shared, adding
  <1>16. ASSUME NEW c \in Clients, Enqueues(c) PROVE BoundInv'
    BY <1>16, <1>p DEF Enqueues, adding
  <1>17. ASSUME NEW c \in Clients, Repeats(c) PROVE BoundInv'
    BY <1>17, <1>p DEF Repeats, shared, adding
  <1>18. ASSUME NEW c \in Clients, NEW k \in Tasks, Polls(c, k) PROVE BoundInv'
    BY <1>18, <1>p DEF Polls, shared, adding
  <1>19. ASSUME NEW c \in Clients, UpdatesWaker(c) PROVE BoundInv'
    BY <1>19, <1>p DEF UpdatesWaker, shared, adding
  <1>20. ASSUME NEW c \in Clients, DropsUnqueued(c) PROVE BoundInv'
    BY <1>20, <1>p DEF DropsUnqueued, shared, adding
  <1>21. ASSUME NEW c \in Clients, CancelsAlone(c) PROVE BoundInv'
    BY <1>21, <1>p DEF CancelsAlone, Cancels
  <1>22. ASSUME NEW c \in Clients, CancelsNewest(c) PROVE BoundInv'
    BY <1>22, <1>p DEF CancelsNewest, Cancels
  <1>23. ASSUME NEW c \in Clients, CancelsAhead(c) PROVE BoundInv'
    BY <1>23, <1>p DEF CancelsAhead, Cancels
  <1>24. ASSUME NEW c \in Clients, CancelsDrained(c) PROVE BoundInv'
    BY <1>24, <1>p DEF CancelsDrained, Cancels
  <1>25. ASSUME NEW c \in Clients, Forgets(c) PROVE BoundInv'
    BY <1>25, <1>p DEF Forgets, shared, adding
  <1>26. ASSUME NEW c \in Clients, NEW n \in Sizes, ForgetsSome(c, n) PROVE BoundInv'
    BY <1>26, <1>p DEF ForgetsSome, adding
  <1>27. ASSUME NEW c \in Clients, Closes(c) PROVE BoundInv'
    BY <1>27, <1>p DEF Closes, adding
  <1>28. ASSUME NEW c \in Clients, DrainStarts(c) PROVE BoundInv'
    BY <1>28, <1>p DEF DrainStarts, adding
  <1>29. ASSUME NEW c \in Clients, DrainEnds(c) PROVE BoundInv'
    BY <1>29, <1>p DEF DrainEnds, adding
  <1>30. CASE UNCHANGED vars
    BY <1>30, <1>p DEF vars, shared, adding
  <1> HIDE DEF BoundInv
  <1>s. (\E c \in Clients : Steps(c)) \/ UNCHANGED vars
    BY StepCases
  <1> QED
    BY <1>s, <1>1, <1>2, <1>3, <1>4, <1>5, <1>6, <1>7, <1>8, <1>9, <1>10, <1>11, <1>12, <1>13,
       <1>14, <1>15, <1>16, <1>17, <1>18, <1>19, <1>20, <1>21, <1>22, <1>23, <1>24, <1>25, <1>26,
       <1>27, <1>28, <1>29, <1>30
    DEF Steps, AddSteps, LockSteps, AcquireSteps, DropSteps, CallSteps

(* No permit is lost, and none is made up. *)
LEMMA CountStep == IInv /\ Contract /\ SizeInv /\ BoundInv /\ PermitsConserved /\ [Next]_vars => PermitsConserved'
  <1> SUFFICES ASSUME IInv, Contract, SizeInv, BoundInv, PermitsConserved, [Next]_vars PROVE PermitsConserved'
    OBVIOUS
  <1>i. IInv /\ IInv' /\ Cardinality(Given) \in Nat
    BY InvStep, ShareType
  <1>c. IInv /\ Contract /\ SizeInv /\ BoundInv /\ PermitsConserved
    OBVIOUS
  <1>p. /\ state \in Nat /\ state' \in Nat /\ total \in Int /\ total' \in Int
        /\ \A b \in Clients : /\ held[b] \in Nat /\ add[b] \in Nat /\ node[b].remaining \in Nat
                              /\ held'[b] \in Nat /\ add'[b] \in Nat
                              /\ fut[b].want \in Nat /\ fut[b].size \in Nat
    BY <1>i DEF IInv, Types
  <1>q. \A b \in Clients : Status(b) # "Unqueued" => Part(b) \in Nat
    BY PartType DEF IInv
  <1>e. \A b \in Clients :
            /\ pc[b] \notin {"pending", "lock", "error", "cancel"} => Status(b) = "Unqueued"
            /\ pc[b] \in {"pending", "lock", "cancel"} => Status(b) # "Unqueued"
            /\ pc[b] \notin {"add", "locked", "wake_add"} => add[b] = 0
    BY DEF IInv, NodeInv, AddInv
  <1>z. queue # <<>> => state = 0
    BY DEF IInv, StateInv
  <1>1. ASSUME NEW c \in Clients, AddsAgain(c) PROVE PermitsConserved'
    <2>1. \A b \in Clients : b # c => Share(b)' = Share(b)
      BY <1>1 DEF AddsAgain, AddsAt, AddAt, PcAt, Share, Part, Status
    <2>2. add[c] \in Nat /\ Share(c) = held[c] + add[c] /\ total' = total
      BY <1>1, <1>p, <1>q, <1>e, Parameters DEF AddsAgain, Share, Status
    <2>3. Share(c)' = held[c] + add'[c] /\ add'[c] \in Nat
      <3>1. held'[c] = held[c] /\ Status(c)' = "Unqueued"
        BY <1>1, <1>e DEF AddsAgain, Status
      <3> QED
        BY <1>p, <3>1 DEF Share
    <2>0. CheckAdd(state, add[c]) = state + 2 * add[c]
      BY <1>c, <1>p, <2>2, ComesBack
    <2>4. \/ state' = state + 2 * add[c] /\ add'[c] = 0
          \/ state' = state /\ add'[c] = add[c]
      BY <1>1, <2>0 DEF AddsAgain, AddsAt, AddAt
    <2>9. total' - (state' \div 2) = total - (state \div 2) + Share(c)' - Share(c)
      BY <1>1, <1>p, <2>2, <2>3, <2>4
    <2>10. Cardinality(Given') = Cardinality(Given) + Share(c)' - Share(c) /\ Share(c) \in Nat /\ Share(c)' \in Nat
      BY <1>i, <2>1, ShareOne
    <2> QED
      BY <1>p, <1>i, <1>c, <2>9, <2>10 DEF PermitsConserved
  <1>2. ASSUME NEW c \in Clients, NEW n \in Nat, AddsReleased(c, n) PROVE PermitsConserved'
    <2>1. \A b \in Clients : b # c => Share(b)' = Share(b)
      BY <1>2 DEF AddsReleased, AddsAt, AddAt, PcAt, HeldAt, Share, Part, Status
    <2>2. n \in Nat /\ n <= held[c] /\ Share(c) = held[c] /\ total' = total
      BY <1>2, <1>p, <1>q, <1>e, Parameters DEF AddsReleased, Share, Status
    <2>3. Share(c)' = held[c] - n + add'[c] /\ add'[c] \in Nat
      <3>1. held'[c] = held[c] - n /\ Status(c)' = "Unqueued"
        BY <1>2, <1>e DEF AddsReleased, Status, HeldAt
      <3> QED
        BY <1>p, <3>1 DEF Share
    <2>0. CheckAdd(state, n) = state + 2 * n
      BY <1>c, <1>p, <2>2, ComesBack
    <2>4. \/ state' = state + 2 * n /\ add'[c] = 0
          \/ state' = state /\ add'[c] = n
      BY <1>2, <2>0 DEF AddsReleased, AddsAt, AddAt
    <2>9. total' - (state' \div 2) = total - (state \div 2) + Share(c)' - Share(c)
      BY <1>2, <1>p, <2>2, <2>3, <2>4
    <2>10. Cardinality(Given') = Cardinality(Given) + Share(c)' - Share(c) /\ Share(c) \in Nat /\ Share(c)' \in Nat
      BY <1>i, <2>1, ShareOne
    <2> QED
      BY <1>p, <1>i, <1>c, <2>9, <2>10 DEF PermitsConserved
  <1>3. ASSUME NEW c \in Clients, NEW n \in Sizes, AddsNew(c, n) PROVE PermitsConserved'
    <2>1. \A b \in Clients : b # c => Share(b)' = Share(b)
      BY <1>3 DEF AddsNew, AddsAt, AddAt, PcAt, Share, Part, Status
    <2>2. n \in Nat /\ Share(c) = held[c]
      BY <1>3, <1>p, <1>q, <1>e, Parameters DEF AddsNew, Share, Status
    <2>3. Share(c)' = held[c] + add'[c] /\ add'[c] \in Nat
      <3>1. held'[c] = held[c] /\ Status(c)' = "Unqueued"
        BY <1>3, <1>e DEF AddsNew, Status
      <3> QED
        BY <1>p, <3>1 DEF Share
    <2>4. \/ state' = state + 2 * n /\ add'[c] = 0 /\ total' = total + n
          \/ state' = state /\ add'[c] = n /\ total' = total + n
          \/ state' = state /\ add'[c] = 0 /\ total' = total
      <3>1. CASE Refused(n)
        BY <1>3, <3>1 DEF Refused, CheckAdd, AddsNew, AddsAt, AddAt
      <3>2. CASE ~Refused(n)
        BY <1>3, <3>2 DEF Refused, CheckAdd, AddsNew, AddsAt, AddAt
      <3> QED
        BY <3>1, <3>2
    <2>9. total' - (state' \div 2) = total - (state \div 2) + Share(c)' - Share(c)
      BY <1>3, <1>p, <2>2, <2>3, <2>4
    <2>10. Cardinality(Given') = Cardinality(Given) + Share(c)' - Share(c) /\ Share(c) \in Nat /\ Share(c)' \in Nat
      BY <1>i, <2>1, ShareOne
    <2> QED
      BY <1>p, <1>i, <1>c, <2>9, <2>10 DEF PermitsConserved
  <1>4. ASSUME NEW c \in Clients, Abandons(c) PROVE PermitsConserved'
    <2>1. \A b \in Clients : b # c => Share(b)' = Share(b)
      BY <1>4 DEF Abandons, AddsAt, AddAt, PcAt, GoneAt, NodeAt, FutAt, Share, Part, Status
    <2>2. Part(c) \in Nat /\ Share(c) = held[c] + Part(c) /\ total' = total
      BY <1>4, <1>p, <1>q, <1>e, Parameters DEF Abandons, Share, Status
    <2>3. Share(c)' = held[c] + add'[c] /\ add'[c] \in Nat
      <3>1. held'[c] = held[c] /\ Status(c)' = "Unqueued"
        BY <1>4, <1>e DEF Abandons, Status, GoneAt, NodeAt
      <3> QED
        BY <1>p, <3>1 DEF Share
    <2>0. CheckAdd(state, Part(c)) = state + 2 * Part(c)
      BY <1>c, <1>p, <2>2, ComesBack
    <2>4. \/ state' = state + 2 * Part(c) /\ add'[c] = 0
          \/ state' = state /\ add'[c] = Part(c)
      BY <1>4, <2>0 DEF Abandons, AddsAt, AddAt
    <2>9. total' - (state' \div 2) = total - (state \div 2) + Share(c)' - Share(c)
      BY <1>4, <1>p, <2>2, <2>3, <2>4
    <2>10. Cardinality(Given') = Cardinality(Given) + Share(c)' - Share(c) /\ Share(c) \in Nat /\ Share(c)' \in Nat
      BY <1>i, <2>1, ShareOne
    <2> QED
      BY <1>p, <1>i, <1>c, <2>9, <2>10 DEF PermitsConserved
  <1>5. ASSUME NEW c \in Clients, Moves(c) PROVE PermitsConserved'
    <2>1. \A b \in Clients : Share(b)' = Share(b)
      BY <1>5, <1>e DEF Moves, PcAt, shared, adding, Share, Part, Status
    <2>2. total' = total /\ state' \div 2 = state \div 2
      BY <1>5, <1>p, <1>z DEF shared, adding, Moves
    <2>3. Cardinality(Given') = Cardinality(Given)
      BY <2>1, ShareSame
    <2> QED
      BY <2>2, <2>3 DEF PermitsConserved
  <1>6. ASSUME NEW c \in Clients, GetsLock(c) PROVE PermitsConserved'
    <2>1. \A b \in Clients : Share(b)' = Share(b)
      BY <1>6, <1>e DEF GetsLock, PcAt, adding, Share, Part, Status
    <2>2. total' = total /\ state' \div 2 = state \div 2
      BY <1>6, <1>p, <1>z DEF adding, GetsLock
    <2>3. Cardinality(Given') = Cardinality(Given)
      BY <2>1, ShareSame
    <2> QED
      BY <2>2, <2>3 DEF PermitsConserved
  <1>7. ASSUME NEW c \in Clients, WakeAt(c) PROVE PermitsConserved'
    <2>1. \A b \in Clients : Share(b)' = Share(b)
      BY <1>7, <1>e DEF WakeAt, shared, Share, Part, Status
    <2>2. total' = total /\ state' \div 2 = state \div 2
      BY <1>7, <1>p, <1>z DEF shared, WakeAt
    <2>3. Cardinality(Given') = Cardinality(Given)
      BY <2>1, ShareSame
    <2> QED
      BY <2>2, <2>3 DEF PermitsConserved
  <1>8. ASSUME NEW c \in Clients, NEW d \in Clients, ServesPart(c, d) PROVE PermitsConserved'
    <2>0. c # d /\ Status(c) = "Unqueued" /\ Status(d) = "Queued" /\ total' = total
      BY <1>8, <1>e DEF ServesPart, First
    <2>1. \A b \in Clients : b # c /\ b # d => Share(b)' = Share(b)
      BY <1>8 DEF ServesPart, First, NodeAt, AddAt, PcAt, Share, Part, Status
    <2>2. Share(c) = held[c] + add[c] /\ Share(c)' = held[c]
      <3>1. held'[c] = held[c] /\ add'[c] = 0 /\ Status(c)' = "Unqueued"
        BY <1>8, <2>0 DEF ServesPart, AddAt, NodeAt, Status
      <3> QED
        BY <1>p, <2>0, <3>1 DEF Share
    <2>3. Share(d)' = Share(d) + add[c]
      <3>1. /\ held'[d] = held[d] /\ add'[d] = add[d] /\ Status(d)' = "Queued"
            /\ fut'[d].want = fut[d].want /\ node'[d].remaining = node[d].remaining - add[c]
        BY <1>8, <2>0 DEF ServesPart, AddAt, NodeAt, Status
      <3> QED
        BY <1>p, <2>0, <3>1 DEF Share, Part
    <2>4. state' = state
      BY <1>8 DEF ServesPart
    <2>5. state' \div 2 = state \div 2 /\ Share(c)' - Share(c) + Share(d)' - Share(d) = 0
      <3>1. Share(d) \in Int
        BY <1>p, <2>0 DEF Share, Part
      <3> QED
        BY <1>p, <2>2, <2>3, <2>4, <3>1
    <2>6. /\ Cardinality(Given') = Cardinality(Given) + Share(c)' - Share(c) + Share(d)' - Share(d)
          /\ Share(c) \in Nat /\ Share(c)' \in Nat /\ Share(d) \in Nat /\ Share(d)' \in Nat
      BY <1>i, <2>0, <2>1, ShareTwo
    <2>7. /\ total = (state \div 2) + Cardinality(Given) /\ Cardinality(Given) \in Nat
          /\ state \div 2 \in Int /\ state' \div 2 \in Int
      BY <1>p, <1>i, <1>c DEF PermitsConserved
    <2>8. total' = (state' \div 2) + Cardinality(Given')
      BY <2>0, <2>5, <2>6, <2>7
    <2> QED
      BY <2>8 DEF PermitsConserved
  <1>9. ASSUME NEW c \in Clients, NEW d \in Clients, ServesAll(c, d) PROVE PermitsConserved'
    <2>0. c # d /\ Status(c) = "Unqueued" /\ Status(d) = "Queued" /\ total' = total
      BY <1>9, <1>e DEF ServesAll, First, TakeAt
    <2>1. \A b \in Clients : b # c /\ b # d => Share(b)' = Share(b)
      BY <1>9 DEF ServesAll, First, TakeAt, NodeAt, AddAt, PcAt, Share, Part, Status
    <2>2. Share(c) = held[c] + add[c] /\ Share(c)' = held[c] + add'[c]
      <3>1. held'[c] = held[c] /\ Status(c)' = "Unqueued"
        BY <1>9, <2>0 DEF ServesAll, TakeAt, NodeAt, Status
      <3> QED
        BY <1>p, <2>0, <3>1 DEF Share
    <2>3. Share(d)' = Share(d) + node[d].remaining
      <3>1. /\ held'[d] = held[d] /\ add'[d] = add[d] /\ Status(d)' = "Dequeued"
            /\ fut'[d].want = fut[d].want /\ node'[d].remaining = 0
        BY <1>9, <2>0 DEF ServesAll, TakeAt, AddAt, NodeAt, Status
      <3> QED
        BY <1>p, <2>0, <3>1 DEF Share, Part
    <2>4. /\ state = 0 /\ node[d].remaining <= add[c]
          /\ \/ state' = 2 * (add[c] - node[d].remaining) /\ add'[c] = 0
             \/ state' = 0 /\ add'[c] = add[c] - node[d].remaining
      BY <1>9, <1>z DEF ServesAll, First, AddAt
    <2>5. (state' \div 2) + Share(c)' - Share(c) + Share(d)' - Share(d) = state \div 2
      <3>1. Share(d) \in Int
        BY <1>p, <2>0 DEF Share, Part
      <3> QED
        BY <1>p, <2>2, <2>3, <2>4, <3>1
    <2>6. /\ Cardinality(Given') = Cardinality(Given) + Share(c)' - Share(c) + Share(d)' - Share(d)
          /\ Share(c) \in Nat /\ Share(c)' \in Nat /\ Share(d) \in Nat /\ Share(d)' \in Nat
      BY <1>i, <2>0, <2>1, ShareTwo
    <2>7. /\ total = (state \div 2) + Cardinality(Given) /\ Cardinality(Given) \in Nat
          /\ state \div 2 \in Int /\ state' \div 2 \in Int
      BY <1>p, <1>i, <1>c DEF PermitsConserved
    <2>8. total' = (state' \div 2) + Cardinality(Given')
      BY <2>0, <2>5, <2>6, <2>7
    <2> QED
      BY <2>8 DEF PermitsConserved
  <1>10. ASSUME NEW c \in Clients, NEW d \in Clients, DrainsNext(c, d) PROVE PermitsConserved'
    <2>1. \A b \in Clients : Share(b)' = Share(b)
      BY <1>10, <1>e DEF DrainsNext, TakeAt, NodeAt, PcAt, Share, Part, Status
    <2>2. total' = total /\ state' \div 2 = state \div 2
      BY <1>10, <1>p, <1>z DEF DrainsNext
    <2>3. Cardinality(Given') = Cardinality(Given)
      BY <2>1, ShareSame
    <2> QED
      BY <2>2, <2>3 DEF PermitsConserved
  <1>11. ASSUME NEW c \in Clients, NEW n \in Nat, NEW s \in Nat, Tries(c, n, s) PROVE PermitsConserved'
    <2>1. \A b \in Clients : b # c => Share(b)' = Share(b)
      BY <1>11 DEF Tries, HeldAt, adding, Share, Part, Status
    <2>2. s = n /\ n \in Nat /\ state' = state - 2 * n /\ 2 * n <= state /\ total' = total
      BY <1>11, <1>p DEF Tries, Request, CanAcquire, Contract
    <2>3. Share(c)' = Share(c) + n /\ Share(c) \in Nat
      <3>1. held'[c] = held[c] + n /\ add'[c] = add[c] /\ Status(c) = "Unqueued" /\ Status(c)' = "Unqueued"
        BY <1>11, <1>e, <2>2 DEF Tries, HeldAt, Status, adding
      <3> QED
        BY <1>p, <3>1 DEF Share
    <2>7. /\ state \in Nat /\ total \in Int /\ n \in Nat /\ held[c] \in Nat
          /\ state \div 2 \in Int
      BY <1>p, <2>2, <2>3
    <2>8. (state - 2 * n) \div 2 = (state \div 2) - n
      BY <2>7, Halves
    <2>9. total' - (state' \div 2) = total - (state \div 2) + Share(c)' - Share(c)
      BY <2>2, <2>3, <2>7, <2>8
    <2>10. Cardinality(Given') = Cardinality(Given) + Share(c)' - Share(c) /\ Share(c) \in Nat /\ Share(c)' \in Nat
      BY <1>i, <2>1, ShareOne
    <2> QED
      BY <1>p, <1>i, <1>c, <2>9, <2>10 DEF PermitsConserved
  <1>12. ASSUME NEW c \in Clients, NEW n \in Nat, NEW s \in Nat, NEW k \in Tasks, Starts(c, n, s, k)
         PROVE  PermitsConserved'
    <2>1. \A b \in Clients : Share(b)' = Share(b)
      BY <1>12, <1>e DEF Starts, FutAt, PcAt, shared, adding, Share, Part, Status
    <2>2. total' = total /\ state' \div 2 = state \div 2
      BY <1>12, <1>p, <1>z DEF shared, adding, Starts
    <2>3. Cardinality(Given') = Cardinality(Given)
      BY <2>1, ShareSame
    <2> QED
      BY <2>2, <2>3 DEF PermitsConserved
  <1>13. ASSUME NEW c \in Clients, AcquiresNow(c) PROVE PermitsConserved'
    <2>1. \A b \in Clients : b # c => Share(b)' = Share(b)
      BY <1>13 DEF AcquiresNow, HeldAt, GoneAt, NodeAt, FutAt, PcAt, adding, Share, Part, Status
    <2>2. /\ state' = state - 2 * fut[c].want /\ 2 * fut[c].want <= state /\ total' = total
          /\ fut[c].size = fut[c].want
      BY <1>13, <1>p DEF AcquiresNow, CanAcquire, SizeInv, FuturePC
    <2>3. Share(c)' = Share(c) + fut[c].want /\ Share(c) \in Nat
      <3>1. /\ held'[c] = held[c] + fut[c].want /\ add'[c] = add[c]
            /\ Status(c) = "Unqueued" /\ Status(c)' = "Unqueued"
        BY <1>13, <1>e, <2>2 DEF AcquiresNow, HeldAt, GoneAt, NodeAt, Status, adding
      <3> QED
        BY <1>p, <3>1 DEF Share
    <2>9. total' - (state' \div 2) = total - (state \div 2) + Share(c)' - Share(c)
      BY <1>13, <1>p, <2>2, <2>3
    <2>10. Cardinality(Given') = Cardinality(Given) + Share(c)' - Share(c) /\ Share(c) \in Nat /\ Share(c)' \in Nat
      BY <1>i, <2>1, ShareOne
    <2> QED
      BY <1>p, <1>i, <1>c, <2>9, <2>10 DEF PermitsConserved
  <1>14. ASSUME NEW c \in Clients, AcquiresLate(c) PROVE PermitsConserved'
    <2>1. \A b \in Clients : b # c => Share(b)' = Share(b)
      BY <1>14
      DEF AcquiresLate, HeldAt, GoneAt, NodeAt, FutAt, PcAt, shared, adding, Share, Part, Status
    <2>2. state' = state /\ total' = total /\ fut[c].size = fut[c].want /\ node[c].remaining = 0
      BY <1>14 DEF AcquiresLate, SizeInv, FuturePC, ServedInv, IInv, shared
    <2>3. Share(c)' = Share(c) /\ Share(c) \in Nat
      <3>1. /\ held'[c] = held[c] + fut[c].want /\ add'[c] = add[c]
            /\ Status(c) = "Dequeued" /\ Status(c)' = "Unqueued"
        BY <1>14, <2>2 DEF AcquiresLate, HeldAt, GoneAt, NodeAt, Status, adding
      <3> QED
        BY <1>p, <2>2, <3>1 DEF Share, Part
    <2>9. total' - (state' \div 2) = total - (state \div 2) + Share(c)' - Share(c)
      BY <1>14, <1>p, <2>2, <2>3
    <2>10. Cardinality(Given') = Cardinality(Given) + Share(c)' - Share(c) /\ Share(c) \in Nat /\ Share(c)' \in Nat
      BY <1>i, <2>1, ShareOne
    <2> QED
      BY <1>p, <1>i, <1>c, <2>9, <2>10 DEF PermitsConserved
  <1>15. ASSUME NEW c \in Clients, StoresWaker(c) PROVE PermitsConserved'
    <2>1. \A b \in Clients : Share(b)' = Share(b)
      BY <1>15, <1>e DEF StoresWaker, FutAt, NodeAt, PcAt, shared, adding, Share, Part, Status
    <2>2. total' = total /\ state' \div 2 = state \div 2
      BY <1>15, <1>p, <1>z DEF shared, adding, StoresWaker
    <2>3. Cardinality(Given') = Cardinality(Given)
      BY <2>1, ShareSame
    <2> QED
      BY <2>2, <2>3 DEF PermitsConserved
  <1>16. ASSUME NEW c \in Clients, Enqueues(c) PROVE PermitsConserved'
    <2>1. \A b \in Clients : b # c => Share(b)' = Share(b)
      BY <1>16 DEF Enqueues, NodeAt, FutAt, PcAt, adding, Share, Part, Status
    <2>2. total' = total /\ state' = 0 /\ fut[c].want - node[c].remaining = state \div 2
      <3>1. /\ fut[c].want - node[c].remaining = PartOf(fut[c].seen) /\ fut[c].want \in Sizes \cup {1}
            /\ fut[c].seen # -1 => fut[c].seen < 2 * fut[c].want
        BY <1>16 DEF Enqueues, IInv, AskInv, SizeInv, FuturePC
      <3>2. CASE queue = <<>>
        <4>1. fut[c].seen = state /\ state # -1
          BY <1>16, <1>p, <3>2 DEF Enqueues, OptState
        <4>2. PartOf(state) = state \div 2
          BY <1>p, <3>1, <4>1, PartIsState
        <4> QED
          BY <1>16, <3>1, <4>1, <4>2 DEF Enqueues
      <3>3. CASE queue # <<>>
        <4>1. fut[c].seen = -1 /\ state = 0
          BY <1>16, <1>z, <3>3 DEF Enqueues, OptState
        <4> QED
          BY <1>16, <3>1, <4>1 DEF Enqueues, PartOf
      <3> QED
        BY <3>2, <3>3
    <2>3. Share(c)' = Share(c) + (fut[c].want - node[c].remaining) /\ Share(c) \in Nat
      <3>1. /\ held'[c] = held[c] /\ add'[c] = add[c] /\ Status(c) = "Unqueued" /\ Status(c)' = "Queued"
            /\ fut'[c].want = fut[c].want /\ node'[c].remaining = node[c].remaining
        BY <1>16, <1>e DEF Enqueues, FutAt, NodeAt, Status, adding
      <3> QED
        BY <1>p, <3>1 DEF Share, Part
    <2>9. total' - (state' \div 2) = total - (state \div 2) + Share(c)' - Share(c)
      BY <1>16, <1>p, <2>2, <2>3
    <2>10. Cardinality(Given') = Cardinality(Given) + Share(c)' - Share(c) /\ Share(c) \in Nat /\ Share(c)' \in Nat
      BY <1>i, <2>1, ShareOne
    <2> QED
      BY <1>p, <1>i, <1>c, <2>9, <2>10 DEF PermitsConserved
  <1>17. ASSUME NEW c \in Clients, Repeats(c) PROVE PermitsConserved'
    <2>1. \A b \in Clients : Share(b)' = Share(b)
      BY <1>17, <1>e DEF Repeats, FutAt, PcAt, shared, adding, Share, Part, Status
    <2>2. total' = total /\ state' \div 2 = state \div 2
      BY <1>17, <1>p, <1>z DEF shared, adding, Repeats
    <2>3. Cardinality(Given') = Cardinality(Given)
      BY <2>1, ShareSame
    <2> QED
      BY <2>2, <2>3 DEF PermitsConserved
  <1>18. ASSUME NEW c \in Clients, NEW k \in Tasks, Polls(c, k) PROVE PermitsConserved'
    <2>1. \A b \in Clients : Share(b)' = Share(b)
      BY <1>18, <1>e DEF Polls, FutAt, PcAt, shared, adding, Share, Part, Status
    <2>2. total' = total /\ state' \div 2 = state \div 2
      BY <1>18, <1>p, <1>z DEF shared, adding, Polls
    <2>3. Cardinality(Given') = Cardinality(Given)
      BY <2>1, ShareSame
    <2> QED
      BY <2>2, <2>3 DEF PermitsConserved
  <1>19. ASSUME NEW c \in Clients, UpdatesWaker(c) PROVE PermitsConserved'
    <2>1. \A b \in Clients : Share(b)' = Share(b)
      BY <1>19, <1>e DEF UpdatesWaker, NodeAt, PcAt, shared, adding, Share, Part, Status
    <2>2. total' = total /\ state' \div 2 = state \div 2
      BY <1>19, <1>p, <1>z DEF shared, adding, UpdatesWaker
    <2>3. Cardinality(Given') = Cardinality(Given)
      BY <2>1, ShareSame
    <2> QED
      BY <2>2, <2>3 DEF PermitsConserved
  <1>20. ASSUME NEW c \in Clients, DropsUnqueued(c) PROVE PermitsConserved'
    <2>1. \A b \in Clients : Share(b)' = Share(b)
      BY <1>20, <1>e
      DEF DropsUnqueued, GoneAt, NodeAt, FutAt, PcAt, shared, adding, Share, Part, Status
    <2>2. total' = total /\ state' \div 2 = state \div 2
      BY <1>20, <1>p, <1>z DEF shared, adding, DropsUnqueued
    <2>3. Cardinality(Given') = Cardinality(Given)
      BY <2>1, ShareSame
    <2> QED
      BY <2>2, <2>3 DEF PermitsConserved
  <1>21. ASSUME NEW c \in Clients, CancelsAlone(c) PROVE PermitsConserved'
    <2>1. \A b \in Clients : b # c => Share(b)' = Share(b)
      BY <1>21 DEF CancelsAlone, Cancels, GoneAt, NodeAt, FutAt, PcAt, Share, Part, Status
    <2>2. state = 0 /\ state' = 0 /\ Part(c) = 0 /\ total' = total
      BY <1>21, <1>p, <1>z DEF CancelsAlone, Cancels, Contract
    <2>3. /\ Share(c) = held[c] + Part(c) /\ Part(c) \in Nat
          /\ Share(c)' = held[c]
      <3>1. /\ held'[c] = held[c] /\ add[c] = 0 /\ add'[c] = add[c]
            /\ Status(c) = "Queued" /\ Status(c)' = "Unqueued"
        BY <1>21, <1>e DEF CancelsAlone, Cancels, GoneAt, NodeAt, Status
      <3>2. Part(c) \in Nat
        BY <1>q, <3>1
      <3> QED
        BY <1>p, <3>1, <3>2 DEF Share
    <2>9. total' - (state' \div 2) = total - (state \div 2) + Share(c)' - Share(c)
      BY <1>21, <1>p, <2>2, <2>3
    <2>10. Cardinality(Given') = Cardinality(Given) + Share(c)' - Share(c) /\ Share(c) \in Nat /\ Share(c)' \in Nat
      BY <1>i, <2>1, ShareOne
    <2> QED
      BY <1>p, <1>i, <1>c, <2>9, <2>10 DEF PermitsConserved
  <1>22. ASSUME NEW c \in Clients, CancelsNewest(c) PROVE PermitsConserved'
    <2>1. \A b \in Clients : b # c => Share(b)' = Share(b)
      BY <1>22 DEF CancelsNewest, Cancels, GoneAt, NodeAt, FutAt, PcAt, Share, Part, Status
    <2>2. state' = state /\ Part(c) = 0 /\ total' = total
      BY <1>22, <1>p, <1>z DEF CancelsNewest, Cancels, OrderInv, IInv, Part
    <2>3. /\ Share(c) = held[c] + Part(c) /\ Part(c) \in Nat
          /\ Share(c)' = held[c]
      <3>1. /\ held'[c] = held[c] /\ add[c] = 0 /\ add'[c] = add[c]
            /\ Status(c) = "Queued" /\ Status(c)' = "Unqueued"
        BY <1>22, <1>e DEF CancelsNewest, Cancels, GoneAt, NodeAt, Status
      <3>2. Part(c) \in Nat
        BY <1>q, <3>1
      <3> QED
        BY <1>p, <3>1, <3>2 DEF Share
    <2>9. total' - (state' \div 2) = total - (state \div 2) + Share(c)' - Share(c)
      BY <1>22, <1>p, <2>2, <2>3
    <2>10. Cardinality(Given') = Cardinality(Given) + Share(c)' - Share(c) /\ Share(c) \in Nat /\ Share(c)' \in Nat
      BY <1>i, <2>1, ShareOne
    <2> QED
      BY <1>p, <1>i, <1>c, <2>9, <2>10 DEF PermitsConserved
  <1>23. ASSUME NEW c \in Clients, CancelsAhead(c) PROVE PermitsConserved'
    <2>1. \A b \in Clients : b # c => Share(b)' = Share(b)
      BY <1>23 DEF CancelsAhead, Cancels, GoneAt, NodeAt, FutAt, AddAt, PcAt, Share, Part, Status
    <2>2. state' = state /\ total' = total
      BY <1>23, <1>p, <1>z DEF CancelsAhead, Cancels
    <2>3. /\ Share(c) = held[c] + Part(c) /\ Part(c) \in Nat
          /\ Share(c)' = held[c] + Part(c)
      <3>1. /\ held'[c] = held[c] /\ add[c] = 0 /\ add'[c] = Part(c)
            /\ Status(c) = "Queued" /\ Status(c)' = "Unqueued"
        BY <1>23, <1>e DEF CancelsAhead, Cancels, GoneAt, NodeAt, Status, AddAt
      <3>2. Part(c) \in Nat
        BY <1>q, <3>1
      <3> QED
        BY <1>p, <3>1, <3>2 DEF Share
    <2>9. total' - (state' \div 2) = total - (state \div 2) + Share(c)' - Share(c)
      BY <1>23, <1>p, <2>2, <2>3
    <2>10. Cardinality(Given') = Cardinality(Given) + Share(c)' - Share(c) /\ Share(c) \in Nat /\ Share(c)' \in Nat
      BY <1>i, <2>1, ShareOne
    <2> QED
      BY <1>p, <1>i, <1>c, <2>9, <2>10 DEF PermitsConserved
  <1>24. ASSUME NEW c \in Clients, CancelsDrained(c) PROVE PermitsConserved'
    <2>1. \A b \in Clients : b # c => Share(b)' = Share(b)
      BY <1>24 DEF CancelsDrained, Cancels, GoneAt, NodeAt, FutAt, PcAt, Share, Part, Status
    <2>3. /\ Share(c) = held[c] + Part(c) /\ Part(c) \in Nat
          /\ Share(c)' = held[c]
      <3>1. /\ held'[c] = held[c] /\ add[c] = 0 /\ add'[c] = add[c]
            /\ Status(c) = "Queued" /\ Status(c)' = "Unqueued"
        BY <1>24, <1>e DEF CancelsDrained, Cancels, GoneAt, NodeAt, Status
      <3>2. Part(c) \in Nat
        BY <1>q, <3>1
      <3> QED
        BY <1>p, <3>1, <3>2 DEF Share
    <2>0. CheckAdd(state, Part(c)) = state + 2 * Part(c)
      BY <1>c, <1>p, <2>3, ComesBack
    <2>2. state' = state + 2 * Part(c) /\ total' = total
      BY <1>24, <2>0 DEF CancelsDrained, Cancels
    <2>7. /\ state \in Nat /\ total \in Int /\ Part(c) \in Nat /\ held[c] \in Nat
          /\ state \div 2 \in Int
      BY <1>p, <2>2, <2>3
    <2>8. (state + 2 * Part(c)) \div 2 = (state \div 2) + Part(c)
      BY <2>7, Halves
    <2>9. total' - (state' \div 2) = total - (state \div 2) + Share(c)' - Share(c)
      BY <2>2, <2>3, <2>7, <2>8
    <2>10. Cardinality(Given') = Cardinality(Given) + Share(c)' - Share(c) /\ Share(c) \in Nat /\ Share(c)' \in Nat
      BY <1>i, <2>1, ShareOne
    <2> QED
      BY <1>p, <1>i, <1>c, <2>9, <2>10 DEF PermitsConserved
  <1>25. ASSUME NEW c \in Clients, Forgets(c) PROVE PermitsConserved'
    <2>1. \A b \in Clients : b # c => Share(b)' = Share(b)
      BY <1>25 DEF Forgets, HeldAt, shared, adding, Share, Part, Status
    <2>2. state' = state /\ total' = total - held[c]
      BY <1>25 DEF Forgets, shared
    <2>3. Share(c)' = Share(c) - held[c] /\ Share(c) \in Nat
      <3>1. held'[c] = 0 /\ add'[c] = add[c] /\ Status(c) = "Unqueued" /\ Status(c)' = "Unqueued"
        BY <1>25, <1>e DEF Forgets, HeldAt, Status, adding
      <3> QED
        BY <1>p, <3>1 DEF Share
    <2>9. total' - (state' \div 2) = total - (state \div 2) + Share(c)' - Share(c)
      BY <1>25, <1>p, <2>2, <2>3
    <2>10. Cardinality(Given') = Cardinality(Given) + Share(c)' - Share(c) /\ Share(c) \in Nat /\ Share(c)' \in Nat
      BY <1>i, <2>1, ShareOne
    <2> QED
      BY <1>p, <1>i, <1>c, <2>9, <2>10 DEF PermitsConserved
  <1>26. ASSUME NEW c \in Clients, NEW n \in Sizes, ForgetsSome(c, n) PROVE PermitsConserved'
    <2>1. \A b \in Clients : Share(b)' = Share(b)
      BY <1>26, <1>e DEF ForgetsSome, adding, Share, Part, Status
    <2>2. n \in Nat /\ 2 * n <= state /\ state' = state - 2 * n /\ total' = total - n
      BY <1>26, <1>c, <1>p, StateBound, ForgetBound DEF ForgetsSome
    <2>3. Cardinality(Given') = Cardinality(Given)
      BY <2>1, ShareSame
    <2>4. state' \div 2 = state \div 2 - n
      BY <1>p, <2>2
    <2> QED
      BY <1>p, <1>c, <1>i, <2>2, <2>3, <2>4 DEF PermitsConserved
  <1>27. ASSUME NEW c \in Clients, Closes(c) PROVE PermitsConserved'
    <2>1. \A b \in Clients : Share(b)' = Share(b)
      BY <1>27, <1>e DEF Closes, PcAt, adding, Share, Part, Status
    <2>2. total' = total /\ state' \div 2 = state \div 2
      BY <1>27, <1>p, <1>z DEF adding, Closes, SetClosed, CLOSED
    <2>3. Cardinality(Given') = Cardinality(Given)
      BY <2>1, ShareSame
    <2> QED
      BY <2>2, <2>3 DEF PermitsConserved
  <1>28. ASSUME NEW c \in Clients, DrainStarts(c) PROVE PermitsConserved'
    <2>1. \A b \in Clients : Share(b)' = Share(b)
      BY <1>28, <1>e DEF DrainStarts, PcAt, adding, Share, Part, Status
    <2>2. total' = total /\ state' \div 2 = state \div 2
      BY <1>28, <1>p, <1>z DEF adding, DrainStarts, SetClosed, CLOSED
    <2>3. Cardinality(Given') = Cardinality(Given)
      BY <2>1, ShareSame
    <2> QED
      BY <2>2, <2>3 DEF PermitsConserved
  <1>29. ASSUME NEW c \in Clients, DrainEnds(c) PROVE PermitsConserved'
    <2>1. \A b \in Clients : Share(b)' = Share(b)
      BY <1>29, <1>e DEF DrainEnds, PcAt, adding, Share, Part, Status
    <2>2. total' = total /\ state' \div 2 = state \div 2
      BY <1>29, <1>p, <1>z DEF adding, DrainEnds
    <2>3. Cardinality(Given') = Cardinality(Given)
      BY <2>1, ShareSame
    <2> QED
      BY <2>2, <2>3 DEF PermitsConserved
  <1>30. CASE UNCHANGED vars
    <2>1. \A b \in Clients : Share(b)' = Share(b)
      BY <1>30, <1>e DEF vars, shared, adding, Share, Part, Status
    <2>2. total' = total /\ state' \div 2 = state \div 2
      BY <1>30, <1>p, <1>z DEF vars, shared, adding
    <2>3. Cardinality(Given') = Cardinality(Given)
      BY <2>1, ShareSame
    <2> QED
      BY <2>2, <2>3 DEF PermitsConserved
  <1>s. (\E c \in Clients : Steps(c)) \/ UNCHANGED vars
    BY StepCases
  <1> QED
    BY <1>s, <1>1, <1>2, <1>3, <1>4, <1>5, <1>6, <1>7, <1>8, <1>9, <1>10, <1>11, <1>12, <1>13,
       <1>14, <1>15, <1>16, <1>17, <1>18, <1>19, <1>20, <1>21, <1>22, <1>23, <1>24, <1>25, <1>26,
       <1>27, <1>28, <1>29, <1>30
    DEF Steps, AddSteps, LockSteps, AcquireSteps, DropSteps, CallSteps

(* close returns only from a closed semaphore. *)
LEMMA ReturnStep == IInv /\ [Next]_vars => CloseReturns
  <1> SUFFICES ASSUME IInv, [Next]_vars PROVE CloseReturns
    OBVIOUS
  <1> USE DEF CloseReturns
  <1>p. pc \in [Clients -> Points] /\ mutex \in Clients \cup {NONE}
    BY DEF IInv, Types, Points
  <1>r. IsClosed => IsClosed'
    BY ClosedStep
  <1>e. \A b \in Clients : pc[b] = "drain" => IsClosed
    BY DEF IInv, StateInv
  <1>1. ASSUME NEW c \in Clients, AddsAgain(c) PROVE CloseReturns
    BY <1>1, <1>p, <1>r, <1>e DEF AddsAgain, AddsAt, PcAt
  <1>2. ASSUME NEW c \in Clients, NEW n \in Nat, AddsReleased(c, n) PROVE CloseReturns
    BY <1>2, <1>p, <1>r, <1>e DEF AddsReleased, AddsAt, PcAt
  <1>3. ASSUME NEW c \in Clients, NEW n \in Sizes, AddsNew(c, n) PROVE CloseReturns
    BY <1>3, <1>p, <1>r, <1>e DEF AddsNew, AddsAt, PcAt
  <1>4. ASSUME NEW c \in Clients, Abandons(c) PROVE CloseReturns
    BY <1>4, <1>p, <1>r, <1>e DEF Abandons, AddsAt, PcAt
  <1>5. ASSUME NEW c \in Clients, Moves(c) PROVE CloseReturns
    BY <1>5, <1>p, <1>r, <1>e DEF Moves, PcAt, shared, adding
  <1>6. ASSUME NEW c \in Clients, GetsLock(c) PROVE CloseReturns
    BY <1>6, <1>p, <1>r, <1>e DEF GetsLock, PcAt, adding
  <1>7. ASSUME NEW c \in Clients, WakeAt(c) PROVE CloseReturns
    BY <1>7, <1>p, <1>r, <1>e DEF WakeAt, shared
  <1>8. ASSUME NEW c \in Clients, NEW d \in Clients, ServesPart(c, d) PROVE CloseReturns
    BY <1>8, <1>p, <1>r, <1>e DEF ServesPart, First, PcAt
  <1>9. ASSUME NEW c \in Clients, NEW d \in Clients, ServesAll(c, d) PROVE CloseReturns
    BY <1>9, <1>p, <1>r, <1>e DEF ServesAll, First, PcAt
  <1>10. ASSUME NEW c \in Clients, NEW d \in Clients, DrainsNext(c, d) PROVE CloseReturns
    BY <1>10, <1>p, <1>r, <1>e DEF DrainsNext, PcAt
  <1>11. ASSUME NEW c \in Clients, NEW n \in Nat, NEW s \in Nat, Tries(c, n, s) PROVE CloseReturns
    BY <1>11, <1>p, <1>r, <1>e DEF Tries, adding
  <1>12. ASSUME NEW c \in Clients, NEW n \in Nat, NEW s \in Nat, NEW k \in Tasks, Starts(c, n, s, k)
         PROVE  CloseReturns
    BY <1>12, <1>p, <1>r, <1>e DEF Starts, PcAt, shared, adding
  <1>13. ASSUME NEW c \in Clients, AcquiresNow(c) PROVE CloseReturns
    BY <1>13, <1>p, <1>r, <1>e DEF AcquiresNow, PcAt, adding
  <1>14. ASSUME NEW c \in Clients, AcquiresLate(c) PROVE CloseReturns
    BY <1>14, <1>p, <1>r, <1>e DEF AcquiresLate, PcAt, shared, adding
  <1>15. ASSUME NEW c \in Clients, StoresWaker(c) PROVE CloseReturns
    BY <1>15, <1>p, <1>r, <1>e DEF StoresWaker, PcAt, shared, adding
  <1>16. ASSUME NEW c \in Clients, Enqueues(c) PROVE CloseReturns
    BY <1>16, <1>p, <1>r, <1>e DEF Enqueues, PcAt, adding
  <1>17. ASSUME NEW c \in Clients, Repeats(c) PROVE CloseReturns
    BY <1>17, <1>p, <1>r, <1>e DEF Repeats, PcAt, shared, adding
  <1>18. ASSUME NEW c \in Clients, NEW k \in Tasks, Polls(c, k) PROVE CloseReturns
    BY <1>18, <1>p, <1>r, <1>e DEF Polls, PcAt, shared, adding
  <1>19. ASSUME NEW c \in Clients, UpdatesWaker(c) PROVE CloseReturns
    BY <1>19, <1>p, <1>r, <1>e DEF UpdatesWaker, PcAt, shared, adding
  <1>20. ASSUME NEW c \in Clients, DropsUnqueued(c) PROVE CloseReturns
    BY <1>20, <1>p, <1>r, <1>e DEF DropsUnqueued, PcAt, shared, adding
  <1>21. ASSUME NEW c \in Clients, CancelsAlone(c) PROVE CloseReturns
    BY <1>21, <1>p, <1>r, <1>e DEF CancelsAlone, Cancels, PcAt
  <1>22. ASSUME NEW c \in Clients, CancelsNewest(c) PROVE CloseReturns
    BY <1>22, <1>p, <1>r, <1>e DEF CancelsNewest, Cancels, PcAt
  <1>23. ASSUME NEW c \in Clients, CancelsAhead(c) PROVE CloseReturns
    BY <1>23, <1>p, <1>r, <1>e DEF CancelsAhead, Cancels, PcAt
  <1>24. ASSUME NEW c \in Clients, CancelsDrained(c) PROVE CloseReturns
    BY <1>24, <1>p, <1>r, <1>e DEF CancelsDrained, Cancels, PcAt
  <1>25. ASSUME NEW c \in Clients, Forgets(c) PROVE CloseReturns
    BY <1>25, <1>p, <1>r, <1>e DEF Forgets, shared, adding
  <1>26. ASSUME NEW c \in Clients, NEW n \in Sizes, ForgetsSome(c, n) PROVE CloseReturns
    BY <1>26, <1>p, <1>r, <1>e DEF ForgetsSome, adding
  <1>27. ASSUME NEW c \in Clients, Closes(c) PROVE CloseReturns
    <2>1. state \in Nat /\ queue' = <<>> /\ state' = SetClosed(state)
      BY <1>27 DEF Closes, IInv, Types
    <2>2. state' % 2 = 1
      BY <2>1 DEF SetClosed, CLOSED
    <2> QED
      BY <2>1, <2>2 DEF IsClosed, CLOSED
  <1>28. ASSUME NEW c \in Clients, DrainStarts(c) PROVE CloseReturns
    BY <1>28, <1>p, <1>r, <1>e DEF DrainStarts, PcAt, adding, IsClosed, CLOSED
  <1>29. ASSUME NEW c \in Clients, DrainEnds(c) PROVE CloseReturns
    BY <1>29, <1>p, <1>r, <1>e DEF DrainEnds, PcAt, adding
  <1>30. CASE UNCHANGED vars
    BY <1>30, <1>p, <1>r, <1>e DEF vars, shared, adding
  <1> HIDE DEF CloseReturns
  <1>s. (\E c \in Clients : Steps(c)) \/ UNCHANGED vars
    BY StepCases
  <1> QED
    BY <1>s, <1>1, <1>2, <1>3, <1>4, <1>5, <1>6, <1>7, <1>8, <1>9, <1>10, <1>11, <1>12, <1>13,
       <1>14, <1>15, <1>16, <1>17, <1>18, <1>19, <1>20, <1>21, <1>22, <1>23, <1>24, <1>25, <1>26,
       <1>27, <1>28, <1>29, <1>30
    DEF Steps, AddSteps, LockSteps, AcquireSteps, DropSteps, CallSteps

(* A semaphore is closed by close only. *)
LEMMA ByCloseStep == IInv /\ Contract /\ [Next]_vars => ClosedByClose
  <1> SUFFICES ASSUME IInv, Contract, [Next]_vars PROVE ClosedByClose
    OBVIOUS
  <1> USE DEF ClosedByClose, IsClosed, CLOSED
  <1>p. /\ pc \in [Clients -> Points] /\ mutex \in Clients \cup {NONE} /\ state \in Nat
        /\ queue \in Seq(Clients) /\ add \in [Clients -> Nat] /\ drained \in [Clients -> Seq(Clients)]
        /\ \A b \in Clients : add[b] \in Nat /\ node[b].remaining \in Nat /\ fut[b].want \in Nat
    BY DEF IInv, Types, Points
  <1>q. \A b \in Clients : Status(b) # "Unqueued" => Part(b) \in Nat
    BY PartType DEF IInv
  <1>r. /\ \A b \in Clients : drained[b] # <<>> \/ pc[b] = "drain" => queue = <<>> /\ state % 2 = 1
        /\ queue # <<>> => state = 0
    BY DEF IInv, DrainInv, StateInv
  <1>e. \A x : ~InSeq(x, <<>>)
    BY DEF InSeq
  <1>1. ASSUME NEW c \in Clients, AddsAgain(c) PROVE ClosedByClose
    <2>1. add[c] \in Nat /\ AddsAt(c, add[c])
      BY <1>1, <1>p, <1>q, Parameters DEF AddsAgain
    <2> HIDE DEF IsClosed
    <2> QED
      BY <1>p, <2>1, AddsClosed
  <1>2. ASSUME NEW c \in Clients, NEW n \in Nat, AddsReleased(c, n) PROVE ClosedByClose
    <2>1. n \in Nat /\ AddsAt(c, n)
      BY <1>2, <1>p, <1>q, Parameters DEF AddsReleased
    <2> HIDE DEF IsClosed
    <2> QED
      BY <1>p, <2>1, AddsClosed
  <1>3. ASSUME NEW c \in Clients, NEW n \in Sizes, AddsNew(c, n) PROVE ClosedByClose
    <2>1. n \in Nat /\ AddsAt(c, n)
      BY <1>3, <1>p, <1>q, Parameters DEF AddsNew
    <2> HIDE DEF IsClosed
    <2> QED
      BY <1>p, <2>1, AddsClosed
  <1>4. ASSUME NEW c \in Clients, Abandons(c) PROVE ClosedByClose
    <2>1. Part(c) \in Nat /\ AddsAt(c, Part(c))
      BY <1>4, <1>p, <1>q, Parameters DEF Abandons
    <2> HIDE DEF IsClosed
    <2> QED
      BY <1>p, <2>1, AddsClosed
  <1>5. ASSUME NEW c \in Clients, Moves(c) PROVE ClosedByClose
    BY <1>5, <1>p, <1>q, <1>r, <1>e DEF Moves, shared, adding
  <1>6. ASSUME NEW c \in Clients, GetsLock(c) PROVE ClosedByClose
    BY <1>6, <1>p, <1>q, <1>r, <1>e DEF GetsLock, adding
  <1>7. ASSUME NEW c \in Clients, WakeAt(c) PROVE ClosedByClose
    BY <1>7, <1>p, <1>q, <1>r, <1>e DEF WakeAt, shared
  <1>8. ASSUME NEW c \in Clients, NEW d \in Clients, ServesPart(c, d) PROVE ClosedByClose
    BY <1>8, <1>p, <1>q, <1>r, <1>e DEF ServesPart, First
  <1>9. ASSUME NEW c \in Clients, NEW d \in Clients, ServesAll(c, d) PROVE ClosedByClose
    <2>1. /\ node[d].remaining <= add[c]
          /\ queue' # <<>> \/ state' = 2 * (add[c] - node[d].remaining)
      BY <1>9 DEF ServesAll
    <2>2. add[c] - node[d].remaining \in Nat
      BY <1>p, <2>1
    <2> QED
      BY <2>1, <2>2
  <1>10. ASSUME NEW c \in Clients, NEW d \in Clients, DrainsNext(c, d) PROVE ClosedByClose
    <2>1. queue = <<>> /\ state % 2 = 1
      BY <1>10, <1>r DEF DrainsNext
    <2> QED
      BY <2>1
  <1>11. ASSUME NEW c \in Clients, NEW n \in Nat, NEW s \in Nat, Tries(c, n, s) PROVE ClosedByClose
    BY <1>11, <1>p, <1>q, <1>r, <1>e DEF Tries, CanAcquire, adding
  <1>12. ASSUME NEW c \in Clients, NEW n \in Nat, NEW s \in Nat, NEW k \in Tasks, Starts(c, n, s, k)
         PROVE  ClosedByClose
    BY <1>12, <1>p, <1>q, <1>r, <1>e DEF Starts, shared, adding
  <1>13. ASSUME NEW c \in Clients, AcquiresNow(c) PROVE ClosedByClose
    <2>1. /\ queue = <<>> /\ queue' = <<>> /\ fut[c].want \in Nat /\ state \in Nat
          /\ state' = state - 2 * fut[c].want
      BY <1>13, <1>p DEF AcquiresNow, CanAcquire
    <2> QED
      BY <2>1
  <1>14. ASSUME NEW c \in Clients, AcquiresLate(c) PROVE ClosedByClose
    BY <1>14, <1>p, <1>q, <1>r, <1>e DEF AcquiresLate, shared, adding
  <1>15. ASSUME NEW c \in Clients, StoresWaker(c) PROVE ClosedByClose
    BY <1>15, <1>p, <1>q, <1>r, <1>e DEF StoresWaker, shared, adding
  <1>16. ASSUME NEW c \in Clients, Enqueues(c) PROVE ClosedByClose
    <2>1. queue \in Seq(Clients) /\ queue' = Append(queue, c)
      BY <1>16, <1>p DEF Enqueues
    <2>2. queue' # <<>>
      BY <2>1, AppendList, EmptyList
    <2> QED
      BY <2>2
  <1>17. ASSUME NEW c \in Clients, Repeats(c) PROVE ClosedByClose
    BY <1>17, <1>p, <1>q, <1>r, <1>e DEF Repeats, shared, adding
  <1>18. ASSUME NEW c \in Clients, NEW k \in Tasks, Polls(c, k) PROVE ClosedByClose
    BY <1>18, <1>p, <1>q, <1>r, <1>e DEF Polls, shared, adding
  <1>19. ASSUME NEW c \in Clients, UpdatesWaker(c) PROVE ClosedByClose
    BY <1>19, <1>p, <1>q, <1>r, <1>e DEF UpdatesWaker, shared, adding
  <1>20. ASSUME NEW c \in Clients, DropsUnqueued(c) PROVE ClosedByClose
    BY <1>20, <1>p, <1>q, <1>r, <1>e DEF DropsUnqueued, shared, adding
  <1>21. ASSUME NEW c \in Clients, CancelsAlone(c) PROVE ClosedByClose
    <2>1. state' = 0
      BY <1>21 DEF CancelsAlone, Contract
    <2> QED
      BY <2>1
  <1>22. ASSUME NEW c \in Clients, CancelsNewest(c) PROVE ClosedByClose
    <2>1. state' = 0
      BY <1>22, <1>r DEF CancelsNewest
    <2> QED
      BY <2>1
  <1>23. ASSUME NEW c \in Clients, CancelsAhead(c) PROVE ClosedByClose
    BY <1>23 DEF CancelsAhead
  <1>24. ASSUME NEW c \in Clients, CancelsDrained(c) PROVE ClosedByClose
    <2>1. PICK t \in Clients : InSeq(c, drained[t])
      BY <1>24 DEF CancelsDrained
    <2>2. drained[t] # <<>>
      BY <2>1, <1>e
    <2>3. queue = <<>> /\ state % 2 = 1
      BY <1>r, <2>2
    <2> QED
      BY <2>3
  <1>25. ASSUME NEW c \in Clients, Forgets(c) PROVE ClosedByClose
    BY <1>25, <1>p, <1>q, <1>r, <1>e DEF Forgets, shared, adding
  <1>26. ASSUME NEW c \in Clients, NEW n \in Sizes, ForgetsSome(c, n) PROVE ClosedByClose
    <2>1. queue = <<>> /\ state' = (state - 2 * n) % (UsizeMax + 1) /\ n \in Nat
      BY <1>26, Parameters DEF ForgetsSome
    <2>2. state' \in Nat /\ state' % 2 = state % 2
      BY <1>p, <2>1, ParityKept
    <2> QED
      BY <1>26, <2>1, <2>2 DEF ForgetsSome, adding
  <1>27. ASSUME NEW c \in Clients, Closes(c) PROVE ClosedByClose
    BY <1>27, Zenon DEF Closes
  <1>28. ASSUME NEW c \in Clients, DrainStarts(c) PROVE ClosedByClose
    BY <1>28, Zenon DEF DrainStarts
  <1>29. ASSUME NEW c \in Clients, DrainEnds(c) PROVE ClosedByClose
    BY <1>29, <1>p, <1>q, <1>r, <1>e DEF DrainEnds, adding
  <1>30. CASE UNCHANGED vars
    BY <1>30, <1>p, <1>q, <1>r, <1>e DEF vars, shared, adding
  <1> HIDE DEF ClosedByClose, IsClosed, CLOSED
  <1>s. (\E c \in Clients : Steps(c)) \/ UNCHANGED vars
    BY StepCases
  <1> QED
    BY <1>s, <1>1, <1>2, <1>3, <1>4, <1>5, <1>6, <1>7, <1>8, <1>9, <1>10, <1>11, <1>12, <1>13,
       <1>14, <1>15, <1>16, <1>17, <1>18, <1>19, <1>20, <1>21, <1>22, <1>23, <1>24, <1>25, <1>26,
       <1>27, <1>28, <1>29, <1>30
    DEF Steps, AddSteps, LockSteps, AcquireSteps, DropSteps, CallSteps

(* A usize state that state_to_ptr accepts, and the address of any node,   *)
(* fit into the word and are read back as what they are; and every word    *)
(* stands for exactly one of them, so that a CAS on the word compares      *)
(* states or nodes, never one with the other.                              *)
THEOREM UsizeBijective ==
    /\ \A s \in Nat : ~StateOverflows(s) =>
        UsizeToTail(State(s)) \in Word /\ TailToUsize(UsizeToTail(State(s))) = State(s)
    /\ \A a \in NodeAddress :
        UsizeToTail(Ptr(a)) \in Word /\ TailToUsize(UsizeToTail(Ptr(a))) = Ptr(a)
    /\ \A w \in Word : UsizeToTail(TailToUsize(w)) = w
  <1>1. ASSUME NEW s \in Nat, ~StateOverflows(s)
        PROVE  /\ StateToPtr(s) \in Word /\ StateToPtr(s) % 2 = 0 /\ StateToPtr(s) \div 2 = s
    <2>1. 2 * s \in Word /\ (2 * s) % 2 = 0 /\ (2 * s) \div 2 = s /\ 2 * s < UsizeMax + 1
      BY <1>1, UsizeAssumption DEF Word, StateOverflows, INTRUSIVE_QUEUE_MAX_STATE
    <2>2. StateToPtr(s) = 2 * s
      BY <2>1, UsizeAssumption, RemainderSame DEF StateToPtr
    <2> QED
      BY <2>1, <2>2
  <1>2. ASSUME NEW a \in NodeAddress
        PROVE  SetFlag(a) \in Word /\ SetFlag(a) % 2 = 1 /\ ClearFlag(SetFlag(a)) = a
    BY UsizeAssumption DEF Word, NodeAddress, SetFlag, ClearFlag
  <1>3. ASSUME NEW w \in Word
        PROVE  /\ w % 2 # 0 => SetFlag(ClearFlag(w)) = w
               /\ w % 2 = 0 => StateToPtr(w \div 2) = w
    <2>1. w \in Nat /\ w < UsizeMax + 1 /\ UsizeMax + 1 \in Nat
      BY UsizeAssumption DEF Word
    <2>2. w % 2 = 0 => 2 * (w \div 2) = w
      BY <2>1
    <2>3. w % (UsizeMax + 1) = w
      BY <2>1, RemainderSame
    <2> QED
      BY <2>1, <2>2, <2>3 DEF SetFlag, ClearFlag, StateToPtr
  <1>4. QED
    BY <1>1, <1>2, <1>3, UsizeAssumption
    DEF UsizeToTail, TailToUsize, State, Ptr, Word

(* The null word is the unit state, and no node is at address null.        *)
THEOREM UnitBijective ==
    /\ TailToUnit(UnitToTail(State(Unit))) = State(Unit)
    /\ \A a \in NodeAddress : TailToUnit(UnitToTail(Ptr(a))) = Ptr(a)
    /\ \A w \in Word : UnitToTail(TailToUnit(w)) = w
  BY DEF UnitToTail, TailToUnit, State, Ptr, NodeAddress, Word, Unit

(* A pointer state comes back as it was stored exactly if it is even: the  *)
(* alignment of T keeps pointers to a T, but check_alignment silently      *)
(* changes any other one.                                                  *)
THEOREM PointerBijectiveIfAligned ==
    /\ \A q \in Word : TailToPointer(PointerToTail(State(q))) = State(q) <=> q % 2 = 0
    /\ \A a \in NodeAddress : TailToPointer(PointerToTail(Ptr(a))) = Ptr(a)
  <1>1. ASSUME NEW q \in Word
        PROVE  ClearFlag(q) % 2 = 0 /\ (ClearFlag(q) = q <=> q % 2 = 0)
    BY UsizeAssumption DEF Word, ClearFlag
  <1>2. ASSUME NEW a \in NodeAddress
        PROVE  SetFlag(a) % 2 = 1 /\ ClearFlag(SetFlag(a)) = a
    BY UsizeAssumption DEF Word, NodeAddress, SetFlag, ClearFlag
  <1>3. QED
    BY <1>1, <1>2 DEF PointerToTail, TailToPointer, State, Ptr

(* In the beginning all permits are in the state. *)
LEMMA InitCount == Init => SizeInv /\ BoundInv /\ PermitsConserved
  <1> SUFFICES ASSUME Init PROVE SizeInv /\ BoundInv /\ PermitsConserved
    OBVIOUS
  <1>1. Permits \in Nat /\ Permits <= MaxTotal /\ MaxTotal \in Nat
    BY Parameters, SemaphoreAssumption
  <1>2. SizeInv /\ BoundInv
    BY <1>1 DEF Init, SizeInv, BoundInv, FuturePC
  <1>3. \A c \in Clients : Share(c) = 0
    BY DEF Init, NewNode, Share, Status
  <1>4. \A c \in Clients : {c} \X (1..Share(c)) = {}
    BY <1>3
  <1>5. Given = {}
    BY <1>4 DEF Given
  <1>6. Cardinality(Given) = 0
    BY <1>5, FS_EmptySet
  <1> QED
    BY <1>1, <1>2, <1>6 DEF Init, PermitsConserved

(* The accounting needs the requests to be of the size of the object, and  *)
(* the number of permits to be bounded.                                    *)
THEOREM ContractInvariant ==
    ASSUME Contract
    PROVE  Spec => [](IInv /\ SizeInv /\ BoundInv /\ PermitsConserved)
  <1> DEFINE J == IInv /\ SizeInv /\ BoundInv /\ PermitsConserved
  <1>1. Init => J
    BY InitInv, InitCount
  <1>2. J /\ [Next]_vars => J'
    BY Contract, InvStep, SizeStep, BoundStep, CountStep
  <1> QED
    BY <1>1, <1>2, PTL DEF Spec

(* No permit is lost and none is made up, whatever waiters are served,     *)
(* give up or are drained, and however the calls of add_permits,           *)
(* forget_permits and close interleave with them.                          *)
THEOREM PermitsAreKept ==
    ASSUME Contract
    PROVE  Spec => []PermitsConserved
  BY ContractInvariant, PTL

(* The state never needs more bits than state_to_ptr has room for. *)
THEOREM TypeCorrect ==
    ASSUME Contract
    PROVE  Spec => []TypeOK
  <1>1. IInv /\ BoundInv /\ PermitsConserved => TypeOK
    BY Contract, StateBound DEF TypeOK, IInv
  <1> QED
    BY <1>1, ContractInvariant, PTL

(* Nothing beyond the limit is asked for, and nothing beyond it is on its  *)
(* way in add_permits.                                                     *)
LEMMA OfferStep == IInv /\ OfferInv /\ [Next]_vars => OfferInv'
  <1> SUFFICES ASSUME IInv, OfferInv, [Next]_vars PROVE OfferInv'
    OBVIOUS
  <1> USE DEF OfferInv
  <1>p. /\ MAX_PERMITS \in Nat /\ 0 <= MAX_PERMITS
        /\ \A b \in Clients : add[b] \in Nat /\ node[b].remaining \in Nat /\ fut[b].want \in Nat
    BY Limits DEF IInv, Types
  <1>q. \A b \in Clients : Part(b) <= MAX_PERMITS
    BY <1>p DEF Part
  <1>n. \A n \in Sizes : n <= MAX_PERMITS
    BY Limits
  <1>1. ASSUME NEW c \in Clients, AddsAgain(c) PROVE OfferInv'
    BY <1>1, <1>p DEF AddsAgain, AddsAt, AddAt
  <1>2. ASSUME NEW c \in Clients, NEW n \in Nat, n \in Sizes, AddsReleased(c, n) PROVE OfferInv'
    BY <1>2, <1>p, <1>n DEF AddsReleased, AddsAt, AddAt
  <1>3. ASSUME NEW c \in Clients, NEW n \in Sizes, AddsNew(c, n) PROVE OfferInv'
    BY <1>3, <1>p, <1>n DEF AddsNew, AddsAt, AddAt
  <1>4. ASSUME NEW c \in Clients, Abandons(c) PROVE OfferInv'
    BY <1>4, <1>p, <1>q DEF Abandons, AddsAt, AddAt, GoneAt, FutAt
  <1>5. ASSUME NEW c \in Clients, Moves(c) PROVE OfferInv'
    BY <1>5, <1>p DEF Moves, shared, adding
  <1>6. ASSUME NEW c \in Clients, GetsLock(c) PROVE OfferInv'
    BY <1>6, <1>p DEF GetsLock, adding
  <1>7. ASSUME NEW c \in Clients, WakeAt(c) PROVE OfferInv'
    BY <1>7, <1>p DEF WakeAt, shared
  <1>8. ASSUME NEW c \in Clients, NEW d \in Clients, ServesPart(c, d) PROVE OfferInv'
    BY <1>8, <1>p DEF ServesPart, AddAt
  <1>9. ASSUME NEW c \in Clients, NEW d \in Clients, ServesAll(c, d) PROVE OfferInv'
    <2>1. /\ add'[c] = 0 \/ add'[c] = add[c] - node[d].remaining
          /\ \A b \in Clients : b # c => add'[b] = add[b]
          /\ UNCHANGED fut
      BY <1>9 DEF ServesAll, AddAt
    <2>2. d \in Clients /\ node[d].remaining \in Nat /\ add[c] \in Nat
      BY <1>p
    <2> QED
      BY <1>p, <2>1, <2>2
  <1>10. ASSUME NEW c \in Clients, NEW d \in Clients, DrainsNext(c, d) PROVE OfferInv'
    BY <1>10, <1>p DEF DrainsNext
  <1>11. ASSUME NEW c \in Clients, NEW n \in Nat, NEW s \in Nat, Tries(c, n, s) PROVE OfferInv'
    BY <1>11, <1>p DEF Tries, adding
  <1>12. ASSUME NEW c \in Clients, NEW n \in Nat, NEW s \in Nat, NEW k \in Tasks, Starts(c, n, s, k) PROVE OfferInv'
    <2>1. n <= MAX_PERMITS
      BY <1>12, <1>p, Limits DEF Starts, Request
    <2> QED
      BY <1>12, <2>1 DEF Starts, FutAt, adding
  <1>13. ASSUME NEW c \in Clients, AcquiresNow(c) PROVE OfferInv'
    BY <1>13, <1>p DEF AcquiresNow, GoneAt, FutAt, adding
  <1>14. ASSUME NEW c \in Clients, AcquiresLate(c) PROVE OfferInv'
    BY <1>14, <1>p DEF AcquiresLate, GoneAt, FutAt, shared, adding
  <1>15. ASSUME NEW c \in Clients, StoresWaker(c) PROVE OfferInv'
    BY <1>15, <1>p DEF StoresWaker, FutAt, adding
  <1>16. ASSUME NEW c \in Clients, Enqueues(c) PROVE OfferInv'
    BY <1>16, <1>p DEF Enqueues, FutAt, adding
  <1>17. ASSUME NEW c \in Clients, Repeats(c) PROVE OfferInv'
    BY <1>17, <1>p DEF Repeats, FutAt, adding
  <1>18. ASSUME NEW c \in Clients, NEW k \in Tasks, Polls(c, k) PROVE OfferInv'
    BY <1>18, <1>p DEF Polls, FutAt, adding
  <1>19. ASSUME NEW c \in Clients, UpdatesWaker(c) PROVE OfferInv'
    BY <1>19, <1>p DEF UpdatesWaker, adding
  <1>20. ASSUME NEW c \in Clients, DropsUnqueued(c) PROVE OfferInv'
    BY <1>20, <1>p DEF DropsUnqueued, GoneAt, FutAt, adding
  <1>21. ASSUME NEW c \in Clients, CancelsAlone(c) PROVE OfferInv'
    BY <1>21, <1>p DEF CancelsAlone, Cancels, GoneAt, FutAt
  <1>22. ASSUME NEW c \in Clients, CancelsNewest(c) PROVE OfferInv'
    BY <1>22, <1>p DEF CancelsNewest, Cancels, GoneAt, FutAt
  <1>23. ASSUME NEW c \in Clients, CancelsAhead(c) PROVE OfferInv'
    BY <1>23, <1>p, <1>q DEF CancelsAhead, Cancels, GoneAt, FutAt, AddAt
  <1>24. ASSUME NEW c \in Clients, CancelsDrained(c) PROVE OfferInv'
    BY <1>24, <1>p DEF CancelsDrained, Cancels, GoneAt, FutAt
  <1>25. ASSUME NEW c \in Clients, Forgets(c) PROVE OfferInv'
    BY <1>25, <1>p DEF Forgets, adding
  <1>26. ASSUME NEW c \in Clients, NEW n \in Sizes, ForgetsSome(c, n) PROVE OfferInv'
    BY <1>26, <1>p DEF ForgetsSome, adding
  <1>27. ASSUME NEW c \in Clients, Closes(c) PROVE OfferInv'
    BY <1>27, <1>p DEF Closes, adding
  <1>28. ASSUME NEW c \in Clients, DrainStarts(c) PROVE OfferInv'
    BY <1>28, <1>p DEF DrainStarts, adding
  <1>29. ASSUME NEW c \in Clients, DrainEnds(c) PROVE OfferInv'
    BY <1>29, <1>p DEF DrainEnds, adding
  <1>30. CASE UNCHANGED vars
    BY <1>30 DEF vars, adding
  <1> HIDE DEF OfferInv
  <1>s. (\E c \in Clients : Steps(c)) \/ UNCHANGED vars
    BY StepCases
  <1> QED
    BY <1>s, <1>1, <1>2, <1>3, <1>4, <1>5, <1>6, <1>7, <1>8, <1>9, <1>10, <1>11, <1>12, <1>13,
       <1>14, <1>15, <1>16, <1>17, <1>18, <1>19, <1>20, <1>21, <1>22, <1>23, <1>24, <1>25, <1>26,
       <1>27, <1>28, <1>29, <1>30
    DEF Steps, AddSteps, LockSteps, AcquireSteps, DropSteps, CallSteps

(* Nothing that is stored in the state exceeds the limit. *)
LEMMA LimitStep == IInv /\ OfferInv /\ LimitInv /\ [Next]_vars => LimitInv'
  <1> SUFFICES ASSUME IInv, OfferInv, LimitInv, [Next]_vars PROVE LimitInv'
    OBVIOUS
  <1> USE DEF LimitInv
  <1>p. /\ MAX_PERMITS \in Nat /\ state \in Nat /\ state \div 2 <= MAX_PERMITS
        /\ \A b \in Clients : /\ add[b] \in Nat /\ add[b] <= MAX_PERMITS /\ node[b].remaining \in Nat
                              /\ fut[b].want \in Nat /\ fut[b].want <= MAX_PERMITS
    BY Limits DEF IInv, Types, OfferInv
  <1>q. \A b \in Clients : Status(b) # "Unqueued" => Part(b) \in Nat /\ Part(b) <= MAX_PERMITS
    BY <1>p, PartType DEF IInv, Part
  <1>u. UNCHANGED state => LimitInv'
    BY <1>p
  <1>1. ASSUME NEW c \in Clients, AddsAgain(c) PROVE LimitInv'
    <2>1. add[c] \in Nat /\ (state' = state \/ state' = CheckAdd(state, add[c]))
      BY <1>1, <1>p DEF AddsAgain, AddsAt
    <2> QED
      BY <1>p, <2>1, CheckAddLimit
  <1>2. ASSUME NEW c \in Clients, NEW n \in Nat, n \in Sizes, AddsReleased(c, n) PROVE LimitInv'
    <2>1. n \in Nat /\ (state' = state \/ state' = CheckAdd(state, n))
      BY <1>2, <1>p DEF AddsReleased, AddsAt
    <2> QED
      BY <1>p, <2>1, CheckAddLimit
  <1>3. ASSUME NEW c \in Clients, NEW n \in Sizes, AddsNew(c, n) PROVE LimitInv'
    <2>1. n \in Nat /\ (state' = state \/ state' = CheckAdd(state, n))
      BY <1>3, <1>p, Limits DEF AddsNew, AddsAt
    <2> QED
      BY <1>p, <2>1, CheckAddLimit
  <1>4. ASSUME NEW c \in Clients, Abandons(c) PROVE LimitInv'
    <2>1. Part(c) \in Nat /\ (state' = state \/ state' = CheckAdd(state, Part(c)))
      BY <1>4, <1>p, <1>q DEF Abandons, AddsAt
    <2> QED
      BY <1>p, <2>1, CheckAddLimit
  <1>5. ASSUME NEW c \in Clients, Moves(c) PROVE LimitInv'
    BY <1>5, <1>u DEF Moves, shared
  <1>6. ASSUME NEW c \in Clients, GetsLock(c) PROVE LimitInv'
    BY <1>6, <1>u DEF GetsLock
  <1>7. ASSUME NEW c \in Clients, WakeAt(c) PROVE LimitInv'
    BY <1>7, <1>u DEF WakeAt, shared
  <1>8. ASSUME NEW c \in Clients, NEW d \in Clients, ServesPart(c, d) PROVE LimitInv'
    BY <1>8, <1>u DEF ServesPart
  <1>9. ASSUME NEW c \in Clients, NEW d \in Clients, ServesAll(c, d) PROVE LimitInv'
    <2>1. state' = state \/ state' = 2 * (add[c] - node[d].remaining)
      BY <1>9 DEF ServesAll
    <2>2. /\ node[d].remaining \in Nat /\ add[c] \in Nat /\ add[c] <= MAX_PERMITS
          /\ node[d].remaining <= add[c]
      BY <1>9, <1>p DEF ServesAll
    <2> QED
      BY <1>p, <2>1, <2>2
  <1>10. ASSUME NEW c \in Clients, NEW d \in Clients, DrainsNext(c, d) PROVE LimitInv'
    BY <1>10, <1>u DEF DrainsNext
  <1>11. ASSUME NEW c \in Clients, NEW n \in Nat, NEW s \in Nat, Tries(c, n, s) PROVE LimitInv'
    <2>1. n \in Nat /\ state >= 2 * n /\ state' = state - 2 * n
      BY <1>11, <1>p DEF Tries, CanAcquire
    <2> QED
      BY <1>p, <2>1
  <1>12. ASSUME NEW c \in Clients, NEW n \in Nat, NEW s \in Nat, NEW k \in Tasks, Starts(c, n, s, k) PROVE LimitInv'
    BY <1>12, <1>u DEF Starts, shared
  <1>13. ASSUME NEW c \in Clients, AcquiresNow(c) PROVE LimitInv'
    <2>1. fut[c].want \in Nat /\ state >= 2 * fut[c].want /\ state' = state - 2 * fut[c].want
      BY <1>13, <1>p DEF AcquiresNow, CanAcquire
    <2> QED
      BY <1>p, <2>1
  <1>14. ASSUME NEW c \in Clients, AcquiresLate(c) PROVE LimitInv'
    BY <1>14, <1>u DEF AcquiresLate, shared
  <1>15. ASSUME NEW c \in Clients, StoresWaker(c) PROVE LimitInv'
    BY <1>15, <1>u DEF StoresWaker, shared
  <1>16. ASSUME NEW c \in Clients, Enqueues(c) PROVE LimitInv'
    BY <1>16, <1>p DEF Enqueues
  <1>17. ASSUME NEW c \in Clients, Repeats(c) PROVE LimitInv'
    BY <1>17, <1>u DEF Repeats, shared
  <1>18. ASSUME NEW c \in Clients, NEW k \in Tasks, Polls(c, k) PROVE LimitInv'
    BY <1>18, <1>u DEF Polls, shared
  <1>19. ASSUME NEW c \in Clients, UpdatesWaker(c) PROVE LimitInv'
    BY <1>19, <1>u DEF UpdatesWaker, shared
  <1>20. ASSUME NEW c \in Clients, DropsUnqueued(c) PROVE LimitInv'
    BY <1>20, <1>u DEF DropsUnqueued, shared
  <1>21. ASSUME NEW c \in Clients, CancelsAlone(c) PROVE LimitInv'
    <2>1. Part(c) \in Nat /\ Part(c) <= MAX_PERMITS /\ state' = Part(c)
      BY <1>21, <1>q DEF CancelsAlone, Cancels
    <2> QED
      BY <1>p, <2>1
  <1>22. ASSUME NEW c \in Clients, CancelsNewest(c) PROVE LimitInv'
    BY <1>22, <1>u DEF CancelsNewest
  <1>23. ASSUME NEW c \in Clients, CancelsAhead(c) PROVE LimitInv'
    BY <1>23, <1>u DEF CancelsAhead
  <1>24. ASSUME NEW c \in Clients, CancelsDrained(c) PROVE LimitInv'
    <2>1. Part(c) \in Nat /\ state' = CheckAdd(state, Part(c))
      BY <1>24, <1>q DEF CancelsDrained, Cancels
    <2> QED
      BY <1>p, <2>1, CheckAddLimit
  <1>25. ASSUME NEW c \in Clients, Forgets(c) PROVE LimitInv'
    BY <1>25, <1>u DEF Forgets, shared
  <1>26. ASSUME NEW c \in Clients, NEW n \in Sizes, ForgetsSome(c, n) PROVE LimitInv'
    <2>1. n \in Nat /\ 2 * n <= state /\ state' = state - 2 * n
      BY <1>26, <1>p, ForgetBound
    <2> QED
      BY <1>p, <2>1
  <1>27. ASSUME NEW c \in Clients, Closes(c) PROVE LimitInv'
    BY <1>27, <1>p DEF Closes, SetClosed, CLOSED
  <1>28. ASSUME NEW c \in Clients, DrainStarts(c) PROVE LimitInv'
    BY <1>28, <1>p DEF DrainStarts, CLOSED
  <1>29. ASSUME NEW c \in Clients, DrainEnds(c) PROVE LimitInv'
    BY <1>29, <1>u DEF DrainEnds
  <1>30. CASE UNCHANGED vars
    BY <1>30, <1>u DEF vars, shared
  <1> HIDE DEF LimitInv
  <1>s. (\E c \in Clients : Steps(c)) \/ UNCHANGED vars
    BY StepCases
  <1> QED
    BY <1>s, <1>1, <1>2, <1>3, <1>4, <1>5, <1>6, <1>7, <1>8, <1>9, <1>10, <1>11, <1>12, <1>13,
       <1>14, <1>15, <1>16, <1>17, <1>18, <1>19, <1>20, <1>21, <1>22, <1>23, <1>24, <1>25, <1>26,
       <1>27, <1>28, <1>29, <1>30
    DEF Steps, AddSteps, LockSteps, AcquireSteps, DropSteps, CallSteps

(* Whatever is asked for, added, forgotten or abandoned, the state of the  *)
(* semaphore holds at most MAX_PERMITS permits, and the tail gives it back *)
(* as it was stored.  No contract is needed: this is what the assertion of *)
(* check_add_permits is for.                                               *)
THEOREM PermitsAlwaysFit == Spec => []PermitsFit
  <1> DEFINE J == IInv /\ OfferInv /\ LimitInv
  <1>1. Init => J
    <2> SUFFICES ASSUME Init PROVE OfferInv /\ LimitInv
      BY InitInv
    <2>1. /\ MAX_PERMITS \in Nat /\ Permits \in Nat /\ Permits <= MAX_PERMITS
          /\ \A c \in Clients : add[c] = 0 /\ fut[c].want = 0
      BY Limits, Parameters DEF Init, NewFuture
    <2>2. state = 2 * Permits
      BY DEF Init
    <2> QED
      BY <2>1, <2>2 DEF OfferInv, LimitInv
  <1>2. J /\ [Next]_vars => J'
    BY InvStep, OfferStep, LimitStep
  <1>3. J => PermitsFit
    BY StateHasRoom, UsizeBijective DEF PermitsFit, LimitInv, IInv, Types
  <1> QED
    BY <1>1, <1>2, <1>3, PTL DEF Spec

(* Only close closes the semaphore, it has done so when it returns, and    *)
(* nothing opens it again.                                                 *)
THEOREM ClosingIsFinal ==
    ASSUME Contract
    PROVE  Spec => CloseIsFinal
  <1> DEFINE A == /\ IsClosed => IsClosed'
                  /\ ~IsClosed /\ IsClosed' => \E c \in Clients : Close(c) \/ CloseLock(c)
                  /\ \A c \in Clients :
                        pc[c] \in {"close", "drain"} /\ pc'[c] \in {"idle", "wake"} => IsClosed'
  <1>1. IInv /\ [Next]_vars => A
    BY Contract, ClosedStep, ByCloseStep, ReturnStep DEF ClosedByClose, CloseReturns
  <1>2. IInv /\ [Next]_vars => [A]_vars
    BY <1>1
  <1> QED
    BY <1>2, Invariant, PTL DEF Spec, CloseIsFinal
==============================================================================
