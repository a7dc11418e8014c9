-------------------------- MODULE QueueRefinement --------------------------
(***************************************************************************)
(* The linked queue implements the atomic one.  The abstract queue is the  *)
(* chain of prev pointers from the tail, and the abstract list of a drain  *)
(* the chain from its sentinel: unlike the next pointers these are never   *)
(* missing.                                                                *)
(***************************************************************************)
EXTENDS Queue, Naturals, FiniteSets

(* The nodes from `last` back along prev: up to the one whose prev is no   *)
(* node, or to `first`, whose prev is stale while a drain holds the lock.  *)
Chain(last, first) ==
    LET N == Cardinality(Nodes)
        back[k \in 0..N] ==
            IF k = 0 THEN last
            ELSE LET x == back[k-1] IN IF x \in Nodes \ {first} THEN prev[x] ELSE HEAD
        len == Cardinality({k \in 0..N : back[k] \in Nodes})
    IN  [i \in 1..len |-> back[len - i]]

QueueChain    == Chain(tail, NULL)
DrainChain(l) ==
    CASE pc[l] = "dr_hooked" -> Chain(prev[l], NULL)
      [] pc[l] \in {"idle", "dr_empty"} \/ next[l] = NULL -> <<>>
      [] OTHER -> Chain(prev[l], next[l])

Guarded ==
    CASE mutex = NONE -> NONE
      [] pc[mutex] = "dequeue" -> nxt
      [] pc[mutex] \in RemovePC \cup {"pop"} -> cur
      [] pc[mutex] \in GetNextPC /\ ret \in {"rm_next", "rm_relink"} -> cur
      [] OTHER -> NONE

NodeStatus(n) ==
    CASE n \notin live -> "Freed"
      [] prev[n] = UNQUEUED \/ pc[n] = "enq_cas" -> "Unqueued"
      [] prev[n] = DEQUEUED -> "Dequeued"
      [] OTHER -> "Queued"

Atomic == INSTANCE AtomicQueue WITH
    queue   <- QueueChain,
    drained <- [l \in Lockers |-> DrainChain(l)],
    state   <- IF tail \in States THEN tail ELSE Default,
    status  <- [n \in Nodes |-> NodeStatus(n)],
    guard   <- Guarded

(* Every step of enqueue, get_next, remove_with_prev, the drains and their *)
(* callers is a step of the atomic queue or leaves it unchanged.           *)
ImplementsAtomicQueue == Atomic!Spec

(* The node a Dequeue guard holds is the oldest in the queue (dequeue is   *)
(* FIFO), whatever was inserted since the lock was taken.                  *)
DequeueIsFifo ==
    [][\A l \in Lockers :
          pc[l] # "dequeue" /\ pc'[l] = "dequeue" => nxt' = QueueChain[1]]_vars
=============================================================================
