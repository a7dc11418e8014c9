---------------------------- MODULE AtomicQueue ----------------------------
(***************************************************************************)
(* What the queue promises, with every list as one value: insertion        *)
(* appends a node in one step, a removal takes out the selected node and   *)
(* leaves the order of the others alone, a drain takes all nodes at once   *)
(* and gives them back oldest first, and the queue's state exists only     *)
(* while the queue is empty.  A node's status is what Node::state shows to *)
(* its owner.                                                              *)
(***************************************************************************)
EXTENDS Naturals, Sequences

CONSTANTS Nodes, Lockers, States, Default, NONE

VARIABLES
    queue,      \* the queued nodes, oldest first
    drained,    \* drained[l]: the nodes the drain of l still holds
    state,      \* the queue's state while it is empty, Default otherwise
    status,     \* status[n] of each node
    guard       \* the node the lock holder has selected, or NONE

vars == <<queue, drained, state, status, guard>>

In(n, s)      == \E i \in 1..Len(s) : s[i] = n
Without(s, n) == SelectSeq(s, LAMBDA m : m # n)
Queued(n)     == In(n, queue) \/ \E l \in Lockers : In(n, drained[l])

Init ==
    /\ queue = <<>>
    /\ drained = [l \in Lockers |-> <<>>]
    /\ state \in States
    /\ status = [n \in Nodes |-> "Unqueued"]
    /\ guard = NONE

Move(n, from, to) == status[n] \in from /\ status' = [status EXCEPT ![n] = to]

Enqueue(n) ==
    /\ Move(n, {"Unqueued"}, "Queued")
    /\ queue' = Append(queue, n)
    /\ state' = Default
    /\ UNCHANGED <<drained, guard>>

UpdateState(s) ==
    /\ queue = <<>>
    /\ state' = s
    /\ UNCHANGED <<queue, drained, status, guard>>

(* The lock holder selects the oldest node, the newest, or its own. *)
Select(n) ==
    /\ guard = NONE
    /\ Queued(n)
    /\ guard' = n
    /\ UNCHANGED <<queue, drained, state, status>>

Requeue ==
    /\ Queued(guard)
    /\ guard' = NONE
    /\ UNCHANGED <<queue, drained, state, status>>

Remove(s) ==
    /\ Queued(guard)
    /\ queue' = Without(queue, guard)
    /\ drained' = [l \in Lockers |-> Without(drained[l], guard)]
    /\ state' = IF queue = <<guard>> THEN s ELSE state
    /\ UNCHANGED <<status, guard>>

(* Only now does the owner see the node as dequeued. *)
Finish ==
    /\ guard # NONE /\ ~Queued(guard)
    /\ Move(guard, {"Queued"}, "Dequeued")
    /\ guard' = NONE
    /\ UNCHANGED <<queue, drained, state>>

Drain(l, s) ==
    /\ queue # <<>> /\ drained[l] = <<>>
    /\ queue' = <<>>
    /\ drained' = [drained EXCEPT ![l] = queue]
    /\ state' = s
    /\ UNCHANGED <<status, guard>>

DrainOne(l) ==
    /\ drained[l] # <<>>
    /\ drained' = [drained EXCEPT ![l] = Tail(@)]
    /\ Move(Head(drained[l]), {"Queued"}, "Dequeued")
    /\ UNCHANGED <<queue, state, guard>>

Reset(n) == Move(n, {"Dequeued", "Freed"}, "Unqueued") /\ UNCHANGED <<queue, drained, state, guard>>
Free(n)  == Move(n, {"Unqueued", "Dequeued"}, "Freed") /\ UNCHANGED <<queue, drained, state, guard>>

Next ==
    \/ \E n \in Nodes : Enqueue(n) \/ Select(n) \/ Reset(n) \/ Free(n)
    \/ \E s \in States : UpdateState(s) \/ Remove(s)
    \/ \E l \in Lockers : DrainOne(l) \/ \E s \in States : Drain(l, s)
    \/ Requeue \/ Finish

Spec == Init /\ [][Next]_vars
=============================================================================
