--------------------------- MODULE QueueInvariant ---------------------------
(***************************************************************************)
(* The inductive invariant behind the safety of the queue.  It says, for   *)
(* every state, including those in the middle of a removal or of a drain,  *)
(* how the pointers in memory and the registers of the lock holder relate. *)
(***************************************************************************)
EXTENDS Queue

Waiting(r) == At(GetNextPC) /\ ret = r

(* The drain of l holds the lock and its drained list. *)
Draining(l) ==
    /\ mutex = l
    /\ At({"drain", "drained", "dr_store"}) \/ Waiting("dr_store")

(* The sentinel of l is the start and the end of a list. *)
Active(l) == Hooked(l) \/ (Draining(l) /\ next[l] # NULL)

(* The predecessor of a listed node.  The first drained node keeps a stale *)
(* prev pointer as long as its drain holds the lock.                       *)
Pred(n) == IF mutex \in Lockers /\ Draining(mutex) /\ next[mutex] = n THEN mutex ELSE prev[n]

(* The locations a listed node can follow. *)
Place(x) ==
    \/ x = HEAD
    \/ x \in Nodes /\ InList(x)
    \/ x \in Lockers /\ Active(x)

(* The location the next inserter will write. *)
End == IF tail \in Nodes THEN tail ELSE HEAD

(* The remover has cleared, or may have cleared, the pointer to cur. *)
Unlinking == At({"rm_cas", "rm_relink"}) \/ Waiting("rm_relink")

-----------------------------------------------------------------------------
(* A process is inside the critical section exactly if it holds the mutex, *)
(* and owners and lockers run their own operations.                        *)
LockerPC == {"locked", "dequeue", "pop", "dr_hooked", "dr_empty"} \cup DrainPC
NodePC   == {"enq_cas", "enq_link", "enq_check", "enq_unpark", "lock", "recheck", "unlock"}

LockDiscipline ==
    /\ \A p \in Procs : pc[p] \in HolderPC <=> mutex = p
    /\ \A n \in Nodes : pc[n] \notin LockerPC
    /\ \A l \in Lockers : pc[l] \notin NodePC
    /\ \A p \in Procs : pc[p] \in GetNextPC =>
          /\ ret \in {"dequeue", "rm_next", "rm_relink", "dr_clear", "dr_store"}
          /\ p \in Nodes => ret = "rm_relink"

(* Memory of listed and of busy nodes is valid; a destructor only frees a  *)
(* node that is out of every list; a node to be inserted has no next; an   *)
(* owner removes its own node only.                                        *)
OwnersInv ==
    \A n \in Nodes :
        /\ RawQueued(n) \/ pc[n] # "idle" => n \in live
        /\ pc[n] = "unlock" /\ n \in dropping => ~RawQueued(n)
        /\ prev[n] = UNQUEUED \/ pc[n] = "enq_cas" => next[n] = NULL
        /\ pc[n] \in {"lock", "recheck"} => prev[n] # UNQUEUED
        /\ pc[n] \in GetNextPC \cup RemovePC => cur = n

(* Going back from a listed node leads out of any set of nodes. *)
Acyclic ==
    \A S \in SUBSET {n \in Nodes : InList(n)} : S # {} => \E n \in S : Pred(n) \notin S

(* Predecessors: own[x] is the list a location belongs to, named by HEAD   *)
(* or by the drain.                                                        *)
PredInv(own) ==
    /\ own[HEAD] = HEAD
    /\ \A l \in Lockers : own[l] = l
    /\ \A n \in Nodes : InList(n) => Place(Pred(n)) /\ own[Pred(n)] = own[n]
    /\ \A m, n \in Nodes : InList(m) /\ InList(n) /\ Pred(m) = Pred(n) => m = n
    /\ \A n \in Nodes, l \in Lockers : InList(n) /\ Pred(n) = l /\ ~Hooked(l) => next[l] = n

(* Ends: nothing follows the end of a list. *)
EndInv(own) ==
    /\ Place(End) /\ own[End] = HEAD
    /\ next[End] = NULL
    /\ \A n \in Nodes : InList(n) => Pred(n) # End
    /\ \A l \in Lockers : Active(l) =>
          /\ prev[l] = l => Hooked(l)
          /\ Place(prev[l]) /\ own[prev[l]] = l
          /\ \A n \in Nodes : InList(n) => Pred(n) # prev[l]

(* Next pointers.  One that is set leads to the successor, except that the *)
(* remover may not have written pre's yet ...                              *)
NextIsNode ==
    \A x \in Locations : Place(x) /\ next[x] \in Nodes /\ ~(At({"rm_relink2"}) /\ x = pre) =>
        InList(next[x]) /\ Pred(next[x]) = x /\ pc[next[x]] # "enq_link"

NextIsSentinel ==
    \A x \in Locations : Place(x) /\ next[x] \in Lockers => Active(next[x]) /\ prev[next[x]] = x

(* ... one that is not is about to be set by an inserter in phase 2 ...    *)
PhaseTwo ==
    \A n \in Nodes : pc[n] = "enq_link" =>
        InList(n) /\ PrevOf(n) = prev[n] /\ Pred(n) = prev[n] /\ next[prev[n]] \in {NULL, PARKED}

(* ... or by the lock holder.                                              *)
NextIsSet ==
    \A n \in Nodes :
        /\ InList(n) /\ pc[n] # "enq_link"
        /\ ~(Unlinking /\ n = cur)
        /\ ~(At({"rm_relink2", "dr_swap"}) /\ n = nxt)
        => next[Pred(n)] = n

SentinelHooked ==
    \A l \in Lockers : Hooked(l) =>
        /\ next[prev[l]] = l \/ (At({"rm_relink2"}) /\ nxt = l)
        /\ next[l] = NULL => (Unlinking \/ At({"rm_relink2"})) /\ pre = l

SentinelNext ==
    \A l \in Lockers :
        /\ Draining(l) => next[l] \in Nodes \cup {NULL}
        /\ ~Draining(l) /\ ~Hooked(l) => next[l] = NULL

ParkedMark ==
    \A x \in Locations : next[x] = PARKED => At({"gn_park", "gn_reload"}) /\ loc = x /\ Parking = "swap"

NextInv ==
    /\ NextIsNode /\ NextIsSentinel /\ PhaseTwo /\ NextIsSet
    /\ SentinelHooked /\ SentinelNext /\ ParkedMark

(* The registers of the lock holder in remove_with_prev. *)
RemoveCur ==
    At(RemovePC) \/ Waiting("rm_next") \/ Waiting("rm_relink") =>
        /\ cur \in Nodes /\ RawQueued(cur) /\ pc[cur] # "enq_cas"
        /\ Place(pre)
        /\ ~At({"rm_relink2", "rm_done"}) => InList(cur) /\ prev[cur] = pre

RemoveLinked ==
    /\ At(RemovePC) \/ Waiting("rm_relink") => pc[cur] # "enq_link"
    /\ At({"rm_next"}) /\ ret = "rm_next" => nxt = cur
    /\ At({"rm_cas"}) => next[pre] = NULL

RemoveRelink ==
    /\ At({"rm_relink"}) =>
          \/ nxt \in Nodes /\ InList(nxt) /\ Pred(nxt) = cur /\ pc[nxt] # "enq_link"
          \/ nxt \in Lockers /\ Hooked(nxt) /\ prev[nxt] = cur
    /\ At({"rm_relink2"}) =>
          \/ nxt \in Nodes /\ InList(nxt) /\ prev[nxt] = pre /\ pc[nxt] # "enq_link"
          \/ nxt \in Lockers /\ Hooked(nxt) /\ prev[nxt] = pre

RemoveInv == RemoveCur /\ RemoveLinked /\ RemoveRelink

(* ... in get_next: which location it reads, and how it waits. *)
GetNextLoc ==
    /\ Waiting("dequeue") \/ Waiting("dr_clear") => loc = HEAD /\ tail \in Nodes
    /\ Waiting("rm_next") => loc = pre
    /\ Waiting("rm_relink") => loc = cur /\ tail # cur
    /\ \A l \in Lockers : pc[l] \in GetNextPC /\ ret = "dr_store" =>
          loc = next[l] /\ loc \in Nodes /\ loc # prev[l]

GetNextParking ==
    /\ At({"gn_wait", "gn_park"}) => Parking # "spin"
    /\ At({"gn_check", "gn_clear"}) => Parking = "store"
    /\ At({"gn_reload"}) => Parking = "swap"

GetNextSeen ==
    /\ At({"gn_clear"}) => nxt = next[loc] /\ nxt # NULL
    /\ At({"gn_park", "gn_reload"}) /\ Parking = "swap" => next[loc] # NULL

GetNextInv == GetNextLoc /\ GetNextParking /\ GetNextSeen

(* ... in a Dequeue or Pop guard and in a drain. *)
GuardFirst ==
    /\ At({"dequeue", "dr_clear", "dr_swap"}) =>
          nxt \in Nodes /\ InList(nxt) /\ prev[nxt] = HEAD /\ pc[nxt] # "enq_link"
    /\ At({"dr_clear", "dr_swap"}) => tail \in Nodes
    /\ At({"dr_swap"}) => next[HEAD] = NULL
    /\ At({"pop"}) => cur \in Nodes /\ InList(cur)
    /\ At({"dequeue"}) => ret = "dequeue"

GuardIdle ==
    mutex = NONE \/ At({"locked", "recheck", "unlock", "drain", "drained", "pop"}) =>
        nxt = NULL /\ ret = NULL

GuardDrained ==
    \A l \in Lockers :
        /\ pc[l] \in {"drained", "dr_store"} => next[l] \in Nodes
        /\ pc[l] = "dr_store" =>
              \/ nxt = NULL /\ next[l] = prev[l]
              \/ nxt \in Nodes /\ InList(nxt) /\ Pred(nxt) = next[l] /\ pc[nxt] # "enq_link"

GuardInv == GuardFirst /\ GuardIdle /\ GuardDrained

(* The lists, for some assignment of the locations to them, and the whole. *)
Listed == Acyclic /\ \E own \in [Locations -> Locations] : PredInv(own) /\ EndInv(own)

ListInv == RemoveInv /\ GetNextInv /\ GuardInv /\ NextInv /\ Listed

IInv == TypeOK /\ LockDiscipline /\ OwnersInv /\ ListInv
=============================================================================
