-------------------------- MODULE QueueDrainProofs --------------------------
(***************************************************************************)
(* The second part of the proofs about the queue: a drain cuts the list    *)
(* off the queue, hooks it on its sentinel and gives its nodes back        *)
(* without breaking any list.                                              *)
(***************************************************************************)
EXTENDS QueueProofs

USE DEF NULL, HEAD, PARKED, UNQUEUED, DEQUEUED, NONE, Moved
USE Markers

(* Drain::new, between get_next and the swap of the tail. *)
LEMMA Cutting ==
    ASSUME IInv, At({"dr_clear", "dr_swap"})
    PROVE  /\ nxt \in Nodes /\ InList(nxt) /\ prev[nxt] = HEAD /\ pc[nxt] # "enq_link"
           /\ tail \in Nodes
           /\ \A l \in Lockers : ~Draining(l)
           /\ \A l \in Lockers : Active(l) <=> Hooked(l)
           /\ \A n \in Nodes : Pred(n) = prev[n]
           /\ \A x \in Locations : next[x] # PARKED
           /\ ~Unlinking /\ ~At({"rm_relink2"}) /\ ~At({"rm_relink2", "rm_done"})
<1>1. /\ nxt \in Nodes /\ InList(nxt) /\ prev[nxt] = HEAD /\ pc[nxt] # "enq_link"
      /\ tail \in Nodes
  BY DEF IInv, ListInv, GuardInv, GuardFirst, At
<1>2. \A l \in Lockers : ~Draining(l)
  BY DEF Draining, Waiting, At, GetNextPC
<1>3. /\ \A l \in Lockers : Active(l) <=> Hooked(l)
      /\ \A n \in Nodes : Pred(n) = prev[n]
  BY <1>2 DEF Active, Pred
<1>4. \A x \in Locations : next[x] # PARKED
  BY DEF IInv, ListInv, NextInv, ParkedMark, At
<1>5. ~Unlinking /\ ~At({"rm_relink2"}) /\ ~At({"rm_relink2", "rm_done"})
  BY DEF Unlinking, Waiting, At, GetNextPC
<1> QED
  BY <1>1, <1>2, <1>3, <1>4, <1>5

(* The head of the queue is cleared. *)
LEMMA DrainClearListInv ==
    ASSUME IInv, NEW p \in Lockers, DrainClear(p)
    PROVE  ListInv'
<1>0. /\ p \in Procs /\ Moves(p, "dr_swap") /\ pc[p] = "dr_clear" /\ next' = [next EXCEPT ![HEAD] = NULL]
      /\ tail' = tail /\ prev' = prev /\ seen' = seen /\ nxt' = nxt /\ ret' = ret
  BY DEF DrainClear, Step, Goto, Moves, HolderPC, DrainPC, locals, Procs
<1>1. Moved(p, "dr_swap")
  BY <1>0, HolderMoves
<1>2. ListInv
  BY DEF IInv
<1>3. At({"dr_clear", "dr_swap"}) /\ ~At({"rm_relink2", "dr_swap"})
  BY <1>0, <1>1 DEF At
<1>4. /\ nxt \in Nodes /\ InList(nxt) /\ prev[nxt] = HEAD /\ pc[nxt] # "enq_link"
      /\ tail \in Nodes
      /\ \A l \in Lockers : ~Draining(l)
      /\ \A l \in Lockers : Active(l) <=> Hooked(l)
      /\ \A n \in Nodes : Pred(n) = prev[n]
      /\ \A x \in Locations : next[x] # PARKED
      /\ ~Unlinking /\ ~At({"rm_relink2"}) /\ ~At({"rm_relink2", "rm_done"})
  BY <1>3, Cutting
<1>5. /\ ~(Unlinking')
      /\ ~(At({"rm_relink2"})') /\ ~(At({"rm_relink2", "rm_done"})') /\ ~(At(RemovePC)')
      /\ At({"rm_relink2", "dr_swap"})'
      /\ \A r : ~(Waiting(r)')
      /\ \A l \in Lockers : ~(Draining(l)')
  BY <1>0, <1>1 DEF Unlinking, Waiting, Draining, At, GetNextPC, RemovePC
<1>6. /\ next'[HEAD] = NULL
      /\ \A x \in Locations : x # HEAD => next'[x] = next[x]
      /\ \A l \in Lockers : next'[l] = next[l]
  BY <1>0 DEF IInv, TypeOK, Locations, Links
<1>7. /\ \A l \in Lockers : Active(l)' <=> Active(l)
      /\ \A n \in Nodes : Pred(n)' = Pred(n)
  BY <1>0, <1>1, <1>4, <1>5 DEF Active, Pred
<1>8. /\ \A n \in Nodes : InList(n)' <=> InList(n)
      /\ \A n \in Nodes : PrevOf(n)' = PrevOf(n)
  BY <1>0, <1>1, <1>4, <1>5 DEF InList, RawQueued, CutOut, PrevOf
<1>9. /\ \A x : Place(x)' <=> Place(x)
      /\ \A x : Place(x) => x \in Locations
      /\ End' = End
  BY <1>0, <1>7, <1>8 DEF Place, End, Locations, Links
<1>10. PICK own \in [Locations -> Locations] : PredInv(own) /\ EndInv(own)
  BY <1>2 DEF ListInv, Listed
<1>11. /\ \A n \in Nodes : InList(n) => Place(Pred(n))
       /\ \A n \in Nodes : InList(n) /\ n # nxt => Pred(n) # HEAD
       /\ \A l \in Lockers : Hooked(l) => Place(prev[l]) /\ prev[l] # HEAD
  BY <1>4, <1>10, Reachable DEF PredInv, EndInv
<1>12. Listed'
  <2>1. PredInv(own)'
    BY <1>1, <1>6, <1>7, <1>8, <1>9, <1>10 DEF PredInv
  <2>2. EndInv(own)'
    <3>1. next'[End] = NULL
      BY <1>6, <1>9, <1>10 DEF EndInv
    <3> QED
      BY <1>0, <1>1, <1>7, <1>8, <1>9, <1>10, <3>1 DEF EndInv
  <2>3. Acyclic'
    BY <1>2, <1>7, <1>8 DEF ListInv, Listed, Acyclic
  <2> QED
    BY <2>1, <2>2, <2>3 DEF Listed
<1>n1. NextIsNode'
  BY <1>1, <1>2, <1>4, <1>5, <1>6, <1>7, <1>8, <1>9 DEF ListInv, NextInv, NextIsNode
<1>n2. NextIsSentinel'
  BY <1>0, <1>2, <1>6, <1>7, <1>9 DEF ListInv, NextInv, NextIsSentinel
<1>n3. PhaseTwo'
  BY <1>0, <1>1, <1>2, <1>4, <1>6, <1>7, <1>8, <1>9, <1>11 DEF ListInv, NextInv, PhaseTwo
<1>n4. NextIsSet'
  BY <1>0, <1>1, <1>2, <1>3, <1>4, <1>5, <1>6, <1>7, <1>8, <1>9, <1>11 DEF ListInv, NextInv, NextIsSet
<1>n5. SentinelHooked'
  BY <1>0, <1>1, <1>2, <1>4, <1>5, <1>6, <1>9, <1>11 DEF ListInv, NextInv, SentinelHooked
<1>n6. SentinelNext'
  BY <1>1, <1>2, <1>4, <1>5, <1>6 DEF ListInv, NextInv, SentinelNext
<1>n7. ParkedMark'
  BY <1>4, <1>6 DEF ParkedMark
<1>r. RemoveInv'
  BY <1>1, <1>5 DEF RemoveInv, RemoveCur, RemoveLinked, RemoveRelink, At
<1>g. GetNextInv'
  BY <1>1, <1>5 DEF GetNextInv, GetNextLoc, GetNextParking, GetNextSeen, At, GetNextPC, HolderPC, Procs
<1>d. GuardInv'
  BY <1>0, <1>1, <1>4, <1>6, <1>8 DEF GuardInv, GuardFirst, GuardIdle, GuardDrained, At, HolderPC, DrainPC, Procs
<1> QED
  BY <1>12, <1>n1, <1>n2, <1>n3, <1>n4, <1>n5, <1>n6, <1>n7, <1>r, <1>g, <1>d DEF ListInv, NextInv

(* The tail is swapped: what was the queue is the list of the drain. *)
LEMMA DrainSwapListInv ==
    ASSUME IInv, NEW p \in Lockers, DrainSwap(p)
    PROVE  ListInv'
<1>0. /\ p \in Procs /\ Moves(p, "drain") /\ pc[p] = "dr_swap" /\ tail' = newTail
      /\ prev' = [prev EXCEPT ![p] = tail] /\ next' = [next EXCEPT ![p] = nxt]
      /\ seen' = seen /\ nxt' = NULL /\ ret' = NULL
  BY DEF DrainSwap, Step, Goto, Moves, HolderPC, DrainPC, Procs
<1>1. Moved(p, "drain")
  BY <1>0, HolderMoves
<1>2. ListInv /\ TypeOK
  BY DEF IInv
<1>3. At({"dr_clear", "dr_swap"}) /\ At({"rm_relink2", "dr_swap"})
  BY <1>0, <1>1 DEF At
<1>4. /\ nxt \in Nodes /\ InList(nxt) /\ prev[nxt] = HEAD /\ pc[nxt] # "enq_link"
      /\ tail \in Nodes
      /\ \A l \in Lockers : ~Draining(l)
      /\ \A l \in Lockers : Active(l) <=> Hooked(l)
      /\ \A n \in Nodes : Pred(n) = prev[n]
      /\ \A x \in Locations : next[x] # PARKED
      /\ ~Unlinking /\ ~At({"rm_relink2"}) /\ ~At({"rm_relink2", "rm_done"})
  BY <1>3, Cutting
<1>5. /\ ~(Unlinking')
      /\ ~(At({"rm_relink2"})') /\ ~(At({"rm_relink2", "rm_done"})') /\ ~(At(RemovePC)')
      /\ ~(At({"rm_relink2", "dr_swap"})')
      /\ \A r : ~(Waiting(r)')
      /\ \A l \in Lockers : Draining(l)' <=> l = p
  BY <1>0, <1>1 DEF Unlinking, Waiting, Draining, At, GetNextPC, RemovePC
<1>6. /\ next'[p] = nxt
      /\ \A x \in Locations : x # p => next'[x] = next[x]
      /\ prev'[p] = tail
      /\ \A x \in Links : x # p => prev'[x] = prev[x]
      /\ \A n \in Nodes : prev'[n] = prev[n]
      /\ \A l \in Lockers : l # p => prev'[l] = prev[l]
      /\ \A l \in Lockers : l # p => next'[l] = next[l]
  BY <1>0, <1>2 DEF TypeOK, Locations, Links
<1>7. /\ next[HEAD] = NULL /\ ~Hooked(p) /\ ~Active(p) /\ Active(p)' /\ ~(Hooked(p)')
      /\ \A l \in Lockers : l # p => (Active(l)' <=> Hooked(l))
      /\ \A n \in Nodes : n = nxt => Pred(n)' = p
      /\ \A n \in Nodes : n # nxt => Pred(n)' = Pred(n)
  <2>1. next[HEAD] = NULL
    BY <1>0, <1>1, <1>2 DEF ListInv, GuardInv, GuardFirst, At
  <2>2. ~Hooked(p)
    BY <1>0 DEF Hooked
  <2> QED
    BY <1>1, <1>4, <1>5, <1>6, <2>1, <2>2 DEF Active, Pred
<1>8. /\ \A n \in Nodes : InList(n)' <=> InList(n)
      /\ \A n \in Nodes : PrevOf(n)' = PrevOf(n)
  BY <1>0, <1>1, <1>4, <1>5, <1>6 DEF InList, RawQueued, CutOut, PrevOf
<1>9. /\ \A x : Place(x)' <=> Place(x) \/ x = p
      /\ ~Place(p)
      /\ \A x : Place(x) => x \in Locations
      /\ End' = HEAD /\ End = tail
  <2>1. newTail \notin Nodes
    BY <1>2 DEF TypeOK
  <2> QED
    BY <1>0, <1>4, <1>7, <1>8, <2>1 DEF Place, End, Locations, Links
<1>10. PICK own \in [Locations -> Locations] : PredInv(own) /\ EndInv(own)
  BY <1>2 DEF ListInv, Listed
<1>11. /\ \A n \in Nodes : InList(n) => Place(Pred(n)) /\ Pred(n) # p
       /\ \A n \in Nodes : InList(n) /\ n # nxt => Pred(n) # HEAD
       /\ \A n \in Nodes : InList(n) => Pred(n) # tail
       /\ \A l \in Lockers : Hooked(l) => Place(prev[l])
       /\ \A l \in Lockers : Hooked(l) => prev[l] # p
       /\ Place(tail) /\ own[tail] = HEAD /\ own[nxt] = HEAD
       /\ \A l \in Lockers : Hooked(l) => own[prev[l]] = l
       /\ \A l \in Lockers : Hooked(l) => \A n \in Nodes : InList(n) => Pred(n) # prev[l]
  <2>1. /\ \A n \in Nodes : InList(n) => Place(Pred(n)) /\ Pred(n) # p
        /\ \A l \in Lockers : Hooked(l) => Place(prev[l])
        /\ \A l \in Lockers : Hooked(l) => prev[l] # p
    BY <1>9, Reachable
  <2>2. /\ \A n \in Nodes : InList(n) /\ n # nxt => Pred(n) # HEAD
        /\ own[nxt] = HEAD
    BY <1>4, <1>10 DEF PredInv
  <2>3. /\ \A n \in Nodes : InList(n) => Pred(n) # tail
        /\ Place(tail) /\ own[tail] = HEAD
        /\ \A l \in Lockers : Hooked(l) => own[prev[l]] = l
        /\ \A l \in Lockers : Hooked(l) => \A n \in Nodes : InList(n) => Pred(n) # prev[l]
    BY <1>4, <1>9, <1>10 DEF EndInv
  <2> QED
    BY <2>1, <2>2, <2>3
<1>12. Listed'
  <2> DEFINE own2 == [x \in Locations |-> IF x # HEAD /\ own[x] = HEAD THEN p ELSE own[x]]
  <2>0. /\ own2 \in [Locations -> Locations]
        /\ own2[HEAD] = HEAD
        /\ \A l \in Lockers : own2[l] = l
        /\ \A x \in Locations : x # HEAD /\ own[x] = HEAD => own2[x] = p
        /\ \A x \in Locations : own[x] # HEAD => own2[x] = own[x]
        /\ p \in Locations /\ HEAD \in Locations
        /\ \A n \in Nodes : n \in Locations
    BY <1>10 DEF Locations, Links, PredInv
  <2> HIDE DEF own2
  <2>1. PredInv(own2)'
    <3>1. ASSUME NEW n \in Nodes, InList(n)' PROVE Place(Pred(n))' /\ own2[Pred(n)'] = own2[n]
      <4>1. CASE n = nxt
        BY <1>7, <1>9, <1>11, <2>0, <4>1
      <4>2. CASE n # nxt
        <5>1. /\ Pred(n)' = Pred(n) /\ Place(Pred(n)) /\ Pred(n) # HEAD /\ Pred(n) \in Locations
              /\ own[Pred(n)] = own[n]
          BY <1>7, <1>8, <1>9, <1>10, <1>11, <3>1, <4>2 DEF PredInv
        <5> QED
          BY <1>9, <2>0, <5>1
      <4> QED
        BY <4>1, <4>2
    <3>2. \A m, n \in Nodes : InList(m)' /\ InList(n)' /\ Pred(m)' = Pred(n)' => m = n
      BY <1>7, <1>8, <1>10, <1>11 DEF PredInv
    <3>3. \A n \in Nodes, l \in Lockers : InList(n)' /\ Pred(n)' = l /\ ~(Hooked(l)') => next'[l] = n
      BY <1>1, <1>4, <1>6, <1>7, <1>8, <1>11 DEF Place
    <3> QED
      BY <2>0, <3>1, <3>2, <3>3 DEF PredInv
  <2>2. EndInv(own2)'
    <3>1. /\ Place(End)' /\ own2[End'] = HEAD /\ next'[End'] = NULL
          /\ \A n \in Nodes : InList(n)' => Pred(n)' # End'
      BY <1>6, <1>7, <1>8, <1>9, <1>11, <2>0 DEF Place
    <3>2. ASSUME NEW l \in Lockers, Active(l)'
          PROVE  /\ prev'[l] = l => Hooked(l)'
                 /\ Place(prev[l])' /\ own2[prev'[l]] = l
                 /\ \A n \in Nodes : InList(n)' => Pred(n)' # prev'[l]
      <4>1. CASE l = p
        BY <1>4, <1>6, <1>7, <1>8, <1>9, <1>11, <2>0, <4>1
      <4>2. CASE l # p
        <5>1. Hooked(l) /\ Hooked(l)' /\ prev'[l] = prev[l] /\ prev[l] # p
              /\ Place(prev[l]) /\ own[prev[l]] = l /\ prev[l] \in Locations
          BY <1>1, <1>6, <1>7, <1>9, <1>11, <3>2, <4>2
        <5> QED
          BY <1>7, <1>8, <1>9, <1>11, <2>0, <5>1
      <4> QED
        BY <4>1, <4>2
    <3> QED
      BY <3>1, <3>2 DEF EndInv
  <2>3. Acyclic'
    <3> SUFFICES ASSUME NEW S \in SUBSET Nodes, \A m \in S : InList(m)', S # {}
                 PROVE  \E m \in S : Pred(m)' \notin S
      BY DEF Acyclic
    <3>1. S \in SUBSET {m \in Nodes : InList(m)}
      BY <1>8
    <3>2. PICK m \in S : Pred(m) \notin S
      BY <1>2, <3>1 DEF ListInv, Listed, Acyclic
    <3> QED
      BY <1>7, <3>2
  <2> QED
    BY <2>0, <2>1, <2>2, <2>3 DEF Listed
<1>n1. NextIsNode'
  BY <1>1, <1>2, <1>4, <1>6, <1>7, <1>8, <1>9 DEF ListInv, NextInv, NextIsNode
<1>n2. NextIsSentinel'
  BY <1>2, <1>4, <1>6, <1>7, <1>9 DEF ListInv, NextInv, NextIsSentinel
<1>n3. PhaseTwo'
  BY <1>1, <1>2, <1>4, <1>6, <1>7, <1>8, <1>9, <1>11 DEF ListInv, NextInv, PhaseTwo
<1>n4. NextIsSet'
  BY <1>1, <1>2, <1>4, <1>6, <1>7, <1>8, <1>9, <1>11 DEF ListInv, NextInv, NextIsSet
<1>n5. SentinelHooked'
  BY <1>1, <1>2, <1>4, <1>6, <1>7, <1>9, <1>11 DEF ListInv, NextInv, SentinelHooked
<1>n6. SentinelNext'
  BY <1>1, <1>2, <1>4, <1>5, <1>6 DEF ListInv, NextInv, SentinelNext
<1>n7. ParkedMark'
  BY <1>4, <1>6 DEF ParkedMark
<1>r. RemoveInv'
  BY <1>1, <1>5 DEF RemoveInv, RemoveCur, RemoveLinked, RemoveRelink, At
<1>g. GetNextInv'
  BY <1>1, <1>5 DEF GetNextInv, GetNextLoc, GetNextParking, GetNextSeen, At, GetNextPC, HolderPC, Procs
<1>d. GuardInv'
  BY <1>0, <1>1 DEF GuardInv, GuardFirst, GuardIdle, GuardDrained, At, HolderPC, DrainPC, Procs
<1> QED
  BY <1>12, <1>n1, <1>n2, <1>n3, <1>n4, <1>n5, <1>n6, <1>n7, <1>r, <1>g, <1>d DEF ListInv, NextInv

(* A drain that holds the lock and whose list is not empty. *)
LEMMA FirstDrained ==
    ASSUME IInv, NEW p \in Lockers, mutex = p, pc[p] \in {"drain", "drained", "dr_store"}, next[p] # NULL
    PROVE  /\ next[p] \in Nodes /\ InList(next[p]) /\ Pred(next[p]) = p /\ pc[next[p]] # "enq_link"
           /\ Active(p) /\ Place(p) /\ ~Hooked(p)
           /\ Place(prev[p]) /\ prev[p] \in Nodes
           /\ \A l \in Lockers : Draining(l) <=> l = p
           /\ \A l \in Lockers : l # p => (Active(l) <=> Hooked(l))
           /\ \A n \in Nodes : InList(n) /\ n # next[p] => Pred(n) # p
           /\ \A n \in Nodes : n # next[p] => Pred(n) = prev[n]
           /\ \A x \in Locations : next[x] # PARKED
           /\ ~Unlinking /\ ~At({"rm_relink2"}) /\ ~At({"rm_relink2", "rm_done"})
           /\ ~At({"rm_relink2", "dr_swap"})
<1>0. p \in Procs
  BY DEF Procs
<1>1. /\ ~Unlinking /\ ~At({"rm_relink2"}) /\ ~At({"rm_relink2", "rm_done"})
      /\ ~At({"rm_relink2", "dr_swap"}) /\ ~At({"gn_park", "gn_reload"})
      /\ \A l \in Lockers : Draining(l) <=> l = p
      /\ ~Hooked(p)
  BY <1>0 DEF Unlinking, Waiting, At, GetNextPC, Draining, Hooked
<1>2. \A x \in Locations : next[x] # PARKED
  BY <1>1 DEF IInv, ListInv, NextInv, ParkedMark
<1>3. /\ Active(p) /\ Place(p) /\ p \in Locations
      /\ \A l \in Lockers : l # p => (Active(l) <=> Hooked(l))
  BY <1>1 DEF Active, Place, Locations, Links
<1>4. next[p] \in Nodes
  BY <1>1 DEF IInv, ListInv, NextInv, SentinelNext
<1>5. InList(next[p]) /\ Pred(next[p]) = p /\ pc[next[p]] # "enq_link"
  BY <1>1, <1>3, <1>4 DEF IInv, ListInv, NextInv, NextIsNode
<1>6. PICK own \in [Locations -> Locations] : PredInv(own) /\ EndInv(own)
  BY DEF IInv, ListInv, Listed
<1>7. \A n \in Nodes : InList(n) /\ n # next[p] => Pred(n) # p
  BY <1>4, <1>5, <1>6 DEF PredInv
<1>8. Place(prev[p]) /\ prev[p] \in Nodes
  <2>1. Place(prev[p]) /\ own[prev[p]] = p /\ prev[p] # p
    BY <1>1, <1>3, <1>6 DEF EndInv
  <2>2. own[HEAD] = HEAD /\ \A l \in Lockers : own[l] = l
    BY <1>6 DEF PredInv
  <2> QED
    BY <2>1, <2>2 DEF Place
<1>9. \A n \in Nodes : n # next[p] => Pred(n) = prev[n]
  BY <1>1 DEF Pred
<1> QED
  BY <1>1, <1>2, <1>3, <1>4, <1>5, <1>7, <1>8, <1>9

(* Drop of NodeDrained: the sentinel skips the first drained node. *)
LEMMA DrainStoreListInv ==
    ASSUME IInv, NEW p \in Lockers, DrainStore(p)
    PROVE  ListInv'
<1> DEFINE d == next[p]
<1>0. /\ p \in Procs /\ Moves(p, "drain") /\ pc[p] = "dr_store" /\ tail' = tail
      /\ next' = [next EXCEPT ![p] = nxt] /\ prev' = [prev EXCEPT ![d] = DEQUEUED]
      /\ seen' = seen /\ nxt' = NULL /\ ret' = NULL
  BY DEF DrainStore, Step, Goto, Moves, HolderPC, DrainPC, Procs
<1>1. Moved(p, "drain")
  BY <1>0, HolderMoves
<1>2. ListInv /\ TypeOK
  BY DEF IInv
<1>3. /\ d \in Nodes
      /\ \/ nxt = NULL /\ d = prev[p]
         \/ nxt \in Nodes /\ InList(nxt) /\ Pred(nxt) = d /\ pc[nxt] # "enq_link"
  BY <1>0, <1>2 DEF ListInv, GuardInv, GuardDrained
<1> HIDE DEF d
<1>4. /\ InList(d) /\ Pred(d) = p /\ pc[d] # "enq_link"
      /\ Active(p) /\ Place(p) /\ ~Hooked(p)
      /\ Place(prev[p]) /\ prev[p] \in Nodes
      /\ \A l \in Lockers : Draining(l) <=> l = p
      /\ \A l \in Lockers : l # p => (Active(l) <=> Hooked(l))
      /\ \A n \in Nodes : InList(n) /\ n # d => Pred(n) # p
      /\ \A n \in Nodes : n # d => Pred(n) = prev[n]
      /\ \A x \in Locations : next[x] # PARKED
      /\ ~Unlinking /\ ~At({"rm_relink2"}) /\ ~At({"rm_relink2", "rm_done"})
      /\ ~At({"rm_relink2", "dr_swap"})
  BY <1>0, <1>1, <1>3, FirstDrained DEF d
<1>5. /\ ~(Unlinking')
      /\ ~(At({"rm_relink2"})') /\ ~(At({"rm_relink2", "rm_done"})') /\ ~(At(RemovePC)')
      /\ ~(At({"rm_relink2", "dr_swap"})')
      /\ \A r : ~(Waiting(r)')
      /\ \A l \in Lockers : Draining(l)' <=> l = p
  BY <1>0, <1>1 DEF Unlinking, Waiting, Draining, At, GetNextPC, RemovePC
<1>6. /\ next'[p] = nxt
      /\ \A x \in Locations : x # p => next'[x] = next[x]
      /\ prev'[d] = DEQUEUED
      /\ \A n \in Nodes : n # d => prev'[n] = prev[n]
      /\ \A l \in Lockers : prev'[l] = prev[l]
      /\ \A l \in Lockers : l # p => next'[l] = next[l]
  BY <1>0, <1>2, <1>3 DEF TypeOK, Locations, Links
<1>7. /\ ~(Hooked(p)') /\ (Active(p)' <=> nxt # NULL)
      /\ \A l \in Lockers : l # p => (Active(l)' <=> Hooked(l))
      /\ \A n \in Nodes : n = nxt => Pred(n)' = p
      /\ \A n \in Nodes : n # nxt /\ n # d => Pred(n)' = Pred(n)
  BY <1>1, <1>4, <1>5, <1>6 DEF Active, Pred
<1>8. /\ \A n \in Nodes : InList(n)' <=> InList(n) /\ n # d
      /\ \A n \in Nodes : PrevOf(n)' = PrevOf(n)
  BY <1>0, <1>1, <1>4, <1>5, <1>6 DEF InList, RawQueued, CutOut, PrevOf
<1>9. /\ \A x : Place(x)' <=> Place(x) /\ x # d /\ (x = p => nxt # NULL)
      /\ \A x : Place(x) => x \in Locations
      /\ End' = End
  BY <1>0, <1>3, <1>4, <1>7, <1>8 DEF Place, End, Locations, Links
<1>10. PICK own \in [Locations -> Locations] : PredInv(own) /\ EndInv(own)
  BY <1>2 DEF ListInv, Listed
<1>11. /\ \A n \in Nodes : InList(n) => Place(Pred(n))
       /\ \A n \in Nodes : InList(n) /\ n # nxt => Pred(n) # d
       /\ nxt \in Nodes => prev[p] # d /\ nxt # d /\ own[nxt] = p
       /\ own[d] = p /\ End # d /\ End # p
       /\ \A l \in Lockers : Hooked(l) => Place(prev[l]) /\ own[prev[l]] = l
       /\ \A l \in Lockers : Hooked(l) => prev[l] # p /\ prev[l] # d
       /\ \A l \in Lockers : Hooked(l) => \A n \in Nodes : InList(n) => Pred(n) # prev[l]
       /\ own[prev[p]] = p
       /\ \A n \in Nodes : InList(n) => Pred(n) # prev[p]
  <2>1. own[d] = p /\ (nxt \in Nodes => own[nxt] = p /\ nxt # d)
    BY <1>3, <1>4, <1>10 DEF PredInv
  <2>2. /\ \A n \in Nodes : InList(n) => Pred(n) # prev[p]
        /\ own[prev[p]] = p
        /\ \A l \in Lockers : Hooked(l) => \A n \in Nodes : InList(n) => Pred(n) # prev[l]
        /\ \A l \in Lockers : Hooked(l) => Place(prev[l]) /\ own[prev[l]] = l
        /\ own[End] = HEAD
    BY <1>4, <1>10 DEF EndInv
  <2>3. \A l \in Lockers : own[l] = l
    BY <1>10 DEF PredInv
  <2>4. \A l \in Lockers : Hooked(l) => prev[l] # p /\ prev[l] # d
    BY <1>4, <2>1, <2>2, <2>3
  <2>5. \A n \in Nodes : InList(n) /\ n # nxt => Pred(n) # d
    BY <1>3, <1>10, <2>2 DEF PredInv
  <2>6. /\ \A n \in Nodes : InList(n) => Place(Pred(n))
    BY Reachable
  <2> QED
    BY <1>3, <2>1, <2>2, <2>3, <2>4, <2>5, <2>6
<1>12. Listed'
  <2>1. PredInv(own)'
    <3>1. ASSUME NEW n \in Nodes, InList(n)' PROVE Place(Pred(n))' /\ own[Pred(n)'] = own[n]
      <4>1. CASE n = nxt
        BY <1>3, <1>4, <1>7, <1>9, <1>10, <1>11, <4>1 DEF PredInv
      <4>2. CASE n # nxt
        BY <1>4, <1>7, <1>8, <1>9, <1>10, <1>11, <3>1, <4>2 DEF PredInv
      <4> QED
        BY <4>1, <4>2
    <3>2. \A m, n \in Nodes : InList(m)' /\ InList(n)' /\ Pred(m)' = Pred(n)' => m = n
      BY <1>4, <1>7, <1>8, <1>10, <1>11 DEF PredInv
    <3>3. \A n \in Nodes, l \in Lockers : InList(n)' /\ Pred(n)' = l /\ ~(Hooked(l)') => next'[l] = n
      BY <1>1, <1>4, <1>6, <1>7, <1>8, <1>11 DEF Place
    <3> QED
      BY <1>10, <3>1, <3>2, <3>3 DEF PredInv
  <2>2. EndInv(own)'
    <3>1. /\ Place(End)' /\ own[End'] = HEAD /\ next'[End'] = NULL
          /\ \A n \in Nodes : InList(n)' => Pred(n)' # End'
      BY <1>4, <1>6, <1>7, <1>8, <1>9, <1>10, <1>11 DEF EndInv
    <3>2. ASSUME NEW l \in Lockers, Active(l)'
          PROVE  /\ prev'[l] = l => Hooked(l)'
                 /\ Place(prev[l])' /\ own[prev'[l]] = l
                 /\ \A n \in Nodes : InList(n)' => Pred(n)' # prev'[l]
      <4>1. CASE l = p
        <5>1. nxt \in Nodes /\ prev[p] # d /\ prev'[p] = prev[p]
          BY <1>3, <1>6, <1>7, <1>11, <3>2, <4>1
        <5> QED
          BY <1>4, <1>7, <1>8, <1>9, <1>11, <4>1, <5>1
      <4>2. CASE l # p
        <5>1. Hooked(l) /\ Hooked(l)' /\ prev'[l] = prev[l]
          BY <1>1, <1>6, <1>7, <3>2, <4>2
        <5> QED
          BY <1>7, <1>8, <1>9, <1>11, <5>1
      <4> QED
        BY <4>1, <4>2
    <3> QED
      BY <3>1, <3>2 DEF EndInv
  <2>3. Acyclic'
    <3> SUFFICES ASSUME NEW S \in SUBSET Nodes, \A m \in S : InList(m)', S # {}
                 PROVE  \E m \in S : Pred(m)' \notin S
      BY DEF Acyclic
    <3>1. S \in SUBSET {m \in Nodes : InList(m)} /\ d \notin S
      BY <1>8
    <3>2. PICK m \in S : Pred(m) \notin S
      BY <1>2, <3>1 DEF ListInv, Listed, Acyclic
    <3> QED
      BY <1>7, <3>1, <3>2
  <2> QED
    BY <2>1, <2>2, <2>3 DEF Listed
<1>n1. NextIsNode'
  BY <1>1, <1>2, <1>3, <1>4, <1>6, <1>7, <1>8, <1>9 DEF ListInv, NextInv, NextIsNode
<1>n2. NextIsSentinel'
  <2> SUFFICES ASSUME NEW x \in Locations, Place(x)', next'[x] \in Lockers
               PROVE  Active(next[x])' /\ prev'[next'[x]] = x
    BY DEF NextIsSentinel
  <2>1. x # p /\ next'[x] = next[x] /\ x # d
    BY <1>3, <1>6, <1>9
  <2>2. Active(next[x]) /\ prev[next[x]] = x
    BY <1>2, <1>9, <2>1 DEF ListInv, NextInv, NextIsSentinel
  <2>3. next[x] = p => nxt # NULL
    BY <1>3, <2>1, <2>2
  <2> QED
    BY <1>4, <1>6, <1>7, <2>1, <2>2, <2>3
<1>n3. PhaseTwo'
  BY <1>1, <1>2, <1>3, <1>4, <1>6, <1>7, <1>8, <1>9, <1>11 DEF ListInv, NextInv, PhaseTwo
<1>n4. NextIsSet'
  BY <1>1, <1>2, <1>4, <1>6, <1>7, <1>8, <1>9, <1>11 DEF ListInv, NextInv, NextIsSet
<1>n5. SentinelHooked'
  BY <1>1, <1>2, <1>4, <1>6, <1>7, <1>9, <1>11 DEF ListInv, NextInv, SentinelHooked
<1>n6. SentinelNext'
  BY <1>1, <1>2, <1>3, <1>4, <1>5, <1>6 DEF ListInv, NextInv, SentinelNext
<1>n7. ParkedMark'
  BY <1>3, <1>4, <1>6 DEF ParkedMark
<1>r. RemoveInv'
  BY <1>1, <1>5 DEF RemoveInv, RemoveCur, RemoveLinked, RemoveRelink, At
<1>g. GetNextInv'
  BY <1>1, <1>5 DEF GetNextInv, GetNextLoc, GetNextParking, GetNextSeen, At, GetNextPC, HolderPC, Procs
<1>d. GuardInv'
  BY <1>0, <1>1 DEF GuardInv, GuardFirst, GuardIdle, GuardDrained, At, HolderPC, DrainPC, Procs
<1> QED
  BY <1>12, <1>n1, <1>n2, <1>n3, <1>n4, <1>n5, <1>n6, <1>n7, <1>r, <1>g, <1>d DEF ListInv, NextInv

-----------------------------------------------------------------------------
(* execute_unlocked: the list is closed on the sentinel and the lock is    *)
(* released.                                                               *)
LEMMA DrainUnlockListInv ==
    ASSUME IInv, NEW p \in Lockers, DrainUnlock(p), next[p] # NULL
    PROVE  ListInv'
<1> DEFINE d == next[p]
<1> DEFINE e == prev[p]
<1>0. /\ p \in Procs /\ mutex = p /\ mutex' = NONE /\ pc[p] = "drain" /\ tail' = tail
      /\ pc' = [pc EXCEPT ![p] = "dr_hooked"]
      /\ prev' = [prev EXCEPT ![d] = p] /\ next' = [next EXCEPT ![e] = p]
      /\ seen' = seen /\ nxt' = nxt /\ ret' = ret
  BY DEF DrainUnlock, Goto, HolderPC, DrainPC, Procs, IInv, LockDiscipline, locals
<1>1. /\ pc'[p] = "dr_hooked"
      /\ \A q \in Procs : q # p => pc'[q] = pc[q] /\ pc[q] \notin HolderPC
      /\ \A n \in Nodes : pc'[n] = pc[n]
      /\ \A l \in Lockers : l # p => (Hooked(l)' <=> Hooked(l))
      /\ Hooked(p)'
      /\ \A S : ~(At(S)')
  BY <1>0 DEF IInv, TypeOK, LockDiscipline, Procs, Hooked, At
<1>2. ListInv /\ TypeOK
  BY DEF IInv
<1>4. /\ d \in Nodes /\ InList(d) /\ Pred(d) = p /\ pc[d] # "enq_link"
      /\ Active(p) /\ Place(p) /\ ~Hooked(p)
      /\ Place(e) /\ e \in Nodes
      /\ \A l \in Lockers : Draining(l) <=> l = p
      /\ \A l \in Lockers : l # p => (Active(l) <=> Hooked(l))
      /\ \A n \in Nodes : InList(n) /\ n # d => Pred(n) # p
      /\ \A n \in Nodes : n # d => Pred(n) = prev[n]
      /\ \A x \in Locations : next[x] # PARKED
      /\ ~Unlinking /\ ~At({"rm_relink2"}) /\ ~At({"rm_relink2", "rm_done"})
      /\ ~At({"rm_relink2", "dr_swap"})
  BY <1>0, FirstDrained
<1> HIDE DEF d, e
<1>5. ~(Unlinking') /\ (\A r : ~(Waiting(r)')) /\ \A l \in Lockers : ~(Draining(l)')
  BY <1>1 DEF Unlinking, Waiting, Draining
<1>6. /\ next'[e] = p
      /\ \A x \in Locations : x # e => next'[x] = next[x]
      /\ prev'[d] = p
      /\ \A n \in Nodes : n # d => prev'[n] = prev[n]
      /\ \A l \in Lockers : prev'[l] = prev[l]
      /\ \A l \in Lockers : next'[l] = next[l]
  BY <1>0, <1>2, <1>4 DEF TypeOK, Locations, Links
<1>7. /\ \A l \in Lockers : Active(l)' <=> Active(l)
      /\ \A n \in Nodes : Pred(n)' = Pred(n)
      /\ \A n \in Nodes : Pred(n)' = prev'[n]
  BY <1>1, <1>4, <1>5, <1>6 DEF Active, Pred
<1>8. /\ \A n \in Nodes : InList(n)' <=> InList(n)
      /\ \A n \in Nodes : PrevOf(n)' = PrevOf(n)
  <2>1. \A n \in Nodes : ~CutOut(n) /\ ~(CutOut(n)')
    BY <1>1, <1>4 DEF CutOut
  <2>2. RawQueued(d) /\ \A n \in Nodes : n = d => RawQueued(n)'
    BY <1>4, <1>6 DEF InList, RawQueued
  <2>3. \A n \in Nodes : RawQueued(n)' <=> RawQueued(n)
    BY <1>6, <2>2 DEF RawQueued
  <2> QED
    BY <1>0, <1>1, <2>1, <2>3 DEF InList, PrevOf
<1>9. /\ \A x : Place(x)' <=> Place(x)
      /\ \A x : Place(x) => x \in Locations
      /\ End' = End
  BY <1>0, <1>7, <1>8 DEF Place, End, Locations, Links
<1>10. PICK own \in [Locations -> Locations] : PredInv(own) /\ EndInv(own)
  BY <1>2 DEF ListInv, Listed
<1>11. /\ \A n \in Nodes : InList(n) => Place(Pred(n))
       /\ \A n \in Nodes : InList(n) => Pred(n) # e
       /\ End # e
       /\ \A l \in Lockers : Hooked(l) => Place(prev[l]) /\ prev[l] # e
  <2>1. /\ \A n \in Nodes : InList(n) => Pred(n) # e
        /\ own[e] = p /\ own[End] = HEAD
        /\ \A l \in Lockers : Hooked(l) => own[prev[l]] = l
    BY <1>4, <1>10 DEF EndInv, e
  <2> QED
    BY <1>4, <2>1, Reachable
<1>12. Listed'
  <2>1. PredInv(own)'
    <3>1. \A n \in Nodes, l \in Lockers : InList(n)' /\ Pred(n)' = l => Hooked(l)'
      BY <1>1, <1>4, <1>7, <1>8, <1>11 DEF Place
    <3> QED
      BY <1>7, <1>8, <1>9, <1>10, <3>1 DEF PredInv
  <2>2. EndInv(own)'
    <3>1. next'[End] = NULL
      BY <1>6, <1>9, <1>10, <1>11 DEF EndInv
    <3>2. \A l \in Lockers : Active(l) => Hooked(l)'
      BY <1>1, <1>4
    <3> QED
      BY <1>6, <1>7, <1>8, <1>9, <1>10, <3>1, <3>2 DEF EndInv
  <2>3. Acyclic'
    BY <1>2, <1>7, <1>8 DEF ListInv, Listed, Acyclic
  <2> QED
    BY <2>1, <2>2, <2>3 DEF Listed
<1>n1. NextIsNode'
  BY <1>1, <1>2, <1>4, <1>6, <1>7, <1>8, <1>9 DEF ListInv, NextInv, NextIsNode
<1>n2. NextIsSentinel'
  BY <1>2, <1>4, <1>6, <1>7, <1>9 DEF ListInv, NextInv, NextIsSentinel, e
<1>n3. PhaseTwo'
  BY <1>1, <1>2, <1>4, <1>6, <1>7, <1>8, <1>9, <1>11 DEF ListInv, NextInv, PhaseTwo
<1>n4. NextIsSet'
  BY <1>1, <1>2, <1>4, <1>6, <1>7, <1>8, <1>9, <1>11 DEF ListInv, NextInv, NextIsSet
<1>n5. SentinelHooked'
  <2> SUFFICES ASSUME NEW l \in Lockers, Hooked(l)' PROVE next'[prev'[l]] = l /\ next'[l] # NULL
    BY DEF SentinelHooked
  <2>1. CASE l = p
    BY <1>6, <2>1 DEF e
  <2>2. CASE l # p
    BY <1>1, <1>2, <1>4, <1>6, <1>9, <1>11, <2>2 DEF ListInv, NextInv, SentinelHooked
  <2> QED
    BY <2>1, <2>2
<1>n6. SentinelNext'
  BY <1>1, <1>2, <1>4, <1>5, <1>6 DEF ListInv, NextInv, SentinelNext
<1>n7. ParkedMark'
  BY <1>4, <1>6 DEF ParkedMark
<1>r. RemoveInv'
  BY <1>1, <1>5 DEF RemoveInv, RemoveCur, RemoveLinked, RemoveRelink
<1>g. GetNextInv'
  BY <1>1, <1>5 DEF GetNextInv, GetNextLoc, GetNextParking, GetNextSeen, GetNextPC, HolderPC, Procs
<1>d. GuardInv'
  <2>1. nxt = NULL /\ ret = NULL
    BY <1>0, <1>2 DEF ListInv, GuardInv, GuardIdle, At
  <2> QED
    BY <1>0, <1>1, <2>1 DEF GuardInv, GuardFirst, GuardIdle, GuardDrained, HolderPC, DrainPC, Procs
<1> QED
  BY <1>12, <1>n1, <1>n2, <1>n3, <1>n4, <1>n5, <1>n6, <1>n7, <1>r, <1>g, <1>d DEF ListInv, NextInv

(* ... and taken again: the list goes on from the sentinel, or the owners  *)
(* have removed all its nodes.                                             *)
LEMMA DrainRelockListInv ==
    ASSUME IInv, NEW p \in Lockers, DrainRelock(p), pc[p] = "dr_hooked"
    PROVE  ListInv'
<1>0. /\ p \in Procs /\ mutex = NONE /\ mutex' = p /\ tail' = tail
      /\ pc' = [pc EXCEPT ![p] = "drain"]
      /\ next' = IF next[p] = p THEN [next EXCEPT ![p] = NULL] ELSE next
      /\ prev' = prev /\ seen' = seen /\ nxt' = nxt /\ ret' = ret
  BY DEF DrainRelock, Goto, Procs, locals
<1>1. /\ pc'[p] = "drain"
      /\ \A q \in Procs : q # p => pc'[q] = pc[q]
      /\ \A q \in Procs : pc[q] \notin HolderPC
      /\ \A n \in Nodes : pc'[n] = pc[n]
      /\ \A l \in Lockers : l # p => (Hooked(l)' <=> Hooked(l))
      /\ Hooked(p) /\ ~(Hooked(p)')
      /\ \A S : ~At(S)
  BY <1>0 DEF IInv, TypeOK, LockDiscipline, Procs, Hooked, At
<1>2. ListInv /\ TypeOK
  BY DEF IInv
<1>3. /\ ~Unlinking /\ \A l \in Lockers : ~Draining(l)
      /\ \A x \in Locations : next[x] # PARKED
  BY <1>1, <1>2 DEF Unlinking, Waiting, Draining, ListInv, NextInv, ParkedMark
<1>4. /\ \A l \in Lockers : Active(l) <=> Hooked(l)
      /\ \A n \in Nodes : Pred(n) = prev[n]
      /\ Place(p)
  BY <1>1, <1>3 DEF Active, Pred, Place
<1>5. /\ ~(Unlinking') /\ ~(At({"rm_relink2"})') /\ ~(At({"rm_relink2", "rm_done"})')
      /\ ~(At({"rm_relink2", "dr_swap"})') /\ ~(At(RemovePC)')
      /\ \A r : ~(Waiting(r)')
      /\ \A l \in Lockers : Draining(l)' <=> l = p
  BY <1>0, <1>1 DEF Unlinking, Waiting, Draining, At, GetNextPC, RemovePC
<1>6. /\ next'[p] = IF next[p] = p THEN NULL ELSE next[p]
      /\ \A x \in Locations : x # p => next'[x] = next[x]
      /\ \A l \in Lockers : l # p => next'[l] = next[l]
  BY <1>0, <1>2 DEF TypeOK, Locations, Links
<1>10. PICK own \in [Locations -> Locations] : PredInv(own) /\ EndInv(own)
  BY <1>2 DEF ListInv, Listed
<1>11. /\ \A n \in Nodes : InList(n) => Place(Pred(n))
       /\ \A l \in Lockers : Hooked(l) => Place(prev[l]) /\ own[prev[l]] = l
       /\ \A l \in Lockers : own[l] = l
       /\ \A l \in Lockers : Hooked(l) => \A n \in Nodes : InList(n) => Pred(n) # prev[l]
  BY <1>4, <1>10, Reachable DEF PredInv, EndInv
<1>7. \/ next[p] = p /\ prev[p] = p /\ next'[p] = NULL
      \/ /\ next[p] \in Nodes /\ InList(next[p]) /\ Pred(next[p]) = p /\ pc[next[p]] # "enq_link"
         /\ next'[p] = next[p] /\ prev[p] # p
  <2>1. p \in Locations /\ next[p] \in Links
    <3>1. next[p] # NULL
      BY <1>1, <1>2, <1>3 DEF ListInv, NextInv, SentinelHooked
    <3> QED
      BY <1>2, <1>3, <3>1 DEF TypeOK, Locations, Links
  <2>2. CASE next[p] \in Nodes
    BY <1>1, <1>2, <1>4, <1>6, <1>11, <2>1, <2>2 DEF ListInv, NextInv, NextIsNode
  <2>3. CASE next[p] \in Lockers
    <3>1. Hooked(next[p]) /\ prev[next[p]] = p
      BY <1>2, <1>4, <2>1, <2>3 DEF ListInv, NextInv, NextIsSentinel
    <3>2. next[p] = p
      BY <1>11, <2>3, <3>1
    <3> QED
      BY <1>6, <3>1, <3>2
  <2> QED
    BY <2>1, <2>2, <2>3 DEF Links
<1>8. /\ Active(p)' <=> next[p] \in Nodes
      /\ \A l \in Lockers : l # p => (Active(l)' <=> Hooked(l))
      /\ \A n \in Nodes : Pred(n)' = Pred(n)
      /\ \A n \in Nodes : InList(n)' <=> InList(n)
      /\ \A n \in Nodes : PrevOf(n)' = PrevOf(n)
  <2>1. \A n \in Nodes : ~CutOut(n) /\ ~(CutOut(n)')
    BY <1>1, <1>5 DEF CutOut
  <2>2. \A n \in Nodes : InList(n)' <=> InList(n)
    BY <1>0, <1>1, <2>1 DEF InList, RawQueued
  <2>3. \A n \in Nodes : Pred(n)' = Pred(n)
    BY <1>0, <1>4, <1>5, <1>7 DEF Pred
  <2> QED
    BY <1>0, <1>1, <1>3, <1>5, <1>6, <1>7, <2>2, <2>3 DEF Active, PrevOf
<1>9. /\ \A x : Place(x)' <=> Place(x) /\ (x = p => next[p] \in Nodes)
      /\ \A x : Place(x) => x \in Locations
      /\ End' = End
  BY <1>0, <1>4, <1>8 DEF Place, End, Locations, Links
<1>13. /\ \A n \in Nodes : InList(n) /\ Pred(n) = p => next[p] = n
       /\ \A l \in Lockers : Hooked(l) /\ l # p => prev[l] # p
       /\ End # p
  <2>1. \A n \in Nodes : InList(n) /\ Pred(n) = p => next[p] = n
    BY <1>1, <1>7, <1>10, <1>11 DEF PredInv
  <2>2. End # p
    BY <1>10, <1>11 DEF EndInv
  <2> QED
    BY <1>11, <2>1, <2>2
<1>12. Listed'
  <2>1. PredInv(own)'
    <3>1. \A n \in Nodes : InList(n)' => Place(Pred(n))'
      BY <1>8, <1>9, <1>11, <1>13
    <3>2. \A n \in Nodes, l \in Lockers : InList(n)' /\ Pred(n)' = l /\ ~(Hooked(l)') => next'[l] = n
      BY <1>1, <1>4, <1>7, <1>8, <1>11, <1>13 DEF Place
    <3> QED
      BY <1>8, <1>10, <3>1, <3>2 DEF PredInv
  <2>2. EndInv(own)'
    <3>1. /\ Place(End)' /\ own[End'] = HEAD /\ next'[End'] = NULL
          /\ \A n \in Nodes : InList(n)' => Pred(n)' # End'
      BY <1>6, <1>8, <1>9, <1>10, <1>13 DEF EndInv
    <3>2. ASSUME NEW l \in Lockers, Active(l)'
          PROVE  /\ prev'[l] = l => Hooked(l)'
                 /\ Place(prev[l])' /\ own[prev'[l]] = l
                 /\ \A n \in Nodes : InList(n)' => Pred(n)' # prev'[l]
      BY <1>0, <1>1, <1>7, <1>8, <1>9, <1>11, <1>13, <3>2
    <3> QED
      BY <3>1, <3>2 DEF EndInv
  <2>3. Acyclic'
    BY <1>2, <1>8 DEF ListInv, Listed, Acyclic
  <2> QED
    BY <2>1, <2>2, <2>3 DEF Listed
<1>n1. NextIsNode'
  BY <1>1, <1>2, <1>6, <1>7, <1>8, <1>9 DEF ListInv, NextInv, NextIsNode
<1>n2. NextIsSentinel'
  <2> SUFFICES ASSUME NEW x \in Locations, Place(x)', next'[x] \in Lockers
               PROVE  Active(next[x])' /\ next'[x] = next[x] /\ prev[next[x]] = x
    BY <1>0 DEF NextIsSentinel
  <2>1. x # p /\ next'[x] = next[x]
    BY <1>6, <1>7
  <2>2. Active(next[x]) /\ prev[next[x]] = x
    BY <1>2, <1>9, <2>1 DEF ListInv, NextInv, NextIsSentinel
  <2>3. next[x] = p => next[p] \in Nodes
    BY <1>7, <2>1, <2>2
  <2> QED
    BY <1>4, <1>8, <2>1, <2>2, <2>3
<1>n3. PhaseTwo'
  BY <1>0, <1>1, <1>2, <1>6, <1>7, <1>8, <1>9, <1>11, <1>13 DEF ListInv, NextInv, PhaseTwo
<1>n4. NextIsSet'
  BY <1>1, <1>2, <1>3, <1>6, <1>7, <1>8, <1>9, <1>11, <1>13 DEF ListInv, NextInv, NextIsSet
<1>n5. SentinelHooked'
  BY <1>0, <1>1, <1>2, <1>3, <1>6, <1>9, <1>11, <1>13 DEF ListInv, NextInv, SentinelHooked
<1>n6. SentinelNext'
  BY <1>1, <1>2, <1>3, <1>5, <1>6, <1>7 DEF ListInv, NextInv, SentinelNext
<1>n7. ParkedMark'
  BY <1>3, <1>6 DEF ParkedMark
<1>r. RemoveInv'
  BY <1>0, <1>1, <1>5 DEF RemoveInv, RemoveCur, RemoveLinked, RemoveRelink, At
<1>g. GetNextInv'
  BY <1>0, <1>1, <1>5 DEF GetNextInv, GetNextLoc, GetNextParking, GetNextSeen, At, GetNextPC, HolderPC, Procs
<1>d. GuardInv'
  <2>1. nxt = NULL /\ ret = NULL
    BY <1>0, <1>2 DEF ListInv, GuardInv, GuardIdle
  <2> QED
    BY <1>0, <1>1, <2>1 DEF GuardInv, GuardFirst, GuardIdle, GuardDrained, At, HolderPC, DrainPC, Procs
<1> QED
  BY <1>12, <1>n1, <1>n2, <1>n3, <1>n4, <1>n5, <1>n6, <1>n7, <1>r, <1>g, <1>d DEF ListInv, NextInv
=============================================================================
