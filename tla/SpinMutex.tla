----------------------------- MODULE SpinMutex -----------------------------
(***************************************************************************)
(* SpinMutex of src/sync/spin.rs: the mutex the library falls back to when *)
(* no feature selects another one.                                         *)
(***************************************************************************)
CONSTANT Procs

VARIABLES
    locked,     \* the AtomicBool
    pc          \* where each thread stands

vars == <<locked, pc>>

TypeOK ==
    /\ locked \in BOOLEAN
    /\ pc \in [Procs -> {"idle", "swap", "load", "held"}]

Init ==
    /\ locked = FALSE
    /\ pc = [p \in Procs |-> "idle"]

Lock(p) ==
    /\ pc[p] = "idle"
    /\ pc' = [pc EXCEPT ![p] = "swap"]
    /\ UNCHANGED locked

(* while self.0.swap(true): the old value tells who got the lock. *)
Swap(p) ==
    /\ pc[p] = "swap"
    /\ locked' = TRUE
    /\ pc' = [pc EXCEPT ![p] = IF locked THEN "load" ELSE "held"]

\* Mutant: the flag is not swapped again after the wait.
LoadThenHold(p) ==
    /\ pc[p] = "load"
    /\ locked
    /\ pc' = [pc EXCEPT ![p] = "held"]
    /\ UNCHANGED locked

(* while !self.0.load(): the loop is left when the flag is seen set. *)
Load(p) ==
    /\ pc[p] = "load"
    /\ locked
    /\ pc' = [pc EXCEPT ![p] = "swap"]
    /\ UNCHANGED locked

Unlock(p) ==
    /\ pc[p] = "held"
    /\ locked' = FALSE
    /\ pc' = [pc EXCEPT ![p] = "idle"]

Next == \E p \in Procs : Lock(p) \/ Swap(p) \/ Load(p) \/ Unlock(p)

Spec == Init /\ [][Next]_vars

(* A thread inside lock keeps running and every holder unlocks. *)
FairSpec == Spec /\ \A p \in Procs : WF_vars(Swap(p) \/ Load(p) \/ Unlock(p))

(* The safety contract of trait Mutex: "a lock can't be acquired while the *)
(* mutex is already locked".  It covers the window between the swap that   *)
(* takes the flag and the late swaps of the threads that lost.             *)
MutualExclusion == \A p, q \in Procs : pc[p] = "held" /\ pc[q] = "held" => p = q

(* While somebody is inside lock, somebody gets the lock: with the flag    *)
(* free at least one waiting thread must see that it is free.              *)
WaitersProgress ==
    (\E p \in Procs : pc[p] \in {"swap", "load"}) ~> (\E p \in Procs : pc[p] = "held")
=============================================================================
