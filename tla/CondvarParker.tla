--------------------------- MODULE CondvarParker ---------------------------
(***************************************************************************)
(* StdParker of src/sync/std.rs and PthreadParker of src/sync/pthread.rs:  *)
(* the same algorithm over std's and libc's mutex and condition variable.  *)
(* The state is an unsigned word that park decrements: EMPTY wraps around  *)
(* to PARKED, the largest value.                                           *)
(***************************************************************************)
EXTENDS Naturals

CONSTANTS
    Unparkers,  \* threads that call unpark
    Max         \* the largest value of the state word

EMPTY    == 0
NOTIFIED == 1
PARKED   == Max
NONE     == "none"
PARKER   == "parker"

VARIABLES
    state,      \* StdParker::state
    mutex,      \* who holds StdParker::mutex
    asleep,     \* the parker is in the condition variable's wait set
    pc          \* where each thread stands

vars == <<state, mutex, asleep, pc>>

Users == Unparkers \cup {PARKER}

TypeOK ==
    /\ state \in 0..PARKED
    /\ mutex \in Users \cup {NONE}
    /\ asleep \in BOOLEAN
    /\ pc \in [Users -> {"idle", "lock", "cas", "sleep", "wait", "unlock", "signal"}]

Init ==
    /\ state = EMPTY
    /\ mutex = NONE
    /\ asleep = FALSE
    /\ pc = [p \in Users |-> "idle"]

Goto(p, l) == pc' = [pc EXCEPT ![p] = l]

(* fetch_sub(1): either a notification was pending, or park announces      *)
(* itself and has to wait.                                                 *)
ParkSub ==
    /\ pc[PARKER] = "idle"
    /\ state' = (state + PARKED) % (Max + 1)
    /\ IF state = NOTIFIED THEN UNCHANGED pc ELSE Goto(PARKER, "lock")
    /\ UNCHANGED <<mutex, asleep>>

ParkLock ==
    /\ pc[PARKER] = "lock"
    /\ mutex = NONE
    /\ mutex' = PARKER
    /\ Goto(PARKER, "cas")
    /\ UNCHANGED <<state, asleep>>

\* Mutant: the loop decrements again instead of comparing.
ParkCasSub ==
    /\ pc[PARKER] = "cas"
    /\ state' = (state + PARKED) % (Max + 1)
    /\ IF state = NOTIFIED THEN Goto(PARKER, "idle") /\ mutex' = NONE
                           ELSE Goto(PARKER, "sleep") /\ UNCHANGED mutex
    /\ UNCHANGED asleep

(* compare_exchange(NOTIFIED, EMPTY), with the mutex held: return,         *)
(* releasing it, or go to sleep.                                           *)
ParkCas ==
    /\ pc[PARKER] = "cas"
    /\ \/ /\ state = NOTIFIED
          /\ state' = EMPTY
          /\ mutex' = NONE
          /\ Goto(PARKER, "idle")
       \/ /\ state # NOTIFIED
          /\ Goto(PARKER, "sleep")
          /\ UNCHANGED <<state, mutex>>
    /\ UNCHANGED asleep

(* The condition variable releases the mutex and sleeps in one step. *)
ParkSleep ==
    /\ pc[PARKER] = "sleep"
    /\ mutex' = NONE
    /\ asleep' = TRUE
    /\ Goto(PARKER, "wait")
    /\ UNCHANGED state

(* Woken up by a signal; a condition variable may also wake up by itself. *)
ParkWoken ==
    /\ pc[PARKER] = "wait"
    /\ ~asleep
    /\ Goto(PARKER, "lock")
    /\ UNCHANGED <<state, mutex, asleep>>

SpuriousWakeup ==
    /\ asleep
    /\ asleep' = FALSE
    /\ UNCHANGED <<state, mutex, pc>>

(* swap(NOTIFIED): only a thread that announced itself is signalled. *)
UnparkSwap(u) ==
    /\ pc[u] = "idle"
    /\ state' = NOTIFIED
    /\ IF state = PARKED THEN Goto(u, "lock") ELSE UNCHANGED pc
    /\ UNCHANGED <<mutex, asleep>>

\* Mutant: the signal is sent without passing through the mutex.
UnparkNoLock(u) ==
    /\ pc[u] = "lock"
    /\ Goto(u, "signal")
    /\ UNCHANGED <<state, mutex, asleep>>

(* The mutex is taken and released only to order the signal after the      *)
(* parker's check-and-sleep.                                               *)
UnparkLock(u) ==
    /\ pc[u] = "lock"
    /\ mutex = NONE
    /\ mutex' = u
    /\ Goto(u, "unlock")
    /\ UNCHANGED <<state, asleep>>

UnparkUnlock(u) ==
    /\ pc[u] = "unlock"
    /\ mutex' = NONE
    /\ Goto(u, "signal")
    /\ UNCHANGED <<state, asleep>>

UnparkSignal(u) ==
    /\ pc[u] = "signal"
    /\ asleep' = FALSE
    /\ Goto(u, "idle")
    /\ UNCHANGED <<state, mutex>>

ParkStep  == ParkLock \/ ParkCas \/ ParkSleep \/ ParkWoken
Signal(u) == UnparkLock(u) \/ UnparkUnlock(u) \/ UnparkSignal(u)

Next ==
    \/ ParkSub \/ ParkStep \/ SpuriousWakeup
    \/ \E u \in Unparkers : UnparkSwap(u) \/ Signal(u)

(* Threads inside park and unpark keep running; nobody has to call them. *)
Spec ==
    /\ Init /\ [][Next]_vars
    /\ WF_vars(ParkStep)
    /\ \A u \in Unparkers : WF_vars(Signal(u))
=============================================================================
