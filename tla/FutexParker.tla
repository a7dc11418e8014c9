---------------------------- MODULE FutexParker ----------------------------
(***************************************************************************)
(* AtomicParker of src/sync/atomic_wait.rs: the parker over the operating  *)
(* system's wait-on-address.                                               *)
(***************************************************************************)
EXTENDS Naturals

CONSTANTS
    Unparkers,  \* threads that call unpark
    Max         \* the largest value of the state word

EMPTY    == 0
NOTIFIED == 1
PARKED   == Max
PARKER   == "parker"

VARIABLES
    state,      \* the AtomicU32
    asleep,     \* the parker sleeps on the address of the state
    pc          \* where each thread stands

vars == <<state, asleep, pc>>

Users == Unparkers \cup {PARKER}

TypeOK ==
    /\ state \in 0..PARKED
    /\ asleep \in BOOLEAN
    /\ pc \in [Users -> {"idle", "wait", "sleep", "cas", "wake"}]

Init ==
    /\ state = EMPTY
    /\ asleep = FALSE
    /\ pc = [p \in Users |-> "idle"]

Goto(p, l) == pc' = [pc EXCEPT ![p] = l]

ParkSub ==
    /\ pc[PARKER] = "idle"
    /\ state' = (state + PARKED) % (Max + 1)
    /\ IF state = NOTIFIED THEN UNCHANGED pc ELSE Goto(PARKER, "wait")
    /\ UNCHANGED asleep

\* Mutant: the wait does not compare the value.
ParkWaitBlind ==
    /\ pc[PARKER] = "wait"
    /\ asleep' = TRUE
    /\ Goto(PARKER, "sleep")
    /\ UNCHANGED state

(* wait(&state, PARKED): sleeps only if the value is still PARKED. *)
ParkWait ==
    /\ pc[PARKER] = "wait"
    /\ asleep' = (state = PARKED)
    /\ Goto(PARKER, "sleep")
    /\ UNCHANGED state

ParkWoken ==
    /\ pc[PARKER] = "sleep"
    /\ ~asleep
    /\ Goto(PARKER, "cas")
    /\ UNCHANGED <<state, asleep>>

SpuriousWakeup ==
    /\ asleep
    /\ asleep' = FALSE
    /\ UNCHANGED <<state, pc>>

\* Mutant: the loop decrements again instead of comparing.
ParkCasSub ==
    /\ pc[PARKER] = "cas"
    /\ state' = (state + PARKED) % (Max + 1)
    /\ Goto(PARKER, IF state = NOTIFIED THEN "idle" ELSE "wait")
    /\ UNCHANGED asleep

ParkCas ==
    /\ pc[PARKER] = "cas"
    /\ \/ state = NOTIFIED /\ state' = EMPTY /\ Goto(PARKER, "idle")
       \/ state # NOTIFIED /\ Goto(PARKER, "wait") /\ UNCHANGED state
    /\ UNCHANGED asleep

UnparkSwap(u) ==
    /\ pc[u] = "idle"
    /\ state' = NOTIFIED
    /\ IF state = PARKED THEN Goto(u, "wake") ELSE UNCHANGED pc
    /\ UNCHANGED asleep

UnparkWake(u) ==
    /\ pc[u] = "wake"
    /\ asleep' = FALSE
    /\ Goto(u, "idle")
    /\ UNCHANGED state

ParkStep == ParkWait \/ ParkWoken \/ ParkCas

Next ==
    \/ ParkSub \/ ParkStep \/ SpuriousWakeup
    \/ \E u \in Unparkers : UnparkSwap(u) \/ UnparkWake(u)

(* Threads inside park and unpark keep running; nobody has to call them. *)
Spec ==
    /\ Init /\ [][Next]_vars
    /\ WF_vars(ParkStep)
    /\ \A u \in Unparkers : WF_vars(UnparkWake(u))
=============================================================================
