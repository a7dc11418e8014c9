------------------------------- MODULE MCSync -------------------------------
(***************************************************************************)
(* The synchronization primitives that the features of a build select,     *)
(* one in each behaviour: StdParker and PthreadParker, AtomicParker,       *)
(* SpinMutex, PthreadMutex.                                                *)
(***************************************************************************)
EXTENDS SpinMutex, PthreadMutex, Naturals

CONSTANT Max

PARKER == "parker"

VARIABLES
    built,                  \* the primitive
    state, mutex, asleep    \* of the parkers, with pc of SpinMutex

Unparkers == Procs \ {PARKER}

Condvar == INSTANCE CondvarParker
Futex   == INSTANCE FutexParker

ASSUME SyncAssumption == Max \in Nat /\ Max > 1 /\ PARKER \in Procs /\ Condvar!NONE \notin Procs

parkerVars == <<state, mutex, asleep>>
syncVars   == <<built, parkerVars, vars, lazyVars>>

InitSync ==
    /\ built \in {"condvar", "futex", "spin", "pthread"}
    /\ Init /\ LazyInit /\ Condvar!Init

UseCondvar(A) == built = "condvar" /\ A /\ UNCHANGED <<built, locked, lazyVars>>
UseFutex(A)   == built = "futex" /\ A /\ UNCHANGED <<built, mutex, locked, lazyVars>>

NextSync ==
    \/ UseCondvar(Condvar!Next)
    \/ UseFutex(Futex!Next)
    \/ built = "spin" /\ Next /\ UNCHANGED <<built, parkerVars, lazyVars>>
    \/ built = "pthread" /\ LazyNext /\ UNCHANGED <<built, parkerVars, vars>>

SafeSync == InitSync /\ [][NextSync]_syncVars

(* Threads inside park and unpark keep running; nobody has to call them. *)
SpecSync ==
    /\ SafeSync
    /\ WF_syncVars(UseCondvar(Condvar!ParkStep))
    /\ WF_syncVars(UseFutex(Futex!ParkStep))
    /\ \A u \in Unparkers :
        /\ WF_syncVars(UseCondvar(Condvar!Signal(u)))
        /\ WF_syncVars(UseFutex(Futex!UnparkWake(u)))

IsParker == built \in {"condvar", "futex"}

Abstract == INSTANCE Parker WITH
    token   <- state = Condvar!NOTIFIED,
    waiting <- IsParker /\ pc[PARKER] # "idle"

(* StdParker, PthreadParker and AtomicParker keep the promise of trait     *)
(* Parker: every step is one of the token's, and a parked thread that is   *)
(* notified returns, whatever the order of swap, check, sleep and signal,  *)
(* and although the wake-up of AtomicParker may find nobody asleep.        *)
ImplementsParker == Abstract!Spec

(* The parked word is reached only by a single decrement of EMPTY: with    *)
(* one thread parking at a time the state takes no other value.            *)
StateIsOneOfThree == state \in {Condvar!EMPTY, Condvar!NOTIFIED, Condvar!PARKED}

(* The safety core of the parkers: a thread that sleeps although it has    *)
(* been notified will be signalled.  For AtomicParker the comparison of    *)
(* wait guarantees it, for the others the mutex that unpark passes through *)
(* between its swap and its signal.                                        *)
SleeperIsSignalled ==
    asleep /\ state = Condvar!NOTIFIED =>
        \E u \in Unparkers : pc[u] \in {"lock", "unlock", "signal", "wake"}
=============================================================================
