----------------------------- MODULE SyncProofs -----------------------------
(***************************************************************************)
(* The mutexes and parkers are safe for any number of threads and any      *)
(* width of the state word.                                                *)
(***************************************************************************)
EXTENDS MCSync, TLAPS

(* Held implies locked: with it MutualExclusion is inductive. *)
SpinInv ==
    /\ TypeOK
    /\ \A p \in Procs : pc[p] = "held" => locked
    /\ MutualExclusion

(* SpinMutex is exclusive for any number of threads. *)
THEOREM Exclusive == Spec => []MutualExclusion
<1>1. Init => SpinInv
  BY DEF Init, SpinInv, TypeOK, MutualExclusion
<1>2. SpinInv /\ [Next]_vars => SpinInv'
  <2> SUFFICES ASSUME SpinInv, [Next]_vars PROVE SpinInv'
    OBVIOUS
  <2> USE DEF SpinInv, TypeOK, MutualExclusion
  <2>1. ASSUME NEW p \in Procs, Lock(p) PROVE SpinInv'
    BY <2>1 DEF Lock
  <2>2. ASSUME NEW p \in Procs, Swap(p) PROVE SpinInv'
    BY <2>2 DEF Swap
  <2>3. ASSUME NEW p \in Procs, Load(p) PROVE SpinInv'
    BY <2>3 DEF Load
  <2>4. ASSUME NEW p \in Procs, Unlock(p) PROVE SpinInv'
    BY <2>4 DEF Unlock
  <2>5. CASE UNCHANGED vars
    BY <2>5 DEF vars
  <2> QED
    BY <2>1, <2>2, <2>3, <2>4, <2>5 DEF Next
<1>3. SpinInv => MutualExclusion
  BY DEF SpinInv
<1> QED
  BY <1>1, <1>2, <1>3, PTL DEF Spec

LazyTypeOK ==
    /\ box \in Threads \cup {NULL}
    /\ alive \subseteq Threads
    /\ owner \in [Threads -> Threads \cup {NULL}]
    /\ obj \in [Threads -> Threads \cup {NULL}]
    /\ at \in [Threads -> {"idle", "init", "cas", "lock", "held"}]

(* An object is locked by the thread that holds the mutex and by nobody    *)
(* else; a thread that allocated has its own object, and not in the box.   *)
LazyInv ==
    /\ LazyTypeOK
    /\ OneObject
    /\ \A p \in Threads : at[p] = "held" => owner[box] = p
    /\ \A o \in Threads : owner[o] # NULL => o = box /\ at[owner[o]] = "held"
    /\ \A p \in Threads : at[p] = "cas" => obj[p] = p
    /\ \A p \in Threads : at[p] \in {"init", "cas"} => box # p

(* Every step of a PthreadMutex keeps its invariant. *)
LEMMA LazyInvariant == LazySpec => []LazyInv
<1>1. LazyInit => LazyInv
  BY PthreadAssumption DEF LazyInit, LazyInv, LazyTypeOK, OneObject
<1>2. LazyInv /\ [LazyNext]_lazyVars => LazyInv'
  <2> SUFFICES ASSUME LazyInv, [LazyNext]_lazyVars PROVE LazyInv'
    OBVIOUS
  <2> USE PthreadAssumption DEF LazyInv, LazyTypeOK, OneObject
  <2>1. ASSUME NEW p \in Threads, Get(p) PROVE LazyInv'
    BY <2>1 DEF Get
  <2>2. ASSUME NEW p \in Threads, Allocate(p) PROVE LazyInv'
    BY <2>2 DEF Allocate
  <2>3. ASSUME NEW p \in Threads, Install(p) PROVE LazyInv'
    BY <2>3 DEF Install
  <2>4. ASSUME NEW p \in Threads, LockRaw(p) PROVE LazyInv'
    BY <2>4 DEF LockRaw
  <2>5. ASSUME NEW p \in Threads, UnlockRaw(p) PROVE LazyInv'
    BY <2>5 DEF UnlockRaw
  <2>6. CASE Drop
    BY <2>6 DEF Drop
  <2>7. CASE UNCHANGED lazyVars
    BY <2>7 DEF lazyVars
  <2> QED
    BY <2>1, <2>2, <2>3, <2>4, <2>5, <2>6, <2>7 DEF LazyNext
<1> QED
  BY <1>1, <1>2, PTL DEF LazySpec

(* A PthreadMutex excludes although the first threads race to allocate it. *)
THEOREM LazyExclusive == LazySpec => []LazyMutexExcludes
<1>1. LazyInv => LazyMutexExcludes
  BY DEF LazyInv, LazyMutexExcludes
<1> QED
  BY <1>1, LazyInvariant, PTL

(* The threads that lose the race neither leak their objects nor free the  *)
(* one that is used.                                                       *)
THEOREM LazyMutexSafe == LazySpec => []OneObject
<1>1. LazyInv => OneObject
  BY DEF LazyInv
<1> QED
  BY <1>1, LazyInvariant, PTL

-----------------------------------------------------------------------------
Primitives == {"condvar", "futex", "spin", "pthread"}
ParkerPC == {"idle", "lock", "cas", "sleep", "wait", "unlock", "signal", "wake"}

(* The state tells whether somebody parks: it is not EMPTY then, and       *)
(* PARKED only then.                                                       *)
StateInv ==
    /\ built \in Primitives
    /\ StateIsOneOfThree
    /\ ~IsParker => state = 0 /\ ~asleep
    /\ IsParker => /\ pc \in [Procs -> ParkerPC]
                   /\ pc[PARKER] # "idle" => state # 0
                   /\ pc[PARKER] = "idle" => state # Max

(* The mutex of StdParker and PthreadParker; a thread that is about to     *)
(* sleep holds it, so that an unpark which has seen PARKED waits for it.   *)
CondvarInv ==
    built = "condvar" =>
        /\ pc[PARKER] \in {"cas", "sleep"} => mutex = PARKER
        /\ \A u \in Unparkers : pc[u] = "unlock" => mutex = u
        /\ pc[PARKER] = "sleep" /\ state = 1 => \E u \in Unparkers : pc[u] = "lock"
        /\ asleep => pc[PARKER] = "wait"

FutexInv == built = "futex" => (asleep => pc[PARKER] = "sleep")

SyncInv == StateInv /\ CondvarInv /\ FutexInv /\ SleeperIsSignalled

(* The words EMPTY, NOTIFIED and PARKED are told apart, and the decrement  *)
(* of park leads from one to the next.                                     *)
LEMMA Words ==
    /\ Max \in Nat /\ Max > 1 /\ PARKER \in Procs /\ Condvar!NONE \notin Procs
    /\ Condvar!EMPTY = 0 /\ Condvar!NOTIFIED = 1 /\ Condvar!PARKED = Max
    /\ Futex!EMPTY = 0 /\ Futex!NOTIFIED = 1 /\ Futex!PARKED = Max
    /\ (0 + Max) % (Max + 1) = Max /\ (1 + Max) % (Max + 1) = 0
  BY SyncAssumption DEF Condvar!EMPTY, Condvar!NOTIFIED, Condvar!PARKED,
     Futex!EMPTY, Futex!NOTIFIED, Futex!PARKED

(* What a step of a parker does to the state and to the place of the       *)
(* thread that parks.                                                      *)
Sleeps   == state' = state /\ pc[PARKER] # "idle" /\ pc'[PARKER] # "idle"
Stays    == state' = state /\ pc'[PARKER] = pc[PARKER]
Notifies == state' = 1 /\ pc'[PARKER] = pc[PARKER]
Parks    == pc[PARKER] = "idle" /\ state = 0 /\ state' = Max /\ pc'[PARKER] # "idle"
Consumes == pc[PARKER] = "idle" /\ state = 1 /\ state' = 0 /\ pc'[PARKER] = "idle"
Returns  == pc[PARKER] # "idle" /\ state = 1 /\ state' = 0 /\ pc'[PARKER] = "idle"
ParkerStep == Sleeps \/ Stays \/ Notifies \/ Parks \/ Consumes \/ Returns

(* Every step of StdParker and PthreadParker keeps the invariant. *)
LEMMA CondvarStep ==
    ASSUME SyncInv, UNCHANGED built, built = "condvar", Condvar!Next
    PROVE  SyncInv' /\ ParkerStep
<1> USE Words DEF SyncInv, StateInv, CondvarInv, FutexInv, SleeperIsSignalled, StateIsOneOfThree,
        IsParker, Primitives, ParkerPC, ParkerStep, PARKER, Unparkers, Condvar!Goto, Condvar!PARKER
<1>1. CASE Condvar!ParkSub
  BY <1>1 DEF Condvar!ParkSub, Parks, Consumes
<1>2. CASE Condvar!ParkLock
  BY <1>2 DEF Condvar!ParkLock, Sleeps
<1>3. CASE Condvar!ParkCas
  BY <1>3 DEF Condvar!ParkCas, Sleeps, Returns
<1>4. CASE Condvar!ParkSleep
  BY <1>4 DEF Condvar!ParkSleep, Sleeps
<1>5. CASE Condvar!ParkWoken
  BY <1>5 DEF Condvar!ParkWoken, Sleeps
<1>6. CASE Condvar!SpuriousWakeup
  BY <1>6 DEF Condvar!SpuriousWakeup, Stays
<1>7. ASSUME NEW u \in Unparkers, Condvar!UnparkSwap(u) PROVE SyncInv' /\ ParkerStep
  BY <1>7 DEF Condvar!UnparkSwap, Notifies
<1>8. ASSUME NEW u \in Unparkers, Condvar!UnparkLock(u) PROVE SyncInv' /\ ParkerStep
  BY <1>8 DEF Condvar!UnparkLock, Stays
<1>9. ASSUME NEW u \in Unparkers, Condvar!UnparkUnlock(u) PROVE SyncInv' /\ ParkerStep
  BY <1>9 DEF Condvar!UnparkUnlock, Stays
<1>10. ASSUME NEW u \in Unparkers, Condvar!UnparkSignal(u) PROVE SyncInv' /\ ParkerStep
  BY <1>10 DEF Condvar!UnparkSignal, Stays
<1> QED
  BY <1>1, <1>2, <1>3, <1>4, <1>5, <1>6, <1>7, <1>8, <1>9, <1>10 DEF Condvar!Next, Condvar!ParkStep, Condvar!Signal

(* Every step of AtomicParker keeps the invariant. *)
LEMMA FutexStep ==
    ASSUME SyncInv, UNCHANGED built, built = "futex", Futex!Next
    PROVE  SyncInv' /\ ParkerStep
<1> USE Words DEF SyncInv, StateInv, CondvarInv, FutexInv, SleeperIsSignalled, StateIsOneOfThree,
        IsParker, Primitives, ParkerPC, ParkerStep, PARKER, Unparkers, Futex!Goto, Futex!PARKER
<1>1. CASE Futex!ParkSub
  BY <1>1 DEF Futex!ParkSub, Parks, Consumes
<1>2. CASE Futex!ParkWait
  <2>1. asleep' = (state = Max)
    BY <1>2, Zenon DEF Futex!ParkWait, Futex!PARKED
  <2>2. Max # 1
    BY Words
  <2> HIDE DEF SyncInv
  <2>3. asleep' => state # 1
    BY <2>1, <2>2
  <2> QED
    BY <1>2, <2>3 DEF Futex!ParkWait, Sleeps, SyncInv
<1>3. CASE Futex!ParkWoken
  BY <1>3 DEF Futex!ParkWoken, Sleeps
<1>4. CASE Futex!ParkCas
  BY <1>4 DEF Futex!ParkCas, Sleeps, Returns
<1>5. CASE Futex!SpuriousWakeup
  BY <1>5 DEF Futex!SpuriousWakeup, Stays
<1>6. ASSUME NEW u \in Unparkers, Futex!UnparkSwap(u) PROVE SyncInv' /\ ParkerStep
  BY <1>6 DEF Futex!UnparkSwap, Notifies
<1>7. ASSUME NEW u \in Unparkers, Futex!UnparkWake(u) PROVE SyncInv' /\ ParkerStep
  BY <1>7 DEF Futex!UnparkWake, Stays
<1> QED
  BY <1>1, <1>2, <1>3, <1>4, <1>5, <1>6, <1>7 DEF Futex!Next, Futex!ParkStep

(* In the beginning nobody parks. *)
LEMMA SyncInit == InitSync => SyncInv
  BY Words DEF InitSync, Init, Condvar!Init, SyncInv, StateInv, CondvarInv, FutexInv,
     SleeperIsSignalled, StateIsOneOfThree, IsParker, Primitives, ParkerPC, PARKER, Unparkers,
     Condvar!Users, Condvar!PARKER

(* A step of a parker is one of those above; the mutexes leave the parkers *)
(* alone.                                                                  *)
LEMMA SyncStep ==
    ASSUME SyncInv, [NextSync]_syncVars
    PROVE  /\ SyncInv'
           /\ IsParker => ParkerStep
           /\ ~IsParker => UNCHANGED <<state, built>>
<1>1. CASE UseCondvar(Condvar!Next)
  BY <1>1, CondvarStep DEF UseCondvar, IsParker
<1>2. CASE UseFutex(Futex!Next)
  BY <1>2, FutexStep DEF UseFutex, IsParker
<1>3. CASE built \in {"spin", "pthread"} /\ UNCHANGED <<built, parkerVars>>
  BY <1>3 DEF parkerVars, SyncInv, StateInv, CondvarInv, FutexInv,
     SleeperIsSignalled, StateIsOneOfThree, IsParker
<1>4. CASE UNCHANGED syncVars
  BY <1>4 DEF syncVars, parkerVars, vars, SyncInv, StateInv, CondvarInv, FutexInv, SleeperIsSignalled,
     StateIsOneOfThree, IsParker, ParkerStep, Stays
<1> QED
  BY <1>1, <1>2, <1>3, <1>4 DEF NextSync

(* The invariant of the parkers. *)
LEMMA SyncInvariant == SafeSync => []SyncInv
<1>1. SyncInv /\ [NextSync]_syncVars => SyncInv'
  BY SyncStep
<1> QED
  BY <1>1, SyncInit, PTL DEF SafeSync

(* The decrement of park meets no other value than EMPTY and NOTIFIED, so  *)
(* that the state never runs away, whatever the width of the word.         *)
THEOREM StateOfParkers == SpecSync => []StateIsOneOfThree
<1>1. SyncInv => StateIsOneOfThree
  BY DEF SyncInv, StateInv
<1> QED
  BY <1>1, SyncInvariant, PTL DEF SpecSync

(* A thread that sleeps although it was notified will be signalled. *)
THEOREM NoSignalIsLost == SpecSync => []SleeperIsSignalled
<1>1. SyncInv => SleeperIsSignalled
  BY DEF SyncInv
<1> QED
  BY <1>1, SyncInvariant, PTL DEF SpecSync

(* StdParker, PthreadParker and AtomicParker implement the token of trait  *)
(* Parker: every step is one of the token's, or changes nothing of it.     *)
THEOREM TokenIsKept == SpecSync => Abstract!Init /\ [][Abstract!Next]_(Abstract!vars)
<1>1. InitSync => Abstract!Init
  BY Words DEF InitSync, Init, Condvar!Init, Abstract!Init, IsParker
<1>2. SyncInv /\ [NextSync]_syncVars => [Abstract!Next]_(Abstract!vars)
  <2> SUFFICES ASSUME SyncInv, [NextSync]_syncVars PROVE [Abstract!Next]_(Abstract!vars)
    OBVIOUS
  <2>1. (IsParker => ParkerStep) /\ (~IsParker => UNCHANGED <<state, built>>) /\ UNCHANGED built
    BY SyncStep DEF NextSync, UseCondvar, UseFutex, syncVars
  <2> USE Words DEF Abstract!Next, Abstract!vars, IsParker
  <2>2. CASE IsParker /\ (Sleeps \/ Stays)
    BY <2>1, <2>2 DEF Sleeps, Stays
  <2>3. CASE IsParker /\ Notifies
    BY <2>1, <2>3 DEF Notifies, Abstract!Unpark
  <2>4. CASE IsParker /\ Parks
    BY <2>1, <2>4 DEF Parks, Abstract!Park
  <2>5. CASE IsParker /\ Consumes
    BY <2>1, <2>5 DEF Consumes, Abstract!ParkNotified
  <2>6. CASE IsParker /\ Returns
    BY <2>1, <2>6 DEF Returns, Abstract!Wake
  <2>7. CASE ~IsParker
    BY <2>1, <2>7
  <2> QED
    BY <2>1, <2>2, <2>3, <2>4, <2>5, <2>6, <2>7 DEF ParkerStep
<1> QED
  BY <1>1, <1>2, SyncInvariant, PTL DEF SpecSync, SafeSync
=============================================================================
