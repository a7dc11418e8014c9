---------------------------- MODULE PthreadMutex ----------------------------
(***************************************************************************)
(* PthreadMutex of src/sync/pthread.rs: a mutex of libc in a LazyBox, that *)
(* is allocated by the first thread that locks.  The object a thread       *)
(* allocates is named after the thread.  The condition variable of         *)
(* PthreadParker lives in a LazyBox of its own.                            *)
(***************************************************************************)
CONSTANT Threads

NULL == "null"

ASSUME PthreadAssumption == NULL \notin Threads

VARIABLES
    box,        \* LazyBox: the pointer
    alive,      \* the objects that were allocated and not freed
    owner,      \* owner[o]: the thread that holds the pthread mutex o
    obj,        \* obj[p]: the object p has got from the box
    at          \* where each thread stands

lazyVars == <<box, alive, owner, obj, at>>

LazyInit ==
    /\ box = NULL
    /\ alive = {}
    /\ owner = [o \in Threads |-> NULL]
    /\ obj = [p \in Threads |-> NULL]
    /\ at = [p \in Threads |-> "idle"]

(* lock: get_or_init *)
Get(p) ==
    /\ at[p] = "idle"
    /\ obj' = [obj EXCEPT ![p] = box]
    /\ at' = [at EXCEPT ![p] = IF box = NULL THEN "init" ELSE "lock"]
    /\ UNCHANGED <<box, alive, owner>>

(* init: RawMutex::init allocates, ... *)
Allocate(p) ==
    /\ at[p] = "init"
    /\ alive' = alive \cup {p}
    /\ obj' = [obj EXCEPT ![p] = p]
    /\ at' = [at EXCEPT ![p] = "cas"]
    /\ UNCHANGED <<box, owner>>

\* Mutant: the pointer is stored whatever the box holds.
InstallAlways(p) ==
    /\ at[p] = "cas"
    /\ box' = obj[p]
    /\ at' = [at EXCEPT ![p] = "lock"]
    /\ UNCHANGED <<alive, owner, obj>>

\* Mutant: the thread that lost keeps its object.
InstallLeak(p) ==
    /\ at[p] = "cas"
    /\ box' = IF box = NULL THEN obj[p] ELSE box
    /\ obj' = [obj EXCEPT ![p] = box']
    /\ at' = [at EXCEPT ![p] = "lock"]
    /\ UNCHANGED <<alive, owner>>

(* ... and compare_exchange installs the object, or it is freed and the    *)
(* one that is there is used.                                              *)
Install(p) ==
    /\ at[p] = "cas"
    /\ \/ box = NULL /\ box' = obj[p] /\ UNCHANGED <<alive, obj>>
       \/ /\ box # NULL
          /\ alive' = alive \ {obj[p]}
          /\ obj' = [obj EXCEPT ![p] = box]
          /\ UNCHANGED box
    /\ at' = [at EXCEPT ![p] = "lock"]
    /\ UNCHANGED owner

(* pthread_mutex_lock *)
LockRaw(p) ==
    /\ at[p] = "lock"
    /\ owner[obj[p]] = NULL
    /\ owner' = [owner EXCEPT ![obj[p]] = p]
    /\ obj' = [obj EXCEPT ![p] = NULL]
    /\ at' = [at EXCEPT ![p] = "held"]
    /\ UNCHANGED <<box, alive>>

(* unlock asks the box once more. *)
UnlockRaw(p) ==
    /\ at[p] = "held"
    /\ owner' = [owner EXCEPT ![box] = NULL]
    /\ at' = [at EXCEPT ![p] = "idle"]
    /\ UNCHANGED <<box, alive, obj>>

(* The mutex is dropped: nobody uses it any more.  Another one is new. *)
Drop ==
    /\ box # NULL
    /\ \A p \in Threads : at[p] = "idle"
    /\ alive' = alive \ {box}
    /\ box' = NULL
    /\ UNCHANGED <<owner, obj, at>>

LazyNext == Drop \/ \E p \in Threads : Get(p) \/ Allocate(p) \/ Install(p) \/ LockRaw(p) \/ UnlockRaw(p)

LazySpec == LazyInit /\ [][LazyNext]_lazyVars

(* The safety contract of trait Mutex, although the first threads race to  *)
(* allocate the object that they lock.                                     *)
LazyMutexExcludes == \A p, q \in Threads : at[p] = "held" /\ at[q] = "held" => p = q

(* Everybody locks the object in the box, it has not been freed, and the   *)
(* objects of the threads that lost the race are not leaked: those alive   *)
(* are in the box or about to be offered to it.                            *)
OneObject ==
    /\ \A p \in Threads : at[p] \in {"lock", "held"} => box # NULL
    /\ \A p \in Threads : at[p] = "lock" => obj[p] = box
    /\ alive = {o \in Threads : o = box \/ at[o] = "cas"}
=============================================================================
