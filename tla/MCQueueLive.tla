---------------------------- MODULE MCQueueLive ----------------------------
(***************************************************************************)
(* The queue as its target builds it, one in each behaviour: with a        *)
(* parker, on x86_64 ("swap") and elsewhere ("store").                     *)
(***************************************************************************)
CONSTANTS Nodes, Lockers, States, Default

VARIABLES
    built,      \* how a remover waits, chosen when the crate is built
    tail, next, prev, parkedNext, token, mutex, live, pc, seen, dropping,
    cur, pre, newTail, isEmpty, loc, nxt, ret

Swap  == INSTANCE Queue WITH Parking <- "swap"
Store == INSTANCE Queue WITH Parking <- "store"

Build(A, B) == \/ built = "swap" /\ A /\ UNCHANGED built
               \/ built = "store" /\ B /\ UNCHANGED built

LiveInit == built \in {"swap", "store"} /\ Swap!Init
LiveNext == Build(Swap!Next, Store!Next)
LiveVars == <<built, Swap!vars>>

(* With Fairness of module Queue, for the build that runs. *)
LiveSpec ==
    /\ LiveInit /\ [][LiveNext]_LiveVars
    /\ \A n \in Nodes : WF_LiveVars(Build(Swap!Link(n), Store!Link(n)))
    /\ \A p \in Nodes \cup Lockers :
        /\ WF_LiveVars(Build(Swap!GetNextStep(p), Store!GetNextStep(p)))
        /\ WF_LiveVars(Build(Swap!RemoveStep(p), Store!RemoveStep(p)))
    /\ \A l \in Lockers : WF_LiveVars(Build(Swap!DrainStep(l), Store!DrainStep(l)))

(* A remover that waits for an inserter is released, and every removal     *)
(* ends, whichever of the two handshakes of get_next and enqueue the       *)
(* target has: see module Queue.                                           *)
RemovalCompletes == Swap!RemovalCompletes
=============================================================================
