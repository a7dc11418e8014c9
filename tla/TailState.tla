----------------------------- MODULE TailState -----------------------------
(***************************************************************************)
(* The word Queue::tail (src/queue/state.rs): the address of a node, or    *)
(* the state of an empty queue, in one usize.  Each type of state has its  *)
(* own encoding; bit operations are written with % and \div.               *)
(***************************************************************************)
EXTENDS Integers

CONSTANT UsizeMax   \* usize::MAX

ASSUME UsizeAssumption == UsizeMax \in Nat /\ UsizeMax > 1 /\ UsizeMax % 2 = 1

Word == 0..UsizeMax

(* Addresses of nodes: NodeLink is aligned to 4 bytes and not null. *)
NodeAddress == {a \in Word : a % 4 = 0 /\ a # 0}

(* StateOrPtr *)
State(s) == [tag |-> "state", val |-> s]
Ptr(a)   == [tag |-> "ptr", val |-> a]

SetFlag(a)   == (a - (a % 2)) + 1   \* addr | TAIL_FLAG
ClearFlag(a) == a - (a % 2)       \* addr & !TAIL_FLAG

INTRUSIVE_QUEUE_MAX_STATE == UsizeMax \div 2

(* state_to_ptr panics if a bit would be shifted out. *)
StateOverflows(s) == s > INTRUSIVE_QUEUE_MAX_STATE

(* state << STATE_SHIFT: what it shifts out of the word is lost. *)
StateToPtr(s) == (2 * s) % (UsizeMax + 1)

(* usize *)
UsizeToTail(x) == IF x.tag = "state" THEN StateToPtr(x.val) ELSE SetFlag(x.val)
TailToUsize(w) == IF w % 2 # 0 THEN Ptr(ClearFlag(w)) ELSE State(w \div 2)

(* The unit state, () . *)
Unit == "()"
UnitToTail(x) == IF x.tag = "state" THEN 0 ELSE x.val
TailToUnit(w) == IF w # 0 THEN Ptr(w) ELSE State(Unit)

(* Pointers, *mut T: check_alignment clears the bit that tells nodes from states. *)
PointerToTail(x) == IF x.tag = "state" THEN ClearFlag(x.val) ELSE SetFlag(x.val)
TailToPointer(w) == IF w % 2 # 0 THEN Ptr(ClearFlag(w)) ELSE State(w)
=============================================================================
