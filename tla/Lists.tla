------------------------------- MODULE Lists -------------------------------
(***************************************************************************)
(* The lists of waiting nodes, as WaitQueue, Notify and Semaphore see them *)
(* through AtomicQueue: the queue itself and what a drain still holds.     *)
(***************************************************************************)
EXTENDS Naturals, Sequences

InSeq(x, s) == \E i \in 1..Len(s) : s[i] = x

(* A node is at one place only. *)
Distinct(s) == \A i, j \in 1..Len(s) : s[i] = s[j] => i = j

RemoveAt(s, i) == SubSeq(s, 1, i - 1) \o SubSeq(s, i + 1, Len(s))

(* NodeLink unlinked: the list without the place where x is. *)
Without(s, x) ==
    IF InSeq(x, s) THEN RemoveAt(s, CHOOSE i \in 1..Len(s) : s[i] = x) ELSE s
=============================================================================
