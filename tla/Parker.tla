------------------------------- MODULE Parker -------------------------------
(***************************************************************************)
(* What trait Parker promises to the queue: unpark leaves one notification *)
(* behind, however many there are, and park returns once there is one,     *)
(* consuming it.  One thread parks at a time.                              *)
(***************************************************************************)
VARIABLES
    token,      \* a notification is pending
    waiting     \* a call of park is in progress

vars == <<token, waiting>>

Init == token = FALSE /\ waiting = FALSE

Unpark == token' = TRUE /\ UNCHANGED waiting

Park == ~waiting /\ ~token /\ waiting' = TRUE /\ UNCHANGED token

(* park finds a notification at once ... *)
ParkNotified == ~waiting /\ token /\ token' = FALSE /\ UNCHANGED waiting

(* ... or later. *)
Wake == waiting /\ token /\ token' = FALSE /\ waiting' = FALSE

Next == Unpark \/ Park \/ ParkNotified \/ Wake

Spec == Init /\ [][Next]_vars /\ WF_vars(Wake)
=============================================================================
