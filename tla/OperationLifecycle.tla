------------------------- MODULE OperationLifecycle -------------------------
(***************************************************************************)
(* What doc/rest-api.md promises of a background operation: it is Pending, *)
(* then Running; it may be asked to cancel; it reaches one final state and *)
(* keeps it, and who waits for it is told that final state.                *)
(***************************************************************************)
EXTENDS Naturals

CONSTANTS Waiter, Unseen

VARIABLES status, told

avars == <<status, told>>

FinalStatus == {"Success", "Failure", "Cancelled"}
Status == {"Pending", "Running", "Cancelling"} \cup FinalStatus

Init == status = "Pending" /\ told = [w \in Waiter |-> Unseen]

Run == status = "Pending" /\ status' = "Running" /\ UNCHANGED told

Cancel == status = "Running" /\ status' = "Cancelling" /\ UNCHANGED told

Finish ==
  /\ status \in {"Running", "Cancelling"}
  /\ status' \in FinalStatus
  /\ UNCHANGED told

Tell(w) ==
  /\ told[w] = Unseen
  /\ status \in FinalStatus
  /\ told' = [told EXCEPT ![w] = status]
  /\ UNCHANGED status

Next == Run \/ Cancel \/ Finish \/ \E w \in Waiter : Tell(w)

Spec == Init /\ [][Next]_avars
=============================================================================
