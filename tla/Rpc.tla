--------------------------------- MODULE Rpc ---------------------------------
(***************************************************************************)
(* What the request runtime promises the application: a call is answered   *)
(* at most once, or cancelled, and either is final.  A call may stay       *)
(* pending for ever: a failed connection or the timer ends a query without *)
(* a callback.                                                             *)
(***************************************************************************)
CONSTANT Request
VARIABLE status

Init == status = [r \in Request |-> "idle"]

Call(r) ==
  /\ status[r] = "idle"
  /\ status' = [status EXCEPT ![r] = "pending"]

Reply(r) ==
  /\ status[r] = "pending"
  /\ status' = [status EXCEPT ![r] = "answered"]

\* One call, or all of those waiting, are cancelled at once.
CancelSome(S) ==
  /\ \A r \in S : status[r] = "pending"
  /\ status' = [r \in Request |-> IF r \in S THEN "cancelled" ELSE status[r]]

Next ==
  \/ \E r \in Request : Call(r) \/ Reply(r)
  \/ \E S \in SUBSET Request : CancelSome(S)

Spec == Init /\ [][Next]_status
=============================================================================
