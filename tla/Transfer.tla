------------------------------- MODULE Transfer -------------------------------
(***************************************************************************)
(* What tg_get_document promises its caller: the pieces of the document    *)
(* reach the callback in order, none twice and none left out, and success  *)
(* is reported only when all of them have.                                 *)
(***************************************************************************)
EXTENDS Naturals, Sequences

CONSTANTS
  Op,         \* downloads
  Total       \* per download: the number of pieces of its document

VARIABLES
  status,     \* per download: "idle", "active", "whole" or "failed"
  delivered   \* per download: the numbers of the pieces given to the callback

tvars == <<status, delivered>>

TInit ==
  /\ status = [o \in Op |-> "idle"]
  /\ delivered = [o \in Op |-> <<>>]

Begin(o) ==
  /\ status[o] = "idle"
  /\ status' = [status EXCEPT ![o] = "active"]
  /\ UNCHANGED delivered

\* The next pieces, numbered from where the last ones ended.
Deliver(o) ==
  /\ status[o] = "active"
  /\ \E n \in 0 .. Total[o] :
       /\ Len(delivered[o]) + n <= Total[o]
       /\ delivered' = [delivered EXCEPT ![o] =
                          @ \o [i \in 1 .. n |-> Len(@) + i]]
  /\ UNCHANGED status

Succeed(o) ==
  /\ status[o] = "active" /\ Len(delivered[o]) = Total[o]
  /\ status' = [status EXCEPT ![o] = "whole"]
  /\ UNCHANGED delivered

\* A download fails, or the application ends and all unfinished ones with it.
\* What reached the callback of a failed one counts for nothing.
Fail(S) ==
  /\ \A o \in S : status[o] \in {"idle", "active"}
  /\ status' = [o \in Op |-> IF o \in S THEN "failed" ELSE status[o]]
  /\ delivered' = [o \in Op |-> IF o \in S THEN <<>> ELSE delivered[o]]

TNext ==
  \/ \E o \in Op : Begin(o) \/ Deliver(o) \/ Succeed(o)
  \/ \E S \in SUBSET Op : Fail(S)

TSpec == TInit /\ [][TNext]_tvars
=============================================================================
