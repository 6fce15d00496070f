---------------------------- MODULE TgQueueProofs ----------------------------
(***************************************************************************)
(* Theorems about the request runtime (module TgQueue), for every number   *)
(* of objects, queries and descriptors.                                    *)
(***************************************************************************)
EXTENDS TgQueue, TLAPS

\* A step is one of the actions: the case split every proof below uses.
LEMMA StepCases ==
  ASSUME Next
  PROVE  \/ \E rq \in Request : tg_send_query_async(rq)
         \/ CancelCut \/ CancelStop \/ tg_queue_cancell_all
         \/ \E q \in Queue :
              \/ ReceivePackage(q) \/ ReceiveBadSalt(q) \/ ReceiveError(q)
              \/ ReceiveEof(q) \/ SpinEnds(q) \/ ProgressStop(q)
              \/ \E k \in Delivering \cup Resending : Catch(q, k)
              \/ \E k \in Resending : BareError(q, k)
              \/ OpenSocket(q) \/ OpenFails(q) \/ tg_queue_add(q) \/ tg_send(q)
              \/ SendFails(q) \/ LoopTop(q) \/ PackageEnd(q) \/ CheckLoop(q)
              \/ LockQueue(q) \/ OnDone(q) \/ SetServerAddress(q)
              \/ SaveAddress(q) \/ Resend(q) \/ Finish(q) \/ CloseSocket(q)
              \/ RunExit(q) \/ TimerFires(q) \/ TimerFrees(q)
BY DEF Next, Application, Network, RunThread, Timer

(***************************************************************************)
(* Type correctness.  That calls stays a function on objects needs to      *)
(* know that a thread about to run on_done has one: TakerHasObject.        *)
(***************************************************************************)

\* A message id is a number.
LEMMA NextMsgIdType ==
  ASSUME TypeOK, NEW m \in NextMsgId
  PROVE  m \in Nat
BY DEF TypeOK, NextMsgId

\* Every step keeps the type.
LEMMA TypeStep ==
  ASSUME TypeOK, TakerHasObject, [Next]_vars
  PROVE  TypeOK'
<1> USE ConstantsAssumption DEF TypeOK, Location, Delivering, Resending,
        catchVars, wireVars, netVars, addrVars, appVars, histVars, auxVars, Goto,
        LeaveReceive
<1>1. ASSUME NEW rq \in Request, tg_send_query_async(rq) PROVE TypeOK'
  BY <1>1 DEF tg_send_query_async, tg_queue_new, Fresh, Goto
<1>2. CASE CancelCut
  BY <1>2 DEF CancelCut, Cut, Matching
<1>3. CASE CancelStop
  BY <1>3 DEF CancelStop
<1>4. CASE tg_queue_cancell_all
  BY <1>4 DEF tg_queue_cancell_all
<1>5. ASSUME NEW q \in Queue, ReceivePackage(q) PROVE TypeOK'
  BY <1>5 DEF ReceivePackage
<1>6. ASSUME NEW q \in Queue, ReceiveBadSalt(q) PROVE TypeOK'
  BY <1>6 DEF ReceiveBadSalt
<1>7. ASSUME NEW q \in Queue, ReceiveError(q) PROVE TypeOK'
  BY <1>7 DEF ReceiveError
<1>8. ASSUME NEW q \in Queue, ReceiveEof(q) PROVE TypeOK'
  <3>1. socket_mutex' \in BOOLEAN
    BY <1>8 DEF ReceiveEof
  <3>2. pc' \in [Queue -> Location]
    BY <1>8 DEF ReceiveEof
  <3> QED
    BY <3>1, <3>2, <1>8 DEF ReceiveEof
<1>9. ASSUME NEW q \in Queue, ProgressStop(q) PROVE TypeOK'
  <3>1. msgid[q] \in Nat /\ todrop' = todrop \cup {msgid[q]}
    BY <1>9 DEF ProgressStop
  <3>2. todrop' \subseteq Nat
    BY <3>1
  <3> QED
    BY <3>2, <1>9 DEF ProgressStop
<1>31. ASSUME NEW q \in Queue, SpinEnds(q) PROVE TypeOK'
  <3>1. msgid[q] \in Nat /\ todrop' \in {todrop, todrop \cup {msgid[q]}}
    BY <1>31 DEF SpinEnds
  <3>2. todrop' \subseteq Nat
    BY <3>1
  <3> QED
    BY <3>2, <1>31 DEF SpinEnds
<1>10. ASSUME NEW q \in Queue, OpenSocket(q) PROVE TypeOK'
  BY <1>10 DEF OpenSocket
<1>11. ASSUME NEW q \in Queue, OpenFails(q) PROVE TypeOK'
  BY <1>11 DEF OpenFails
<1>12. ASSUME NEW q \in Queue, tg_queue_add(q) PROVE TypeOK'
  BY <1>12 DEF tg_queue_add
<1>13. ASSUME NEW q \in Queue, tg_send(q) PROVE TypeOK'
  BY <1>13 DEF tg_send, NextMsgId, Tied
<1>14. ASSUME NEW q \in Queue, SendFails(q) PROVE TypeOK'
  <3>1. loop' \in [Queue -> BOOLEAN]
    BY <1>14 DEF SendFails
  <3>2. msgid' \in [Queue -> Nat] /\ clock' \in Nat
    BY <1>14, NextMsgIdType DEF SendFails
  <3>3. fds' \in [Fd -> Queue \cup {None}] /\ pc' \in [Queue -> Location]
    BY <1>14 DEF SendFails
  <3>4. tied' \subseteq Queue /\ astray' \subseteq Queue
    BY <1>14 DEF SendFails, Tied, Opener
  <3> QED
    BY <3>1, <3>2, <3>3, <3>4, <1>14 DEF SendFails
<1>15. ASSUME NEW q \in Queue, LoopTop(q) PROVE TypeOK'
  <3>1. socket_mutex' \in {socket_mutex, TRUE}
    BY <1>15 DEF LoopTop
  <3>2. pc' \in [Queue -> Location]
    BY <1>15 DEF LoopTop
  <3> QED
    BY <3>1, <3>2, <1>15 DEF LoopTop
<1>16. ASSUME NEW q \in Queue, PackageEnd(q) PROVE TypeOK'
  BY <1>16 DEF PackageEnd
<1>17. ASSUME NEW q \in Queue, CheckLoop(q) PROVE TypeOK'
  BY <1>17 DEF CheckLoop
<1>18. ASSUME NEW q \in Queue, LockQueue(q) PROVE TypeOK'
  BY <1>18 DEF LockQueue
<1>19. ASSUME NEW q \in Queue, OnDone(q) PROVE TypeOK'
  <3>1. hold[q] \in Queue
    BY <1>19 DEF OnDone, TakerHasObject
  <3>2. calls' \in [Queue -> Nat]
    BY <3>1, <1>19 DEF OnDone
  <3> QED
    BY <3>2, <1>19 DEF OnDone
<1>20. ASSUME NEW q \in Queue, SetServerAddress(q) PROVE TypeOK'
  BY <1>20 DEF SetServerAddress
<1>21. ASSUME NEW q \in Queue, SaveAddress(q) PROVE TypeOK'
  <3>1. goal[q] \in Dc
    BY <1>21 DEF SaveAddress, TakerHasObject
  <3> QED
    BY <3>1, <1>21 DEF SaveAddress
<1>22. ASSUME NEW q \in Queue, Resend(q) PROVE TypeOK'
  <3> DEFINE c == IF hold[q] = None THEN q ELSE hold[q]
  <3>1. c \in Queue
    OBVIOUS
  <3>2. PICK n \in Fresh, ip \in Dc :
          /\ tg_queue_new(n, req[c], ip)
          /\ resent' = resent \cup {c}
          /\ \/ /\ loop' = [loop EXCEPT ![n] = TRUE, ![q] = FALSE]
                /\ pc' = [pc EXCEPT ![n] = "start", ![q] = "handle"]
             \/ /\ loop' = [loop EXCEPT ![n] = TRUE]
                /\ pc' = [pc EXCEPT ![n] = "start", ![q] = "finish"]
    BY <1>22 DEF Resend
  <3>3. n \in Queue
    BY DEF Fresh
  <3>4. /\ timer' \in [Queue -> {"none", "sleep", "wait", "done"}]
        /\ req' \in [Queue -> Request \cup {None}]
        /\ dst' \in [Queue -> Dc \cup {None}]
        /\ resent' \subseteq Queue
    BY <3>1, <3>2, <3>3 DEF tg_queue_new
  <3>5. loop' \in [Queue -> BOOLEAN]
    BY <3>2, <3>3
  <3>7. pc' \in [Queue -> Location]
    BY <3>2, <3>3
  <3>6. kind' \in [Queue -> Delivering \cup Resending \cup {"none", "resent"}]
    BY <1>22 DEF Resend
  <3> QED
    BY <3>4, <3>5, <3>6, <3>7, <1>22 DEF Resend
<1>23. ASSUME NEW q \in Queue, Finish(q) PROVE TypeOK'
  BY <1>23 DEF Finish
<1>24. ASSUME NEW q \in Queue, CloseSocket(q) PROVE TypeOK'
  BY <1>24 DEF CloseSocket, Opener
<1>25. ASSUME NEW q \in Queue, RunExit(q) PROVE TypeOK'
  BY <1>25 DEF RunExit, Cut, Matching
<1>26. ASSUME NEW q \in Queue, TimerFires(q) PROVE TypeOK'
  BY <1>26 DEF TimerFires
<1>27. ASSUME NEW q \in Queue, TimerFrees(q) PROVE TypeOK'
  BY <1>27 DEF TimerFrees
<1>28. ASSUME NEW q \in Queue, NEW k \in Delivering \cup Resending, Catch(q, k) PROVE TypeOK'
  BY <1>28 DEF Catch, Cut, Matching
<1>29. ASSUME NEW q \in Queue, NEW k \in Resending, BareError(q, k) PROVE TypeOK'
  BY <1>29 DEF BareError
<1>30. CASE UNCHANGED vars
  BY <1>30 DEF vars
<1> HIDE DEF TypeOK, Location, Delivering, Resending, catchVars, wireVars,
        netVars, addrVars, appVars, histVars, auxVars, Goto, LeaveReceive
<1> QED
  BY <1>1, <1>2, <1>3, <1>4, <1>5, <1>6, <1>7, <1>8, <1>9, <1>10,
     <1>11, <1>12, <1>13, <1>14, <1>15, <1>16, <1>17, <1>18, <1>19,
     <1>20, <1>21, <1>22, <1>23, <1>24, <1>25, <1>26, <1>27, <1>28,
     <1>29, <1>30, <1>31, StepCases

\* Every step keeps an object in the hand of a thread past the cut.
LEMMA TakerStep ==
  ASSUME TypeOK, TakerHasObject, [Next]_vars
  PROVE  TakerHasObject'
<1> USE ConstantsAssumption DEF TypeOK, Location, Delivering, Resending,
        catchVars, wireVars, netVars, addrVars, appVars, histVars, auxVars, Goto,
        LeaveReceive, TakerHasObject
<1>1. ASSUME NEW rq \in Request, tg_send_query_async(rq) PROVE TakerHasObject'
  BY <1>1 DEF tg_send_query_async, tg_queue_new, Fresh, Goto
<1>2. CASE CancelCut
  BY <1>2 DEF CancelCut, Cut, Matching
<1>3. CASE CancelStop
  BY <1>3 DEF CancelStop
<1>4. CASE tg_queue_cancell_all
  BY <1>4 DEF tg_queue_cancell_all
<1>5. ASSUME NEW q \in Queue, ReceivePackage(q) PROVE TakerHasObject'
  BY <1>5 DEF ReceivePackage
<1>6. ASSUME NEW q \in Queue, ReceiveBadSalt(q) PROVE TakerHasObject'
  BY <1>6 DEF ReceiveBadSalt
<1>7. ASSUME NEW q \in Queue, ReceiveError(q) PROVE TakerHasObject'
  BY <1>7 DEF ReceiveError
<1>8. ASSUME NEW q \in Queue, ReceiveEof(q) PROVE TakerHasObject'
  BY <1>8 DEF ReceiveEof
<1>9. ASSUME NEW q \in Queue, ProgressStop(q) PROVE TakerHasObject'
  BY <1>9 DEF ProgressStop
<1>31. ASSUME NEW q \in Queue, SpinEnds(q) PROVE TakerHasObject'
  BY <1>31 DEF SpinEnds
<1>10. ASSUME NEW q \in Queue, OpenSocket(q) PROVE TakerHasObject'
  BY <1>10 DEF OpenSocket
<1>11. ASSUME NEW q \in Queue, OpenFails(q) PROVE TakerHasObject'
  BY <1>11 DEF OpenFails
<1>12. ASSUME NEW q \in Queue, tg_queue_add(q) PROVE TakerHasObject'
  BY <1>12 DEF tg_queue_add
<1>13. ASSUME NEW q \in Queue, tg_send(q) PROVE TakerHasObject'
  BY <1>13 DEF tg_send, NextMsgId, Tied
<1>14. ASSUME NEW q \in Queue, SendFails(q) PROVE TakerHasObject'
  BY <1>14 DEF SendFails, NextMsgId, Tied
<1>15. ASSUME NEW q \in Queue, LoopTop(q) PROVE TakerHasObject'
  BY <1>15 DEF LoopTop
<1>16. ASSUME NEW q \in Queue, PackageEnd(q) PROVE TakerHasObject'
  BY <1>16 DEF PackageEnd
<1>17. ASSUME NEW q \in Queue, CheckLoop(q) PROVE TakerHasObject'
  BY <1>17 DEF CheckLoop
<1>18. ASSUME NEW q \in Queue, LockQueue(q) PROVE TakerHasObject'
  BY <1>18 DEF LockQueue
<1>19. ASSUME NEW q \in Queue, OnDone(q) PROVE TakerHasObject'
  BY <1>19 DEF OnDone
<1>20. ASSUME NEW q \in Queue, SetServerAddress(q) PROVE TakerHasObject'
  BY <1>20 DEF SetServerAddress
<1>21. ASSUME NEW q \in Queue, SaveAddress(q) PROVE TakerHasObject'
  BY <1>21 DEF SaveAddress
<1>22. ASSUME NEW q \in Queue, Resend(q) PROVE TakerHasObject'
  BY <1>22 DEF Resend, tg_queue_new, Fresh
<1>23. ASSUME NEW q \in Queue, Finish(q) PROVE TakerHasObject'
  BY <1>23 DEF Finish
<1>24. ASSUME NEW q \in Queue, CloseSocket(q) PROVE TakerHasObject'
  BY <1>24 DEF CloseSocket
<1>25. ASSUME NEW q \in Queue, RunExit(q) PROVE TakerHasObject'
  BY <1>25 DEF RunExit, Cut, Matching
<1>26. ASSUME NEW q \in Queue, TimerFires(q) PROVE TakerHasObject'
  BY <1>26 DEF TimerFires
<1>27. ASSUME NEW q \in Queue, TimerFrees(q) PROVE TakerHasObject'
  BY <1>27 DEF TimerFrees
<1>28. ASSUME NEW q \in Queue, NEW k \in Delivering \cup Resending, Catch(q, k) PROVE TakerHasObject'
  BY <1>28 DEF Catch, Cut, Matching
<1>29. ASSUME NEW q \in Queue, NEW k \in Resending, BareError(q, k) PROVE TakerHasObject'
  BY <1>29 DEF BareError
<1>30. CASE UNCHANGED vars
  BY <1>30 DEF vars
<1> QED
  BY <1>1, <1>2, <1>3, <1>4, <1>5, <1>6, <1>7, <1>8, <1>9, <1>10,
     <1>11, <1>12, <1>13, <1>14, <1>15, <1>16, <1>17, <1>18, <1>19,
     <1>20, <1>21, <1>22, <1>23, <1>24, <1>25, <1>26, <1>27, <1>28,
     <1>29, <1>30, <1>31, StepCases

\* Every field and every history of every object keeps its type.
THEOREM TypeCorrect == Spec => [](TypeOK /\ TakerHasObject)
<1>1. Init => TypeOK
  <2> SUFFICES ASSUME Init PROVE TypeOK
    OBVIOUS
  <2>1. /\ list \subseteq Queue /\ sent \subseteq Nat /\ todrop \subseteq Nat
        /\ cancelled \subseteq Queue /\ resent \subseteq Queue
    BY DEF Init
  <2>2. /\ pc \in [Queue -> Location]
        /\ timer \in [Queue -> {"none", "sleep", "wait", "done"}]
        /\ loop \in [Queue -> BOOLEAN]
        /\ kind \in [Queue -> Delivering \cup Resending \cup {"none", "resent"}]
    BY DEF Init, Location
  <2> QED
    BY <2>1, <2>2 DEF Init, TypeOK
<1>2. Init => TakerHasObject
  BY DEF Init, TakerHasObject
<1> QED
  BY <1>1, <1>2, TypeStep, TakerStep, PTL DEF Spec

(***************************************************************************)
(* Who may act on an object.  Most steps are quiet: they touch neither the *)
(* list nor what was taken from it.  The others are the cut, by a reader,  *)
(* a canceller or the object's own thread, and the taker's own steps.      *)
(***************************************************************************)

Quiet ==
  /\ UNCHANGED <<list, uihold, hold, lock, calls, cancelled>>
  /\ \A q \in Queue : Young(q)' => Young(q)
  /\ \A r \in Queue : hold[r] # None =>
       pc'[r] \in Catching /\ (pc[r] = "finish" => pc'[r] = "finish")

\* A quiet step changes nobody's right to act on an object.
LEMMA QuietStep ==
  ASSUME TypeOK, OwnerInv, [Next]_vars, Quiet
  PROVE  OwnerInv'
<1>1. UntouchedUntilCut'
  BY DEF OwnerInv, UntouchedUntilCut, Untouched, Quiet
<1>2. OneTaker'
  BY DEF OwnerInv, OneTaker, Quiet
<1>3. CallbackOnce' /\ CancelledSilent'
  BY DEF OwnerInv, CallbackOnce, CancelledSilent, Quiet
<1> QED
  BY <1>1, <1>2, <1>3, TakerStep DEF OwnerInv

\* Every step keeps the ownership invariant.
LEMMA OwnerStep ==
  ASSUME TypeOK, OwnerInv, [Next]_vars
  PROVE  OwnerInv'
<1> USE ConstantsAssumption DEF TypeOK, OwnerInv, Delivering, Resending,
        catchVars, wireVars, netVars, addrVars, appVars, histVars, auxVars, Goto
<1>1. ASSUME NEW rq \in Request, tg_send_query_async(rq) PROVE OwnerInv'
  <2>1. Quiet
    BY <1>1 DEF tg_send_query_async, tg_queue_new, Fresh, Goto, Quiet, OneTaker, Young, Catching
  <2> QED
    BY <2>1, QuietStep
<1>2. CASE CancelCut
  <2>1. UntouchedUntilCut'
    BY <1>2 DEF CancelCut, Cut, Matching,
       UntouchedUntilCut, Untouched, Young, OneTaker, TakerHasObject
  <2>2. OneTaker'
    BY <1>2 DEF CancelCut, Cut, Matching,
       UntouchedUntilCut, Untouched, OneTaker, TakerHasObject, Catching
  <2>3. CallbackOnce'
    BY <1>2 DEF CancelCut, Cut, Matching,
       CallbackOnce, OneTaker, TakerHasObject
  <2>4. CancelledSilent'
    BY <1>2 DEF CancelCut, Cut, Matching,
       CancelledSilent, UntouchedUntilCut, Untouched, OneTaker, TakerHasObject
  <2> QED
    BY <2>1, <2>2, <2>3, <2>4, TakerStep DEF OwnerInv
<1>3. CASE CancelStop
  <2>1. UntouchedUntilCut'
    BY <1>3 DEF CancelStop,
       UntouchedUntilCut, Untouched, Young, OneTaker, TakerHasObject
  <2>2. OneTaker'
    BY <1>3 DEF CancelStop,
       UntouchedUntilCut, Untouched, OneTaker, TakerHasObject, Catching
  <2>3. CallbackOnce'
    BY <1>3 DEF CancelStop,
       CallbackOnce, OneTaker, TakerHasObject
  <2>4. CancelledSilent'
    BY <1>3 DEF CancelStop,
       CancelledSilent, UntouchedUntilCut, Untouched, OneTaker, TakerHasObject
  <2> QED
    BY <2>1, <2>2, <2>3, <2>4, TakerStep DEF OwnerInv
<1>4. CASE tg_queue_cancell_all
  <2>1. UntouchedUntilCut'
    BY <1>4 DEF tg_queue_cancell_all,
       UntouchedUntilCut, Untouched, Young, OneTaker, TakerHasObject
  <2>2. OneTaker'
    BY <1>4 DEF tg_queue_cancell_all,
       UntouchedUntilCut, Untouched, OneTaker, TakerHasObject, Catching
  <2>3. CallbackOnce'
    BY <1>4 DEF tg_queue_cancell_all,
       CallbackOnce, OneTaker, TakerHasObject
  <2>4. CancelledSilent'
    BY <1>4 DEF tg_queue_cancell_all,
       CancelledSilent, UntouchedUntilCut, Untouched, OneTaker, TakerHasObject
  <2> QED
    BY <2>1, <2>2, <2>3, <2>4, TakerStep DEF OwnerInv
<1>5. ASSUME NEW q \in Queue, ReceivePackage(q) PROVE OwnerInv'
  <2>1. Quiet
    BY <1>5 DEF ReceivePackage, Quiet, OneTaker, Young, Catching
  <2> QED
    BY <2>1, QuietStep
<1>6. ASSUME NEW q \in Queue, ReceiveBadSalt(q) PROVE OwnerInv'
  <2>1. Quiet
    BY <1>6 DEF ReceiveBadSalt, Quiet, OneTaker, Young, Catching
  <2> QED
    BY <2>1, QuietStep
<1>7. ASSUME NEW q \in Queue, ReceiveError(q) PROVE OwnerInv'
  <2>1. Quiet
    BY <1>7 DEF ReceiveError, Quiet, OneTaker, Young, Catching
  <2> QED
    BY <2>1, QuietStep
<1>8. ASSUME NEW q \in Queue, ReceiveEof(q) PROVE OwnerInv'
  <2>1. Quiet
    BY <1>8 DEF ReceiveEof, Quiet, OneTaker, Young, Catching
  <2> QED
    BY <2>1, QuietStep
<1>9. ASSUME NEW q \in Queue, ProgressStop(q) PROVE OwnerInv'
  <2>1. Quiet
    BY <1>9 DEF ProgressStop, Quiet, OneTaker, Young, Catching
  <2> QED
    BY <2>1, QuietStep
<1>31. ASSUME NEW q \in Queue, SpinEnds(q) PROVE OwnerInv'
  <2>1. Quiet
    BY <1>31 DEF SpinEnds, Quiet, OneTaker, Young, Catching
  <2> QED
    BY <2>1, QuietStep
<1>10. ASSUME NEW q \in Queue, OpenSocket(q) PROVE OwnerInv'
  <2>1. Quiet
    BY <1>10 DEF OpenSocket, Quiet, OneTaker, Young, Catching
  <2> QED
    BY <2>1, QuietStep
<1>11. ASSUME NEW q \in Queue, OpenFails(q) PROVE OwnerInv'
  <2>1. Quiet
    BY <1>11 DEF OpenFails, Quiet, OneTaker, Young, Catching
  <2> QED
    BY <2>1, QuietStep
<1>12. ASSUME NEW q \in Queue, tg_queue_add(q) PROVE OwnerInv'
  <2>1. UntouchedUntilCut'
    BY <1>12 DEF tg_queue_add,
       UntouchedUntilCut, Untouched, Young, OneTaker, TakerHasObject
  <2>2. OneTaker'
    BY <1>12 DEF tg_queue_add,
       UntouchedUntilCut, Untouched, OneTaker, TakerHasObject, Catching
  <2>3. CallbackOnce'
    BY <1>12 DEF tg_queue_add,
       CallbackOnce, OneTaker, TakerHasObject
  <2>4. CancelledSilent'
    BY <1>12 DEF tg_queue_add,
       CancelledSilent, UntouchedUntilCut, Untouched, OneTaker, TakerHasObject
  <2> QED
    BY <2>1, <2>2, <2>3, <2>4, TakerStep DEF OwnerInv
<1>13. ASSUME NEW q \in Queue, tg_send(q) PROVE OwnerInv'
  <2>1. Quiet
    BY <1>13 DEF tg_send, NextMsgId, Tied, Quiet, OneTaker, Young, Catching
  <2> QED
    BY <2>1, QuietStep
<1>14. ASSUME NEW q \in Queue, SendFails(q) PROVE OwnerInv'
  <2>1. Quiet
    BY <1>14 DEF SendFails, NextMsgId, Tied, Quiet, OneTaker, Young, Catching
  <2> QED
    BY <2>1, QuietStep
<1>15. ASSUME NEW q \in Queue, LoopTop(q) PROVE OwnerInv'
  <2>1. Quiet
    BY <1>15 DEF LoopTop, Quiet, OneTaker, Young, Catching
  <2> QED
    BY <2>1, QuietStep
<1>16. ASSUME NEW q \in Queue, PackageEnd(q) PROVE OwnerInv'
  <2>1. Quiet
    BY <1>16 DEF PackageEnd, Quiet, OneTaker, Young, Catching
  <2> QED
    BY <2>1, QuietStep
<1>17. ASSUME NEW q \in Queue, CheckLoop(q) PROVE OwnerInv'
  <2>1. UntouchedUntilCut'
    BY <1>17 DEF CheckLoop,
       UntouchedUntilCut, Untouched, Young, OneTaker, TakerHasObject
  <2>2. OneTaker'
    BY <1>17 DEF CheckLoop,
       UntouchedUntilCut, Untouched, OneTaker, TakerHasObject, Catching
  <2>3. CallbackOnce'
    BY <1>17 DEF CheckLoop,
       CallbackOnce, OneTaker, TakerHasObject
  <2>4. CancelledSilent'
    BY <1>17 DEF CheckLoop,
       CancelledSilent, UntouchedUntilCut, Untouched, OneTaker, TakerHasObject
  <2> QED
    BY <2>1, <2>2, <2>3, <2>4, TakerStep DEF OwnerInv
<1>18. ASSUME NEW q \in Queue, LockQueue(q) PROVE OwnerInv'
  <2>1. UntouchedUntilCut'
    BY <1>18 DEF LockQueue,
       UntouchedUntilCut, Untouched, Young, OneTaker, TakerHasObject
  <2>2. OneTaker'
    BY <1>18 DEF LockQueue,
       UntouchedUntilCut, Untouched, OneTaker, TakerHasObject, Catching
  <2>3. CallbackOnce'
    BY <1>18 DEF LockQueue,
       CallbackOnce, OneTaker, TakerHasObject
  <2>4. CancelledSilent'
    BY <1>18 DEF LockQueue,
       CancelledSilent, UntouchedUntilCut, Untouched, OneTaker, TakerHasObject
  <2> QED
    BY <2>1, <2>2, <2>3, <2>4, TakerStep DEF OwnerInv
<1>19. ASSUME NEW q \in Queue, OnDone(q) PROVE OwnerInv'
  <2>1. UntouchedUntilCut'
    BY <1>19 DEF OnDone,
       UntouchedUntilCut, Untouched, Young, OneTaker, TakerHasObject
  <2>2. OneTaker'
    BY <1>19 DEF OnDone,
       UntouchedUntilCut, Untouched, OneTaker, TakerHasObject, Catching
  <2>3. CallbackOnce'
    BY <1>19 DEF OnDone,
       CallbackOnce, OneTaker, TakerHasObject
  <2>4. CancelledSilent'
    BY <1>19 DEF OnDone,
       CancelledSilent, UntouchedUntilCut, Untouched, OneTaker, TakerHasObject
  <2> QED
    BY <2>1, <2>2, <2>3, <2>4, TakerStep DEF OwnerInv
<1>20. ASSUME NEW q \in Queue, SetServerAddress(q) PROVE OwnerInv'
  <2>1. Quiet
    BY <1>20 DEF SetServerAddress, Quiet, OneTaker, Young, Catching
  <2> QED
    BY <2>1, QuietStep
<1>21. ASSUME NEW q \in Queue, SaveAddress(q) PROVE OwnerInv'
  <2>1. Quiet
    BY <1>21 DEF SaveAddress, Quiet, OneTaker, Young, Catching
  <2> QED
    BY <2>1, QuietStep
<1>22. ASSUME NEW q \in Queue, Resend(q) PROVE OwnerInv'
  <2>1. PICK n \in Queue :
          /\ pc[n] = "none"
          /\ \/ hold[q] = None /\ pc' = [pc EXCEPT ![n] = "start", ![q] = "handle"]
             \/ hold[q] # None /\ pc' = [pc EXCEPT ![n] = "start", ![q] = "finish"]
    BY <1>22 DEF Resend, tg_queue_new, Fresh
  <2>2. /\ pc[q] \in {"answer", "new"}
        /\ UNCHANGED <<list, uihold, hold, lock, calls, cancelled>>
    BY <1>22 DEF Resend
  <2>4. n # q /\ hold[n] = None
    BY <2>1, <2>2 DEF OneTaker, Catching
  <2>5. /\ pc'[n] = "start" /\ pc'[q] \in {"handle", "finish"}
        /\ hold[q] # None => pc'[q] = "finish"
        /\ \A r \in Queue \ {n, q} : pc'[r] = pc[r]
    BY <2>1, <2>4
  <2>6. \A r \in Queue : Young(r)' => Young(r)
    BY <2>1, <2>5 DEF Young
  <2>7. \A r \in Queue : hold[r] # None =>
          pc'[r] \in Catching /\ (pc[r] = "finish" => pc'[r] = "finish")
    BY <2>4, <2>5 DEF OneTaker, Catching
  <2>3. Quiet
    BY <2>2, <2>6, <2>7 DEF Quiet
  <2> QED
    BY <2>3, QuietStep
<1>23. ASSUME NEW q \in Queue, Finish(q) PROVE OwnerInv'
  <2>1. UntouchedUntilCut'
    BY <1>23 DEF Finish,
       UntouchedUntilCut, Untouched, Young, OneTaker, TakerHasObject
  <2>2. OneTaker'
    BY <1>23 DEF Finish,
       UntouchedUntilCut, Untouched, OneTaker, TakerHasObject, Catching
  <2>3. CallbackOnce'
    BY <1>23 DEF Finish,
       CallbackOnce, OneTaker, TakerHasObject
  <2>4. CancelledSilent'
    BY <1>23 DEF Finish,
       CancelledSilent, UntouchedUntilCut, Untouched, OneTaker, TakerHasObject
  <2> QED
    BY <2>1, <2>2, <2>3, <2>4, TakerStep DEF OwnerInv
<1>24. ASSUME NEW q \in Queue, CloseSocket(q) PROVE OwnerInv'
  <2>1. Quiet
    BY <1>24 DEF CloseSocket, Quiet, OneTaker, Young, Catching
  <2> QED
    BY <2>1, QuietStep
<1>25. ASSUME NEW q \in Queue, RunExit(q) PROVE OwnerInv'
  <2>1. UntouchedUntilCut'
    BY <1>25 DEF RunExit, Cut, Matching,
       UntouchedUntilCut, Untouched, Young, OneTaker, TakerHasObject
  <2>2. OneTaker'
    BY <1>25 DEF RunExit, Cut, Matching,
       UntouchedUntilCut, Untouched, OneTaker, TakerHasObject, Catching
  <2>3. CallbackOnce'
    BY <1>25 DEF RunExit, Cut, Matching,
       CallbackOnce, OneTaker, TakerHasObject
  <2>4. CancelledSilent'
    BY <1>25 DEF RunExit, Cut, Matching,
       CancelledSilent, UntouchedUntilCut, Untouched, OneTaker, TakerHasObject
  <2> QED
    BY <2>1, <2>2, <2>3, <2>4, TakerStep DEF OwnerInv
<1>26. ASSUME NEW q \in Queue, TimerFires(q) PROVE OwnerInv'
  <2>1. Quiet
    BY <1>26 DEF TimerFires, Quiet, OneTaker, Young, Catching
  <2> QED
    BY <2>1, QuietStep
<1>27. ASSUME NEW q \in Queue, TimerFrees(q) PROVE OwnerInv'
  <2>1. Quiet
    BY <1>27 DEF TimerFrees, Quiet, OneTaker, Young, Catching
  <2> QED
    BY <2>1, QuietStep
<1>28. ASSUME NEW q \in Queue, NEW k \in Delivering \cup Resending, Catch(q, k) PROVE OwnerInv'
  <2>1. UntouchedUntilCut'
    BY <1>28 DEF Catch, Cut, Matching,
       UntouchedUntilCut, Untouched, Young, OneTaker, TakerHasObject
  <2>2. OneTaker'
    BY <1>28 DEF Catch, Cut, Matching,
       UntouchedUntilCut, Untouched, OneTaker, TakerHasObject, Catching
  <2>3. CallbackOnce'
    BY <1>28 DEF Catch, Cut, Matching,
       CallbackOnce, OneTaker, TakerHasObject
  <2>4. CancelledSilent'
    BY <1>28 DEF Catch, Cut, Matching,
       CancelledSilent, UntouchedUntilCut, Untouched, OneTaker, TakerHasObject
  <2> QED
    BY <2>1, <2>2, <2>3, <2>4, TakerStep DEF OwnerInv
<1>29. ASSUME NEW q \in Queue, NEW k \in Resending, BareError(q, k) PROVE OwnerInv'
  <2>1. Quiet
    BY <1>29 DEF BareError, Quiet, OneTaker, Young, Catching
  <2> QED
    BY <2>1, QuietStep
<1>30. CASE UNCHANGED vars
  <2>1. Quiet
    BY <1>30 DEF vars, Quiet, OneTaker, Young, Catching
  <2> QED
    BY <2>1, QuietStep
<1> QED
  BY <1>1, <1>2, <1>3, <1>4, <1>5, <1>6, <1>7, <1>8, <1>9, <1>10,
     <1>11, <1>12, <1>13, <1>14, <1>15, <1>16, <1>17, <1>18, <1>19,
     <1>20, <1>21, <1>22, <1>23, <1>24, <1>25, <1>26, <1>27, <1>28,
     <1>29, <1>30, <1>31, StepCases

\* The ownership of objects, for every instance.
THEOREM OwnerCorrect == Spec => [](TypeOK /\ OwnerInv)
<1>1. Init => OwnerInv
  BY ConstantsAssumption DEF Init, OwnerInv, UntouchedUntilCut, Untouched,
     Young, OneTaker, TakerHasObject, CallbackOnce, CancelledSilent
<1>2. Spec => []TypeOK
  BY TypeCorrect, PTL
<1> QED
  BY <1>1, <1>2, OwnerStep, PTL DEF Spec

(***************************************************************************)
(* One object per query.  A bare rpc_error (outside rpc_result) hands the  *)
(* query on without a cut, so the theorem is about servers that send none. *)
(***************************************************************************)

\* Every step keeps a query in one object at a time.
LEMMA CarrierStep ==
  ASSUME "bare" \notin Answer, TypeOK, OwnerInv, OneCarrier, [Next]_vars
  PROVE  OneCarrier'
<1> USE ConstantsAssumption DEF TypeOK, OneCarrier, Young, Catching,
        Delivering, Resending, catchVars, wireVars, netVars, addrVars,
        appVars, histVars, auxVars, Goto, OwnerInv, UntouchedUntilCut, Untouched,
        OneTaker
<1>1. ASSUME NEW rq \in Request, tg_send_query_async(rq) PROVE OneCarrier'
  BY <1>1 DEF tg_send_query_async, tg_queue_new, Fresh, Goto
<1>2. CASE CancelCut
  BY <1>2 DEF CancelCut, Cut, Matching
<1>3. CASE CancelStop
  BY <1>3 DEF CancelStop
<1>4. CASE tg_queue_cancell_all
  BY <1>4 DEF tg_queue_cancell_all
<1>5. ASSUME NEW q \in Queue, ReceivePackage(q) PROVE OneCarrier'
  BY <1>5 DEF ReceivePackage
<1>6. ASSUME NEW q \in Queue, ReceiveBadSalt(q) PROVE OneCarrier'
  BY <1>6 DEF ReceiveBadSalt
<1>7. ASSUME NEW q \in Queue, ReceiveError(q) PROVE OneCarrier'
  BY <1>7 DEF ReceiveError
<1>8. ASSUME NEW q \in Queue, ReceiveEof(q) PROVE OneCarrier'
  BY <1>8 DEF ReceiveEof
<1>9. ASSUME NEW q \in Queue, ProgressStop(q) PROVE OneCarrier'
  BY <1>9 DEF ProgressStop
<1>31. ASSUME NEW q \in Queue, SpinEnds(q) PROVE OneCarrier'
  BY <1>31 DEF SpinEnds
<1>10. ASSUME NEW q \in Queue, OpenSocket(q) PROVE OneCarrier'
  BY <1>10 DEF OpenSocket
<1>11. ASSUME NEW q \in Queue, OpenFails(q) PROVE OneCarrier'
  BY <1>11 DEF OpenFails
<1>12. ASSUME NEW q \in Queue, tg_queue_add(q) PROVE OneCarrier'
  BY <1>12 DEF tg_queue_add
<1>13. ASSUME NEW q \in Queue, tg_send(q) PROVE OneCarrier'
  BY <1>13 DEF tg_send, NextMsgId, Tied
<1>14. ASSUME NEW q \in Queue, SendFails(q) PROVE OneCarrier'
  BY <1>14 DEF SendFails, NextMsgId, Tied
<1>15. ASSUME NEW q \in Queue, LoopTop(q) PROVE OneCarrier'
  BY <1>15 DEF LoopTop
<1>16. ASSUME NEW q \in Queue, PackageEnd(q) PROVE OneCarrier'
  BY <1>16 DEF PackageEnd
<1>17. ASSUME NEW q \in Queue, CheckLoop(q) PROVE OneCarrier'
  <2>1. UNCHANGED <<req, caller, resent, calls, list, uihold, cancelled>>
    BY <1>17 DEF CheckLoop
  <2>2. /\ pc[q] = "caught"
        /\ \/ pc' = [pc EXCEPT ![q] = "lock"] /\ hold' = hold /\ kind' = kind
           \/ /\ pc' = [pc EXCEPT ![q] = "handle"]
              /\ hold' = [hold EXCEPT ![q] = None]
              /\ kind' = [kind EXCEPT ![q] = "none"]
    BY <1>17 DEF CheckLoop
  <2>3. hold[q] # None /\ hold[q] \notin resent
    BY <2>2
  <2>4. \A r \in Queue : r # q =>
          pc'[r] = pc[r] /\ hold'[r] = hold[r] /\ kind'[r] = kind[r]
    BY <2>2
  <2>5. pc'[q] \in {"lock", "handle"}
    BY <2>2
  <2>6. hold'[q] \in {hold[q], None} /\ (pc'[q] = "lock" => hold'[q] = hold[q])
    BY <2>2
  <2> HIDE DEF OwnerInv
  <2>7. \A r \in Queue : req'[r] = None <=> pc'[r] = "none"
    BY <2>1, <2>2, <2>4, <2>5
  <2>8. \A r \in Queue : pc'[r] \in Catching => hold'[r] # None
    BY <2>3, <2>4, <2>5, <2>6
  <2>9. \A o \in resent' : /\ ~Young(o)'
                           /\ \A r \in Queue : hold'[r] = o =>
                                 pc'[r] = "finish" /\ kind'[r] = "resent"
    BY <2>1, <2>2, <2>3, <2>4, <2>5, <2>6
  <2> QED
    BY <2>1, <2>7, <2>8, <2>9
<1>18. ASSUME NEW q \in Queue, LockQueue(q) PROVE OneCarrier'
  BY <1>18 DEF LockQueue
<1>19. ASSUME NEW q \in Queue, OnDone(q) PROVE OneCarrier'
  BY <1>19 DEF OnDone
<1>20. ASSUME NEW q \in Queue, SetServerAddress(q) PROVE OneCarrier'
  BY <1>20 DEF SetServerAddress
<1>21. ASSUME NEW q \in Queue, SaveAddress(q) PROVE OneCarrier'
  BY <1>21 DEF SaveAddress
<1>22. ASSUME NEW q \in Queue, Resend(q) PROVE OneCarrier'
  <2>1. /\ pc[q] \in Catching /\ pc[q] # "finish" /\ hold[q] \in Queue
        /\ UNCHANGED <<list, hold, caller, uihold, calls, cancelled>>
    BY <1>22 DEF Resend
  <2>2. PICK n \in Queue :
          /\ pc[n] = "none" /\ req' = [req EXCEPT ![n] = req[hold[q]]]
          /\ resent' = resent \cup {hold[q]}
          /\ pc' = [pc EXCEPT ![n] = "start", ![q] = "finish"]
          /\ kind' = [kind EXCEPT ![q] = "resent"]
    BY <1>22, <2>1 DEF Resend, tg_queue_new, Fresh
  <2>3. DEFINE o == hold[q]
  <2>4. /\ n # q /\ pc'[n] = "start" /\ pc'[q] = "finish" /\ kind'[q] = "resent"
        /\ \A r \in Queue \ {n, q} : pc'[r] = pc[r] /\ kind'[r] = kind[r]
    BY <2>1, <2>2
  <2>5. req'[n] = req[o] /\ \A r \in Queue \ {n} : req'[r] = req[r]
    BY <2>1, <2>2
  <2>6. o \notin resent /\ o # n /\ o \notin list /\ ~Young(o) /\ calls[o] = 0
        /\ uihold # o /\ o \notin cancelled
        /\ \A r \in Queue : hold[r] = o => r = q
    BY <2>1, <2>2
  <2>7. req[n] = None /\ req[o] # None /\ hold[n] = None /\ n \notin resent
    BY <2>2, <2>6, <2>1
  <2>8. \A q1, q2 \in Queue :
          /\ req'[q1] = req'[q2] /\ req'[q1] # None
          /\ q1 \notin resent' /\ q2 \notin resent'
          => q1 = q2
    BY <2>1, <2>2, <2>5, <2>6, <2>7
  <2>9. \A r \in Queue : req'[r] = None <=> pc'[r] = "none"
    BY <2>1, <2>4, <2>5, <2>7
  <2>10. pc'[o] \notin {"none", "start", "add"}
    BY <2>1, <2>4, <2>6
  <2>11. \A p \in resent : pc'[p] \notin {"none", "start", "add"}
    BY <2>4, <2>7, <2>1
  <2>12. \A p \in resent', r \in Queue : hold'[r] = p =>
           pc'[r] = "finish" /\ kind'[r] = "resent"
    BY <2>1, <2>2, <2>4, <2>6, <2>7
  <2>13. \A r \in Queue : req'[r] # None => caller'[req'[r]] # None
    BY <2>1, <2>5, <2>7
  <2>14. \A r \in Queue : pc'[r] \in Catching => hold'[r] # None
    BY <2>1, <2>4
  <2>15. \A p \in resent' : /\ calls'[p] = 0 /\ p \notin list'
                            /\ uihold' # p /\ p \notin cancelled'
    BY <2>1, <2>2, <2>6
  <2> HIDE DEF TypeOK, OwnerInv, OneCarrier, Catching
  <2>16. \A p \in resent' : pc'[p] \notin {"none", "start", "add"}
    BY <2>2, <2>10, <2>11
  <2>17. \A p \in resent' :
           /\ calls'[p] = 0 /\ p \notin list'
           /\ pc'[p] \notin {"none", "start", "add"}
           /\ uihold' # p /\ p \notin cancelled'
           /\ \A r \in Queue : hold'[r] = p =>
                 pc'[r] = "finish" /\ kind'[r] = "resent"
    BY <2>12, <2>15, <2>16
  <2> QED
    BY <2>8, <2>9, <2>13, <2>14, <2>17 DEF OneCarrier
<1>23. ASSUME NEW q \in Queue, Finish(q) PROVE OneCarrier'
  BY <1>23 DEF Finish
<1>24. ASSUME NEW q \in Queue, CloseSocket(q) PROVE OneCarrier'
  BY <1>24 DEF CloseSocket
<1>25. ASSUME NEW q \in Queue, RunExit(q) PROVE OneCarrier'
  BY <1>25 DEF RunExit, Cut, Matching
<1>26. ASSUME NEW q \in Queue, TimerFires(q) PROVE OneCarrier'
  BY <1>26 DEF TimerFires
<1>27. ASSUME NEW q \in Queue, TimerFrees(q) PROVE OneCarrier'
  BY <1>27 DEF TimerFrees
<1>28. ASSUME NEW q \in Queue, NEW k \in Delivering \cup Resending, Catch(q, k) PROVE OneCarrier'
  BY <1>28 DEF Catch, Cut, Matching
<1>29. ASSUME NEW q \in Queue, NEW k \in Resending, BareError(q, k) PROVE OneCarrier'
  BY <1>29 DEF BareError
<1>30. CASE UNCHANGED vars
  BY <1>30 DEF vars
<1> QED
  BY <1>1, <1>2, <1>3, <1>4, <1>5, <1>6, <1>7, <1>8, <1>9, <1>10,
     <1>11, <1>12, <1>13, <1>14, <1>15, <1>16, <1>17, <1>18, <1>19,
     <1>20, <1>21, <1>22, <1>23, <1>24, <1>25, <1>26, <1>27, <1>28,
     <1>29, <1>30, <1>31, StepCases

\* For every number of objects, queries and duplicates: without bare errors
\* the callback of a query runs at most once over all objects carrying it.
THEOREM AnsweredOnceHolds ==
  ASSUME "bare" \notin Answer
  PROVE  Spec => []AnsweredOnce
<1>1. Init => OneCarrier
  BY ConstantsAssumption DEF Init, OneCarrier, Young, Catching
<1>2. TypeOK /\ OwnerInv /\ OneCarrier => AnsweredOnce
  BY ConstantsAssumption DEF TypeOK, OwnerInv, UntouchedUntilCut, Untouched,
     Young, OneCarrier, AnsweredOnce
<1>3. Spec => [](TypeOK /\ OwnerInv)
  BY OwnerCorrect
<1> QED
  BY <1>1, <1>2, <1>3, CarrierStep, PTL DEF Spec

(***************************************************************************)
(* Ids.  tg_queue_cut finds an object by msg_id, not by address: it        *)
(* removes the caller's own as long as no other object has had its id.     *)
(***************************************************************************)

\* Every step keeps the ids distinct and ended objects out of the list, but
\* for the objects that have shared an id.
LEMMA IdStep ==
  ASSUME TypeOK, OwnerInv, DistinctIds, ExitLeavesList, [Next]_vars
  PROVE  DistinctIds' /\ ExitLeavesList'
<1> USE ConstantsAssumption DEF TypeOK, DistinctIds, ExitLeavesList,
        catchVars, wireVars, netVars, addrVars, appVars, histVars, auxVars, Goto,
        OwnerInv, TakerHasObject
<1>1. ASSUME NEW rq \in Request, tg_send_query_async(rq) PROVE DistinctIds' /\ ExitLeavesList'
  BY <1>1 DEF tg_send_query_async, tg_queue_new, Fresh, Goto
<1>2. CASE CancelCut
  BY <1>2 DEF CancelCut, Cut, Matching
<1>3. CASE CancelStop
  BY <1>3 DEF CancelStop
<1>4. CASE tg_queue_cancell_all
  BY <1>4 DEF tg_queue_cancell_all
<1>5. ASSUME NEW q \in Queue, ReceivePackage(q) PROVE DistinctIds' /\ ExitLeavesList'
  BY <1>5 DEF ReceivePackage
<1>6. ASSUME NEW q \in Queue, ReceiveBadSalt(q) PROVE DistinctIds' /\ ExitLeavesList'
  BY <1>6 DEF ReceiveBadSalt
<1>7. ASSUME NEW q \in Queue, ReceiveError(q) PROVE DistinctIds' /\ ExitLeavesList'
  BY <1>7 DEF ReceiveError
<1>8. ASSUME NEW q \in Queue, ReceiveEof(q) PROVE DistinctIds' /\ ExitLeavesList'
  BY <1>8 DEF ReceiveEof
<1>9. ASSUME NEW q \in Queue, ProgressStop(q) PROVE DistinctIds' /\ ExitLeavesList'
  BY <1>9 DEF ProgressStop
<1>31. ASSUME NEW q \in Queue, SpinEnds(q) PROVE DistinctIds' /\ ExitLeavesList'
  BY <1>31 DEF SpinEnds
<1>10. ASSUME NEW q \in Queue, OpenSocket(q) PROVE DistinctIds' /\ ExitLeavesList'
  BY <1>10 DEF OpenSocket
<1>11. ASSUME NEW q \in Queue, OpenFails(q) PROVE DistinctIds' /\ ExitLeavesList'
  BY <1>11 DEF OpenFails
<1>12. ASSUME NEW q \in Queue, tg_queue_add(q) PROVE DistinctIds' /\ ExitLeavesList'
  BY <1>12 DEF tg_queue_add
<1>13. ASSUME NEW q \in Queue, tg_send(q) PROVE DistinctIds' /\ ExitLeavesList'
  BY <1>13 DEF tg_send, NextMsgId, Tied
<1>14. ASSUME NEW q \in Queue, SendFails(q) PROVE DistinctIds' /\ ExitLeavesList'
  BY <1>14 DEF SendFails, NextMsgId, Tied
<1>15. ASSUME NEW q \in Queue, LoopTop(q) PROVE DistinctIds' /\ ExitLeavesList'
  BY <1>15 DEF LoopTop
<1>16. ASSUME NEW q \in Queue, PackageEnd(q) PROVE DistinctIds' /\ ExitLeavesList'
  BY <1>16 DEF PackageEnd
<1>17. ASSUME NEW q \in Queue, CheckLoop(q) PROVE DistinctIds' /\ ExitLeavesList'
  BY <1>17 DEF CheckLoop
<1>18. ASSUME NEW q \in Queue, LockQueue(q) PROVE DistinctIds' /\ ExitLeavesList'
  BY <1>18 DEF LockQueue
<1>19. ASSUME NEW q \in Queue, OnDone(q) PROVE DistinctIds' /\ ExitLeavesList'
  BY <1>19 DEF OnDone
<1>20. ASSUME NEW q \in Queue, SetServerAddress(q) PROVE DistinctIds' /\ ExitLeavesList'
  BY <1>20 DEF SetServerAddress
<1>21. ASSUME NEW q \in Queue, SaveAddress(q) PROVE DistinctIds' /\ ExitLeavesList'
  BY <1>21 DEF SaveAddress
<1>22. ASSUME NEW q \in Queue, Resend(q) PROVE DistinctIds' /\ ExitLeavesList'
  <2>1. PICK n \in Queue :
          /\ pc[n] = "none"
          /\ \/ pc' = [pc EXCEPT ![n] = "start", ![q] = "handle"]
             \/ pc' = [pc EXCEPT ![n] = "start", ![q] = "finish"]
    BY <1>22 DEF Resend, tg_queue_new, Fresh
  <2>2. pc[q] \in {"answer", "new"} /\ UNCHANGED <<list, msgid, clock, tied>>
    BY <1>22 DEF Resend
  <2> QED
    BY <2>1, <2>2
<1>23. ASSUME NEW q \in Queue, Finish(q) PROVE DistinctIds' /\ ExitLeavesList'
  BY <1>23 DEF Finish
<1>24. ASSUME NEW q \in Queue, CloseSocket(q) PROVE DistinctIds' /\ ExitLeavesList'
  BY <1>24 DEF CloseSocket
<1>25. ASSUME NEW q \in Queue, RunExit(q) PROVE DistinctIds' /\ ExitLeavesList'
  BY <1>25 DEF RunExit, Cut, Matching
<1>26. ASSUME NEW q \in Queue, TimerFires(q) PROVE DistinctIds' /\ ExitLeavesList'
  BY <1>26 DEF TimerFires
<1>27. ASSUME NEW q \in Queue, TimerFrees(q) PROVE DistinctIds' /\ ExitLeavesList'
  BY <1>27 DEF TimerFrees
<1>28. ASSUME NEW q \in Queue, NEW k \in Delivering \cup Resending, Catch(q, k) PROVE DistinctIds' /\ ExitLeavesList'
  BY <1>28 DEF Catch, Cut, Matching
<1>29. ASSUME NEW q \in Queue, NEW k \in Resending, BareError(q, k) PROVE DistinctIds' /\ ExitLeavesList'
  BY <1>29 DEF BareError
<1>30. CASE UNCHANGED vars
  BY <1>30 DEF vars
<1> QED
  BY <1>1, <1>2, <1>3, <1>4, <1>5, <1>6, <1>7, <1>8, <1>9, <1>10,
     <1>11, <1>12, <1>13, <1>14, <1>15, <1>16, <1>17, <1>18, <1>19,
     <1>20, <1>21, <1>22, <1>23, <1>24, <1>25, <1>26, <1>27, <1>28,
     <1>29, <1>30, <1>31, StepCases

\* For every clock, repeating or not: an object whose run thread has ended is
\* out of the list, so the timer frees no listed object, unless the object has
\* shared its msgid with another.
THEOREM ExitLeavesListHolds == Spec => []ExitLeavesList
<1>1. Init => DistinctIds /\ ExitLeavesList
  BY DEF Init, DistinctIds, ExitLeavesList
<1>2. Spec => [](TypeOK /\ OwnerInv)
  BY OwnerCorrect
<1> QED
  BY <1>1, <1>2, IdStep, PTL DEF Spec

(***************************************************************************)
(* No waiting thread is lost.  Whoever cuts an object stops it, answers it *)
(* or still has it; a run thread that ends cuts no object but its own.     *)
(***************************************************************************)

\* No step loses an object whose thread waits.
LEMMA FindStep ==
  ASSUME TypeOK, OwnerInv, DistinctIds, Findable, [Next]_vars
  PROVE  Findable'
<1> USE ConstantsAssumption DEF TypeOK, Findable, WaitingIsFindable, Busy,
        Free, Catching, Delivering, Resending, catchVars, wireVars, netVars,
        addrVars, appVars, histVars, auxVars, Goto, OwnerInv, UntouchedUntilCut,
        Untouched, Young, OneTaker, TakerHasObject, CallbackOnce
<1>1. ASSUME NEW rq \in Request, tg_send_query_async(rq) PROVE Findable'
  BY <1>1 DEF tg_send_query_async, tg_queue_new, Fresh
<1>2. CASE CancelCut
  BY <1>2 DEF CancelCut, Cut, Matching
<1>3. CASE CancelStop
  BY <1>3 DEF CancelStop
<1>4. CASE tg_queue_cancell_all
  BY <1>4 DEF tg_queue_cancell_all
<1>5. ASSUME NEW q \in Queue, ReceivePackage(q) PROVE Findable'
  BY <1>5 DEF ReceivePackage
<1>6. ASSUME NEW q \in Queue, ReceiveBadSalt(q) PROVE Findable'
  BY <1>6 DEF ReceiveBadSalt
<1>7. ASSUME NEW q \in Queue, ReceiveError(q) PROVE Findable'
  BY <1>7 DEF ReceiveError
<1>8. ASSUME NEW q \in Queue, ReceiveEof(q) PROVE Findable'
  BY <1>8 DEF ReceiveEof
<1>9. ASSUME NEW q \in Queue, ProgressStop(q) PROVE Findable'
  BY <1>9 DEF ProgressStop
<1>31. ASSUME NEW q \in Queue, SpinEnds(q) PROVE Findable'
  BY <1>31 DEF SpinEnds
<1>10. ASSUME NEW q \in Queue, OpenSocket(q) PROVE Findable'
  BY <1>10 DEF OpenSocket
<1>11. ASSUME NEW q \in Queue, OpenFails(q) PROVE Findable'
  BY <1>11 DEF OpenFails
<1>12. ASSUME NEW q \in Queue, tg_queue_add(q) PROVE Findable'
  BY <1>12 DEF tg_queue_add
<1>13. ASSUME NEW q \in Queue, tg_send(q) PROVE Findable'
  BY <1>13 DEF tg_send, NextMsgId, Tied
<1>14. ASSUME NEW q \in Queue, SendFails(q) PROVE Findable'
  BY <1>14 DEF SendFails, NextMsgId, Tied
<1>15. ASSUME NEW q \in Queue, LoopTop(q) PROVE Findable'
  BY <1>15 DEF LoopTop
<1>16. ASSUME NEW q \in Queue, PackageEnd(q) PROVE Findable'
  BY <1>16 DEF PackageEnd
<1>17. ASSUME NEW q \in Queue, CheckLoop(q) PROVE Findable'
  BY <1>17 DEF CheckLoop
<1>18. ASSUME NEW q \in Queue, LockQueue(q) PROVE Findable'
  BY <1>18 DEF LockQueue
<1>19. ASSUME NEW q \in Queue, OnDone(q) PROVE Findable'
  BY <1>19 DEF OnDone
<1>20. ASSUME NEW q \in Queue, SetServerAddress(q) PROVE Findable'
  BY <1>20 DEF SetServerAddress
<1>21. ASSUME NEW q \in Queue, SaveAddress(q) PROVE Findable'
  BY <1>21 DEF SaveAddress
<1>22. ASSUME NEW q \in Queue, Resend(q) PROVE Findable'
  <2>1. /\ pc[q] \in {"answer", "new"}
        /\ UNCHANGED <<list, hold, uihold, calls, tied>>
    BY <1>22 DEF Resend
  <2>2. PICK n \in Queue :
          /\ pc[n] = "none" /\ timer' = [timer EXCEPT ![n] = "sleep"]
          /\ \/ /\ loop' = [loop EXCEPT ![n] = TRUE, ![q] = FALSE]
                /\ pc' = [pc EXCEPT ![n] = "start", ![q] = "handle"]
             \/ /\ loop' = [loop EXCEPT ![n] = TRUE]
                /\ pc' = [pc EXCEPT ![n] = "start", ![q] = "finish"]
    BY <1>22 DEF Resend, tg_queue_new, Fresh
  <2>3. kind'[q] # "null" /\ \A r \in Queue \ {q} : kind'[r] = kind[r]
    BY <1>22 DEF Resend
  <2>4. /\ n # q /\ pc'[n] = "start" /\ pc'[q] \in {"handle", "finish"}
        /\ \A r \in Queue \ {n, q} : pc'[r] = pc[r]
    BY <2>1, <2>2
  <2>5. \A r \in Queue \ {n} : loop'[r] => loop[r]
    BY <2>1, <2>2
  <2>6. \A r \in Queue \ {n} : timer'[r] = timer[r]
    BY <2>2
  <2>7. \A o \in Queue : Busy(o)' = Busy(o)
    BY <2>1
  <2>8. WaitingIsFindable'
    <3> SUFFICES ASSUME NEW o \in Queue, loop'[o],
                        pc'[o] \in {"resend", "loop", "recv", "handle"} \cup Catching
                 PROVE  o \in list' \/ Busy(o)' \/ calls'[o] = 1 \/ o \in tied'
      OBVIOUS
    <3>1. o # n /\ loop[o]
      BY <2>4, <2>5
    <3>2. pc[o] \in {"resend", "loop", "recv", "handle"} \cup Catching
      BY <2>1, <2>4, <3>1
    <3> QED
      BY <2>1, <2>7, <3>1, <3>2
  <2>9. \A o \in Queue : pc'[o] = "send" /\ loop'[o]
                           => o \in list' \/ Busy(o)' \/ calls'[o] = 1 \/ o \in tied'
    BY <2>1, <2>4, <2>5, <2>7
  <2>10. \A r \in Queue : pc'[r] = "finish" /\ kind'[r] = "null"
                            => calls'[hold'[r]] = 1
    BY <2>1, <2>3, <2>4
  <2>11. \A o \in Queue : Free(o)' => pc'[o] = "done"
    BY <2>1, <2>2, <2>4, <2>6
  <2> QED
    BY <2>8, <2>9, <2>10, <2>11
<1>23. ASSUME NEW q \in Queue, Finish(q) PROVE Findable'
  <2>1. /\ pc[q] = "finish" /\ hold[q] \in Queue
        /\ loop' = [loop EXCEPT ![hold[q]] = @ /\ kind[q] = "null"]
        /\ hold' = [hold EXCEPT ![q] = None]
        /\ kind' = [kind EXCEPT ![q] = "none"]
        /\ pc' = [pc EXCEPT ![q] = "handle"]
        /\ UNCHANGED <<list, uihold, calls, timer, tied>>
    BY <1>23 DEF Finish
  <2>2. loop'[hold[q]] => calls[hold[q]] = 1
    <3>1. loop'[hold[q]] = (loop[hold[q]] /\ kind[q] = "null")
      BY <2>1, Zenon
    <3> QED
      BY <2>1, <3>1
  <2>3. \A o \in Queue \ {hold[q]} : loop'[o] = loop[o] /\ Busy(o)' = Busy(o)
    BY <2>1
  <2>4. \A r \in Queue : /\ pc'[r] = pc[r] \/ r = q
                         /\ r # q => hold'[r] = hold[r] /\ kind'[r] = kind[r]
    BY <2>1
  <2>5. pc'[q] = "handle" /\ pc[q] = "finish"
    BY <2>1
  <2>6. WaitingIsFindable'
    <3> SUFFICES ASSUME NEW o \in Queue, loop'[o],
                        pc'[o] \in {"resend", "loop", "recv", "handle"} \cup Catching
                 PROVE  o \in list' \/ Busy(o)' \/ calls'[o] = 1 \/ o \in tied'
      OBVIOUS
    <3>1. CASE o = hold[q]
      BY <2>1, <2>2, <3>1
    <3>2. CASE o # hold[q]
      BY <2>1, <2>3, <2>4, <2>5, <3>2
    <3> QED
      BY <3>1, <3>2
  <2>7. \A o \in Queue : pc'[o] = "send" /\ loop'[o]
                           => o \in list' \/ Busy(o)' \/ calls'[o] = 1 \/ o \in tied'
    <3> SUFFICES ASSUME NEW o \in Queue, loop'[o], pc'[o] = "send"
                 PROVE  o \in list' \/ Busy(o)' \/ calls'[o] = 1 \/ o \in tied'
      OBVIOUS
    <3>1. CASE o = hold[q]
      BY <2>1, <2>2, <3>1
    <3>2. CASE o # hold[q]
      BY <2>1, <2>3, <2>4, <2>5, <3>2
    <3> QED
      BY <3>1, <3>2
  <2>8. \A r \in Queue : pc'[r] = "finish" /\ kind'[r] = "null"
                           => calls'[hold'[r]] = 1
    BY <2>1, <2>4, <2>5
  <2>9. \A o \in Queue : Free(o)' => pc'[o] = "done"
    BY <2>1, <2>4, <2>5
  <2> QED
    BY <2>6, <2>7, <2>8, <2>9
<1>24. ASSUME NEW q \in Queue, CloseSocket(q) PROVE Findable'
  BY <1>24 DEF CloseSocket
<1>25. ASSUME NEW q \in Queue, RunExit(q) PROVE Findable'
  BY <1>25 DEF RunExit, Cut, Matching, DistinctIds
<1>26. ASSUME NEW q \in Queue, TimerFires(q) PROVE Findable'
  BY <1>26 DEF TimerFires
<1>27. ASSUME NEW q \in Queue, TimerFrees(q) PROVE Findable'
  BY <1>27 DEF TimerFrees
<1>28. ASSUME NEW q \in Queue, NEW k \in Delivering \cup Resending,
             Catch(q, k) PROVE Findable'
  BY <1>28 DEF Catch, Cut, Matching
<1>29. ASSUME NEW q \in Queue, NEW k \in Resending, BareError(q, k)
      PROVE Findable'
  BY <1>29 DEF BareError
<1>30. CASE UNCHANGED vars
  BY <1>30 DEF vars
<1> QED
  BY <1>1, <1>2, <1>3, <1>4, <1>5, <1>6, <1>7, <1>8, <1>9, <1>10,
     <1>11, <1>12, <1>13, <1>14, <1>15, <1>16, <1>17, <1>18, <1>19,
     <1>20, <1>21, <1>22, <1>23, <1>24, <1>25, <1>26, <1>27, <1>28,
     <1>29, <1>30, <1>31, StepCases

\* For every clock: a thread that waits for its answer is listed, or in the
\* hands of the thread that cut it, or answered, or has shared its msgid.
THEOREM WaitingIsFindableHolds == Spec => []WaitingIsFindable
<1>1. Init => DistinctIds /\ ExitLeavesList /\ Findable
  BY DEF Init, DistinctIds, ExitLeavesList, Findable, WaitingIsFindable,
     Catching, Free
<1>2. Findable => WaitingIsFindable
  BY DEF Findable
<1>3. Spec => [](TypeOK /\ OwnerInv)
  BY OwnerCorrect
<1> QED
  BY <1>1, <1>2, <1>3, IdStep, FindStep, PTL DEF Spec

(***************************************************************************)
(* The address.  Only migrate_to_dc touches it; while redirects do not     *)
(* overlap, the one thread inside it is about to store what it has set.    *)
(***************************************************************************)

\* Every step keeps the address stored or due to be stored.
LEMMA AddressStep ==
  ASSUME TypeOK, AddressDue, [Next]_vars
  PROVE  AddressDue'
<1> USE ConstantsAssumption DEF TypeOK, AddressDue, catchVars, wireVars,
        netVars, addrVars, appVars, histVars, auxVars, Goto
<1>1. ASSUME NEW rq \in Request, tg_send_query_async(rq) PROVE AddressDue'
  BY <1>1 DEF tg_send_query_async, tg_queue_new, Fresh
<1>2. CASE CancelCut
  BY <1>2 DEF CancelCut, Cut, Matching
<1>3. CASE CancelStop
  BY <1>3 DEF CancelStop
<1>4. CASE tg_queue_cancell_all
  BY <1>4 DEF tg_queue_cancell_all
<1>5. ASSUME NEW q \in Queue, ReceivePackage(q) PROVE AddressDue'
  BY <1>5 DEF ReceivePackage
<1>6. ASSUME NEW q \in Queue, ReceiveBadSalt(q) PROVE AddressDue'
  BY <1>6 DEF ReceiveBadSalt
<1>7. ASSUME NEW q \in Queue, ReceiveError(q) PROVE AddressDue'
  BY <1>7 DEF ReceiveError
<1>8. ASSUME NEW q \in Queue, ReceiveEof(q) PROVE AddressDue'
  BY <1>8 DEF ReceiveEof
<1>9. ASSUME NEW q \in Queue, ProgressStop(q) PROVE AddressDue'
  BY <1>9 DEF ProgressStop
<1>31. ASSUME NEW q \in Queue, SpinEnds(q) PROVE AddressDue'
  BY <1>31 DEF SpinEnds
<1>10. ASSUME NEW q \in Queue, OpenSocket(q) PROVE AddressDue'
  BY <1>10 DEF OpenSocket
<1>11. ASSUME NEW q \in Queue, OpenFails(q) PROVE AddressDue'
  BY <1>11 DEF OpenFails
<1>12. ASSUME NEW q \in Queue, tg_queue_add(q) PROVE AddressDue'
  BY <1>12 DEF tg_queue_add
<1>13. ASSUME NEW q \in Queue, tg_send(q) PROVE AddressDue'
  BY <1>13 DEF tg_send, NextMsgId, Tied
<1>14. ASSUME NEW q \in Queue, SendFails(q) PROVE AddressDue'
  BY <1>14 DEF SendFails, NextMsgId, Tied
<1>15. ASSUME NEW q \in Queue, LoopTop(q) PROVE AddressDue'
  BY <1>15 DEF LoopTop
<1>16. ASSUME NEW q \in Queue, PackageEnd(q) PROVE AddressDue'
  BY <1>16 DEF PackageEnd
<1>17. ASSUME NEW q \in Queue, CheckLoop(q) PROVE AddressDue'
  BY <1>17 DEF CheckLoop
<1>18. ASSUME NEW q \in Queue, LockQueue(q) PROVE AddressDue'
  BY <1>18 DEF LockQueue
<1>19. ASSUME NEW q \in Queue, OnDone(q) PROVE AddressDue'
  BY <1>19 DEF OnDone
<1>20. ASSUME NEW q \in Queue, SetServerAddress(q) PROVE AddressDue'
  BY <1>20 DEF SetServerAddress
<1>21. ASSUME NEW q \in Queue, SaveAddress(q) PROVE AddressDue'
  BY <1>21 DEF SaveAddress
<1>22. ASSUME NEW q \in Queue, Resend(q) PROVE AddressDue'
  BY <1>22 DEF Resend, tg_queue_new, Fresh
<1>23. ASSUME NEW q \in Queue, Finish(q) PROVE AddressDue'
  BY <1>23 DEF Finish
<1>24. ASSUME NEW q \in Queue, CloseSocket(q) PROVE AddressDue'
  BY <1>24 DEF CloseSocket
<1>25. ASSUME NEW q \in Queue, RunExit(q) PROVE AddressDue'
  BY <1>25 DEF RunExit, Cut, Matching
<1>26. ASSUME NEW q \in Queue, TimerFires(q) PROVE AddressDue'
  BY <1>26 DEF TimerFires
<1>27. ASSUME NEW q \in Queue, TimerFrees(q) PROVE AddressDue'
  BY <1>27 DEF TimerFrees
<1>28. ASSUME NEW q \in Queue, NEW k \in Delivering \cup Resending,
             Catch(q, k) PROVE AddressDue'
  BY <1>28 DEF Catch, Cut, Matching
<1>29. ASSUME NEW q \in Queue, NEW k \in Resending, BareError(q, k)
      PROVE AddressDue'
  BY <1>29 DEF BareError
<1>30. CASE UNCHANGED vars
  BY <1>30 DEF vars
<1> QED
  BY <1>1, <1>2, <1>3, <1>4, <1>5, <1>6, <1>7, <1>8, <1>9, <1>10,
     <1>11, <1>12, <1>13, <1>14, <1>15, <1>16, <1>17, <1>18, <1>19,
     <1>20, <1>21, <1>22, <1>23, <1>24, <1>25, <1>26, <1>27, <1>28,
     <1>29, <1>30, <1>31, StepCases

\* For every number of data centres and threads redirected to them: outside
\* migrate_to_dc the stored address is the one in use, unless the last
\* redirects overlapped.
THEOREM AddressSavedHolds == Spec => []AddressSaved
<1>1. Init => AddressDue
  BY DEF Init, AddressDue
<1>2. AddressDue => AddressSaved
  BY DEF AddressDue, AddressSaved
<1>3. Spec => []TypeOK
  BY TypeCorrect, PTL
<1> QED
  BY <1>1, <1>2, <1>3, AddressStep, PTL DEF Spec

(***************************************************************************)
(* Descriptors.  A failing tg_send closes the socket that tg_run_queue     *)
(* closes again; the threads this leads astray are the only ones that do   *)
(* not have their descriptor to themselves.                                *)
(***************************************************************************)

\* A failed tg_net_open at most opens a descriptor nobody had.
LEMMA OpenFailsOpens ==
  ASSUME NEW q \in Queue, OpenFails(q)
  PROVE  \/ fds' = fds
         \/ \E f \in Fd : fds[f] = None /\ fds' = [fds EXCEPT ![f] = q]
BY Zenon DEF OpenFails, FreeFd

\* So it takes no descriptor from anyone.
LEMMA OpenFailsKeeps ==
  ASSUME TypeOK, NEW q \in Queue, OpenFails(q), NEW f \in Fd, fds[f] # None
  PROVE  fds'[f] = fds[f]
BY OpenFailsOpens DEF TypeOK

\* The steps that open or close descriptors.
LEMMA DescriptorSteps ==
  ASSUME Next
  PROVE  \/ UNCHANGED fds
         \/ \E q \in Queue : \/ OpenSocket(q) \/ OpenFails(q) \/ SendFails(q)
                             \/ CloseSocket(q)
<1> USE DEF netVars
<1>1. CASE Application
  BY <1>1 DEF Application, tg_send_query_async, CancelCut, CancelStop,
     tg_queue_cancell_all
<1>2. ASSUME NEW q \in Queue, Network(q) PROVE UNCHANGED fds
  BY <1>2 DEF Network, ReceivePackage, ReceiveBadSalt, ReceiveError,
     ReceiveEof, SpinEnds, ProgressStop, Catch, BareError
<1>3. ASSUME NEW q \in Queue, Timer(q) PROVE UNCHANGED fds
  BY <1>3 DEF Timer, TimerFires, TimerFrees
<1>4. ASSUME NEW q \in Queue, RunThread(q)
      PROVE  \/ UNCHANGED fds
             \/ OpenSocket(q) \/ OpenFails(q) \/ SendFails(q) \/ CloseSocket(q)
  BY <1>4 DEF RunThread, tg_queue_add, tg_send, LoopTop, PackageEnd, CheckLoop,
     LockQueue, OnDone, SetServerAddress, SaveAddress, Resend, Finish, RunExit
<1> QED
  BY <1>1, <1>2, <1>3, <1>4 DEF Next

\* Every step keeps a connected thread the only user of its descriptor.
LEMMA DescriptorStep ==
  ASSUME TypeOK, TakerHasObject, OwnDescriptor, [Next]_vars
  PROVE  OwnDescriptor'
<1> USE ConstantsAssumption DEF TypeOK, OwnDescriptor, Connected, Catching,
        catchVars, wireVars, netVars, addrVars, appVars, histVars, auxVars, Goto
<1>1. ASSUME NEW rq \in Request, tg_send_query_async(rq) PROVE OwnDescriptor'
  BY <1>1 DEF tg_send_query_async, tg_queue_new, Fresh
<1>2. CASE CancelCut
  BY <1>2 DEF CancelCut, Cut, Matching
<1>3. CASE CancelStop
  BY <1>3 DEF CancelStop
<1>4. CASE tg_queue_cancell_all
  BY <1>4 DEF tg_queue_cancell_all
<1>5. ASSUME NEW q \in Queue, ReceivePackage(q) PROVE OwnDescriptor'
  BY <1>5 DEF ReceivePackage
<1>6. ASSUME NEW q \in Queue, ReceiveBadSalt(q) PROVE OwnDescriptor'
  BY <1>6 DEF ReceiveBadSalt
<1>7. ASSUME NEW q \in Queue, ReceiveError(q) PROVE OwnDescriptor'
  BY <1>7 DEF ReceiveError
<1>8. ASSUME NEW q \in Queue, ReceiveEof(q) PROVE OwnDescriptor'
  BY <1>8 DEF ReceiveEof
<1>9. ASSUME NEW q \in Queue, ProgressStop(q) PROVE OwnDescriptor'
  BY <1>9 DEF ProgressStop
<1>31. ASSUME NEW q \in Queue, SpinEnds(q) PROVE OwnDescriptor'
  BY <1>31 DEF SpinEnds
<1>10. ASSUME NEW q \in Queue, OpenSocket(q) PROVE OwnDescriptor'
  BY <1>10 DEF OpenSocket, FreeFd
<1>11. ASSUME NEW q \in Queue, OpenFails(q) PROVE OwnDescriptor'
  <2>1. UNCHANGED <<sock, astray>> /\ pc' = [pc EXCEPT ![q] = "done"] /\ pc[q] = "start"
    BY <1>11 DEF OpenFails
  <2>2. \A f \in Fd : fds[f] # None => fds'[f] = fds[f]
    BY <1>11, OpenFailsKeeps
  <2> HIDE DEF TypeOK
  <2> SUFFICES ASSUME NEW o \in Queue, pc'[o] \in Connected
               PROVE  sock'[o] # None /\ (o \in astray' \/ fds'[sock'[o]] = o)
    BY DEF OwnDescriptor
  <2>3. pc'[o] = pc[o] /\ sock'[o] = sock[o]
    BY <2>1 DEF TypeOK
  <2>4. sock[o] \in Fd /\ (o \in astray \/ fds[sock[o]] = o)
    BY <2>3 DEF TypeOK
  <2> QED
    BY <2>1, <2>2, <2>3, <2>4
<1>12. ASSUME NEW q \in Queue, tg_queue_add(q) PROVE OwnDescriptor'
  BY <1>12 DEF tg_queue_add
<1>13. ASSUME NEW q \in Queue, tg_send(q) PROVE OwnDescriptor'
  BY <1>13 DEF tg_send, NextMsgId, Tied
<1>14. ASSUME NEW q \in Queue, SendFails(q) PROVE OwnDescriptor'
  <2>1. /\ fds' = [fds EXCEPT ![sock[q]] = None] /\ UNCHANGED sock
        /\ pc' = [pc EXCEPT ![q] = "close"] /\ pc[q] \in {"send", "resend"}
        /\ astray' = astray \cup {q} \cup Opener(q)
    BY <1>14 DEF SendFails
  <2> SUFFICES ASSUME NEW o \in Queue, pc'[o] \in Connected
               PROVE  sock'[o] # None /\ (o \in astray' \/ fds'[sock'[o]] = o)
    BY DEF OwnDescriptor
  <2>2. sock[q] \in Fd /\ sock[o] \in Fd /\ (o \in astray \/ fds[sock[o]] = o)
    BY <2>1
  <2>3. CASE o = q
    BY <2>1, <2>2, <2>3
  <2>4. CASE o # q /\ sock[o] = sock[q]
    BY <2>1, <2>2, <2>4 DEF Opener
  <2>5. CASE o # q /\ sock[o] # sock[q]
    BY <2>1, <2>2, <2>5
  <2> QED
    BY <2>3, <2>4, <2>5
<1>15. ASSUME NEW q \in Queue, LoopTop(q) PROVE OwnDescriptor'
  BY <1>15 DEF LoopTop
<1>16. ASSUME NEW q \in Queue, PackageEnd(q) PROVE OwnDescriptor'
  BY <1>16 DEF PackageEnd
<1>17. ASSUME NEW q \in Queue, CheckLoop(q) PROVE OwnDescriptor'
  BY <1>17 DEF CheckLoop
<1>18. ASSUME NEW q \in Queue, LockQueue(q) PROVE OwnDescriptor'
  BY <1>18 DEF LockQueue
<1>19. ASSUME NEW q \in Queue, OnDone(q) PROVE OwnDescriptor'
  BY <1>19 DEF OnDone
<1>20. ASSUME NEW q \in Queue, SetServerAddress(q) PROVE OwnDescriptor'
  BY <1>20 DEF SetServerAddress
<1>21. ASSUME NEW q \in Queue, SaveAddress(q) PROVE OwnDescriptor'
  BY <1>21 DEF SaveAddress
<1>22. ASSUME NEW q \in Queue, Resend(q) PROVE OwnDescriptor'
  BY <1>22 DEF Resend, tg_queue_new, Fresh
<1>23. ASSUME NEW q \in Queue, Finish(q) PROVE OwnDescriptor'
  BY <1>23 DEF Finish
<1>24. ASSUME NEW q \in Queue, CloseSocket(q) PROVE OwnDescriptor'
  <2>1. /\ fds' = [fds EXCEPT ![sock[q]] = None] /\ UNCHANGED sock
        /\ pc' = [pc EXCEPT ![q] = "cut"] /\ pc[q] = "close"
        /\ astray' = astray \cup (Opener(q) \ {q})
    BY <1>24 DEF CloseSocket
  <2> SUFFICES ASSUME NEW o \in Queue, pc'[o] \in Connected
               PROVE  sock'[o] # None /\ (o \in astray' \/ fds'[sock'[o]] = o)
    BY DEF OwnDescriptor
  <2>2. /\ o # q /\ sock[q] \in Fd /\ sock[o] \in Fd
        /\ o \in astray \/ fds[sock[o]] = o
    BY <2>1
  <2>3. CASE sock[o] = sock[q]
    BY <2>1, <2>2, <2>3 DEF Opener
  <2>4. CASE sock[o] # sock[q]
    BY <2>1, <2>2, <2>4
  <2> QED
    BY <2>3, <2>4
<1>25. ASSUME NEW q \in Queue, RunExit(q) PROVE OwnDescriptor'
  BY <1>25 DEF RunExit, Cut, Matching
<1>26. ASSUME NEW q \in Queue, TimerFires(q) PROVE OwnDescriptor'
  BY <1>26 DEF TimerFires
<1>27. ASSUME NEW q \in Queue, TimerFrees(q) PROVE OwnDescriptor'
  BY <1>27 DEF TimerFrees
<1>28. ASSUME NEW q \in Queue, NEW k \in Delivering \cup Resending,
             Catch(q, k) PROVE OwnDescriptor'
  BY <1>28 DEF Catch, Cut, Matching
<1>29. ASSUME NEW q \in Queue, NEW k \in Resending, BareError(q, k)
      PROVE OwnDescriptor'
  BY <1>29 DEF BareError
<1>30. CASE UNCHANGED vars
  BY <1>30 DEF vars
<1> QED
  BY <1>1, <1>2, <1>3, <1>4, <1>5, <1>6, <1>7, <1>8, <1>9, <1>10,
     <1>11, <1>12, <1>13, <1>14, <1>15, <1>16, <1>17, <1>18, <1>19,
     <1>20, <1>21, <1>22, <1>23, <1>24, <1>25, <1>26, <1>27, <1>28,
     <1>29, <1>30, <1>31, StepCases

\* For every number of connections and every failure, of sends too: a step
\* that closes a descriptor is a step of the thread that opened it or of one
\* gone astray.
THEOREM SocketOwnedHolds == Spec => SocketOwned
<1> DEFINE Own == \A f \in Fd : fds[f] # None /\ fds'[f] # fds[f]
                    => \E q \in astray \cup {fds[f]} : pc'[q] # pc[q]
<1>1. Init => OwnDescriptor
  BY DEF Init, OwnDescriptor, Connected, Catching
<1>2. ASSUME TypeOK, OwnDescriptor, Next PROVE Own
  <2> USE ConstantsAssumption DEF TypeOK, OwnDescriptor, Connected, Catching,
          catchVars, wireVars, netVars, addrVars, appVars, histVars, auxVars, Goto
  <2>1. ASSUME NEW q \in Queue, OpenSocket(q) PROVE Own
    BY <2>1 DEF OpenSocket, FreeFd
  <2>2. ASSUME NEW q \in Queue, OpenFails(q) PROVE Own
    <3>1. \A f \in Fd : fds[f] # None => fds'[f] = fds[f]
      BY <1>2, <2>2, OpenFailsKeeps
    <3> QED
      BY <3>1
  <2>3. ASSUME NEW q \in Queue, SendFails(q) PROVE Own
    BY <1>2, <2>3 DEF SendFails
  <2>4. ASSUME NEW q \in Queue, CloseSocket(q) PROVE Own
    BY <1>2, <2>4 DEF CloseSocket
  <2>5. CASE UNCHANGED fds
    BY <2>5
  <2>6. \/ UNCHANGED fds
        \/ \E q \in Queue : \/ OpenSocket(q) \/ OpenFails(q) \/ SendFails(q)
                            \/ CloseSocket(q)
    BY <1>2, DescriptorSteps
  <2> QED
    BY <2>1, <2>2, <2>3, <2>4, <2>5, <2>6
<1>3. TypeOK /\ OwnDescriptor /\ [Next]_vars => [Own]_vars
  BY <1>2
<1>4. Spec => [](TypeOK /\ TakerHasObject)
  BY TypeCorrect
<1> QED
  BY <1>1, <1>3, <1>4, DescriptorStep, PTL DEF Spec, SocketOwned

(***************************************************************************)
(* What follows for the application.                                       *)
(***************************************************************************)

\* The callback of an object runs at most once, for every instance.
THEOREM CallbackOnceHolds == Spec => []CallbackOnce
<1>1. OwnerInv => CallbackOnce
  BY DEF OwnerInv
<1> QED
  BY <1>1, OwnerCorrect, PTL

\* The callback of a cancelled object never runs, for every instance.
THEOREM CancelledSilentHolds == Spec => []CancelledSilent
<1>1. OwnerInv => CancelledSilent
  BY DEF OwnerInv
<1> QED
  BY <1>1, OwnerCorrect, PTL

\* tg_queue_cancell_all stops every object it finds in the list, because a
\* locked object is never listed.
THEOREM CancelAllHolds == Spec => CancelAllStopsAll
<1>1. TypeOK /\ OwnerInv /\ [Next]_vars
        => [tg_queue_cancell_all => \A q \in list : ~loop'[q]]_vars
  BY DEF TypeOK, OwnerInv, UntouchedUntilCut, Untouched, tg_queue_cancell_all
<1> QED
  BY <1>1, OwnerCorrect, PTL DEF Spec, CancelAllStopsAll

(***************************************************************************)
(* Refinement.  Steps that change the status of a query are the call, the  *)
(* callback and the two cancellations; every other step stutters.          *)
(***************************************************************************)

View == [rq \in Request |-> Status(rq)]
Refined == rpc!Next \/ UNCHANGED View

\* Functions on Request that differ at one point only.
LEMMA ViewUpdate ==
  ASSUME NEW f, NEW g, NEW r \in Request, NEW v,
         f = [x \in Request |-> f[x]], g = [x \in Request |-> g[x]],
         g[r] = v, \A x \in Request : x # r => g[x] = f[x]
  PROVE  g = [f EXCEPT ![r] = v]
  OBVIOUS

\* A status change from idle to pending is the step Call of Rpc ...
LEMMA CallView ==
  ASSUME NEW rq \in Request, View[rq] = "idle", View'[rq] = "pending",
         \A x \in Request : x # rq => View'[x] = View[x]
  PROVE  rpc!Next
<1>1. View = [x \in Request |-> View[x]] /\ View' = [x \in Request |-> View'[x]]
  BY DEF View
<1>2. View' = [View EXCEPT ![rq] = "pending"]
  BY <1>1, ViewUpdate
<1>3. rpc!Call(rq)
  BY <1>2 DEF rpc!Call, View
<1> QED
  BY <1>3 DEF rpc!Next

\* ... from pending to answered the step Reply ...
LEMMA ReplyView ==
  ASSUME NEW rq \in Request, View[rq] = "pending", View'[rq] = "answered",
         \A x \in Request : x # rq => View'[x] = View[x]
  PROVE  rpc!Next
<1>1. View = [x \in Request |-> View[x]] /\ View' = [x \in Request |-> View'[x]]
  BY DEF View
<1>2. View' = [View EXCEPT ![rq] = "answered"]
  BY <1>1, ViewUpdate
<1>3. rpc!Reply(rq)
  BY <1>2 DEF rpc!Reply, View
<1> QED
  BY <1>3 DEF rpc!Next

\* ... and from pending to cancelled, of any set of calls, CancelSome.
LEMMA CancelView ==
  ASSUME NEW S \in SUBSET Request,
         \A x \in S : View[x] = "pending" /\ View'[x] = "cancelled",
         \A x \in Request : x \notin S => View'[x] = View[x]
  PROVE  rpc!Next
<1>1. View' = [x \in Request |-> View'[x]]
  BY DEF View
<1>2. View' = [x \in Request |-> IF x \in S THEN "cancelled" ELSE View[x]]
  BY <1>1
<1>3. rpc!CancelSome(S)
  BY <1>2 DEF rpc!CancelSome, View
<1> QED
  BY <1>3 DEF rpc!Next

\* Every step is one of Rpc or leaves its state alone.
LEMMA RefineStep ==
  ASSUME TypeOK, OwnerInv, OneCarrier, [Next]_vars
  PROVE  Refined
<1> USE ConstantsAssumption DEF TypeOK, OwnerInv, OneCarrier, Refined,
        catchVars, wireVars, netVars, addrVars, appVars, histVars, auxVars
<1>a. ASSUME UNCHANGED <<calls, req, caller, cancelled>> PROVE Refined
  BY <1>a DEF View, Status, Answered, Cancelled
<1>1. ASSUME NEW rq \in Request, tg_send_query_async(rq) PROVE Refined
  <2>1. PICK n \in Queue :
          /\ pc[n] = "none" /\ req' = [req EXCEPT ![n] = rq]
          /\ caller' = [caller EXCEPT ![rq] = n]
    BY <1>1 DEF tg_send_query_async, tg_queue_new, Fresh
  <2>2. UNCHANGED <<calls, cancelled>> /\ caller[rq] = None
    BY <1>1 DEF tg_send_query_async
  <2>3. calls[n] = 0 /\ n \notin cancelled /\ req[n] = None
    BY <2>1 DEF UntouchedUntilCut, Untouched, Young
  <2>4. View[rq] = "idle" /\ View'[rq] = "pending"
    BY <2>1, <2>2, <2>3 DEF View, Status, Answered, Cancelled
  <2>5. ASSUME NEW x \in Request, x # rq PROVE View'[x] = View[x]
    BY <2>1, <2>2, <2>3, <2>5 DEF View, Status, Answered, Cancelled
  <2> QED
    BY <2>4, <2>5, CallView
<1>2. CASE CancelCut
  BY <1>2, <1>a DEF CancelCut
<1>3. CASE CancelStop
  <2> DEFINE rq == req[uihold]
  <2>1. /\ uihold \in Queue /\ uihold \notin resent /\ rq \in Request
        /\ calls[uihold] = 0 /\ caller[rq] # None
    BY <1>3 DEF CancelStop, OneTaker, UntouchedUntilCut, Untouched, Young
  <2>2. cancelled' = cancelled \cup {uihold} /\ UNCHANGED <<calls, req, caller>>
    BY <1>3 DEF CancelStop
  <2>3. ~Answered(rq)
    BY <2>1 DEF Answered
  <2>4. \A x \in Request : /\ Answered(x)' = Answered(x)
                           /\ Cancelled(x)' = (Cancelled(x) \/ x = rq)
    BY <2>1, <2>2 DEF Answered, Cancelled
  <2>5. View[rq] \in {"pending", "cancelled"} /\ View'[rq] = "cancelled"
    BY <2>1, <2>2, <2>3, <2>4 DEF View, Status
  <2>6. ASSUME NEW x \in Request, x # rq PROVE View'[x] = View[x]
    BY <2>2, <2>4, <2>6 DEF View, Status
  <2>7. CASE View[rq] = "pending"
    <3> DEFINE S == {rq}
    <3>1. S \in SUBSET Request
      BY <2>1
    <3>2. \A x \in S : View[x] = "pending" /\ View'[x] = "cancelled"
      BY <2>5, <2>7
    <3>3. \A x \in Request : x \notin S => View'[x] = View[x]
      BY <2>6
    <3> HIDE DEF S
    <3> QED
      BY <3>1, <3>2, <3>3, CancelView
  <2>8. CASE View[rq] = "cancelled"
    BY <2>5, <2>6, <2>8 DEF View
  <2> QED
    BY <2>5, <2>7, <2>8
<1>4. CASE tg_queue_cancell_all
  <2> DEFINE stopped == {q \in list : lock[q] = None}
             S == {req[q] : q \in stopped}
  <2>1. cancelled' = cancelled \cup stopped /\ UNCHANGED <<calls, req, caller>>
    BY <1>4 DEF tg_queue_cancell_all
  <2>2. ASSUME NEW q \in stopped
        PROVE  req[q] \in Request /\ View[req[q]] = "pending"
    <3>1. /\ q \in Queue /\ q \notin resent /\ calls[q] = 0
          /\ q \notin cancelled /\ req[q] \in Request
          /\ caller[req[q]] # None
      BY DEF UntouchedUntilCut, Untouched, Young
    <3>2. ~Answered(req[q]) /\ ~Cancelled(req[q])
      BY <3>1 DEF Answered, Cancelled
    <3> QED
      BY <3>1, <3>2 DEF View, Status
  <2>3. \A x \in Request : /\ Answered(x)' = Answered(x)
                           /\ Cancelled(x)' <=> Cancelled(x) \/ x \in S
    <3> TAKE x \in Request
    <3>1. Answered(x)' = Answered(x)
      BY <2>1 DEF Answered
    <3>2. x \in S <=> \E q \in stopped : req[q] = x
      OBVIOUS
    <3>3. Cancelled(x)' <=> \E q \in cancelled \cup stopped : req[q] = x
      BY <2>1 DEF Cancelled
    <3>4. Cancelled(x)' <=> Cancelled(x) \/ x \in S
      BY <3>2, <3>3 DEF Cancelled
    <3> QED
      BY <3>1, <3>4
  <2>4. S \in SUBSET Request
    BY <2>2
  <2>5. ASSUME NEW x \in S PROVE View[x] = "pending" /\ View'[x] = "cancelled"
    <3>1. x \in Request /\ View[x] = "pending"
      BY <2>2
    <3>2. caller[x] # None /\ ~Answered(x)
      BY <3>1 DEF View, Status
    <3> QED
      BY <2>1, <2>3, <3>1, <3>2 DEF View, Status
  <2>6. ASSUME NEW x \in Request, x \notin S PROVE View'[x] = View[x]
    BY <2>1, <2>3, <2>6 DEF View, Status
  <2> QED
    BY <2>4, <2>5, <2>6, CancelView
<1>5. ASSUME NEW q \in Queue, ReceivePackage(q) PROVE Refined
  BY <1>5, <1>a DEF ReceivePackage
<1>6. ASSUME NEW q \in Queue, ReceiveBadSalt(q) PROVE Refined
  BY <1>6, <1>a DEF ReceiveBadSalt
<1>7. ASSUME NEW q \in Queue, ReceiveError(q) PROVE Refined
  BY <1>7, <1>a DEF ReceiveError
<1>8. ASSUME NEW q \in Queue, ReceiveEof(q) PROVE Refined
  BY <1>8, <1>a DEF ReceiveEof
<1>9. ASSUME NEW q \in Queue, ProgressStop(q) PROVE Refined
  BY <1>9, <1>a DEF ProgressStop
<1>31. ASSUME NEW q \in Queue, SpinEnds(q) PROVE Refined
  BY <1>31, <1>a DEF SpinEnds
<1>10. ASSUME NEW q \in Queue, OpenSocket(q) PROVE Refined
  BY <1>10, <1>a DEF OpenSocket
<1>11. ASSUME NEW q \in Queue, OpenFails(q) PROVE Refined
  BY <1>11, <1>a DEF OpenFails
<1>12. ASSUME NEW q \in Queue, tg_queue_add(q) PROVE Refined
  BY <1>12, <1>a DEF tg_queue_add
<1>13. ASSUME NEW q \in Queue, tg_send(q) PROVE Refined
  BY <1>13, <1>a DEF tg_send
<1>14. ASSUME NEW q \in Queue, SendFails(q) PROVE Refined
  BY <1>14, <1>a DEF SendFails
<1>15. ASSUME NEW q \in Queue, LoopTop(q) PROVE Refined
  BY <1>15, <1>a DEF LoopTop
<1>16. ASSUME NEW q \in Queue, PackageEnd(q) PROVE Refined
  BY <1>16, <1>a DEF PackageEnd
<1>17. ASSUME NEW q \in Queue, CheckLoop(q) PROVE Refined
  BY <1>17, <1>a DEF CheckLoop
<1>18. ASSUME NEW q \in Queue, LockQueue(q) PROVE Refined
  BY <1>18, <1>a DEF LockQueue
<1>19. ASSUME NEW q \in Queue, OnDone(q) PROVE Refined
  <2> DEFINE o == hold[q]
             rq == req[o]
  <2>1. o \in Queue /\ calls[o] = 0 /\ o \notin cancelled /\ o \notin resent
    BY <1>19 DEF OnDone, OneTaker, TakerHasObject
  <2>2. rq \in Request /\ caller[rq] # None
    BY <2>1 DEF UntouchedUntilCut, Untouched, Young
  <2>3. /\ calls' = [calls EXCEPT ![o] = @ + 1]
        /\ UNCHANGED <<cancelled, req, caller>>
    BY <1>19 DEF OnDone
  <2>4. ~Answered(rq) /\ ~Cancelled(rq)
    BY <2>1, <2>2 DEF Answered, Cancelled
  <2>5. \A x \in Request : /\ Answered(x)' <=> Answered(x) \/ x = rq
                           /\ Cancelled(x)' <=> Cancelled(x)
    <3>1. \A p \in Queue : calls'[p] > 0 <=> calls[p] > 0 \/ p = o
      BY <2>1, <2>3
    <3> TAKE x \in Request
    <3>2. Answered(x)' <=> Answered(x) \/ x = rq
      BY <2>1, <2>3, <3>1 DEF Answered
    <3>3. Cancelled(x)' <=> Cancelled(x)
      BY <2>3 DEF Cancelled
    <3> QED
      BY <3>2, <3>3
  <2>6. View[rq] = "pending" /\ View'[rq] = "answered"
    BY <2>2, <2>3, <2>4, <2>5 DEF View, Status
  <2>7. ASSUME NEW x \in Request, x # rq PROVE View'[x] = View[x]
    BY <2>3, <2>5, <2>7 DEF View, Status
  <2> QED
    BY <2>2, <2>6, <2>7, ReplyView
<1>20. ASSUME NEW q \in Queue, SetServerAddress(q) PROVE Refined
  BY <1>20, <1>a DEF SetServerAddress
<1>21. ASSUME NEW q \in Queue, SaveAddress(q) PROVE Refined
  BY <1>21, <1>a DEF SaveAddress
<1>22. ASSUME NEW q \in Queue, Resend(q) PROVE Refined
  <2> DEFINE c == IF hold[q] = None THEN q ELSE hold[q]
  <2>1. PICK n \in Queue :
          pc[n] = "none" /\ req' = [req EXCEPT ![n] = req[c]]
    BY <1>22 DEF Resend, tg_queue_new, Fresh
  <2>2. calls[n] = 0 /\ n \notin cancelled /\ req[n] = None
    BY <2>1 DEF UntouchedUntilCut, Untouched, Young
  <2>3. UNCHANGED <<calls, cancelled, caller>>
    BY <1>22 DEF Resend
  <2>4. \A x \in Request : /\ Answered(x)' = Answered(x)
                           /\ Cancelled(x)' = Cancelled(x)
    BY <2>1, <2>2, <2>3 DEF Answered, Cancelled
  <2> QED
    BY <2>3, <2>4 DEF View, Status
<1>23. ASSUME NEW q \in Queue, Finish(q) PROVE Refined
  BY <1>23, <1>a DEF Finish
<1>24. ASSUME NEW q \in Queue, CloseSocket(q) PROVE Refined
  BY <1>24, <1>a DEF CloseSocket
<1>25. ASSUME NEW q \in Queue, RunExit(q) PROVE Refined
  BY <1>25, <1>a DEF RunExit
<1>26. ASSUME NEW q \in Queue, TimerFires(q) PROVE Refined
  BY <1>26, <1>a DEF TimerFires
<1>27. ASSUME NEW q \in Queue, TimerFrees(q) PROVE Refined
  BY <1>27, <1>a DEF TimerFrees
<1>28. ASSUME NEW q \in Queue, NEW k \in Delivering \cup Resending, Catch(q, k) PROVE Refined
  BY <1>28, <1>a DEF Catch
<1>29. ASSUME NEW q \in Queue, NEW k \in Resending, BareError(q, k) PROVE Refined
  BY <1>29, <1>a DEF BareError
<1>30. CASE UNCHANGED vars
  BY <1>30, <1>a DEF vars
<1> QED
  BY <1>1, <1>2, <1>3, <1>4, <1>5, <1>6, <1>7, <1>8, <1>9, <1>10,
     <1>11, <1>12, <1>13, <1>14, <1>15, <1>16, <1>17, <1>18, <1>19,
     <1>20, <1>21, <1>22, <1>23, <1>24, <1>25, <1>26, <1>27, <1>28,
     <1>29, <1>30, <1>31, StepCases

\* Without bare errors the queues implement module Rpc: a call is answered at
\* most once or cancelled, and either is final.
THEOREM RefinesRpc ==
  ASSUME "bare" \notin Answer
  PROVE  Spec => ImplementsRpc
<1>1. Init => rpc!Init
  BY ConstantsAssumption DEF Init, rpc!Init, Status
<1>2. Init => OneCarrier
  BY ConstantsAssumption DEF Init, OneCarrier, Young, Catching
<1>3. TypeOK /\ OwnerInv /\ OneCarrier /\ [Next]_vars
        => [rpc!Next]_[rq \in Request |-> Status(rq)]
  BY RefineStep DEF Refined, View
<1>4. Spec => [](TypeOK /\ OwnerInv)
  BY OwnerCorrect
<1> QED
  BY <1>1, <1>2, <1>3, <1>4, CarrierStep, PTL DEF Spec, ImplementsRpc, rpc!Spec
=============================================================================
