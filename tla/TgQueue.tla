------------------------------- MODULE TgQueue -------------------------------
(***************************************************************************)
(* The request runtime of libtg, libtg/tg/queue.c.                         *)
(*                                                                         *)
(* Every query is a tg_queue_t object with two threads of its own: the run *)
(* thread (tg_run_queue) opens a connection, enters the object into the    *)
(* list tg->queue, sends the query and reads packages; the timer thread    *)
(* (tg_run_timer) stops the run thread after 60 seconds and frees the      *)
(* object.  An answer names the msg_id of its query and may be read by the *)
(* run thread of any object: catched_tl cuts the addressed object from the *)
(* list and runs its callback, or sends the query again through a new      *)
(* object when the server redirects it or asks to wait.                    *)
(***************************************************************************)
EXTENDS Integers, FiniteSets

CONSTANTS
  Queue,        \* the tg_queue_t objects; an address is used once
  Request,      \* the calls of tg_send_query_sync and tg_send_query_async
  Multithread,  \* the requests made with multithread = true
  Fd,           \* socket descriptors, the numbers below some limit
  Dc,           \* data centre addresses
  Answer,       \* the kinds of server messages of this instance
  Fault,        \* the failures of this instance
  ClockTies,    \* whether two reads of the clock may return one value
  Cancel,       \* whether another thread calls tg_queue_cancell_*
  MaxMsgId,     \* bound on the msg_ids handed out
  None          \* NULL

\* What catched_tl is called with: a body for on_done (a plain result or an
\* error without a redirect), a body that does not deserialise, a body whose
\* replacement is NULL (broken gzip, bad_msg_notification), and the three
\* errors that send the query again.
Delivering == {"result", "null", "broken"}
Resending  == {"file_migrate", "user_migrate", "flood"}
\* "bare": rpc_error outside rpc_result; "salt": bad_server_salt.
AnswerKind == Delivering \cup Resending \cup {"bare", "salt"}
\* "open": socket() fails; "connect": connect() fails; "send": tg_send fails;
\* "recv": read error, 404 or undecryptable package; "eof": peer closed;
\* "progress": the progress callback asks to stop.
FaultKind == {"open", "connect", "send", "recv", "eof", "progress"}

ASSUME ConstantsAssumption ==
  /\ Answer \subseteq AnswerKind
  /\ Fault \subseteq FaultKind
  /\ Multithread \subseteq Request
  /\ ClockTies \in BOOLEAN /\ Cancel \in BOOLEAN
  /\ MaxMsgId \in Nat /\ Fd \subseteq Nat
  /\ None \notin Queue /\ None \notin Request /\ None \notin Fd

VARIABLES
  pc,            \* where the run thread of each object is
  timer,         \* where the timer thread of each object is
  loop, msgid,   \* the fields loop and msgid of each object
  req,           \* userdata and on_done of each object: whose query it is
  dst,           \* the field ip of each object
  goal,          \* per run thread: ip of migrate_to_dc
  sock,          \* the field socket of each object
  lock,          \* which run thread holds queue->lock
  hold, kind,    \* per run thread: the object catched_tl works on, and why
  list,          \* tg->queue
  uihold,        \* the object tg_queue_cancell_queue has cut
  fds,           \* the process's descriptor table: who opened it
  socket_mutex,  \* whether tg->socket_mutex is locked
  clock, sent,   \* last msg_id handed out, msg_ids that reached the server
  addr, dbaddr,  \* tg->ip and its copy in the database
  todrop,        \* tg->todrop
  caller,        \* per request: the object whose queue->p was returned
  calls,         \* history: runs of on_done per object
  cancelled,     \* history: objects stopped by tg_queue_cancell_*
  resent,        \* history: objects whose query went to a new object
  tied,          \* history: objects that have shared their msgid
  astray,        \* history: objects whose socket was closed early
  crossed        \* history: the last two redirects overlapped

catchVars == <<lock, hold, kind>>
wireVars  == <<msgid, clock, sent>>
netVars   == <<sock, fds, socket_mutex>>
addrVars  == <<addr, dbaddr, dst, goal>>
appVars   == <<req, caller, uihold, todrop>>
auxVars   == <<tied, astray, crossed>>
histVars  == <<calls, cancelled, resent, auxVars>>
vars == <<pc, timer, loop, list, catchVars, wireVars, netVars, addrVars,
          appVars, histVars>>

-----------------------------------------------------------------------------
(* Run-thread locations.  "handle" is inside handle_tl between two messages *)
(* of a package (a container carries several); "caught" .. "finish" are in  *)
(* catched_tl; "spin" is the read loop of a closed connection.              *)
Location == {"none", "start", "add", "send", "resend", "loop", "recv",
             "handle", "caught", "lock", "answer", "persist", "new",
             "finish", "close", "cut", "spin", "done"}
\* Locations in which the thread uses an object it took from the list.
Catching == {"caught", "lock", "answer", "persist", "new", "finish"}

Free(q)    == timer[q] = "done"
Fresh      == {q \in Queue : pc[q] = "none"}
\* Bound: calls and redirects begin only while an unused object is left.
SlotLeft   == Fresh # {}
\* Bound: bad_server_salt only while the ids suffice for every first send.
IdLeft     == clock + Cardinality({q \in Queue :
                pc[q] \in {"none", "start", "add", "send", "resend"}}) < MaxMsgId

Init ==
  /\ pc     = [q \in Queue |-> "none"]
  /\ timer  = [q \in Queue |-> "none"]
  /\ loop   = [q \in Queue |-> FALSE]
  /\ msgid  = [q \in Queue |-> 0]
  /\ req    = [q \in Queue |-> None]
  /\ sock   = [q \in Queue |-> None]
  /\ lock   = [q \in Queue |-> None]
  /\ hold   = [q \in Queue |-> None]
  /\ kind   = [q \in Queue |-> "none"]
  /\ list   = {}
  /\ uihold = None
  /\ fds    = [f \in Fd |-> None]
  /\ socket_mutex = FALSE
  /\ clock  = 0
  /\ sent   = {}
  /\ addr \in Dc
  /\ dbaddr = addr
  /\ dst    = [q \in Queue |-> None]
  /\ goal   = [q \in Queue |-> None]
  /\ todrop = {}
  /\ caller = [r \in Request |-> None]
  /\ calls  = [q \in Queue |-> 0]
  /\ cancelled = {}
  /\ resent = {}
  /\ tied = {} /\ astray = {} /\ crossed = FALSE

-----------------------------------------------------------------------------
(* Shared pieces.                                                          *)

\* tg_queue_new: object n gets the query of rq and both threads are started.
\* The caller sets pc' and loop' (it may move itself in the same step).
tg_queue_new(n, rq, ip) ==
  /\ pc[n] = "none"
  /\ timer' = [timer EXCEPT ![n] = "sleep"]
  /\ req' = [req EXCEPT ![n] = rq]
  /\ dst' = [dst EXCEPT ![n] = ip]

\* list_cut with cmp_msgid: the objects an id may find.  The list is
\* searched from its newest entry; with distinct ids at most one matches.
Matching_any(m) == list
Matching(m) == {q \in list : msgid[q] = m}

\* What the list is without q.
Cut_kept(q) == list
Cut(q) == list \ {q}

\* The values tg_get_current_time may return for the next message: a new one,
\* or, in the same tick, the one another thread has just sent with.
NextMsgId_behind == {clock - 1}
NextMsgId ==
  {clock + 1} \cup {m \in {clock} :
     ClockTies /\ \E q \in Queue : msgid[q] = m /\ m > 0 /\ pc[q] = "loop"}

\* The objects that share an id once q is sent with m.
Tied(q, m) == LET same == {p \in Queue : msgid[p] = m}
              IN  IF same \ {q} = {} THEN tied ELSE tied \cup same \cup {q}

\* _tg_receive has returned: only the single-threaded branch unlocks.
LeaveReceive(r) == socket_mutex' = (socket_mutex /\ req[r] \in Multithread)

\* socket() hands out the lowest descriptor that is not open.
FreeFd(f) == fds[f] = None /\ \A g \in Fd : g < f => fds[g] # None

\* Whose connection is open under the descriptor of q.
Opener(q) == {p \in Queue : fds[sock[q]] = p}

Goto(r, l) == pc' = [pc EXCEPT ![r] = l]

-----------------------------------------------------------------------------
(* The application.                                                        *)

\* tg_send_query_async_with_progress: a new object for the current address.
\* The caller is handed queue->p, which by then names the timer thread.
tg_send_query_async(rq) ==
  /\ caller[rq] = None
  /\ SlotLeft
  /\ \E n \in Fresh :
       /\ tg_queue_new(n, rq, addr)
       /\ Goto(n, "start")
       /\ loop' = [loop EXCEPT ![n] = TRUE]
       /\ caller' = [caller EXCEPT ![rq] = n]
  /\ UNCHANGED <<list, catchVars, wireVars, netVars, addr, dbaddr, goal,
                 uihold, todrop, histVars>>

\* tg_queue_cancell_queue, first half: cut the object.
CancelCut ==
  /\ Cancel /\ uihold = None
  /\ \E m \in sent : \E q \in Matching(m) :
       /\ list' = Cut(q)
       /\ uihold' = q
  /\ UNCHANGED <<pc, timer, loop, catchVars, wireVars, netVars, addrVars,
                 req, caller, todrop, histVars>>

\* tg_queue_cancell_queue, second half: stop the object under its lock.
CancelStop ==
  /\ uihold # None /\ lock[uihold] = None
  /\ loop' = [loop EXCEPT ![uihold] = FALSE]
  /\ cancelled' = cancelled \cup {uihold}
  /\ uihold' = None
  /\ UNCHANGED <<pc, timer, list, catchVars, wireVars, netVars, addrVars,
                 req, caller, todrop, calls, resent, auxVars>>

\* tg_queue_cancell_all: stop what can be locked at once, forget the list.
tg_queue_cancell_all ==
  /\ Cancel /\ list # {}
  /\ LET stopped == {q \in list : lock[q] = None}
     IN  /\ loop' = [q \in Queue |-> loop[q] /\ q \notin stopped]
         /\ cancelled' = cancelled \cup stopped
  /\ list' = {}
  /\ UNCHANGED <<pc, timer, catchVars, wireVars, netVars, addrVars, appVars,
                 calls, resent, auxVars>>

-----------------------------------------------------------------------------
(* tg_run_queue of object q: connect, register, send.                      *)

\* tg_net_open succeeds.
OpenSocket(q) ==
  /\ pc[q] = "start"
  /\ \E f \in Fd :
       /\ FreeFd(f)
       /\ fds' = [fds EXCEPT ![f] = q]
       /\ sock' = [sock EXCEPT ![q] = f]
  /\ Goto(q, "add")
  /\ UNCHANGED <<timer, loop, list, catchVars, wireVars, socket_mutex,
                 addrVars, appVars, histVars>>

\* tg_net_open returns -1; after a failed connect() its descriptor stays
\* open.  The thread leaves without on_done.
OpenFails(q) ==
  /\ pc[q] = "start"
  /\ \/ ("open" \in Fault \/ \A f \in Fd : fds[f] # None) /\ UNCHANGED fds
     \/ "connect" \in Fault /\ \E f \in Fd :
          FreeFd(f) /\ fds' = [fds EXCEPT ![f] = q]
  /\ Goto(q, "done")
  /\ UNCHANGED <<timer, loop, list, catchVars, wireVars, sock, socket_mutex,
                 addrVars, appVars, histVars>>

tg_queue_add(q) ==
  /\ pc[q] = "add"
  /\ list' = list \cup {q}
  /\ Goto(q, "send")
  /\ UNCHANGED <<timer, loop, catchVars, wireVars, netVars, addrVars,
                 appVars, histVars>>

\* tg_send succeeds: the message gets its id and reaches the server.
tg_send(q) ==
  /\ pc[q] \in {"send", "resend"}
  /\ fds[sock[q]] # None
  /\ \E m \in NextMsgId :
       /\ msgid' = [msgid EXCEPT ![q] = m]
       /\ clock' = m
       /\ sent' = sent \cup {m}
       /\ tied' = Tied(q, m)
  /\ Goto(q, "loop")
  /\ UNCHANGED <<timer, loop, list, catchVars, netVars, addrVars, appVars,
                 calls, cancelled, resent, astray, crossed>>

\* tg_send fails after the header was built: it closes the socket.  The first
\* send also clears loop, a repeated one leaves the loop by break.
SendFails(q) ==
  /\ pc[q] \in {"send", "resend"}
  /\ "send" \in Fault \/ fds[sock[q]] = None
  /\ \E m \in NextMsgId :
       /\ msgid' = [msgid EXCEPT ![q] = m]
       /\ clock' = m
       /\ tied' = Tied(q, m)
  /\ fds' = [fds EXCEPT ![sock[q]] = None]
  /\ astray' = astray \cup {q} \cup Opener(q)
  /\ loop' = [loop EXCEPT ![q] = @ /\ pc[q] = "resend"]
  /\ Goto(q, "close")
  /\ UNCHANGED <<timer, list, catchVars, sent, sock, socket_mutex, addrVars,
                 appVars, calls, cancelled, resent, crossed>>

-----------------------------------------------------------------------------
(* tg_run_queue of object q: the receive loop.                             *)

\* while (queue->loop): without multithread a free socket_mutex is taken and
\* the loop goes round; a busy one lets the thread read.
LoopTop(q) ==
  /\ pc[q] = "loop"
  /\ \/ ~loop[q] /\ Goto(q, "close") /\ UNCHANGED socket_mutex
     \/ /\ loop[q] /\ (req[q] \in Multithread \/ socket_mutex)
        /\ Goto(q, "recv") /\ UNCHANGED socket_mutex
     \/ /\ loop[q] /\ req[q] \notin Multithread /\ ~socket_mutex
        /\ socket_mutex' = TRUE /\ UNCHANGED pc
  /\ UNCHANGED <<timer, loop, list, catchVars, wireVars, sock, fds, addrVars,
                 appVars, histVars>>

\* A whole package arrives and handle_tl begins.
ReceivePackage(q) ==
  /\ pc[q] = "recv"
  /\ fds[sock[q]] # None
  /\ Goto(q, "handle")
  /\ UNCHANGED <<timer, loop, list, catchVars, wireVars, netVars, addrVars,
                 appVars, histVars>>

\* bad_server_salt: RTL_RESEND.
ReceiveBadSalt(q) ==
  /\ pc[q] = "recv"
  /\ "salt" \in Answer /\ IdLeft /\ fds[sock[q]] # None
  /\ LeaveReceive(q)
  /\ Goto(q, "resend")
  /\ UNCHANGED <<timer, loop, list, catchVars, wireVars, sock, fds, addrVars,
                 appVars, histVars>>

\* RTL_ERROR: read error, 404, undecryptable package.
ReceiveError_closes(q) ==
  /\ pc[q] = "recv"
  /\ "recv" \in Fault \/ fds[sock[q]] = None
  /\ LeaveReceive(q)
  /\ fds' = [fds EXCEPT ![sock[q]] = None]
  /\ Goto(q, "close")
  /\ UNCHANGED <<timer, loop, list, catchVars, wireVars, sock, addrVars,
                 appVars, histVars>>
ReceiveError(q) ==
  /\ pc[q] = "recv"
  /\ "recv" \in Fault \/ fds[sock[q]] = None
  /\ LeaveReceive(q)
  /\ Goto(q, "close")
  /\ UNCHANGED <<timer, loop, list, catchVars, wireVars, sock, fds, addrVars,
                 appVars, histVars>>

\* The peer closed the connection: recv returns 0 and len was never written.
\* A zero len ends in RTL_ERROR, any other is waited for in a loop that
\* rechecks neither recv's 0 nor queue->loop.
ReceiveEof(q) ==
  /\ pc[q] = "recv"
  /\ "eof" \in Fault
  /\ \/ Goto(q, "spin") /\ UNCHANGED socket_mutex
     \/ Goto(q, "close") /\ LeaveReceive(q)
  /\ UNCHANGED <<timer, loop, list, catchVars, wireVars, sock, fds, addrVars,
                 appVars, histVars>>

\* The loop on a closed connection ends with an error of a later recv, with
\* bytes of another connection under its descriptor (undecryptable), or by the
\* progress callback, which it calls in every round.
SpinEnds(q) ==
  /\ pc[q] = "spin"
  /\ \/ /\ "recv" \in Fault \/ fds[sock[q]] # q
        /\ UNCHANGED todrop
     \/ /\ "progress" \in Fault
        /\ todrop' = todrop \cup {msgid[q]}
  /\ LeaveReceive(q)
  /\ Goto(q, "close")
  /\ UNCHANGED <<timer, loop, list, catchVars, wireVars, sock, fds, addrVars,
                 req, caller, uihold, histVars>>

\* The progress callback returned non-zero: RTL_EXIT.
ProgressStop(q) ==
  /\ pc[q] = "recv"
  /\ "progress" \in Fault /\ fds[sock[q]] # None
  /\ todrop' = todrop \cup {msgid[q]}
  /\ LeaveReceive(q)
  /\ Goto(q, "close")
  /\ UNCHANGED <<timer, loop, list, catchVars, wireVars, sock, fds, addrVars,
                 req, caller, uihold, histVars>>

\* The package is used up: RTL_REREAD.
PackageEnd(q) ==
  /\ pc[q] = "handle"
  /\ LeaveReceive(q)
  /\ Goto(q, "loop")
  /\ UNCHANGED <<timer, loop, list, catchVars, wireVars, sock, fds, addrVars,
                 appVars, histVars>>

\* After the loop: close the socket ...
CloseSocket(q) ==
  /\ pc[q] = "close"
  /\ fds' = [fds EXCEPT ![sock[q]] = None]
  /\ astray' = astray \cup (Opener(q) \ {q})
  /\ Goto(q, "cut")
  /\ UNCHANGED <<timer, loop, list, catchVars, wireVars, sock, socket_mutex,
                 addrVars, appVars, calls, cancelled, resent, tied, crossed>>

\* ... remove an object with this msgid from the list, unlock inloop_lock.
RunExit(q) ==
  /\ pc[q] = "cut"
  /\ \/ Matching(msgid[q]) = {} /\ UNCHANGED list
     \/ \E c \in Matching(msgid[q]) : list' = Cut(c)
  /\ Goto(q, "done")
  /\ UNCHANGED <<timer, loop, catchVars, wireVars, netVars, addrVars,
                 appVars, histVars>>

-----------------------------------------------------------------------------
(* handle_tl and catched_tl in the run thread of object r.                 *)

\* rpc_result: catched_tl cuts the addressed object.  An answer that finds no
\* object is dropped, like every message without effect on the queues
\* (msg_detailed_info names a server id, which no object has).
Catch(r, k) ==
  /\ pc[r] = "handle"
  /\ k \in Answer \ {"bare", "salt"}
  /\ k \in Resending => SlotLeft
  /\ \E m \in sent : \E q \in Matching(m) :
       /\ list' = Cut(q)
       /\ hold' = [hold EXCEPT ![r] = q]
  /\ kind' = [kind EXCEPT ![r] = k]
  /\ Goto(r, "caught")
  /\ UNCHANGED <<timer, loop, lock, wireVars, netVars, addrVars, appVars,
                 histVars>>

\* if (!queue->loop) return.  The loop of a freed object is any value.
CheckLoop(r) ==
  /\ pc[r] = "caught"
  /\ \/ /\ loop[hold[r]] \/ Free(hold[r])
        /\ Goto(r, "lock")
        /\ UNCHANGED <<hold, kind>>
     \/ /\ ~loop[hold[r]] \/ Free(hold[r])
        /\ Goto(r, "handle")
        /\ hold' = [hold EXCEPT ![r] = None]
        /\ kind' = [kind EXCEPT ![r] = "none"]
  /\ UNCHANGED <<timer, loop, list, lock, wireVars, netVars, addrVars,
                 appVars, histVars>>

LockQueue(r) ==
  /\ pc[r] = "lock"
  /\ lock[hold[r]] = None
  /\ lock' = [lock EXCEPT ![hold[r]] = r]
  /\ Goto(r, "answer")
  /\ UNCHANGED <<timer, loop, list, hold, kind, wireVars, netVars, addrVars,
                 appVars, histVars>>

\* queue->on_done(queue->userdata, tl).
OnDone(r) ==
  /\ pc[r] = "answer" /\ kind[r] \in Delivering
  /\ calls' = [calls EXCEPT ![hold[r]] = @ + 1]
  /\ Goto(r, "finish")
  /\ UNCHANGED <<timer, loop, list, catchVars, wireVars, netVars, addrVars,
                 appVars, cancelled, resent, auxVars>>

\* A bare rpc_error acts on the receiving object, which stays in the list and
\* is not locked.
BareError(r, k) ==
  /\ pc[r] = "handle"
  /\ "bare" \in Answer /\ k \in Answer \cap Resending /\ SlotLeft
  /\ kind' = [kind EXCEPT ![r] = k]
  /\ Goto(r, "answer")
  /\ UNCHANGED <<timer, loop, list, lock, hold, wireVars, netVars, addrVars,
                 appVars, histVars>>

\* migrate_to_dc, first part: the ip is the one the configuration or the
\* built-in table has for the data centre the error names, and a redirect
\* other than FILE_MIGRATE moves the client there (tg_set_server_address) ...
SetServerAddress(r) ==
  /\ pc[r] = "answer" /\ kind[r] = "user_migrate"
  /\ \E ip \in Dc :
       /\ goal' = [goal EXCEPT ![r] = ip]
       /\ addr' = ip
  /\ crossed' = (\E o \in Queue : pc[o] = "persist")
  /\ Goto(r, "persist")
  /\ UNCHANGED <<timer, loop, list, catchVars, wireVars, netVars, dbaddr,
                 dst, appVars, calls, cancelled, resent, tied, astray>>

\* ... and is stored (ip_address_to_database).
SaveAddress_skipped(r) ==
  /\ pc[r] = "persist"
  /\ Goto(r, "new")
  /\ UNCHANGED <<timer, loop, list, catchVars, wireVars, netVars, addrVars,
                 appVars, histVars>>
SaveAddress(r) ==
  /\ pc[r] = "persist"
  /\ dbaddr' = goal[r]
  /\ Goto(r, "new")
  /\ UNCHANGED <<timer, loop, list, catchVars, wireVars, netVars, addr, dst,
                 goal, appVars, histVars>>

\* migrate_to_dc, second part, and flood_wait_for_seconds after its sleep: a
\* new object with the same query, userdata and on_done.
Resend(r) ==
  LET q == IF hold[r] = None THEN r ELSE hold[r]
      target == {ip \in Dc : /\ kind[r] = "flood" => ip = dst[q]
                             /\ kind[r] = "user_migrate" => ip = goal[r]}
  IN
  /\ \/ pc[r] = "new"
     \/ pc[r] = "answer" /\ kind[r] \in {"flood", "file_migrate"}
  /\ \E n \in Fresh, ip \in target :
       /\ tg_queue_new(n, req[q], ip)
       /\ resent' = resent \cup {q}
       /\ IF hold[r] = None
          THEN /\ loop' = [loop EXCEPT ![n] = TRUE, ![r] = FALSE]
               /\ pc' = [pc EXCEPT ![n] = "start", ![r] = "handle"]
          ELSE /\ loop' = [loop EXCEPT ![n] = TRUE]
               /\ pc' = [pc EXCEPT ![n] = "start", ![r] = "finish"]
  /\ kind' = [kind EXCEPT ![r] = IF hold[r] = None THEN "none" ELSE "resent"]
  /\ goal' = [goal EXCEPT ![r] = None]
  /\ UNCHANGED <<list, lock, hold, wireVars, netVars, addr, dbaddr, caller,
                 uihold, todrop, calls, cancelled, auxVars>>

\* The end of catched_tl: loop = false, except after a NULL tl; unlock.
Finish_callsBack(r) ==
  /\ pc[r] = "finish"
  /\ loop' = [loop EXCEPT ![hold[r]] = @ /\ kind[r] = "null"]
  /\ calls' = [calls EXCEPT ![hold[r]] =
                 IF kind[r] = "resent" THEN @ + 1 ELSE @]
  /\ lock' = [lock EXCEPT ![hold[r]] = None]
  /\ hold' = [hold EXCEPT ![r] = None]
  /\ kind' = [kind EXCEPT ![r] = "none"]
  /\ Goto(r, "handle")
  /\ UNCHANGED <<timer, list, wireVars, netVars, addrVars, appVars,
                 cancelled, resent, auxVars>>
Finish(r) ==
  /\ pc[r] = "finish"
  /\ loop' = [loop EXCEPT ![hold[r]] = @ /\ kind[r] = "null"]
  /\ lock' = [lock EXCEPT ![hold[r]] = None]
  /\ hold' = [hold EXCEPT ![r] = None]
  /\ kind' = [kind EXCEPT ![r] = "none"]
  /\ Goto(r, "handle")
  /\ UNCHANGED <<timer, list, wireVars, netVars, addrVars, appVars, histVars>>

-----------------------------------------------------------------------------
(* tg_run_timer of object q.                                               *)

\* After 60 seconds: loop = false.  By then the run thread holds inloop_lock.
TimerFires_onlyWaits(q) ==
  /\ timer[q] = "sleep" /\ pc[q] # "start"
  /\ timer' = [timer EXCEPT ![q] = "wait"]
  /\ UNCHANGED <<pc, loop, list, catchVars, wireVars, netVars, addrVars,
                 appVars, histVars>>
TimerFires(q) ==
  /\ timer[q] = "sleep" /\ pc[q] # "start"
  /\ loop' = [loop EXCEPT ![q] = FALSE]
  /\ timer' = [timer EXCEPT ![q] = "wait"]
  /\ UNCHANGED <<pc, list, catchVars, wireVars, netVars, addrVars, appVars,
                 histVars>>

\* inloop_lock was released: free the object.
TimerFrees(q) ==
  /\ timer[q] = "wait" /\ pc[q] = "done"
  /\ timer' = [timer EXCEPT ![q] = "done"]
  /\ UNCHANGED <<pc, loop, list, catchVars, wireVars, netVars, addrVars,
                 appVars, histVars>>

-----------------------------------------------------------------------------
\* What arrives, or fails, on the connection of q.
Network(q) ==
  \/ ReceivePackage(q) \/ ReceiveBadSalt(q) \/ ReceiveError(q)
  \/ ReceiveEof(q) \/ SpinEnds(q) \/ ProgressStop(q)
  \/ \E k \in Delivering \cup Resending : Catch(q, k)
  \/ \E k \in Resending : BareError(q, k)

\* What the run thread does without waiting for the network.
RunThread(q) ==
  \/ OpenSocket(q) \/ OpenFails(q) \/ tg_queue_add(q) \/ tg_send(q)
  \/ SendFails(q) \/ LoopTop(q) \/ PackageEnd(q) \/ CheckLoop(q)
  \/ LockQueue(q) \/ OnDone(q) \/ SetServerAddress(q) \/ SaveAddress(q)
  \/ Resend(q) \/ Finish(q) \/ CloseSocket(q) \/ RunExit(q)

Timer(q) == TimerFires(q) \/ TimerFrees(q)

Application ==
  \/ \E rq \in Request : tg_send_query_async(rq)
  \/ CancelCut \/ CancelStop \/ tg_queue_cancell_all

Next ==
  \/ Application
  \/ \E q \in Queue : Network(q) \/ RunThread(q) \/ Timer(q)

Spec == Init /\ [][Next]_vars

\* The threads of the process are scheduled; nothing is assumed of the
\* server, the network or the application.
FairSpec ==
  /\ Spec
  /\ \A q \in Queue : WF_vars(RunThread(q)) /\ WF_vars(Timer(q))
  /\ WF_vars(CancelStop)

-----------------------------------------------------------------------------
(* Properties.                                                             *)

\* The type of the state.
TypeOK ==
  /\ pc \in [Queue -> Location]
  /\ timer \in [Queue -> {"none", "sleep", "wait", "done"}]
  /\ loop \in [Queue -> BOOLEAN]
  /\ msgid \in [Queue -> Nat]
  /\ req \in [Queue -> Request \cup {None}]
  /\ dst \in [Queue -> Dc \cup {None}]
  /\ goal \in [Queue -> Dc \cup {None}]
  /\ sock \in [Queue -> Fd \cup {None}]
  /\ lock \in [Queue -> Queue \cup {None}]
  /\ hold \in [Queue -> Queue \cup {None}]
  /\ kind \in [Queue -> Delivering \cup Resending \cup {"none", "resent"}]
  /\ list \subseteq Queue
  /\ uihold \in Queue \cup {None}
  /\ fds \in [Fd -> Queue \cup {None}]
  /\ socket_mutex \in BOOLEAN
  /\ clock \in Nat /\ sent \subseteq Nat
  /\ addr \in Dc /\ dbaddr \in Dc
  /\ todrop \subseteq Nat
  /\ caller \in [Request -> Queue \cup {None}]
  /\ calls \in [Queue -> Nat]
  /\ cancelled \subseteq Queue /\ resent \subseteq Queue
  /\ tied \subseteq Queue /\ astray \subseteq Queue /\ crossed \in BOOLEAN

\* The callback of an object runs at most once, whatever duplicates of its
\* answer are read, by whichever threads: only the thread that cut the object
\* from the list may run it.
CallbackOnce == \A q \in Queue : calls[q] <= 1

\* A query is answered once over all the objects that carried it: redirects
\* and flood waits hand the callback to a new object and never run it.
AnsweredOnce ==
  \A q1, q2 \in Queue :
    calls[q1] > 0 /\ calls[q2] > 0 /\ req[q1] = req[q2] => q1 = q2

\* The callback of an object never runs once tg_queue_cancell_queue or
\* tg_queue_cancell_all has stopped it.
CancelledSilent == \A q \in cancelled : calls[q] = 0

\* A run thread that waits for its answer can be found: its object is in the
\* list, or the thread that cut it is still at work, or the answer came.  Only
\* an object that has shared its msgid can be missing, because a run thread
\* that ends removes by msgid (queue.c:721) and may take the other one.
Busy(q) == uihold = q \/ \E r \in Queue : hold[r] = q
WaitingIsFindable ==
  \A q \in Queue :
    /\ pc[q] \in {"resend", "loop", "recv", "handle"} \cup Catching
    /\ loop[q]
    => q \in list \/ Busy(q) \/ calls[q] = 1 \/ q \in tied

\* When the run thread of an object has ended, the object is not in the list
\* ("remove from queue list"), unless it has had the msgid of another object
\* and the removal, which looks for the msgid alone, took that one instead.
\* Otherwise the timer never frees a listed object.
ExitLeavesList ==
  \A q \in Queue : pc[q] = "done" => q \notin list \/ q \in tied

\* tg_queue_cancell_all stops every listed object: its trylock never meets a
\* locked one.
CancelAllStopsAll ==
  [][tg_queue_cancell_all => \A q \in list : ~loop'[q]]_vars

\* A connection is closed by the run thread that opened it, or by a thread
\* whose own connection was closed early: tg_send closes on failure and
\* tg_run_queue closes the same number again, by then perhaps another
\* thread's, which so goes astray in its turn.  No other step closes a
\* connection that is not its own.
SocketOwned ==
  [][\A f \in Fd : fds[f] # None /\ fds'[f] # fds[f]
       => \E q \in astray \cup {fds[f]} : pc'[q] # pc[q]]_vars

\* The stored address follows tg->ip: they differ only while some thread is
\* between the two calls of migrate_to_dc, or when the last redirects
\* overlapped, so that the calls of two threads could cross.
AddressSaved == (\A r \in Queue : pc[r] # "persist") => dbaddr = addr \/ crossed

\* A thread in catched_tl works on an object that is not freed: the timer
\* has waited for the object to stop ("wait to stop").
NoStaleObject == \A r \in Queue : hold[r] # None => ~Free(hold[r])

\* "stop queue and free memory": every object is stopped and freed.
StopAndFree == \A q \in Queue : timer[q] = "sleep" ~> Free(q)

\* The same, provided no read of a connection blocks for ever.
StopAndFreeIfReadsReturn ==
  (\A q \in Queue : []<>(pc[q] \notin {"recv", "spin"})) => StopAndFree

-----------------------------------------------------------------------------
(* The inductive invariants behind CallbackOnce, CancelledSilent,          *)
(* AnsweredOnce, ExitLeavesList, WaitingIsFindable, AddressSaved and        *)
(* SocketOwned.  Taking an object from the list is what makes its taker     *)
(* the only one to act on it.                                               *)

\* The run thread has not yet entered its object into the list.
Young(q) == pc[q] \in {"none", "start", "add"}

\* Nobody has acted on q: no thread has it, it is unlocked, not answered and
\* not cancelled.
Untouched(q) ==
  /\ uihold # q /\ \A r \in Queue : hold[r] # q
  /\ lock[q] = None
  /\ calls[q] = 0 /\ q \notin cancelled

\* An object is untouched until it is cut, and is cut once.
UntouchedUntilCut ==
  \A q \in Queue : /\ q \in list => ~Young(q)
                   /\ q \in list \/ Young(q) => Untouched(q)

\* At most one thread has an object; while it has it, the object is not
\* cancelled, and not answered before the thread reaches "finish".
OneTaker ==
  /\ \A r1, r2 \in Queue : hold[r1] # None /\ hold[r1] = hold[r2] => r1 = r2
  /\ \A r \in Queue : hold[r] # None =>
       /\ uihold # hold[r]
       /\ hold[r] \notin cancelled
       /\ pc[r] \in Catching
       /\ pc[r] # "finish" => calls[hold[r]] = 0
  /\ uihold # None => calls[uihold] = 0

\* A thread past the cut has an object, except inside a bare rpc_error, and a
\* thread about to store an address has one.
TakerHasObject ==
  /\ \A r \in Queue :
       \/ pc[r] \in {"caught", "lock", "finish"}
       \/ pc[r] = "answer" /\ kind[r] \in Delivering
       => hold[r] # None
  /\ \A r \in Queue : pc[r] = "persist" => goal[r] \in Dc

OwnerInv == UntouchedUntilCut /\ OneTaker /\ TakerHasObject
            /\ CallbackOnce /\ CancelledSilent

\* Without bare errors the query of a request is in one object at a time: the
\* ones it has left are out of the list and never answered.
OneCarrier ==
  /\ \A q1, q2 \in Queue :
       /\ req[q1] = req[q2] /\ req[q1] # None
       /\ q1 \notin resent /\ q2 \notin resent
       => q1 = q2
  /\ \A q \in Queue : req[q] = None <=> pc[q] = "none"
  /\ \A q \in resent :
       /\ calls[q] = 0 /\ q \notin list /\ ~Young(q)
       /\ uihold # q /\ q \notin cancelled
       /\ \A r \in Queue : hold[r] = q => pc[r] = "finish" /\ kind[r] = "resent"
  /\ \A q \in Queue : req[q] # None => caller[req[q]] # None
  /\ \A r \in Queue : pc[r] \in Catching => hold[r] # None

\* Ids are distinct but for the objects that have shared one, and an object
\* past its first send has one.
DistinctIds ==
  /\ \A q \in Queue : msgid[q] <= clock
  /\ \A q1, q2 \in Queue : msgid[q1] = msgid[q2] /\ msgid[q1] # 0
                             => q1 = q2 \/ q1 \in tied
  /\ \A q \in Queue : q \in list /\ msgid[q] = 0 => pc[q] = "send"
  /\ \A q \in Queue : pc[q] \notin {"none", "start", "add", "send", "done"}
                        => msgid[q] # 0
  /\ \A q \in Queue : q \in list => pc[q] \notin {"none", "start", "add"}

\* Behind WaitingIsFindable: an object leaves the list with a taker, and the
\* taker lets go of it only when it is stopped, answered or freed.
Findable ==
  /\ WaitingIsFindable
  /\ \A q \in Queue : pc[q] = "send" /\ loop[q]
                        => q \in list \/ Busy(q) \/ calls[q] = 1 \/ q \in tied
  /\ \A r \in Queue : pc[r] = "finish" /\ kind[r] = "null"
                        => calls[hold[r]] = 1
  /\ \A q \in Queue : Free(q) => pc[q] = "done"

\* Behind AddressSaved: as long as redirects do not overlap, one thread at
\* most is between the two calls of migrate_to_dc, and it will store the
\* address in use.
AddressDue ==
  \/ crossed
  \/ /\ \A r \in Queue : pc[r] = "persist" => goal[r] = addr
     /\ \A r1, r2 \in Queue : pc[r1] = "persist" /\ pc[r2] = "persist" => r1 = r2
     /\ (\A r \in Queue : pc[r] # "persist") => dbaddr = addr

\* Behind SocketOwned: a run thread between tg_net_open and its own close has
\* its descriptor to itself, unless it has gone astray.
Connected == {"add", "send", "resend", "loop", "recv", "handle", "close",
              "spin"} \cup Catching
OwnDescriptor ==
  \A q \in Queue : pc[q] \in Connected =>
    sock[q] # None /\ (q \in astray \/ fds[sock[q]] = q)

-----------------------------------------------------------------------------
(* What the application sees: module Rpc.                                  *)
Answered(rq)  == \E q \in Queue : req[q] = rq /\ calls[q] > 0
Cancelled(rq) == \E q \in cancelled : req[q] = rq
Status(rq) == IF caller[rq] = None THEN "idle"
              ELSE IF Answered(rq) THEN "answered"
              ELSE IF Cancelled(rq) THEN "cancelled" ELSE "pending"
rpc == INSTANCE Rpc WITH status <- [rq \in Request |-> Status(rq)]
\* The queues implement calls that end answered or cancelled, either for good:
\* a cancelled query is never answered by an object it was resent through.
\* (A second run of the callback is a stutter here: CallbackOnce and
\* AnsweredOnce exclude it.)
ImplementsRpc == rpc!Spec
=============================================================================
