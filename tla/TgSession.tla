------------------------------ MODULE TgSession ------------------------------
(***************************************************************************)
(* The session layer of libtg: header.c, ack.c and prepare_query.c.        *)
(*                                                                         *)
(* Run threads (see TgQueue) build packages concurrently.  What they share *)
(* is the counter tg->seqn, the ids tg->msgids still to be acknowledged    *)
(* and the queries tg->todrop whose answers nobody wants any more, each    *)
(* with a mutex of its own; the clock that message ids come from has none. *)
(* A package is the bare query, or, when something is to be acknowledged,  *)
(* a container of the query, the msgs_ack and one rpc_drop_answer for each *)
(* unwanted answer.                                                        *)
(***************************************************************************)
EXTENDS Integers, Sequences, FiniteSets

CONSTANTS
  Thread,      \* run threads, each for one query after the other
  ServerMsg,   \* ids of the messages the server sends, some of them repeatedly
  MaxReads,    \* bound on the messages read
  MaxSends,    \* bound: no further query or resend after this many packages
  ClockTies,   \* whether two reads of the clock may return one value
  SendFails,   \* whether send() may fail
  None

ASSUME SessionAssumption ==
  /\ MaxSends \in Nat \ {0} /\ MaxReads \in Nat
  /\ ClockTies \in BOOLEAN /\ SendFails \in BOOLEAN
  /\ None \notin Thread

VARIABLES
  pc,        \* per thread: where in tg_send it is
  making,    \* per thread: the kind of message it is numbering
  id,        \* per thread: the clock value it has read for that message
  msgid,     \* per thread: queue->msgid
  pkg,       \* per thread: the package being built
  seqn,      \* tg->seqn
  msgids,    \* tg->msgids
  todrop,    \* tg->todrop
  todropm,   \* which thread holds the mutex of todrop
  clock,     \* last value read from the clock
  received,  \* history: what tg_add_msgid has put into tg->msgids
  reads,     \* history: how many times it was called
  unwanted,  \* history: query ids passed to tg_add_todrop
  log        \* history: the packages given to send()

vars == <<pc, making, id, msgid, pkg, seqn, msgids, todrop, todropm, clock,
          received, reads, unwanted, log>>

\* "plain" is a query that is not in a container.
Content    == {"query", "plain", "drop"}
Kind       == Content \cup {"ack", "container"}
Location   == {"start", "clock", "seqno", "drops", "send", "wait", "done"}
Message    == [kind : Kind, id : Nat, seqno : Nat, ref : Nat]
\* An entry of tg->msgids: an id, told apart by the call that has put it.
Entry      == [msg : ServerMsg, no : Nat]
EmptyPkg   == [acks |-> {}, msgs |-> <<>>]

Init ==
  /\ pc = [t \in Thread |-> "start"]
  /\ making = [t \in Thread |-> "plain"]
  /\ id = [t \in Thread |-> 0]
  /\ msgid = [t \in Thread |-> 0]
  /\ pkg = [t \in Thread |-> EmptyPkg]
  /\ seqn = 0
  /\ msgids = {} /\ todrop = {} /\ todropm = None
  /\ clock = 0
  /\ received = {} /\ reads = 0 /\ unwanted = {} /\ log = {}

-----------------------------------------------------------------------------
(* tg_send of thread t, as far as the package.                             *)

Sends(t) == Cardinality({p \in log : p.by = t})
Goto(t, l) == pc' = [pc EXCEPT ![t] = l]
Make(t, k) == making' = [making EXCEPT ![t] = k]

\* What tg_ack leaves in tg->msgids.
Unacked_kept == msgids
Unacked == {}

\* tg_header begins: forget the old msgid, take the ids to acknowledge.
tg_ack(t) ==
  /\ pc[t] = "start"
  /\ msgid' = [msgid EXCEPT ![t] = 0]
  /\ pkg' = [pkg EXCEPT ![t] = [acks |-> msgids, msgs |-> <<>>]]
  /\ msgids' = Unacked
  /\ Make(t, IF msgids = {} THEN "plain" ELSE "query")
  /\ Goto(t, "clock")
  /\ UNCHANGED <<id, seqn, todrop, todropm, clock, received, reads, unwanted, log>>

\* The values the clock may have when it is read next.
Now_behind == {clock - 1}
Now == {clock + 1} \cup {c \in {clock} : ClockTies /\ c > 0}

\* tg_get_current_time.  The msgid of a query without container is set here.
tg_get_current_time(t) ==
  /\ pc[t] = "clock"
  /\ \E now \in Now :
       /\ clock' = now
       /\ id' = [id EXCEPT ![t] = now]
       /\ msgid' = [msgid EXCEPT ![t] =
            IF making[t] \in {"plain", "container"} /\ @ = 0 THEN now ELSE @]
  /\ Goto(t, "seqno")
  /\ UNCHANGED <<making, pkg, seqn, msgids, todrop, todropm, received, reads,
                 unwanted, log>>

\* The flag "content" of a message: a container is made without it.
IsContent_always(k) == k # "ack"
IsContent(k) == k \in Content

\* The queries tg_to_drop of thread t has still to write.
Undropped(t) == todrop \ {pkg[t].msgs[i].ref : i \in 1 .. Len(pkg[t].msgs)}

\* Under seqnm: number the message and append it.  The outer message comes
\* last here, though its header precedes its body on the wire.
Number(t) ==
  LET k == making[t] IN
  /\ pc[t] = "seqno"
  /\ \E r \in IF k = "drop" THEN Undropped(t) ELSE {0} :
       pkg' = [pkg EXCEPT ![t].msgs = Append(@,
         [kind |-> k, id |-> id[t], ref |-> r,
          seqno |-> IF IsContent(k) THEN 2 * seqn + 1 ELSE 2 * seqn])]
  /\ seqn' = IF IsContent(k) THEN seqn + 1 ELSE seqn
  /\ Make(t, IF k = "query" THEN "ack" ELSE k)
  /\ Goto(t, CASE k = "query" -> "clock"
               [] k \in {"ack", "drop"} -> "drops"
               [] OTHER -> "send")
  /\ UNCHANGED <<id, msgid, msgids, todrop, todropm, clock, received, reads,
                 unwanted, log>>

\* tg_to_drop, one round of its loop; todropm is held from the first round on.
DropNext(t) ==
  /\ pc[t] = "drops" /\ todropm \in {None, t} /\ Undropped(t) # {}
  /\ todropm' = t
  /\ Make(t, "drop")
  /\ Goto(t, "clock")
  /\ UNCHANGED <<id, msgid, pkg, seqn, msgids, todrop, clock, received, reads,
                 unwanted, log>>

\* tg_to_drop returns; the query's own id becomes the msgid of the queue.
QueryId_last(t) == pkg[t].msgs[Len(pkg[t].msgs)].id
QueryId(t) == pkg[t].msgs[1].id

\* What tg_to_drop leaves in tg->todrop.
Drained_kept == todrop
Drained == {}

DropsDone(t) ==
  /\ pc[t] = "drops" /\ todropm \in {None, t} /\ Undropped(t) = {}
  /\ todrop' = Drained
  /\ todropm' = None
  /\ msgid' = [msgid EXCEPT ![t] = QueryId(t)]
  /\ Make(t, "container")
  /\ Goto(t, "clock")
  /\ UNCHANGED <<id, pkg, seqn, msgids, clock, received, reads, unwanted, log>>

\* send() of the finished package.
Send(t) ==
  /\ pc[t] = "send"
  /\ \E ok \in {TRUE} \cup {~SendFails} :
       /\ log' = log \cup {[by |-> t, no |-> Sends(t) + 1, ok |-> ok,
                            acks |-> pkg[t].acks, msgs |-> pkg[t].msgs]}
       /\ Goto(t, IF ok THEN "wait" ELSE "done")
  /\ pkg' = [pkg EXCEPT ![t] = EmptyPkg]
  /\ UNCHANGED <<making, id, msgid, seqn, msgids, todrop, todropm, clock,
                 received, reads, unwanted>>

-----------------------------------------------------------------------------
(* _tg_receive of thread t.                                                *)

\* tg_deheader, or handle_tl for a message in a container, meets message m,
\* for the first time or again: a server repeats what it has no ack for to a
\* new connection, and every query opens one.
tg_add_msgid(t, m) ==
  LET entry == [msg |-> m, no |-> reads + 1] IN
  /\ pc[t] = "wait" /\ reads < MaxReads
  /\ msgids' = msgids \cup {entry}
  /\ received' = received \cup {entry}
  /\ reads' = reads + 1
  /\ UNCHANGED <<pc, making, id, msgid, pkg, seqn, todrop, todropm, clock,
                 unwanted, log>>

\* The progress callback stops the query: its answer is to be dropped.
tg_add_todrop(t) ==
  /\ pc[t] = "wait" /\ todropm = None
  /\ todrop' = todrop \cup {msgid[t]}
  /\ unwanted' = unwanted \cup {msgid[t]}
  /\ Goto(t, "done")
  /\ UNCHANGED <<making, id, msgid, pkg, seqn, msgids, todropm, clock,
                 received, reads, log>>

\* bad_server_salt: the query is sent again.
Resend(t) ==
  /\ pc[t] = "wait" /\ Cardinality(log) < MaxSends
  /\ Goto(t, "start")
  /\ UNCHANGED <<making, id, msgid, pkg, seqn, msgids, todrop, todropm,
                 clock, received, reads, unwanted, log>>

\* A new object for the next query: its msgid is zero.
NewQuery(t) ==
  /\ pc[t] = "done" /\ Cardinality(log) < MaxSends
  /\ msgid' = [msgid EXCEPT ![t] = 0]
  /\ Goto(t, "start")
  /\ UNCHANGED <<making, id, pkg, seqn, msgids, todrop, todropm, clock,
                 received, reads, unwanted, log>>

Next ==
  \E t \in Thread :
    \/ tg_ack(t) \/ tg_get_current_time(t) \/ Number(t)
    \/ DropNext(t) \/ DropsDone(t) \/ Send(t)
    \/ \E m \in ServerMsg : tg_add_msgid(t, m)
    \/ tg_add_todrop(t) \/ Resend(t) \/ NewQuery(t)

Spec == Init /\ [][Next]_vars

-----------------------------------------------------------------------------
(* Properties.                                                             *)

\* The type of the state; ids and sequence numbers are natural numbers.
SessionTypeOK ==
  /\ pc \in [Thread -> Location]
  /\ making \in [Thread -> Kind]
  /\ id \in [Thread -> Nat] /\ msgid \in [Thread -> Nat]
  /\ pkg \in [Thread -> [acks : SUBSET Entry, msgs : Seq(Message)]]
  /\ seqn \in Nat /\ clock \in Nat
  /\ msgids \subseteq Entry /\ received \subseteq Entry /\ reads \in Nat
  /\ todrop \subseteq Nat /\ unwanted \subseteq Nat
  /\ todropm \in Thread \cup {None}
  /\ \A p \in log :
       /\ p.by \in Thread /\ p.no \in Nat /\ p.ok \in BOOLEAN
       /\ p.acks \subseteq Entry /\ p.msgs \in Seq(Message)

MessagesOf(s) == {s[i] : i \in 1 .. Len(s)}
\* The packages being built and the ones given to send().
Building(t) == [by |-> t, no |-> 0, acks |-> pkg[t].acks, msgs |-> pkg[t].msgs]
Given(p) == [by |-> p.by, no |-> p.no, acks |-> p.acks, msgs |-> p.msgs]
Packages == {Building(t) : t \in Thread} \cup {Given(p) : p \in log}
Numbered(p, K) == {i \in 1 .. Len(p.msgs) : p.msgs[i].kind \in K}

\* Content-related messages are numbered 1, 3, 5 ... without a gap and without
\* a repetition over all threads, the others carry even numbers that no
\* content message has (the comments of tg_mtp_message and tg_header).
SeqnoNumbersContent ==
  /\ \A p \in Packages : \A i \in Numbered(p, Content) :
       \E n \in 1 .. seqn : p.msgs[i].seqno = 2 * n - 1
  /\ \A n \in 1 .. seqn : \E p \in Packages : \E i \in Numbered(p, Content) :
       p.msgs[i].seqno = 2 * n - 1
  /\ \A p1, p2 \in Packages :
       \A i \in Numbered(p1, Content), j \in Numbered(p2, Content) :
         p1.msgs[i].seqno = p2.msgs[j].seqno => p1 = p2 /\ i = j
  /\ \A p \in Packages : \A i \in Numbered(p, Kind \ Content) :
       p.msgs[i].seqno % 2 = 0

\* What tg_add_msgid has put is in one place: still to be acknowledged, or in
\* the msgs_ack of one package.  tg_ack and tg_add_msgid of several threads
\* neither lose an entry nor write it twice, so that an id is acknowledged as
\* often as it was read: again when the server has repeated the message, for
\* nothing keeps an id from being put again.
AckedOnce ==
  /\ received = msgids \cup UNION {p.acks : p \in Packages}
  /\ \A p \in Packages : p.acks \cap msgids = {}
  /\ \A p1, p2 \in Packages : p1.acks \cap p2.acks # {} => p1 = p2

\* The query of the package has the id n.
IsQueryOf(msgs, n) ==
  \E m \in MessagesOf(msgs) : m.kind \in {"query", "plain"} /\ m.id = n

\* While a thread waits, queue->msgid is the id of the message that carried
\* its query in its last package, inside a container or not: the id that the
\* server's rpc_result will name.
MsgidNamesQuery ==
  \A p \in log :
    pc[p.by] = "wait" /\ p.no = Sends(p.by) => IsQueryOf(p.msgs, msgid[p.by])

\* The queries whose answers the package asks to drop.
Refs(p) == {m.ref : m \in MessagesOf(p.msgs)} \ {0}

\* The answer of a query is asked to be dropped in one package only, and only
\* for a query that was sent.
DroppedOnce ==
  /\ unwanted = todrop \cup UNION {Refs(p) : p \in Packages}
  /\ \A p1, p2 \in Packages : Refs(p1) \cap Refs(p2) # {} => p1 = p2
  /\ \A u \in unwanted : \E p \in log : p.ok /\ IsQueryOf(p.msgs, u)

\* Within a package, ids and sequence numbers never decrease from one message
\* to the next, and the container is numbered after all it contains, whatever
\* other threads number in between.
PackageOrdered ==
  \A p \in Packages : \A i, j \in 1 .. Len(p.msgs) : i < j =>
    /\ p.msgs[i].id <= p.msgs[j].id
    /\ p.msgs[i].seqno <= p.msgs[j].seqno
    /\ p.msgs[i].kind # "container"

-----------------------------------------------------------------------------
(* What makes them inductive.                                              *)

\* Packages of one thread are numbered one after the other.
LogNumbered ==
  /\ IsFiniteSet(log)
  /\ \A p \in log : p.no \in 1 .. Sends(p.by)
  /\ \A p1, p2 \in log : p1.by = p2.by /\ p1.no = p2.no => p1 = p2

\* The entries are the ones of the calls made.
EntriesRead == \A e \in received : e.no \in 1 .. reads

\* What a thread has built, by the place where it is.
BuiltAt(t) ==
  /\ pc[t] \in {"start", "wait", "done"} => pkg[t] = EmptyPkg
  /\ pc[t] \in {"clock", "seqno"} =>
       (pkg[t].msgs = <<>> <=> making[t] \in {"plain", "query"})
  /\ pc[t] \in {"drops", "send"} => pkg[t].msgs # <<>>
  /\ pc[t] \in {"clock", "seqno", "drops"} =>
       /\ pkg[t].msgs # <<>> => pkg[t].msgs[1].kind = "query"
       /\ \A i \in 1 .. Len(pkg[t].msgs) : pkg[t].msgs[i].kind # "container"
  /\ pc[t] = "drops" => making[t] \in {"ack", "drop"}
Progress == \A t \in Thread : BuiltAt(t)

\* Ids are values of the clock that was read, numbers are below the counter.
BelowClock ==
  /\ \A p \in Packages : \A i \in 1 .. Len(p.msgs) :
       p.msgs[i].id \in 1 .. clock /\ p.msgs[i].seqno <= 2 * seqn
  /\ \A t \in Thread : pc[t] = "seqno" =>
       /\ id[t] \in 1 .. clock
       /\ \A i \in 1 .. Len(pkg[t].msgs) : pkg[t].msgs[i].id <= id[t]

\* queue->msgid while the package is built: not set, or the id of the query.
MsgidAt(t) ==
  /\ pc[t] \in {"clock", "seqno"} /\ making[t] = "plain" =>
       msgid[t] = IF pc[t] = "seqno" THEN id[t] ELSE 0
  /\ pc[t] \in {"clock", "seqno"} /\ making[t] = "container" =>
       msgid[t] = pkg[t].msgs[1].id
  /\ pc[t] = "send" => IsQueryOf(pkg[t].msgs, msgid[t])
MsgidInTime == \A t \in Thread : MsgidAt(t)

\* With a clock that never repeats a value no two messages have one id.
DistinctMsgids ==
  /\ \A p1, p2 \in Packages :
       \A i \in 1 .. Len(p1.msgs), j \in 1 .. Len(p2.msgs) :
         p1.msgs[i].id = p2.msgs[j].id => p1 = p2 /\ i = j
  /\ \A t \in Thread : pc[t] = "seqno" =>
       /\ \A p \in Packages : \A i \in 1 .. Len(p.msgs) : p.msgs[i].id # id[t]
       /\ \A u \in Thread : pc[u] = "seqno" /\ id[u] = id[t] => t = u

\* Only the thread in the loop of tg_to_drop has written drops of what is
\* still in the list.
DropsHeld ==
  /\ \A p \in Packages : Refs(p) \cap todrop # {} => p.by = todropm /\ p.no = 0
  /\ \A t \in Thread :
       todropm = t <=> /\ making[t] = "drop"
                       /\ pc[t] \in {"clock", "seqno", "drops"}

\* A query whose answer is not wanted is not waited for any more.
UnwantedIsPast ==
  /\ \A u \in unwanted : u > 0 /\ \E p \in log :
       /\ p.ok /\ IsQueryOf(p.msgs, u)
       /\ pc[p.by] = "wait" => p.no < Sends(p.by)
  /\ \A t \in Thread : pc[t] = "wait" => \E p \in log : p.by = t /\ p.no = Sends(t) /\ p.ok
=============================================================================
