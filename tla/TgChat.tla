------------------------------- MODULE TgChat -------------------------------
(***************************************************************************)
(* The messages of a chat: messages.c and updates.c under                  *)
(* ChatViewController.m.                                                   *)
(*                                                                         *)
(* The screen adds operations to the serial queue "syncData": loads from   *)
(* the database and from the server, sending, removal.  A document or a    *)
(* contact is sent, and the chat loaded after it, on the queue "download", *)
(* beside them.  Each message of an answer is stored, looked for in        *)
(* bubbleDataArray by the operation and added there by the main thread.    *)
(* Updates come in a thread of the request runtime.                        *)
(*                                                                         *)
(* A message is its number in the chat; the server (external) returns the  *)
(* newest first.  An operation is the sequence of its phases.              *)
(***************************************************************************)
EXTENDS Naturals, SequencesExt, FiniteSets

CONSTANTS
  Sync,       \* the running operation of syncData
  Doc,        \* operations of the queue download that send
  Limit,      \* messages asked for from the server (10)
  LocalLimit, \* rows read from the database (20)
  Old,        \* messages in the chat at the start
  MaxMsg,     \* bound on the messages of the chat
  MaxOps,     \* bound on the operations that the timer lets wait
  MaxTaps,    \* bound on the events of the screen
  MaxRun,     \* bound on the number of processes
  None

ASSUME ChatAssumption ==
  /\ Sync \notin Doc
  /\ Limit \in Nat \ {0} /\ LocalLimit \in Nat \ {0}
  /\ MaxMsg \in Nat /\ Old \in 0 .. MaxMsg /\ None \notin Nat
  /\ MaxTaps \in Nat /\ MaxRun \in Nat \ {0}

VARIABLES
  channel,    \* the chat is a channel
  server,     \* the messages the server has
  last,       \* the number of the last message
  updates,    \* messages whose update is on its way
  authorized, \* authorizedUser is set
  hung,       \* the main thread waits for itself
  rows,       \* the database, in the order of insertion
  bubbles,    \* bubbleDataArray, by message
  ops,        \* operations of syncData that have not started
  pc,         \* per running operation: where it is
  plan,       \* ... the phases left, the current one first
  offset,     \* ... add_offset
  todo,       \* ... the messages in hand
  found,      \* ... the message was found in bubbleDataArray
  prompt,     \* the action sheet or the question of a removal, and its message
  chosen,     \* messageToRemove
  removing,   \* the id given to tg_messages_delete_message
  confirmed,  \* history: messages whose removal was confirmed
  deleted,    \* history: messages this client asked the server to delete
  gone,       \* history: messages whose removal the server has confirmed
  late,       \* history: those of them that something else still had in hand
  hasty,      \* history: a message was chosen while a removal was under way
  taps, run

serverVars == <<server, last, updates>>
mainVars == <<authorized, hung>>
work == <<ops, pc, plan, offset, todo, found>>
removalVars == <<prompt, chosen, removing, confirmed, deleted, gone, late,
                 hasty>>
others == <<channel, taps, run>>
vars == <<channel, server, last, updates, authorized, hung, rows, bubbles, ops, pc,
          plan, offset, todo, found, prompt, chosen, removing, confirmed,
          deleted, gone, late, hasty, taps, run>>

Message == 1 .. MaxMsg
Worker == {Sync} \cup Doc
Reload == <<"local", "remote">>
Load == <<"remote">>
More == <<"local", "older">>
Send == <<"send", "remote">>
Removal == <<"cut", "delete">>
Operations == {Reload, Load, More, Send, Removal}
Plans == Operations \cup {<<>>, <<"older">>, <<"delete">>}
Location == {"new", "idle", "ready", "ask", "find", "add", "mark", "row", "clear"}

Init ==
  /\ channel \in BOOLEAN
  /\ server = 1 .. Old /\ last = Old /\ updates = {}
  /\ authorized \in BOOLEAN /\ hung = FALSE
  /\ rows = <<>> /\ bubbles = <<>>
  /\ ops = <<Reload>>
  /\ pc = [w \in Worker |-> IF w = Sync THEN "idle" ELSE "new"]
  /\ plan = [w \in Worker |-> <<>>] /\ offset = [w \in Worker |-> 0]
  /\ todo = [w \in Worker |-> <<>>] /\ found = [w \in Worker |-> FALSE]
  /\ prompt = None /\ chosen = None /\ removing = None
  /\ confirmed = {} /\ deleted = {} /\ gone = {} /\ late = {} /\ hasty = FALSE
  /\ taps = 0 /\ run = 1

Goto(w, l) == pc' = [pc EXCEPT ![w] = l]

\* The current phase is over.
EndPhase(w) ==
  /\ plan' = [plan EXCEPT ![w] = Tail(@)]
  /\ Goto(w, IF Tail(plan[w]) = <<>> THEN "idle" ELSE "ready")

-----------------------------------------------------------------------------
(* The screen.                                                             *)

Tap == ~hung /\ taps < MaxTaps /\ taps' = taps + 1 /\ UNCHANGED <<channel, run>>

Enqueue(operation) ==
  /\ ops' = Append(ops, operation)
  /\ UNCHANGED <<pc, plan, offset, todo, found>>

\* Scrolling to the end, to the top, and the refresh control.
didEndDecelerating ==
  /\ Tap
  /\ \E operation \in {Load, More} : Enqueue(operation)
  /\ UNCHANGED <<serverVars, mainVars, rows, bubbles, removalVars>>

\* The text of the input field, or a position.
inputButtonPressed ==
  /\ Tap
  /\ authorized
  /\ Enqueue(Send)
  /\ UNCHANGED <<serverVars, mainVars, rows, bubbles, removalVars>>

timer ==
  /\ ~hung
  /\ authorized
  /\ Len(ops) < MaxOps
  /\ Enqueue(Load)
  /\ UNCHANGED <<serverVars, mainVars, rows, bubbles, removalVars, others>>

sendDocument(d) ==
  /\ Tap
  /\ pc[d] = "new" /\ authorized
  /\ plan' = [plan EXCEPT ![d] = Send] /\ Goto(d, "ready")
  /\ UNCHANGED <<serverVars, mainVars, rows, bubbles, ops, offset, todo, found,
                 removalVars>>

\* The screen was opened before the login was done: the main thread loads,
\* and waits for a block on the main thread.
authorizedAs ==
  /\ ~authorized /\ ~hung
  /\ authorized' = TRUE /\ hung' = TRUE
  /\ UNCHANGED <<serverVars, rows, bubbles, work, removalVars, others>>

-----------------------------------------------------------------------------
(* Removal of a message: a swipe, the action sheet, the question.          *)

RemovalPending ==
  \/ Removal \in Range(ops)
  \/ plan[Sync] # <<>> /\ Head(plan[Sync]) \in Range(Removal)

performSwipeToLeft(m) ==
  /\ Tap
  /\ prompt = None
  /\ chosen' = m
  /\ prompt' = [at |-> "sheet", msg |-> m]
  /\ hasty' = (hasty \/ RemovalPending)
  /\ UNCHANGED <<serverVars, mainVars, rows, bubbles, work, removing,
                 confirmed, deleted, gone, late>>

\* "remove" on the sheet: the question, if a message is still chosen.
askToRemoveMessage_unasked ==
  /\ ~hung /\ prompt # None /\ prompt.at = "sheet"
  /\ prompt' = None
  /\ Enqueue(Removal)
  /\ UNCHANGED <<serverVars, mainVars, rows, bubbles, chosen, removing,
                 confirmed, deleted, gone, late, hasty, others>>
askToRemoveMessage ==
  /\ ~hung /\ prompt # None /\ prompt.at = "sheet"
  /\ prompt' = IF chosen = None THEN None ELSE [prompt EXCEPT !.at = "ask"]
  /\ UNCHANGED <<serverVars, mainVars, rows, bubbles, work, chosen, removing,
                 confirmed, deleted, gone, late, hasty, others>>

onYes ==
  /\ ~hung /\ prompt # None /\ prompt.at = "ask"
  /\ confirmed' = confirmed \cup {prompt.msg}
  /\ prompt' = None
  /\ Enqueue(Removal)
  /\ UNCHANGED <<serverVars, mainVars, rows, bubbles, chosen, removing,
                 deleted, gone, late, hasty, others>>

onCancel ==
  /\ ~hung /\ prompt # None
  /\ prompt' = None
  /\ UNCHANGED <<serverVars, mainVars, rows, bubbles, work, chosen, removing,
                 confirmed, deleted, gone, late, hasty, others>>

\* The sequence without the message, which may be there more than once when
\* two operations have added it: then one of the bubbles was swiped.
Without(s, m) ==
  LET at == {i \in DOMAIN s : s[i] = m}
  IN  IF at = {} THEN {s} ELSE {RemoveAt(s, i) : i \in at}

\* The operation: the main thread takes the bubble out ...
Cut ==
  /\ pc[Sync] = "ready" /\ Head(plan[Sync]) = "cut" /\ ~hung
  /\ bubbles' \in Without(bubbles, chosen)
  /\ EndPhase(Sync)
  /\ UNCHANGED <<serverVars, mainVars, rows, ops, offset, todo, found,
                 removalVars, others>>

\* ... the server deletes the message that is chosen now, and answers ...
ToDelete == chosen

\* messages.deleteMessages has the id and no peer, and the ids of a channel are
\* its own: of a channel the server deletes nothing, and answers as well.
Remaining == IF channel THEN server ELSE server \ {ToDelete}

DeleteAnswered ==
  /\ pc[Sync] = "ready" /\ Head(plan[Sync]) = "delete"
  /\ removing' = ToDelete
  /\ server' = Remaining
  /\ deleted' = deleted \cup ({ToDelete} \ {None})
  /\ Goto(Sync, "row")
  /\ UNCHANGED <<last, updates, mainVars, rows, bubbles, ops, plan, offset,
                 todo, found, prompt, chosen, confirmed, gone, late, hasty,
                 others>>

\* ... or not, whether it deletes the message or not ...
DeleteUnanswered ==
  /\ pc[Sync] = "ready" /\ Head(plan[Sync]) = "delete"
  /\ \/ UNCHANGED <<server, deleted>>
     \/ /\ server' = Remaining
        /\ deleted' = deleted \cup ({ToDelete} \ {None})
  /\ Goto(Sync, "clear")
  /\ UNCHANGED <<last, updates, mainVars, rows, bubbles, ops, plan, offset,
                 todo, found, prompt, chosen, removing, confirmed, gone, late,
                 hasty, others>>

\* ... and the row is deleted.
WithoutRow_kept(m) == {rows}
WithoutRow(m) == Without(rows, m)

\* Messages that an update or an operation of download is about to store.
InHand == updates \cup UNION {Range(todo[d]) : d \in Doc}

DeleteRow ==
  /\ pc[Sync] = "row"
  /\ rows' \in WithoutRow(removing)
  /\ gone' = gone \cup ({removing} \ {None})
  /\ late' = late \cup ({removing} \cap InHand)
  /\ removing' = None
  /\ Goto(Sync, "clear")
  /\ UNCHANGED <<serverVars, mainVars, bubbles, ops, plan, offset, todo, found,
                 prompt, chosen, confirmed, deleted, hasty, others>>

ClearChosen ==
  /\ pc[Sync] = "clear"
  /\ chosen' = None
  /\ EndPhase(Sync)
  /\ UNCHANGED <<serverVars, mainVars, rows, bubbles, ops, offset, todo, found,
                 prompt, removing, confirmed, deleted, gone, late, hasty,
                 others>>

-----------------------------------------------------------------------------
(* Loads.                                                                  *)

Start ==
  /\ pc[Sync] = "idle" /\ ops # <<>>
  /\ plan' = [plan EXCEPT ![Sync] = Head(ops)] /\ ops' = Tail(ops)
  /\ Goto(Sync, "ready")
  /\ UNCHANGED <<serverVars, mainVars, rows, bubbles, offset, todo, found,
                 removalVars, others>>

Loading(w) == pc[w] = "ready" /\ Head(plan[w]) \in {"local", "remote", "older"}

\* isOnLineAndAuthorized fails: appendMessagesFrom returns, also when the
\* database would do.
NoNetwork(w) ==
  /\ Loading(w) /\ ~hung
  /\ EndPhase(w)
  /\ UNCHANGED <<serverVars, mainVars, rows, bubbles, ops, offset, todo, found,
                 removalVars, others>>

First(s, n) == SubSeq(s, 1, IF Len(s) < n THEN Len(s) ELSE n)

\* tg_get_messages_from_database: the query orders by a constant, so that the
\* rows come as they were inserted.
tg_get_messages_from_database(w) ==
  /\ Loading(w) /\ ~hung /\ authorized
  /\ Head(plan[w]) = "local"
  /\ todo' = [todo EXCEPT ![w] = First(rows, LocalLimit)]
  /\ Goto(w, "find")
  /\ UNCHANGED <<serverVars, mainVars, rows, bubbles, ops, plan, offset, found,
                 removalVars, others>>

\* Where the load starts: at the newest message, or, scrolling to the top,
\* after as many messages as are loaded.
AddOffset_count(w) == Len(bubbles)
AddOffset(w) == IF Head(plan[w]) = "older" THEN Len(bubbles) ELSE 0

tg_messages_get_history(w) ==
  /\ Loading(w) /\ ~hung /\ authorized
  /\ Head(plan[w]) # "local"
  /\ offset' = [offset EXCEPT ![w] = AddOffset(w)]
  /\ Goto(w, "ask")
  /\ UNCHANGED <<serverVars, mainVars, rows, bubbles, ops, plan, todo, found,
                 removalVars, others>>

\* messages.getHistory: the messages of a page, and the page, newest first.
OnPage(from) ==
  {m \in server :
     Cardinality({n \in server : n > m}) \in from .. from + Limit - 1}
Page(from) ==
  {s \in [1 .. Cardinality(OnPage(from)) -> OnPage(from)] :
     \A i, j \in DOMAIN s : i < j => s[i] > s[j]}

Answer(w) ==
  /\ pc[w] = "ask"
  /\ \E page \in Page(offset[w]) : todo' = [todo EXCEPT ![w] = page]
  /\ offset' = [offset EXCEPT ![w] = 0]
  /\ Goto(w, "find")
  /\ UNCHANGED <<serverVars, mainVars, rows, bubbles, ops, plan, found,
                 removalVars, others>>

\* The query returns without an answer or with an error.  It need not return:
\* recv has no timeout, and the operation then stays at "ask".
NoAnswer(w) ==
  /\ pc[w] = "ask"
  /\ offset' = [offset EXCEPT ![w] = 0]
  /\ Goto(w, "find")
  /\ UNCHANGED <<serverVars, mainVars, rows, bubbles, ops, plan, todo, found,
                 removalVars, others>>

\* tg_message_to_database.
Stored_again(m) == Append(rows, m)
Stored(m) == IF m \in Range(rows) THEN rows ELSE Append(rows, m)

\* Whether messages_callback takes the message for a new one.
IsShown_never(m) == FALSE
IsShown(m) == m \in Range(bubbles)

\* The next message: parse_msgs and the first part of messages_callback ...
messages_callback(w) ==
  /\ pc[w] = "find" /\ todo[w] # <<>>
  /\ rows' = IF Head(plan[w]) = "local" THEN rows ELSE Stored(Head(todo[w]))
  /\ found' = [found EXCEPT ![w] = IsShown(Head(todo[w]))]
  /\ Goto(w, "add")
  /\ UNCHANGED <<serverVars, mainVars, bubbles, ops, plan, offset, todo,
                 removalVars, others>>

\* ... and its block on the main thread.
AddBubble(w) ==
  /\ pc[w] = "add" /\ ~hung
  /\ bubbles' = IF found[w] THEN bubbles ELSE Append(bubbles, Head(todo[w]))
  /\ todo' = [todo EXCEPT ![w] = Tail(@)]
  /\ found' = [found EXCEPT ![w] = FALSE]
  /\ Goto(w, "find")
  /\ UNCHANGED <<serverVars, mainVars, rows, ops, plan, offset, removalVars,
                 others>>

\* The table is reloaded on the main thread ...
LoadDone(w) ==
  /\ pc[w] = "find" /\ todo[w] = <<>> /\ ~hung
  /\ Goto(w, "mark")
  /\ UNCHANGED <<serverVars, mainVars, rows, bubbles, ops, plan, offset, todo,
                 found, removalVars, others>>

\* ... and the chat is marked as read: a query, unless the load was local.
SetRead(w) ==
  /\ pc[w] = "mark"
  /\ EndPhase(w)
  /\ UNCHANGED <<serverVars, mainVars, rows, bubbles, ops, offset, todo, found,
                 removalVars, others>>

-----------------------------------------------------------------------------
(* Sending, and messages of others.                                        *)

Sending(w) == pc[w] = "ready" /\ Head(plan[w]) = "send"

\* The server takes the message; its answer has the message, which is stored,
\* or does not come or does not have it.
tg_message_send(w) ==
  /\ Sending(w) /\ last < MaxMsg
  /\ last' = last + 1 /\ server' = server \cup {last + 1}
  /\ rows' \in {rows, Stored(last + 1)}
  /\ EndPhase(w)
  /\ UNCHANGED <<updates, mainVars, bubbles, ops, offset, todo, found,
                 removalVars, others>>

SendFails(w) ==
  /\ Sending(w)
  /\ EndPhase(w)
  /\ UNCHANGED <<serverVars, mainVars, rows, bubbles, ops, offset, todo, found,
                 removalVars, others>>

Arrive ==
  /\ last < MaxMsg
  /\ last' = last + 1 /\ server' = server \cup {last + 1}
  /\ updates' = updates \cup {last + 1}
  /\ UNCHANGED <<mainVars, rows, bubbles, work, removalVars, others>>

\* tg_do_updates: updateNewMessage is stored and the chat does nothing with
\* it ...
updateNewMessage(m) ==
  /\ updates' = updates \ {m}
  /\ rows' = Stored(m)
  /\ UNCHANGED <<server, last, mainVars, bubbles, work, removalVars, others>>

\* ... and updateShortChatMessage has it load.
updateShortChatMessage(m) ==
  /\ updates' = updates \ {m}
  /\ Enqueue(Load)
  /\ UNCHANGED <<server, last, mainVars, rows, bubbles, removalVars, others>>

\* The process ends, and the chat is opened in the next one.
Restart ==
  /\ run < MaxRun /\ run' = run + 1
  /\ updates' = {} /\ authorized' \in BOOLEAN /\ hung' = FALSE
  /\ bubbles' = <<>>
  /\ ops' = <<Reload>>
  /\ pc' = [w \in Worker |-> IF w = Sync THEN "idle" ELSE "new"]
  /\ plan' = [w \in Worker |-> <<>>] /\ offset' = [w \in Worker |-> 0]
  /\ todo' = [w \in Worker |-> <<>>] /\ found' = [w \in Worker |-> FALSE]
  /\ prompt' = None /\ chosen' = None /\ removing' = None
  /\ UNCHANGED <<channel, server, last, rows, confirmed, deleted, gone, late,
                 hasty, taps>>

\* What an operation does by itself, and how its queries return.
Step(w) ==
  \/ NoNetwork(w) \/ tg_get_messages_from_database(w)
  \/ tg_messages_get_history(w) \/ messages_callback(w) \/ AddBubble(w)
  \/ LoadDone(w) \/ (pc[w] = "mark" /\ Head(plan[w]) = "local" /\ SetRead(w))

Query(w) ==
  \/ Answer(w) \/ NoAnswer(w) \/ tg_message_send(w) \/ SendFails(w) \/ SetRead(w)

SyncStep == Start \/ Cut \/ DeleteRow \/ ClearChosen \/ Step(Sync)

Next ==
  \/ didEndDecelerating \/ inputButtonPressed \/ timer \/ authorizedAs
  \/ \E m \in Range(bubbles) : performSwipeToLeft(m)
  \/ askToRemoveMessage \/ onYes \/ onCancel
  \/ SyncStep \/ DeleteAnswered \/ DeleteUnanswered \/ Query(Sync)
  \/ \E d \in Doc : sendDocument(d) \/ Step(d) \/ Query(d)
  \/ Arrive
  \/ \E m \in updates : updateNewMessage(m) \/ updateShortChatMessage(m)
  \/ Restart

Spec == Init /\ [][Next]_vars
\* Operations go on and the timer fires; nothing is assumed of the queries.
FairSpec == Spec /\ WF_vars(timer) /\ WF_vars(SyncStep)

-----------------------------------------------------------------------------
(* Properties.                                                             *)

\* The type of the state.
ChatTypeOK ==
  /\ channel \in BOOLEAN
  /\ server \subseteq Message /\ last \in Old .. MaxMsg
  /\ updates \subseteq Message
  /\ authorized \in BOOLEAN /\ hung \in BOOLEAN /\ hasty \in BOOLEAN
  /\ rows \in Seq(Message) /\ IsInjective(rows) /\ bubbles \in Seq(Message)
  /\ ops \in Seq(Operations)
  /\ pc \in [Worker -> Location] /\ plan \in [Worker -> Plans]
  /\ \A w \in Worker : pc[w] \in {"new", "idle"} <=> plan[w] = <<>>
  /\ offset \in [Worker -> Nat] /\ found \in [Worker -> BOOLEAN]
  /\ todo \in [Worker -> Seq(Message)]
  /\ prompt \in [at : {"sheet", "ask"}, msg : Message] \cup {None}
  /\ chosen \in Message \cup {None} /\ removing \in Message \cup {None}
  /\ confirmed \subseteq Message /\ deleted \subseteq Message
  /\ gone \subseteq Message /\ late \subseteq Message
  /\ taps \in 0 .. MaxTaps /\ run \in 1 .. MaxRun

DocSent == \E d \in Doc : pc[d] # "new"

\* A message is shown once, however loads, rows and updates overlap, unless a
\* document or a contact is sent beside them: then two operations may look for
\* a message before either adds it.
ShownOnce == IsInjective(bubbles) \/ DocSent

\* The server deletes what the user has confirmed, unless another message is
\* chosen before the removal is over: messageToRemove is read when the
\* operation runs.
OnlyConfirmed == deleted \subseteq confirmed \/ hasty

\* A message whose removal the server has confirmed comes back, to the
\* database in this process or the next or to the screen, only from a server
\* that still has it, as for a message of a channel, which the query does not
\* delete; or if an update or another operation had it in hand; and to the
\* screen if another message was chosen meanwhile or a document was sent beside
\* the removal.
RemovedStaysAway ==
  /\ gone \cap server = {} \/ channel
  /\ gone \cap Range(rows) \subseteq late \cup server
  /\ gone \cap Range(bubbles) \subseteq late \cup server \/ hasty \/ DocSent

\* A query of syncData is under way.
Waits ==
  \/ pc[Sync] = "ask"
  \/ pc[Sync] = "mark" /\ Head(plan[Sync]) # "local"
  \/ pc[Sync] = "ready" /\ Head(plan[Sync]) \in {"send", "delete"}

\* A load of the newest messages, where it begins and where it is answered.
Begins == pc[Sync] = "ready" /\ Head(plan[Sync]) = "remote"
IsAnswered == pc[Sync] = "ask" /\ Head(plan[Sync]) = "remote" /\ Answer(Sync)

\* Again and again the screen has all of the newest messages, whatever loads
\* failed and updates were lost and whatever came in meanwhile, if it was
\* opened by a client that is logged in, if each query of syncData returns,
\* one way or another, and if of the loads that begin for ever some are
\* answered.
NewestIsShownIfAnswered ==
  []<>~Waits /\ ([]<>Begins => []<><<IsAnswered>>_vars) =>
    []<>(OnPage(0) \subseteq Range(bubbles) \/ hung \/ ~authorized)

-----------------------------------------------------------------------------
(* What makes them inductive.                                              *)

\* Messages are in hand between an answer and the end of its phase, and a
\* removal has none.
Phases ==
  /\ \A w \in Worker :
       /\ pc[w] \notin {"find", "add"} => todo[w] = <<>>
       /\ pc[w] = "add" => todo[w] # <<>>
  /\ pc[Sync] \in {"row", "clear"} => plan[Sync] = <<"delete">>
  /\ pc[Sync] \in {"ask", "find", "add", "mark"} =>
       Head(plan[Sync]) \in {"local", "remote", "older"}
  /\ pc[Sync] # "row" => removing = None

\* What was looked for is still there, or still not, when it is added.
FoundIsShown ==
  DocSent \/ /\ IsInjective(bubbles)
             /\ pc[Sync] = "add" =>
                  (found[Sync] <=> Head(todo[Sync]) \in Range(bubbles))

\* One removal after the other: what is chosen is what was asked about.
ChosenIsAsked ==
  hasty \/ /\ deleted \subseteq confirmed
           /\ prompt # None => chosen = prompt.msg /\ ~RemovalPending
           /\ RemovalPending => chosen \in confirmed \cup {None}

\* A message is nowhere before the server has it.
Sent ==
  /\ server \cup updates \cup gone \cup Range(rows) \cup Range(bubbles)
       \subseteq 1 .. last
  /\ \A w \in Worker : Range(todo[w]) \subseteq 1 .. last
  /\ {chosen, removing} \subseteq (1 .. last) \cup {None}

\* A message that is gone is nowhere, unless it was in hand; a channel loses
\* none.
GoneIsNowhere ==
  IF channel THEN server = 1 .. last ELSE
  /\ removing \notin server
  /\ \A m \in gone :
       /\ m \notin server
       /\ m \in late \/ /\ m \notin Range(rows) /\ m \notin updates
                        /\ \A w \in Worker : m \notin Range(todo[w])

\* A removal has taken the bubble out before it deletes the message.
CutIsOut ==
  channel \/ hasty \/ DocSent \/
    /\ gone \cap Range(bubbles) \subseteq late
    /\ plan[Sync] = <<"delete">> /\ pc[Sync] \in {"ready", "row"} =>
         chosen \notin Range(bubbles) /\ removing \notin Range(bubbles)
=============================================================================
