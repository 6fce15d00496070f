----------------------------- MODULE TgDialogs -----------------------------
(***************************************************************************)
(* The list of dialogs: dialogs.c under DialogsViewController.m.           *)
(*                                                                         *)
(* The main thread adds loads to the serial queue "syncData": from the     *)
(* database, or from the server older than a date.  A load of all dialogs  *)
(* asks for page after page.  Each dialog is stored, then given to         *)
(* get_dialogs_cb, which adds it to loadedData or updates it there.  The   *)
(* serial queue "filterQueue" makes the array that is shown.               *)
(*                                                                         *)
(* The server (external) has a fixed set of dialogs, whose dates change as *)
(* messages arrive and are deleted.                                        *)
(***************************************************************************)
EXTENDS Naturals, SequencesExt, FiniteSets

CONSTANTS
  Dialog,    \* the dialogs of the account
  Hidden,    \* those in the archive folder
  Pinned,
  Quotable,  \* those whose messages may have an apostrophe
  Page,      \* dialogs asked for at a time in a load of all (20)
  Limit,     \* dialogs asked for in other loads (40)
  MaxClock,  \* bound on the dates
  MaxTaps,   \* bound on the events of the screen
  MaxRun,    \* bound on the number of processes
  None

ASSUME DialogsAssumption ==
  /\ Hidden \subseteq Dialog /\ Pinned \subseteq Dialog /\ Quotable \subseteq Dialog
  /\ Page \in Nat \ {0} /\ Limit \in Nat \ {0}
  /\ IsFiniteSet(Dialog) /\ MaxClock \in Nat
  /\ MaxTaps \in Nat /\ MaxRun \in Nat /\ None \notin Seq(Dialog)

VARIABLES
  date,      \* the server: dates of the top messages
  rows,      \* the database: the dialogs with a row, as inserted ...
  stored,    \* ... and their dates, None when nothing but the peer was written
  notFirst,  \* isNotFirstLaunch
  loaded,    \* self.loadedData, by peer ...
  known,     \* ... and the dates there
  refused,   \* history: dialogs whose last UPDATE was refused
  shown,     \* self.data, by peer
  archive,   \* self.isHidden
  cached,    \* self.loadDialogsCached
  all,       \* self.loadAddDialogs
  ops,       \* operations of syncData that have not started
  pc,        \* where the running operation is
  cur,       \* the running operation
  count, total,
  todo,      \* what is left of the answer or the rows
  filter,    \* an operation of filterQueue has not started
  filtered,  \* the array the running one has made, or None
  taps, run

server == <<date>>
disk == <<rows, stored, notFirst, refused>>
list == <<loaded, known>>
view == <<shown, archive, filter, filtered>>
load == <<pc, cur, count, total, todo>>
vars == <<date, rows, stored, notFirst, refused, loaded, known, shown, archive, cached,
          all, ops, pc, cur, count, total, todo, filter, filtered, taps, run>>

Now == MaxClock + 1
Time == 0 .. Now
Cached == [kind |-> "cached", date |-> 0, all |-> FALSE]
From(t) == [kind |-> "from", date |-> t, all |-> FALSE]
Operation == [kind : {"cached", "from"}, date : Time, all : BOOLEAN]
Item == [peer : Dialog, date : Time, quoted : BOOLEAN]
Location == {"idle", "request", "deliver", "notify", "next", "end"}

Init ==
  /\ date \in [Dialog -> 1 .. MaxClock]
  /\ rows = <<>> /\ refused = {}
  /\ stored = [d \in Dialog |-> None] /\ notFirst = FALSE
  /\ loaded = <<>> /\ known = [d \in Dialog |-> 0]
  /\ shown = <<>> /\ archive = FALSE /\ cached = FALSE /\ all = FALSE
  /\ ops = <<>> /\ pc = "idle" /\ cur = Cached
  /\ count = 0 /\ total = 0 /\ todo = <<>>
  /\ filter = FALSE /\ filtered = None /\ taps = 0 /\ run = 1

-----------------------------------------------------------------------------
(* The screen, on the main thread.                                         *)

Tap == taps < MaxTaps /\ taps' = taps + 1

\* getDialogsFrom, online: clears the flag at once, adds the operation.
getDialogsFrom(before, t) ==
  /\ cached' = FALSE
  /\ ops' = Append(before, From(t))

\* viewWillAppear, tgLibLoaded.
reloadData ==
  /\ Tap
  /\ ops' = Append(ops, Cached)
  /\ UNCHANGED <<server, disk, list, view, cached, all, load, run>>

\* The timer, authorizedAs, and the end of scrolling: at the top from now, at
\* the end from the date of the last object, else of the first visible row.
scrollViewDidEndDecelerating ==
  /\ Tap
  /\ \E t \in {Now} \cup {known[d] : d \in Range(shown)}
              \cup {known[d] : d \in IF loaded = <<>> THEN {} ELSE {Last(loaded)}} :
       getDialogsFrom(ops, t)
  /\ UNCHANGED <<server, disk, list, view, all, load, run>>

\* cancelAll: what is left of the operations that wait; the running one goes on.
cancelAll == <<>>

refresh ==
  /\ Tap
  /\ ops' = Append(cancelAll, Cached)
  /\ all' = TRUE
  /\ UNCHANGED <<server, disk, list, view, cached, load, run>>

\* The timer is fired, then cancelAll removes what it added and the rest.
willResignActive ==
  /\ Tap
  /\ cached' = FALSE
  /\ ops' = cancelAll
  /\ UNCHANGED <<server, disk, list, view, all, load, run>>

\* The search field filters in the same way.
onHidden ==
  /\ Tap
  /\ archive' = ~archive
  /\ filter' = TRUE
  /\ UNCHANGED <<server, disk, list, shown, filtered, cached, all, ops, load,
                 run>>

-----------------------------------------------------------------------------
(* filterData: waiting operations are replaced by a new one.               *)

\* The sequences of all elements of S, each of them once.
Enumerations(S) == {s \in [1 .. Cardinality(S) -> S] : IsInjective(s)}

Above(d, e) ==
  \/ d \in Pinned /\ e \notin Pinned
  \/ (d \in Pinned <=> e \in Pinned) /\ known[d] > known[e]

Visible  == {d \in Range(loaded) : d \in Hidden <=> archive}
Filtered == {s \in Enumerations(Visible) :
               \A i, j \in DOMAIN s : i < j => ~Above(s[j], s[i])}

FilterRead ==
  /\ filter /\ filtered = None
  /\ filtered' \in Filtered
  /\ filter' = FALSE
  /\ UNCHANGED <<server, disk, list, shown, archive, cached, all, ops, load,
                 taps, run>>

FilterShow ==
  /\ filtered # None
  /\ shown' = filtered
  /\ filtered' = None
  /\ UNCHANGED <<server, disk, list, archive, filter, cached, all, ops, load,
                 taps, run>>

-----------------------------------------------------------------------------
(* The running operation of syncData.                                      *)

\* tg_get_dialogs_from_database: the id is set with the rest, so that only a
\* row that was written is read.
Inserted(d, e) == \E i, j \in DOMAIN rows : i < j /\ rows[i] = d /\ rows[j] = e
Rows == {s \in Enumerations({d \in Range(rows) : stored[d] # None}) :
           \A i, j \in DOMAIN s : i < j => Inserted(s[i], s[j])}

\* getDialogsCached: the rows, unless the first list was never loaded.
StartCached ==
  /\ pc = "idle" /\ ops # <<>> /\ Head(ops).kind = "cached"
  /\ cached' = TRUE
  /\ \E read \in IF notFirst THEN Rows ELSE {<<>>} :
       todo' = [i \in DOMAIN read |-> [peer |-> read[i], date |-> stored[read[i]],
                                       quoted |-> FALSE]]
  /\ cur' = Head(ops) /\ ops' = Tail(ops)
  /\ pc' = "deliver"
  /\ UNCHANGED <<server, disk, list, view, all, count, total, taps, run>>

\* getDialogsFrom and the start of tg_get_dialogs.
StartFrom ==
  /\ pc = "idle" /\ ops # <<>> /\ Head(ops).kind = "from"
  /\ all' = (all \/ ~notFirst)
  /\ cur' = [Head(ops) EXCEPT !.all = all'] /\ ops' = Tail(ops)
  /\ count' = 0 /\ total' = 1
  /\ pc' = "request"
  /\ UNCHANGED <<server, disk, list, view, cached, todo, taps, run>>

\* The server: an offset of 0, as of a dialog without a date, is none.
Older(t) == {d \in Dialog : t = 0 \/ date[d] < t}
Newest(S) == {s \in Enumerations(S) :
                \A i, j \in DOMAIN s : i < j => date[s[i]] >= date[s[j]]}

\* The date from which the next page is asked for: t.offset_date stays.
Offset == cur.date

Asked == IF cur.all THEN Page ELSE Limit

\* How a page counts towards the end of the load.
Counted_none(n) == count
Counted(n) == count + n

\* The date that tg_dialogs_from_tl finds for a dialog of a page: of the last
\* message of the answer, of whichever dialog, with the id of the top message,
\* for ids are numbered by channel; and 0 for a service message.
TopDates(page) == {0} \cup {date[d] : d \in Range(page)}

\* messages.getDialogs is answered with a slice and the number of all
\* dialogs, or, where nothing is left out, with all there are.
tg_get_dialogs_callback ==
  /\ pc = "request"
  /\ \E older \in Newest(Older(Offset)) :
     LET n == IF Len(older) < Asked THEN Len(older) ELSE Asked
     IN  /\ \E top \in [1 .. n -> TopDates(SubSeq(older, 1, n))], quoted \in SUBSET Quotable :
              todo' = [i \in 1 .. n |-> [peer |-> older[i], date |-> top[i],
                                         quoted |-> older[i] \in quoted]]
         /\ count' = Counted(n)
         /\ total' \in IF n = Len(older) THEN {total, Cardinality(Dialog)}
                       ELSE {Cardinality(Dialog)}
  /\ pc' = "deliver"
  /\ UNCHANGED <<server, disk, list, view, cached, all, ops, cur, taps, run>>

\* The query returns without an answer or with an error.  It need not return:
\* recv has no timeout, and the load then stays at "request".
NoAnswer ==
  /\ pc = "request"
  /\ pc' = "next"
  /\ UNCHANGED <<server, disk, list, view, cached, all, ops, cur, count,
                 total, todo, taps, run>>

\* tg_dialog_to_database: INSERT if there is no row, then UPDATE.  An
\* apostrophe ends the text early, and the UPDATE is refused.
Saved_inserted(d, t) == IF d \in Range(rows) THEN stored ELSE [stored EXCEPT ![d] = t]
Saved(d, t) == [stored EXCEPT ![d] = t]

tg_dialog_to_database(item) ==
  /\ rows' = IF item.peer \in Range(rows) THEN rows ELSE Append(rows, item.peer)
  /\ stored' = IF item.quoted THEN stored ELSE Saved(item.peer, item.date)
  /\ refused' = IF item.quoted THEN refused \cup {item.peer}
                               ELSE refused \ {item.peer}

\* loadedData with the dialog, which may be there already.
Added_again(d) == Append(loaded, d)
Added(d) == IF d \in Range(loaded) THEN loaded ELSE Append(loaded, d)

\* The next dialog of the answer or row of the table: get_dialogs_cb.
get_dialogs_cb ==
  /\ pc = "deliver" /\ todo # <<>>
  /\ LET item == Head(todo) IN
       /\ IF cur.kind = "from" THEN tg_dialog_to_database(item)
                               ELSE UNCHANGED <<rows, stored, refused>>
       /\ loaded' = Added(item.peer)
       /\ known' = [known EXCEPT ![item.peer] = item.date]
  /\ notFirst' = TRUE
  /\ todo' = Tail(todo)
  /\ pc' = "notify"
  /\ UNCHANGED <<server, view, cached, all, ops, cur, count, total, taps, run>>

\* ... and its block on the main thread.
Notify ==
  /\ pc = "notify"
  /\ filter' = (filter \/ ~cached)
  /\ pc' = "deliver"
  /\ UNCHANGED <<server, disk, list, shown, archive, filtered, cached, all,
                 ops, cur, count, total, todo, taps, run>>

Delivered ==
  /\ pc = "deliver" /\ todo = <<>> /\ cur.kind = "from"
  /\ pc' = "next"
  /\ UNCHANGED <<server, disk, list, view, cached, all, ops, cur, count,
                 total, todo, taps, run>>

\* The rows are done: filter, and load from the server, if online.
CachedDone ==
  /\ pc = "deliver" /\ todo = <<>> /\ cur.kind = "cached"
  /\ filter' = TRUE
  /\ \/ getDialogsFrom(ops, Now)
     \/ UNCHANGED <<cached, ops>>
  /\ pc' = "idle"
  /\ UNCHANGED <<server, disk, list, shown, archive, filtered, all, cur, count,
                 total, todo, taps, run>>

\* The loop of tg_get_dialogs.
NextPage ==
  /\ pc = "next"
  /\ pc' = IF cur.all /\ count < total THEN "request" ELSE "end"
  /\ UNCHANGED <<server, disk, list, view, cached, all, ops, cur, count,
                 total, todo, taps, run>>

\* The end of tg_get_dialogs, whose variables go.  Whether it filters, too.
EndFilters_never == filter
EndFilters == TRUE

LoadDone ==
  /\ pc = "end"
  /\ all' = FALSE
  /\ filter' = EndFilters
  /\ pc' = "idle" /\ cur' = Cached /\ count' = 0 /\ total' = 0
  /\ UNCHANGED <<server, disk, list, shown, archive, filtered, cached, ops,
                 todo, taps, run>>

-----------------------------------------------------------------------------
\* A message arrives at the server, or the top message is deleted there and an
\* older one is the top.
Arrive(d) ==
  /\ \E t \in 1 .. MaxClock :
       /\ t < date[d] \/ \A e \in Dialog : date[e] <= t
       /\ date' = [date EXCEPT ![d] = t]
  /\ UNCHANGED <<disk, list, view, cached, all, ops, load, taps, run>>

Restart ==
  /\ run < MaxRun /\ run' = run + 1
  /\ loaded' = <<>> /\ known' = [d \in Dialog |-> 0]
  /\ shown' = <<>> /\ archive' = FALSE /\ cached' = FALSE /\ all' = FALSE
  /\ ops' = <<>> /\ pc' = "idle" /\ cur' = Cached
  /\ count' = 0 /\ total' = 0 /\ todo' = <<>>
  /\ filter' = FALSE /\ filtered' = None
  /\ UNCHANGED <<server, disk, taps>>

Screen ==
  \/ reloadData \/ scrollViewDidEndDecelerating \/ refresh
  \/ willResignActive \/ onHidden

\* What the thread of syncData does by itself, and what it waits for.
SyncData ==
  \/ StartCached \/ StartFrom \/ get_dialogs_cb \/ Notify \/ Delivered
  \/ CachedDone \/ NextPage \/ LoadDone

Query == tg_get_dialogs_callback \/ NoAnswer

Next ==
  \/ Screen \/ SyncData \/ Query \/ FilterRead \/ FilterShow
  \/ \E d \in Dialog : Arrive(d)
  \/ Restart

Spec == Init /\ [][Next]_vars
\* Operations go on; nothing is assumed of the queries.
FairSpec == Spec /\ WF_vars(SyncData) /\ WF_vars(FilterRead) /\ WF_vars(FilterShow)

-----------------------------------------------------------------------------
(* Properties.                                                             *)

\* The type of the state.
DialogsTypeOK ==
  /\ date \in [Dialog -> Time] /\ stored \in [Dialog -> Time \cup {None}]
  /\ known \in [Dialog -> Time]
  /\ refused \subseteq Dialog
  /\ todo \in Seq(Item)
  /\ rows \in Seq(Dialog) /\ IsInjective(rows)
  /\ loaded \in Seq(Dialog) /\ IsInjective(loaded)
  /\ shown \in Seq(Dialog) /\ IsInjective(shown)
  /\ filtered # None => filtered \in Seq(Dialog) /\ IsInjective(filtered)
  /\ notFirst \in BOOLEAN /\ archive \in BOOLEAN /\ cached \in BOOLEAN
  /\ all \in BOOLEAN /\ filter \in BOOLEAN
  /\ ops \in Seq(Operation) /\ cur \in Operation /\ pc \in Location
  /\ count \in Nat /\ total \in Nat /\ taps \in Nat /\ run \in Nat

\* When no load runs and no filtering is due, the screen shows what is
\* loaded, filtered and in order, although loads skip the filtering of each
\* dialog when loadDialogsCached is set, by whichever operation ran last.
ShownIsLoaded ==
  pc = "idle" /\ ~filter /\ filtered = None => shown \in Filtered

\* The list and the database agree on every dialog that is loaded, whichever
\* of them it came from last and whatever the server gave for its date, so that
\* the next process starts from what this one shows; only a dialog whose last
\* UPDATE was refused because of an apostrophe may differ.
LoadedIsStored ==
  \A d \in Range(loaded) :
    d \in Range(rows) /\ (stored[d] = known[d] \/ d \in refused)

\* A load ends, although a load of all asks for each page from the same date
\* and ends by counting, if it is not for ever without a dialog: a query that
\* does not return, answers that are all lost, and pages that are all empty
\* (for these a load of all asks for ever) are what may keep it.
LoadEndsIfFed ==
  []<>(pc \in {"idle", "notify"}) => (pc = "request" ~> pc = "idle")

-----------------------------------------------------------------------------
(* What makes them inductive.                                              *)

\* An array that was made is the one to show, unless a load or another
\* filtering will have it made again.
FilterDue ==
  pc = "idle" /\ ~filter =>
    IF filtered = None THEN shown \in Filtered ELSE filtered \in Filtered

\* A row that is being delivered is still what the database has.
InHandIsStored ==
  /\ \A d \in Dialog : stored[d] # None => d \in Range(rows)
  /\ pc \in {"request", "next", "end"} => cur.kind = "from"
  /\ pc \in {"deliver", "notify"} /\ cur.kind = "cached" =>
       \A i \in DOMAIN todo :
         /\ todo[i].peer \in Range(rows)
         /\ todo[i].date = stored[todo[i].peer]
=============================================================================
