----------------------------- MODULE TgDownload -----------------------------
(***************************************************************************)
(* Downloads: the chunk loop of files.c under DownloadManager.m and the    *)
(* part of ChatViewController.m that starts, stops and opens them.         *)
(*                                                                         *)
(* A tap on a document adds an operation to the queue "download", which    *)
(* runs any number of them at a time.  All use the one DownloadManager of  *)
(* the screen: its path, its output stream, its flag to stop.  The file in *)
(* the cache directory outlives the process; a later tap takes it for the  *)
(* document when its size is right.                                        *)
(***************************************************************************)
EXTENDS Integers, Sequences

CONSTANTS
  Op,        \* operations, each for one tap or one picture
  Doc,       \* what is downloaded, per operation
  File,      \* documents; the others are pictures, of a size not known before
  Size,      \* pieces of each document or picture
  Limit,     \* most pieces in one answer of upload.getFile
  Half,      \* pieces beyond the largest int: INT_MAX + 1, half of 2^32
  Overlap,   \* whether the user taps while another transfer runs
  DiskFull,  \* whether a write to the file may be short
  None

Docs  == {Doc[o] : o \in Op}
Piece == [doc : Docs, at : Nat]

ASSUME DownloadAssumption ==
  /\ Limit \in Nat \ {0} /\ Half \in Nat \ {0}
  /\ \A d \in Docs : Size[d] \in Nat
  /\ Overlap \in BOOLEAN /\ DiskFull \in BOOLEAN
  /\ None \notin Docs /\ None \notin Seq(Piece)

VARIABLES
  pc,        \* per operation: where it is
  offset,    \* per operation: the local offset of the loop
  chunk,     \* per operation: pieces of the answer at hand
  got,       \* history: the pieces given to the callback, by number; what a
             \* failed operation got is dropped with its local variables
  url,       \* per operation: the document whose path is returned
  seen,      \* history: the content of the file when openUrl gets it
  short,     \* history: a write of the operation was short
  path,      \* self->path
  file,      \* self->file: the document it was opened for, and whether open
  stop,      \* self->stopTransfer
  disk       \* the cached files: sequences of pieces, or None

vars == <<pc, offset, chunk, got, url, seen, short, path, file, stop,
          disk>>

Location == {"idle", "queued", "check", "wait", "got", "finish", "open",
             "opened", "failed", "cancelled", "dead", "unseen"}
InLoop   == {"wait", "got", "finish"}
Running  == InLoop \cup {"check", "open"}
NoFile   == [doc |-> None, open |-> FALSE]
IsFile(o) == Doc[o] \in File

Init ==
  /\ pc = [o \in Op |-> "idle"]
  /\ offset = [o \in Op |-> 0] /\ chunk = [o \in Op |-> 0]
  /\ got = [o \in Op |-> <<>>]
  /\ url = [o \in Op |-> None]
  /\ seen = [o \in Op |-> <<>>]
  /\ short = [o \in Op |-> FALSE]
  /\ path = None /\ file = NoFile /\ stop = FALSE
  /\ disk = [d \in Docs |-> None]

Goto(o, l) == pc' = [pc EXCEPT ![o] = l]
Idle == \A o \in Op : pc[o] \notin Running \cup {"queued"}

-----------------------------------------------------------------------------
(* The chat screen: starting and stopping.                                 *)

\* getDoc adds an operation; "online" is any moment.
getDoc(o) ==
  /\ pc[o] = "idle" /\ IsFile(o) /\ (Overlap \/ Idle)
  /\ Goto(o, "queued")
  /\ UNCHANGED <<offset, chunk, got, url, seen, short, path, file,
                 stop, disk>>

\* cancelTransfer: operations that have not started are removed.
cancelTransfer ==
  /\ \E o \in Op : pc[o] \in Running \cup {"queued"}
  /\ pc' = [o \in Op |-> IF pc[o] = "queued" THEN "cancelled" ELSE pc[o]]
  /\ stop' = TRUE
  /\ UNCHANGED <<offset, chunk, got, url, seen, short, path, file, disk>>

-----------------------------------------------------------------------------
(* downloadFileForMessage of operation o.                                  *)

\* The fields of the manager are set for this message.
downloadFileForMessage(o) ==
  /\ pc[o] = "queued"
  /\ path' = Doc[o]
  /\ stop' = FALSE
  /\ Goto(o, "check")
  /\ UNCHANGED <<offset, chunk, got, url, seen, short, file, disk>>

\* The file at self->path counts as the document of o.
FileIsComplete_exists(o) == disk[path] # None
FileIsComplete_missing(o) == disk[path] # None => Len(disk[path]) = Size[Doc[o]]
FileIsComplete(o) == disk[path] # None /\ Len(disk[path]) = Size[Doc[o]]

UseCached(o) ==
  /\ pc[o] = "check" /\ FileIsComplete(o)
  /\ url' = [url EXCEPT ![o] = path]
  /\ Goto(o, "open")
  /\ UNCHANGED <<offset, chunk, got, seen, short, path, file, stop,
                 disk>>

\* What is left of an incomplete file before the stream appends to it.
Recreated_kept(old) == IF old = None THEN <<>> ELSE old
Recreated(old) == <<>>

\* The file is removed and created, a stream opened, the loop entered.
Recreate(o) ==
  /\ pc[o] = "check" /\ ~FileIsComplete(o)
  /\ disk' = [disk EXCEPT ![path] = Recreated(@)]
  /\ file' = [doc |-> path, open |-> TRUE]
  /\ Goto(o, "wait")
  /\ UNCHANGED <<offset, chunk, got, url, seen, short, path, stop>>

\* tg_get_document has returned 0: close the stream, return the path.
Finish(o) ==
  /\ pc[o] = "finish"
  /\ IF IsFile(o)
     THEN /\ file' = [file EXCEPT !.open = FALSE]
          /\ url' = [url EXCEPT ![o] = path]
          /\ Goto(o, "open")
     ELSE /\ Goto(o, "opened")
          /\ UNCHANGED <<file, url>>
  /\ UNCHANGED <<offset, chunk, got, seen, short, path, stop, disk>>

\* On the main thread, if there is a URL: openUrl.
openUrl(o) ==
  /\ pc[o] = "open"
  /\ seen' = [seen EXCEPT ![o] = disk[url[o]]]
  /\ Goto(o, "opened")
  /\ UNCHANGED <<offset, chunk, got, url, short, path, file, stop,
                 disk>>

-----------------------------------------------------------------------------
(* tg_get_file_with_progress of operation o.                               *)

\* A picture is asked for without a DownloadManager, and with size 0.
tg_get_photo_file(o) ==
  /\ pc[o] = "idle" /\ ~IsFile(o)
  /\ Goto(o, "wait")
  /\ UNCHANGED <<offset, chunk, got, url, seen, short, path, file,
                 stop, disk>>

\* download_progress, polled with all data that comes in; pictures have none.
Stopped(o) == IsFile(o) /\ stop

\* A size or an offset as the int it is kept in: the uint64_t size of
\* tg_get_document is converted, the sum of the chunks wraps.
AsInt(n) ==
  LET low == n % (2 * Half) IN IF low < Half THEN low ELSE low - 2 * Half
Fits(d) == Size[d] < Half

\* The answer to getFile at this offset: some of the pieces that are left,
\* perhaps none.  An offset below zero is refused.
Least(a, b) == IF a < b THEN a ELSE b
Answers(o) ==
  IF AsInt(offset[o]) < 0 THEN {}
  ELSE 0 .. Least(Limit, Size[Doc[o]] - offset[o])

Receive(o) ==
  /\ pc[o] = "wait" /\ ~Stopped(o)
  /\ \E n \in Answers(o) : chunk' = [chunk EXCEPT ![o] = n]
  /\ Goto(o, "got")
  /\ UNCHANGED <<offset, got, url, seen, short, path, file, stop, disk>>

\* No answer, an error, or the progress function said stop.
GetFails(o) ==
  /\ pc[o] = "wait"
  /\ Goto(o, "failed")
  /\ offset' = [offset EXCEPT ![o] = 0] /\ got' = [got EXCEPT ![o] = <<>>]
  /\ short' = [short EXCEPT ![o] = FALSE]
  /\ UNCHANGED <<chunk, url, seen, path, file, stop, disk>>

\* How the offset advances.
Advance_limit(o) == offset[o] + Limit
Advance(o) == offset[o] + chunk[o]

\* The condition of the loop after the callback: _photo_file_cb breaks it,
\* get_document_cb never does.  For a size that is not positive as an int the
\* condition is 1: only a failure or a stop ends the loop.
Again_oneMore(o) ==
  IsFile(o) /\ (AsInt(Size[Doc[o]]) > 0
                  => AsInt(Advance(o)) <= AsInt(Size[Doc[o]]))
Again(o) ==
  IsFile(o) /\ (AsInt(Size[Doc[o]]) > 0
                  => AsInt(Advance(o)) < AsInt(Size[Doc[o]]))

\* The pieces of the answer, by number.
Numbers(o) == [i \in 1 .. chunk[o] |-> offset[o] + i]

\* The callback of a document, get_document_cb, writes to self->file.
get_document_cb(o) ==
  /\ pc[o] = "got" /\ IsFile(o)
  /\ \E n \in IF DiskFull THEN 0 .. chunk[o] ELSE {chunk[o]} :
       /\ disk' = IF ~file.open THEN disk ELSE [disk EXCEPT ![file.doc] =
                    @ \o [i \in 1 .. n |-> [doc |-> Doc[o],
                                            at |-> offset[o] + i]]]
       /\ short' = [short EXCEPT ![o] = @ \/ n < chunk[o]]
  /\ got' = [got EXCEPT ![o] = @ \o Numbers(o)]
  /\ offset' = [offset EXCEPT ![o] = Advance(o)]
  /\ chunk' = [chunk EXCEPT ![o] = 0]
  /\ Goto(o, IF Again(o) THEN "wait" ELSE "finish")
  /\ UNCHANGED <<url, seen, path, file, stop>>

\* _photo_file_cb keeps the first chunk and ends the loop.
photo_file_cb(o) ==
  /\ pc[o] = "got" /\ ~IsFile(o)
  /\ got' = [got EXCEPT ![o] = @ \o Numbers(o)]
  /\ offset' = [offset EXCEPT ![o] = Advance(o)]
  /\ chunk' = [chunk EXCEPT ![o] = 0]
  /\ Goto(o, IF Again(o) THEN "wait" ELSE "finish")
  /\ UNCHANGED <<url, seen, short, path, file, stop, disk>>

-----------------------------------------------------------------------------
\* The application ends; the cache directory stays as it is.
Lost(o) == pc[o] \in InLoop \cup {"queued", "check"}
Restart ==
  /\ ~Idle
  /\ pc' = [o \in Op |-> CASE pc[o] = "open" -> "unseen"
                           [] Lost(o) -> "dead"
                           [] OTHER -> pc[o]]
  /\ offset' = [o \in Op |-> IF Lost(o) THEN 0 ELSE offset[o]]
  /\ chunk' = [o \in Op |-> IF Lost(o) THEN 0 ELSE chunk[o]]
  /\ got' = [o \in Op |-> IF Lost(o) THEN <<>> ELSE got[o]]
  /\ short' = [o \in Op |-> ~Lost(o) /\ short[o]]
  /\ path' = None /\ file' = NoFile /\ stop' = FALSE
  /\ UNCHANGED <<url, seen, disk>>

\* What the thread of an operation does by itself; a query that is out
\* returns by Receive or GetFails, or never.
Thread(o) ==
  \/ downloadFileForMessage(o) \/ UseCached(o) \/ Recreate(o)
  \/ get_document_cb(o) \/ photo_file_cb(o)
  \/ Finish(o) \/ openUrl(o)

Next ==
  \/ \E o \in Op : getDoc(o) \/ tg_get_photo_file(o) \/ Thread(o)
  \/ \E o \in Op : Receive(o) \/ GetFails(o)
  \/ cancelTransfer
  \/ Restart

Spec == Init /\ [][Next]_vars
\* Operations are scheduled; nothing is assumed of the queries.
FairSpec == Spec /\ \A o \in Op : WF_vars(Thread(o))

-----------------------------------------------------------------------------
(* Properties.                                                             *)

\* The type of the state.
DownloadTypeOK ==
  /\ pc \in [Op -> Location]
  /\ offset \in [Op -> Nat] /\ chunk \in [Op -> Nat]
  /\ got \in [Op -> Seq(Nat)]
  /\ url \in [Op -> Docs \cup {None}] /\ path \in Docs \cup {None}
  /\ seen \in [Op -> Seq(Piece)] /\ short \in [Op -> BOOLEAN]
  /\ file \in [doc : Docs \cup {None}, open : BOOLEAN]
  /\ stop \in BOOLEAN
  /\ disk \in [Docs -> Seq(Piece) \cup {None}]

Prefix(d, n) == [i \in 1 .. n |-> [doc |-> d, at |-> i]]
Whole(d) == Prefix(d, Size[d])

\* A cached file of the right size is the document, piece by piece, whatever
\* transfers failed, were stopped or were cut off by the end of the process
\* before: downloadFileForMessage returns it without looking at the content.
CacheIntact ==
  \A d \in Docs \cap File :
    disk[d] # None /\ Len(disk[d]) = Size[d] => disk[d] = Whole(d)

\* A document that is opened is the one that was asked for, and whole, unless
\* the disk was full ("check file MD5 SUM" in downloadFileForMessage) or its
\* size does not fit the int of the loop, which then ends too early.
OpenedIsWhole ==
  \A o \in Op : pc[o] = "opened" /\ IsFile(o) /\ ~short[o] /\ Fits(Doc[o]) =>
    seen[o] = Whole(Doc[o])

\* An operation that has started comes to an end if its queries return (recv
\* has no timeout), if the server does not for ever answer with no bytes where
\* some are left, and if the document is not empty: for size 0, and for empty
\* answers, tg_get_file_with_progress asks again without end.
Ongoing(o)  == pc[o] \in Running \cup {"queued"}
Answered(o) ==
  /\ []<>(pc[o] # "wait")
  /\ <>[](pc[o] = "got" /\ offset[o] < Size[Doc[o]] => chunk[o] > 0)
DownloadEndsIfAnswered ==
  \A o \in Op : Size[Doc[o]] > 0 /\ Answered(o) => (Ongoing(o) ~> ~Ongoing(o))

\* Each download of a document whose size fits the int of the loop implements
\* a transfer: pieces in order, none twice, none left out, success only with
\* all of them, however many operations share the manager.
Status(o) ==
  CASE pc[o] \in InLoop -> "active"
    [] pc[o] \in {"open", "opened", "unseen"} /\ got[o] # <<>> -> "whole"
    [] pc[o] \in {"failed", "dead"} -> "failed"
    [] OTHER -> "idle"
FileOp == {o \in Op : IsFile(o)}
FitOp  == {o \in FileOp : Fits(Doc[o])}
Promise == INSTANCE Transfer WITH
  Op <- FitOp,
  Total <- [o \in FitOp |-> Size[Doc[o]]],
  status <- [o \in FitOp |-> Status(o)],
  delivered <- [o \in FitOp |-> got[o]]
ImplementsTransfer == Promise!TSpec

-----------------------------------------------------------------------------
(* What makes them inductive.                                              *)

\* How far the loop is: the offset counts what the callback got.
LoopAt(o) ==
  /\ Len(got[o]) = offset[o] /\ offset[o] + chunk[o] <= Size[Doc[o]]
  /\ pc[o] \in {"idle", "queued", "check", "cancelled"} => offset[o] = 0
  /\ pc[o] \in {"queued", "check", "open"} => IsFile(o)
  /\ pc[o] = "finish" /\ IsFile(o) /\ Fits(Doc[o]) =>
       offset[o] = Size[Doc[o]] /\ offset[o] > 0

\* The fields of the manager are those of one operation.
OneAtATime ==
  \A o1, o2 \in FileOp :
    /\ pc[o1] \in Running \cup {"queued"}
    /\ pc[o2] \in Running \cup {"queued"}
    => o1 = o2

\* The file has what the callback got, or less after a short write.
FilledAt(o) ==
  /\ pc[o] \in {"idle", "queued", "check", "cancelled"} => ~short[o]
  /\ pc[o] \in InLoop \cup {"check"} => path = Doc[o]
  /\ pc[o] \in InLoop =>
       /\ file = [doc |-> Doc[o], open |-> TRUE] /\ disk[Doc[o]] # None
       /\ short[o] => Len(disk[Doc[o]]) < offset[o]
       /\ ~short[o] => disk[Doc[o]] = Prefix(Doc[o], offset[o])
  /\ pc[o] = "open" =>
       /\ url[o] = Doc[o] /\ disk[Doc[o]] # None
       /\ ~short[o] /\ Fits(Doc[o]) => disk[Doc[o]] = Whole(Doc[o])
Loops == \A o \in Op : LoopAt(o)
Filled == \A o \in FileOp : FilledAt(o)
=============================================================================
