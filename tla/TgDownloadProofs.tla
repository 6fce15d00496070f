--------------------------- MODULE TgDownloadProofs ---------------------------
(***************************************************************************)
(* Theorems about downloads (module TgDownload), for every number of       *)
(* operations and documents, every size and every chunk.                   *)
(***************************************************************************)
EXTENDS TgDownload, TLAPS

\* Every operation is about a document of some size, perhaps zero.
LEMMA SizeType ==
  ASSUME NEW o \in Op
  PROVE  Doc[o] \in Docs /\ Size[Doc[o]] \in Nat
<1>1. Doc[o] \in Docs
  BY DEF Docs
<1> QED
  BY <1>1, DownloadAssumption

\* A number that fits an int is kept.
LEMMA FitsInt ==
  ASSUME NEW n \in Nat, n < Half
  PROVE  AsInt(n) = n
<1>1. Half \in Nat /\ 0 <= n /\ n < 2 * Half
  BY DownloadAssumption
<1>2. n % (2 * Half) = n
  BY <1>1
<1> QED
  BY <1>1, <1>2 DEF AsInt

\* A step is one of the actions: the case split every proof below uses.
LEMMA StepCases ==
  ASSUME Next
  PROVE  \/ cancelTransfer \/ Restart
         \/ \E o \in Op :
              \/ getDoc(o) \/ tg_get_photo_file(o) \/ downloadFileForMessage(o)
              \/ UseCached(o) \/ Recreate(o) \/ Receive(o) \/ GetFails(o)
              \/ get_document_cb(o) \/ photo_file_cb(o) \/ Finish(o)
              \/ openUrl(o)
BY DEF Next, Thread

(***************************************************************************)
(* The chunk loop.                                                         *)
(***************************************************************************)

LoopType ==
  /\ pc \in [Op -> Location]
  /\ offset \in [Op -> Nat] /\ chunk \in [Op -> Nat]
  /\ got \in [Op -> Seq(Nat)]

\* An answer is a number of pieces that are left.
LEMMA AnswerType ==
  ASSUME LoopType, NEW o \in Op, offset[o] <= Size[Doc[o]], NEW n \in Answers(o)
  PROVE  n \in Nat /\ n <= Size[Doc[o]] - offset[o]
<1>1. /\ Size[Doc[o]] \in Nat /\ offset[o] \in Nat /\ Limit \in Nat /\ Limit > 0
  BY SizeType, DownloadAssumption DEF LoopType
<1> QED
  BY <1>1 DEF Answers, Least

\* Appending the pieces of one answer to what was delivered.
LEMMA NumbersAppended ==
  ASSUME LoopType, NEW o \in Op
  PROVE  /\ Numbers(o) \in Seq(Nat) /\ Len(Numbers(o)) = chunk[o]
         /\ got[o] \o Numbers(o) \in Seq(Nat)
         /\ Len(got[o] \o Numbers(o)) = Len(got[o]) + chunk[o]
<1>1. offset[o] \in Nat /\ chunk[o] \in Nat /\ got[o] \in Seq(Nat)
  BY DEF LoopType
<1>2. Numbers(o) \in Seq(Nat) /\ Len(Numbers(o)) = chunk[o]
  BY <1>1 DEF Numbers
<1>3. \A s, r \in Seq(Nat) : s \o r \in Seq(Nat) /\ Len(s \o r) = Len(s) + Len(r)
  OBVIOUS
<1> HIDE DEF Numbers
<1> QED
  BY <1>1, <1>2, <1>3

\* Before the first query nothing is delivered.
LEMMA LoopInit ==
  ASSUME Init
  PROVE  LoopType /\ Loops
<1>1. LoopType
  BY DEF Init, LoopType, Location
<1>2. ASSUME NEW o \in Op PROVE LoopAt(o)
  <2>1. pc[o] = "idle" /\ offset[o] = 0 /\ chunk[o] = 0 /\ got[o] = <<>>
    BY DEF Init
  <2> QED
    BY <2>1, SizeType DEF LoopAt
<1> QED
  BY <1>1, <1>2 DEF Loops

\* Every step keeps the type of the loops.
LEMMA LoopTypeStep ==
  ASSUME LoopType, Loops, [Next]_vars
  PROVE  LoopType'
<1> USE DEF LoopType, Location, Goto
<1>1. CASE cancelTransfer
  BY <1>1 DEF cancelTransfer
<1>2. CASE Restart
  BY <1>2 DEF Restart, InLoop, Lost
<1>3. ASSUME NEW o \in Op, Receive(o) PROVE LoopType'
  <2>1. PICK n \in Answers(o) : chunk' = [chunk EXCEPT ![o] = n]
    BY <1>3 DEF Receive
  <2>2. offset[o] <= Size[Doc[o]]
    BY <1>3, SizeType DEF Loops, LoopAt
  <2>3. n \in Nat
    BY <1>3, <2>1, <2>2, AnswerType
  <2> QED
    BY <1>3, <2>1, <2>3 DEF Receive
<1>4. ASSUME NEW o \in Op, get_document_cb(o) \/ photo_file_cb(o) PROVE LoopType'
  <2>1. /\ got' = [got EXCEPT ![o] = got[o] \o Numbers(o)]
        /\ offset' = [offset EXCEPT ![o] = offset[o] + chunk[o]]
        /\ chunk' = [chunk EXCEPT ![o] = 0]
    <3>1. CASE get_document_cb(o)
      BY <3>1 DEF get_document_cb, Advance
    <3>2. CASE photo_file_cb(o)
      BY <3>2 DEF photo_file_cb, Advance
    <3> QED
      BY <1>4, <3>1, <3>2
  <2>2. got[o] \o Numbers(o) \in Seq(Nat)
    BY <1>4, NumbersAppended
  <2>3. got' \in [Op -> Seq(Nat)]
    BY <1>4, <2>1, <2>2
  <2>4. offset' \in [Op -> Nat] /\ chunk' \in [Op -> Nat]
    BY <1>4, <2>1
  <2>5. pc' \in [Op -> Location]
    BY <1>4 DEF get_document_cb, photo_file_cb
  <2> QED
    BY <2>3, <2>4, <2>5
<1>5. ASSUME NEW o \in Op, Finish(o) PROVE LoopType'
  BY <1>5 DEF Finish
<1>6. ASSUME NEW o \in Op,
             \/ getDoc(o) \/ tg_get_photo_file(o) \/ downloadFileForMessage(o)
             \/ UseCached(o) \/ Recreate(o) \/ openUrl(o)
      PROVE  LoopType'
  BY <1>6
  DEF getDoc, tg_get_photo_file, downloadFileForMessage, UseCached, Recreate,
      openUrl
<1>7. CASE UNCHANGED vars
  BY <1>7 DEF vars
<1>8. ASSUME NEW o \in Op, GetFails(o) PROVE LoopType'
  BY <1>8 DEF GetFails
<1> QED
  BY <1>1, <1>2, <1>3, <1>4, <1>5, <1>6, <1>7, <1>8, StepCases

\* Every step keeps what was delivered the prefix that offset counts.
LEMMA LoopStep ==
  ASSUME LoopType, Loops, [Next]_vars
  PROVE  Loops'
<1> SUFFICES ASSUME NEW u \in Op PROVE LoopAt(u)'
  BY DEF Loops
<1> USE DEF Goto
<1>0. /\ pc \in [Op -> Location] /\ offset \in [Op -> Nat] /\ chunk \in [Op -> Nat]
      /\ got \in [Op -> Seq(Nat)] /\ LoopAt(u)
      /\ Size[Doc[u]] \in Nat
  BY SizeType DEF LoopType, Loops
<1>1. CASE cancelTransfer
  BY <1>0, <1>1 DEF cancelTransfer, LoopAt, IsFile, Fits
<1>2. CASE Restart
  BY <1>0, <1>2 DEF Restart, LoopAt, InLoop, IsFile, Fits, Lost
<1>3. ASSUME NEW o \in Op, Receive(o) PROVE LoopAt(u)'
  <2>1. PICK n \in Answers(o) : chunk' = [chunk EXCEPT ![o] = n]
    BY <1>3 DEF Receive
  <2>2. CASE u # o
    BY <1>0, <1>3, <2>1, <2>2 DEF Receive, LoopAt, IsFile, Fits
  <2>3. CASE u = o
    <3>1. offset[u] <= Size[Doc[u]]
      BY <1>0 DEF LoopAt
    <3>2. n \in Nat /\ n <= Size[Doc[u]] - offset[u]
      BY <2>1, <2>3, <3>1, AnswerType
    <3>3. chunk'[u] = n /\ offset' = offset /\ got' = got /\ pc'[u] = "got"
      BY <1>0, <1>3, <2>1, <2>3 DEF Receive
    <3>4. offset[u] + n <= Size[Doc[u]]
      BY <1>0, <3>2
    <3> QED
      BY <1>0, <3>3, <3>4 DEF LoopAt
  <2> QED
    BY <2>2, <2>3
<1>4. ASSUME NEW o \in Op, get_document_cb(o) \/ photo_file_cb(o) PROVE LoopAt(u)'
  <2>1. CASE u # o
    BY <1>0, <1>4, <2>1 DEF get_document_cb, photo_file_cb, LoopAt, IsFile, Fits
  <2>2. CASE u = o
    <3>1. /\ got'[u] = got[u] \o Numbers(u)
          /\ offset'[u] = offset[u] + chunk[u] /\ chunk'[u] = 0
          /\ pc'[u] = IF Again(u) THEN "wait" ELSE "finish"
      BY <1>0, <1>4, <2>2 DEF get_document_cb, photo_file_cb, Advance
    <3>2. Len(got'[u]) = Len(got[u]) + chunk[u]
      BY <3>1, NumbersAppended
    <3>3. /\ Len(got[u]) = offset[u] /\ offset[u] + chunk[u] <= Size[Doc[u]]
          /\ offset[u] \in Nat /\ chunk[u] \in Nat
      BY <1>0 DEF LoopAt
    <3>4. ASSUME IsFile(u), Fits(Doc[u]), pc'[u] = "finish"
          PROVE  offset'[u] = Size[Doc[u]] /\ offset'[u] > 0
      <4>1. AsInt(Size[Doc[u]]) = Size[Doc[u]]
        BY <1>0, <3>4, FitsInt DEF Fits
      <4>2. AsInt(offset[u] + chunk[u]) = offset[u] + chunk[u]
        <5>1. offset[u] + chunk[u] \in Nat /\ offset[u] + chunk[u] < Half
          BY <1>0, <3>3, <3>4, DownloadAssumption DEF Fits
        <5> QED
          BY <5>1, FitsInt
      <4>3. ~Again(u)
        BY <3>1, <3>4
      <4> QED
        BY <1>0, <3>1, <3>3, <3>4, <4>1, <4>2, <4>3 DEF Again, Advance
    <3>5. pc'[u] \in {"wait", "finish"}
      BY <3>1
    <3> QED
      BY <1>0, <3>1, <3>2, <3>3, <3>4, <3>5 DEF LoopAt, IsFile, Fits
  <2> QED
    BY <2>1, <2>2
<1>5. ASSUME NEW o \in Op, Finish(o) PROVE LoopAt(u)'
  BY <1>0, <1>5 DEF Finish, LoopAt, IsFile, Fits
<1>6. ASSUME NEW o \in Op,
             \/ getDoc(o) \/ tg_get_photo_file(o) \/ downloadFileForMessage(o)
             \/ UseCached(o) \/ Recreate(o) \/ openUrl(o)
      PROVE  LoopAt(u)'
  BY <1>0, <1>6
  DEF getDoc, tg_get_photo_file, downloadFileForMessage, UseCached, Recreate,
      openUrl, LoopAt, IsFile, Fits
<1>8. ASSUME NEW o \in Op, GetFails(o) PROVE LoopAt(u)'
  <2>1. CASE u # o
    BY <1>0, <1>8, <2>1 DEF GetFails, LoopAt, IsFile, Fits
  <2>2. CASE u = o
    <3>1. /\ pc[u] = "wait" /\ pc'[u] = "failed" /\ offset'[u] = 0 /\ got'[u] = <<>>
          /\ chunk'[u] = chunk[u]
      BY <1>0, <1>8, <2>2 DEF GetFails
    <3>2. chunk[u] <= Size[Doc[u]]
      BY <1>0 DEF LoopAt
    <3> QED
      BY <1>0, <3>1, <3>2 DEF LoopAt
  <2> QED
    BY <2>1, <2>2
<1>7. CASE UNCHANGED vars
  BY <1>0, <1>7 DEF vars, LoopAt, Fits
<1> QED
  BY <1>1, <1>2, <1>3, <1>4, <1>5, <1>6, <1>7, <1>8, StepCases

\* The loop of tg_get_file_with_progress delivers a prefix of its document,
\* whatever other operations run.
THEOREM LoopsCorrect == Spec => [](LoopType /\ Loops)
<1>1. LoopType /\ Loops /\ [Next]_vars => (LoopType /\ Loops)'
  BY LoopTypeStep, LoopStep
<1> QED
  BY <1>1, LoopInit, PTL DEF Spec

(***************************************************************************)
(* The loop implements module Transfer, however many operations share the  *)
(* manager.                                                                *)
(***************************************************************************)

\* The state of the transfer, as a function of the location and the pieces.
StatusOf(l, g) ==
  CASE l \in InLoop -> "active"
    [] l \in {"open", "opened", "unseen"} /\ g # <<>> -> "whole"
    [] l \in {"failed", "dead"} -> "failed"
    [] OTHER -> "idle"

\* The step refined.
View    == [o \in FitOp |-> Status(o)]
Refined == [Promise!TNext]_<<View, [o \in FitOp |-> got[o]]>>

\* The status of every transfer, as a function of place and pieces.
LEMMA ViewType ==
  /\ View = [o \in FitOp |-> StatusOf(pc[o], got[o])]
  /\ View' = [o \in FitOp |-> StatusOf(pc'[o], got'[o])]
BY DEF View, Status, StatusOf

\* A step that leaves every status and every delivery alone is a stutter.
LEMMA Stutter ==
  ASSUME \A u \in FitOp : StatusOf(pc'[u], got'[u]) = StatusOf(pc[u], got[u]),
         got' = got
  PROVE  Refined
BY ViewType DEF Refined

\* Failing together is a step of Transfer.
LEMMA FailIsStep ==
  ASSUME NEW S \in SUBSET FitOp, Promise!Fail(S)
  PROVE  Promise!TNext
BY Zenon DEF Promise!TNext

\* Every step is one of Transfer or leaves its state alone.
LEMMA RefineStep ==
  ASSUME LoopType, Loops, [Next]_vars
  PROVE  Refined
<1> USE DEF Goto
<1>0. /\ pc \in [Op -> Location]
      /\ got \in [Op -> Seq(Nat)] /\ FitOp \subseteq Op
      /\ \A o \in FitOp : IsFile(o) /\ Fits(Doc[o])
  BY DEF LoopType, FitOp, FileOp
<1>e. \A u \in Op : pc[u] \in {"idle", "queued", "check", "cancelled"} => got[u] = <<>>
  <2>1. ASSUME NEW u \in Op, offset[u] = 0 PROVE got[u] = <<>>
    BY <1>0, <2>1 DEF Loops, LoopAt
  <2> QED
    BY <2>1 DEF Loops, LoopAt
<1>1. CASE cancelTransfer
  <2>1. got' = got
    BY <1>1 DEF cancelTransfer
  <2>2. \A u \in FitOp : StatusOf(pc'[u], got'[u]) = StatusOf(pc[u], got[u])
    BY <1>0, <1>1 DEF cancelTransfer, StatusOf, InLoop
  <2> QED
    BY <2>1, <2>2, Stutter
<1>2. CASE Restart
  <2> DEFINE S == {u \in FitOp : pc[u] \in InLoop \cup {"queued", "check"}}
  <2>1. \A u \in FitOp : got'[u] = IF u \in S THEN <<>> ELSE got[u]
    BY <1>0, <1>2 DEF Restart, Lost
  <2>2. \A u \in S : View[u] \in {"idle", "active"}
    BY ViewType DEF StatusOf, InLoop
  <2>3. ASSUME NEW u \in FitOp
        PROVE  View'[u] = IF u \in S THEN "failed" ELSE View[u]
    <3>1. pc'[u] = CASE pc[u] = "open" -> "unseen"
                     [] pc[u] \in InLoop \cup {"queued", "check"} -> "dead"
                     [] OTHER -> pc[u]
      BY <1>0, <1>2, <2>3 DEF Restart, Lost
    <3>2. View[u] = StatusOf(pc[u], got[u]) /\ View'[u] = StatusOf(pc'[u], got'[u])
      BY ViewType, <2>3
    <3> QED
      BY <2>1, <2>3, <3>1, <3>2 DEF StatusOf, InLoop
  <2>4. View' = [u \in FitOp |-> IF u \in S THEN "failed" ELSE View[u]]
    BY <2>3, ViewType
  <2>5. [u \in FitOp |-> got'[u]] =
          [u \in FitOp |-> IF u \in S THEN <<>> ELSE [v \in FitOp |-> got[v]][u]]
    BY <2>1
  <2>6. PICK T \in SUBSET FitOp : T = S
    OBVIOUS
  <2>7. Promise!Fail(T)
    BY <2>2, <2>4, <2>5, <2>6 DEF Promise!Fail, View
  <2>8. Promise!TNext
    BY <2>7, FailIsStep
  <2> QED
    BY <2>8 DEF Refined
<1>3. ASSUME NEW o \in FitOp, Recreate(o) PROVE Refined
  <2>1. got' = got /\ pc[o] = "check" /\ pc' = [pc EXCEPT ![o] = "wait"]
    BY <1>3 DEF Recreate
  <2>2. View[o] = "idle"
    BY <1>3, <2>1, ViewType DEF StatusOf, InLoop
  <2>3. View' = [View EXCEPT ![o] = "active"]
    BY <1>0, <1>3, <2>1, ViewType DEF StatusOf, InLoop
  <2>4. Promise!Begin(o)
    BY <2>1, <2>2, <2>3 DEF Promise!Begin, View
  <2> QED
    BY <1>3, <2>4 DEF Refined, Promise!TNext
<1>4. ASSUME NEW o \in FitOp, GetFails(o) PROVE Refined
  <2>1. /\ got' = [got EXCEPT ![o] = <<>>]
        /\ pc[o] = "wait" /\ pc' = [pc EXCEPT ![o] = "failed"]
    BY <1>4 DEF GetFails
  <2>2. View[o] = "active"
    BY <1>4, <2>1, ViewType DEF StatusOf, InLoop
  <2>3. View' = [u \in FitOp |-> IF u \in {o} THEN "failed" ELSE View[u]]
    BY <1>0, <1>4, <2>1, ViewType DEF StatusOf, InLoop
  <2>4. [u \in FitOp |-> got'[u]] =
          [u \in FitOp |-> IF u \in {o} THEN <<>> ELSE [v \in FitOp |-> got[v]][u]]
    BY <1>0, <1>4, <2>1
  <2>5. Promise!Fail({o})
    BY <1>4, <2>2, <2>3, <2>4 DEF Promise!Fail, View
  <2> QED
    BY <1>4, <2>5 DEF Refined, Promise!TNext
<1>5. ASSUME NEW o \in FitOp, Finish(o) PROVE Refined
  <2>1. got' = got /\ pc[o] = "finish" /\ pc' = [pc EXCEPT ![o] = "open"]
    BY <1>0, <1>5 DEF Finish
  <2>2. View[o] = "active"
    BY <1>5, <2>1, ViewType DEF StatusOf, InLoop
  <2>3. Len(got[o]) = Size[Doc[o]] /\ Size[Doc[o]] > 0
    BY <1>0, <1>5, <2>1 DEF Loops, LoopAt
  <2>4. got[o] # <<>>
    BY <2>3
  <2>5. View' = [View EXCEPT ![o] = "whole"]
    BY <1>0, <1>5, <2>1, <2>4, ViewType DEF StatusOf, InLoop
  <2>6. Promise!Succeed(o)
    BY <1>5, <2>1, <2>2, <2>3, <2>5 DEF Promise!Succeed, View
  <2> QED
    BY <1>5, <2>6 DEF Refined, Promise!TNext
<1>6. ASSUME NEW o \in FitOp, get_document_cb(o) PROVE Refined
  <2>1. /\ pc[o] = "got" /\ got' = [got EXCEPT ![o] = got[o] \o Numbers(o)]
        /\ pc' = [pc EXCEPT ![o] = IF Again(o) THEN "wait" ELSE "finish"]
    BY <1>6 DEF get_document_cb
  <2>2. View[o] = "active"
    BY <1>6, <2>1, ViewType DEF StatusOf, InLoop
  <2>3. View' = View
    BY <1>0, <1>6, <2>1, ViewType DEF StatusOf, InLoop
  <2>4. /\ Len(got[o]) = offset[o] /\ offset[o] + chunk[o] <= Size[Doc[o]]
        /\ chunk[o] \in Nat /\ offset[o] \in Nat /\ Size[Doc[o]] \in Nat
    BY <1>0, <1>6, SizeType DEF Loops, LoopAt, LoopType
  <2>5. chunk[o] \in 0 .. Size[Doc[o]] /\ Len(got[o]) + chunk[o] <= Size[Doc[o]]
    BY <2>4
  <2>6. Numbers(o) = [i \in 1 .. chunk[o] |-> Len(got[o]) + i]
    BY <2>4 DEF Numbers
  <2>7. [u \in FitOp |-> got'[u]] =
          [[u \in FitOp |-> got[u]] EXCEPT ![o] =
             got[o] \o [i \in 1 .. chunk[o] |-> Len(got[o]) + i]]
    BY <1>0, <1>6, <2>1, <2>6
  <2>8. Promise!Deliver(o)
    BY <1>6, <2>2, <2>3, <2>5, <2>7 DEF Promise!Deliver, View
  <2> QED
    BY <1>6, <2>8 DEF Refined, Promise!TNext
<1>7. ASSUME NEW o \in Op, \/ getDoc(o) \/ tg_get_photo_file(o)
                           \/ downloadFileForMessage(o) \/ Receive(o)
                           \/ UseCached(o) \/ openUrl(o)
      PROVE  Refined
  <2>1. got' = got
    BY <1>7 DEF getDoc, tg_get_photo_file, downloadFileForMessage, Receive,
                UseCached, openUrl
  <2>2. ASSUME NEW u \in FitOp
        PROVE  StatusOf(pc'[u], got'[u]) = StatusOf(pc[u], got[u])
    BY <1>0, <1>e, <1>7, <2>1, <2>2
    DEF getDoc, tg_get_photo_file, downloadFileForMessage, Receive, UseCached,
        openUrl, StatusOf, InLoop
  <2> QED
    BY <2>1, <2>2, Stutter
<1>8. ASSUME NEW o \in Op, o \notin FitOp,
             \/ GetFails(o) \/ Finish(o) \/ photo_file_cb(o) \/ Recreate(o)
             \/ get_document_cb(o)
      PROVE  Refined
  <2>1. \A u \in FitOp : pc'[u] = pc[u] /\ got'[u] = got[u]
    BY <1>0, <1>8 DEF GetFails, Finish, photo_file_cb, Recreate, get_document_cb
  <2> QED
    BY <2>1, ViewType DEF Refined
<1>9. CASE UNCHANGED vars
  BY <1>9, Stutter DEF vars
<1>10. ASSUME NEW o \in Op, photo_file_cb(o)
       PROVE  o \notin FitOp
  BY <1>0, <1>10 DEF photo_file_cb
<1> QED
  BY <1>1, <1>2, <1>3, <1>4, <1>5, <1>6, <1>7, <1>8, <1>9, <1>10, StepCases

\* Each download of a document whose size fits an int implements a transfer,
\* however many operations share the manager, whatever fails and whenever the
\* application ends.
THEOREM RefinesTransfer == Spec => ImplementsTransfer
<1>1. Init => Promise!TInit
  BY DEF Init, Promise!TInit, Status, InLoop, FitOp, FileOp
<1>2. LoopType /\ Loops /\ [Next]_vars
        => [Promise!TNext]_<<[o \in FitOp |-> Status(o)], [o \in FitOp |-> got[o]]>>
  BY RefineStep DEF Refined, View
<1> QED
  BY <1>1, <1>2, LoopsCorrect, PTL
  DEF Spec, ImplementsTransfer, Promise!TSpec, Promise!tvars

(***************************************************************************)
(* One transfer at a time: the cached file and what is opened.             *)
(***************************************************************************)

DiskType ==
  /\ url \in [Op -> Docs \cup {None}] /\ path \in Docs \cup {None}
  /\ short \in [Op -> BOOLEAN]
  /\ file \in [doc : Docs \cup {None}, open : BOOLEAN]
  /\ stop \in BOOLEAN
  /\ disk \in [Docs -> Seq(Piece) \cup {None}]

\* n pieces of document d after the first m.
Slice(d, m, n) == [i \in 1 .. n |-> [doc |-> d, at |-> m + i]]

\* A slice of a document is a sequence of its pieces.
LEMMA SliceType ==
  ASSUME NEW d \in Docs, NEW m \in Nat, NEW n \in Nat
  PROVE  Slice(d, m, n) \in Seq(Piece) /\ Len(Slice(d, m, n)) = n
BY DEF Slice, Piece

\* A prefix of a document is a sequence of its pieces.
LEMMA PrefixType ==
  ASSUME NEW d \in Docs, NEW n \in Nat
  PROVE  Prefix(d, n) \in Seq(Piece) /\ Len(Prefix(d, n)) = n
BY DEF Prefix, Piece

\* A prefix and the slice after it make the longer prefix.
LEMMA PrefixGrows ==
  ASSUME NEW d \in Docs, NEW m \in Nat, NEW n \in Nat
  PROVE  Prefix(d, m) \o Slice(d, m, n) = Prefix(d, m + n)
<1>1. /\ Prefix(d, m) \in Seq(Piece) /\ Len(Prefix(d, m)) = m
      /\ Slice(d, m, n) \in Seq(Piece) /\ Len(Slice(d, m, n)) = n
      /\ Prefix(d, m + n) \in Seq(Piece) /\ Len(Prefix(d, m + n)) = m + n
  BY PrefixType, SliceType
<1>2. \A s, r \in Seq(Piece) :
        /\ s \o r \in Seq(Piece) /\ Len(s \o r) = Len(s) + Len(r)
        /\ \A i \in 1 .. Len(s) + Len(r) :
             (s \o r)[i] = IF i <= Len(s) THEN s[i] ELSE r[i - Len(s)]
  OBVIOUS
<1>3. ASSUME NEW i \in 1 .. m + n
      PROVE  (Prefix(d, m) \o Slice(d, m, n))[i] = Prefix(d, m + n)[i]
  <2>1. CASE i <= m
    BY <1>1, <1>2, <1>3, <2>1 DEF Prefix
  <2>2. CASE ~(i <= m)
    <3>1. i - m \in 1 .. n /\ m + (i - m) = i
      BY <1>3, <2>2
    <3>2. (Prefix(d, m) \o Slice(d, m, n))[i] = Slice(d, m, n)[i - m]
      BY <1>1, <1>2, <1>3, <2>2
    <3> QED
      BY <1>3, <3>1, <3>2 DEF Prefix, Slice
  <2> QED
    BY <2>1, <2>2
<1>4. \A s, r \in Seq(Piece) :
        Len(s) = Len(r) /\ (\A i \in 1 .. Len(s) : s[i] = r[i]) => s = r
  OBVIOUS
<1>5. /\ Prefix(d, m) \o Slice(d, m, n) \in Seq(Piece)
      /\ Len(Prefix(d, m) \o Slice(d, m, n)) = m + n
  BY <1>1, <1>2
<1> QED
  BY <1>1, <1>3, <1>4, <1>5

Single == LoopType /\ Loops /\ DiskType /\ OneAtATime /\ Filled /\ CacheIntact

\* An empty cache with no operation satisfies the invariant.
LEMMA SingleInit ==
  ASSUME Init
  PROVE  Single
<1>1. DiskType
  BY DEF Init, DiskType, NoFile
<1>2. OneAtATime /\ Filled
  BY DEF Init, OneAtATime, Filled, FilledAt, FileOp, Running, InLoop
<1>3. CacheIntact
  BY DEF Init, CacheIntact
<1> QED
  BY <1>1, <1>2, <1>3, LoopInit DEF Single

\* No other transfer of a document is under way.
LEMMA OthersRest ==
  ASSUME OneAtATime, NEW o \in FileOp, NEW u \in FileOp, u # o,
         pc[o] \in Running \cup {"queued"}
  PROVE  pc[u] \notin Running \cup {"queued"}
BY DEF OneAtATime

\* Without overlapping taps at most one operation uses the manager.
LEMMA OneStep ==
  ASSUME LoopType, OneAtATime, ~Overlap, [Next]_vars
  PROVE  OneAtATime'
<1> SUFFICES ASSUME NEW u \in FileOp, NEW v \in FileOp, u # v,
                    pc'[u] \in Running \cup {"queued"},
                    pc'[v] \in Running \cup {"queued"}
             PROVE  FALSE
  BY DEF OneAtATime, FileOp
<1> USE DEF Goto
<1>0. pc \in [Op -> Location] /\ u \in Op /\ v \in Op /\ IsFile(u) /\ IsFile(v)
  BY DEF LoopType, FileOp
<1>1. ~(pc[u] \in Running \cup {"queued"} /\ pc[v] \in Running \cup {"queued"})
  BY DEF OneAtATime
<1>2. ASSUME NEW o \in Op, getDoc(o) PROVE FALSE
  BY <1>0, <1>1, <1>2 DEF getDoc, Idle
<1>3. CASE cancelTransfer
  BY <1>0, <1>1, <1>3 DEF cancelTransfer, Running, InLoop
<1>4. CASE Restart
  BY <1>0, <1>1, <1>4 DEF Restart, Running, InLoop
<1>5. ASSUME NEW o \in Op,
             \/ downloadFileForMessage(o) \/ UseCached(o) \/ Recreate(o)
             \/ Receive(o) \/ GetFails(o) \/ openUrl(o)
      PROVE  FALSE
  BY <1>0, <1>1, <1>5
  DEF downloadFileForMessage, UseCached, Recreate, Receive, GetFails, openUrl,
      Running, InLoop
<1>6. ASSUME NEW o \in Op, tg_get_photo_file(o) PROVE FALSE
  BY <1>0, <1>1, <1>6 DEF tg_get_photo_file
<1>7. ASSUME NEW o \in Op, get_document_cb(o) PROVE FALSE
  BY <1>0, <1>1, <1>7 DEF get_document_cb, Running, InLoop
<1>8. ASSUME NEW o \in Op, photo_file_cb(o) PROVE FALSE
  BY <1>0, <1>1, <1>8 DEF photo_file_cb, Running, InLoop
<1>9. ASSUME NEW o \in Op, Finish(o) PROVE FALSE
  BY <1>0, <1>1, <1>9 DEF Finish, Running, InLoop
<1>10. CASE UNCHANGED vars
  BY <1>1, <1>10 DEF vars
<1> QED
  BY <1>2, <1>3, <1>4, <1>5, <1>6, <1>7, <1>8, <1>9, <1>10, StepCases

\* What the callback writes: the next pieces of the document, perhaps fewer.
LEMMA Written ==
  ASSUME Single, NEW o \in Op, get_document_cb(o)
  PROVE  /\ o \in FileOp
         /\ \E n \in 0 .. chunk[o] :
              /\ disk' = [disk EXCEPT ![Doc[o]] = disk[Doc[o]] \o Slice(Doc[o], offset[o], n)]
              /\ short' = [short EXCEPT ![o] = short[o] \/ n < chunk[o]]
         /\ disk[Doc[o]] \in Seq(Piece) /\ Doc[o] \in Docs
         /\ short[o] => Len(disk[Doc[o]]) < offset[o]
         /\ ~short[o] => disk[Doc[o]] = Prefix(Doc[o], offset[o])
<1>1. o \in FileOp /\ pc[o] = "got" /\ chunk[o] \in Nat
  BY DEF get_document_cb, FileOp, Single, LoopType
<1>2. /\ file = [doc |-> Doc[o], open |-> TRUE] /\ disk[Doc[o]] # None
      /\ short[o] => Len(disk[Doc[o]]) < offset[o]
      /\ ~short[o] => disk[Doc[o]] = Prefix(Doc[o], offset[o])
  BY <1>1 DEF Single, Filled, FilledAt, InLoop
<1>3. disk[Doc[o]] \in Seq(Piece) /\ Doc[o] \in Docs
  BY <1>2, SizeType DEF Single, DiskType
<1>4. PICK n \in IF DiskFull THEN 0 .. chunk[o] ELSE {chunk[o]} :
       /\ disk' = IF ~file.open THEN disk ELSE [disk EXCEPT ![file.doc] =
                    @ \o [i \in 1 .. n |-> [doc |-> Doc[o],
                                            at |-> offset[o] + i]]]
       /\ short' = [short EXCEPT ![o] = @ \/ n < chunk[o]]
  BY DEF get_document_cb
<1>5. n \in 0 .. chunk[o]
  BY <1>1, <1>4
<1>6. disk' = [disk EXCEPT ![Doc[o]] = disk[Doc[o]] \o Slice(Doc[o], offset[o], n)]
  BY <1>2, <1>4 DEF Slice
<1> QED
  BY <1>1, <1>2, <1>3, <1>4, <1>5, <1>6

\* Every step keeps the type of the cache.
LEMMA DiskTypeStep ==
  ASSUME Single, [Next]_vars
  PROVE  DiskType'
<1>0. DiskType /\ LoopType
  BY DEF Single
<1> USE <1>0 DEF DiskType
<1>1. CASE cancelTransfer
  BY <1>1 DEF cancelTransfer
<1>2. CASE Restart
  BY <1>2 DEF Restart, NoFile
<1>3. ASSUME NEW o \in Op, get_document_cb(o) PROVE DiskType'
  <2>1. PICK n \in 0 .. chunk[o] :
          /\ disk' = [disk EXCEPT ![Doc[o]] = disk[Doc[o]] \o Slice(Doc[o], offset[o], n)]
          /\ short' = [short EXCEPT ![o] = short[o] \/ n < chunk[o]]
    BY <1>3, Written
  <2>2. disk[Doc[o]] \in Seq(Piece) /\ Doc[o] \in Docs
    BY <1>3, Written
  <2>3. Slice(Doc[o], offset[o], n) \in Seq(Piece)
    <3>1. offset[o] \in Nat /\ chunk[o] \in Nat
      BY <1>3 DEF LoopType
    <3>2. n \in Nat
      BY <2>1, <3>1
    <3> QED
      BY <2>2, <3>1, <3>2, SliceType
  <2>4. disk[Doc[o]] \o Slice(Doc[o], offset[o], n) \in Seq(Piece)
    BY <2>2, <2>3
  <2>5. disk' \in [Docs -> Seq(Piece) \cup {None}]
    BY <2>1, <2>2, <2>4
  <2>6. short' \in [Op -> BOOLEAN]
    BY <1>3, <2>1
  <2> QED
    BY <1>3, <2>5, <2>6 DEF get_document_cb
<1>4. ASSUME NEW o \in Op, Recreate(o) PROVE DiskType'
  <2>1. path \in Docs
    BY <1>4, SizeType DEF Recreate, Single, Filled, FilledAt, FileOp, Loops, LoopAt
  <2>2. disk' = [disk EXCEPT ![path] = <<>>] /\ file' = [doc |-> path, open |-> TRUE]
    BY <1>4 DEF Recreate, Recreated
  <2>3. disk' \in [Docs -> Seq(Piece) \cup {None}]
    BY <2>1, <2>2
  <2> QED
    BY <1>4, <2>1, <2>2, <2>3 DEF Recreate
<1>5. ASSUME NEW o \in Op, Finish(o) PROVE DiskType'
  BY <1>5 DEF Finish
<1>6. ASSUME NEW o \in Op, downloadFileForMessage(o) PROVE DiskType'
  BY <1>6, SizeType DEF downloadFileForMessage
<1>7. ASSUME NEW o \in Op, UseCached(o) PROVE DiskType'
  BY <1>7 DEF UseCached
<1>8. ASSUME NEW o \in Op,
             \/ getDoc(o) \/ tg_get_photo_file(o) \/ Receive(o) \/ GetFails(o)
             \/ photo_file_cb(o) \/ openUrl(o)
      PROVE  DiskType'
  BY <1>8 DEF getDoc, tg_get_photo_file, Receive, GetFails, photo_file_cb, openUrl
<1>9. CASE UNCHANGED vars
  BY <1>9 DEF vars
<1> QED
  BY <1>1, <1>2, <1>3, <1>4, <1>5, <1>6, <1>7, <1>8, <1>9, StepCases

\* The transfer under way keeps its file; the others have left theirs.
LEMMA FilledStep ==
  ASSUME Single, [Next]_vars
  PROVE  Filled'
<1> SUFFICES ASSUME NEW u \in FileOp PROVE FilledAt(u)'
  BY DEF Filled, FileOp, IsFile
<1> USE DEF Goto
<1>0. /\ pc \in [Op -> Location] /\ short \in [Op -> BOOLEAN]
      /\ url \in [Op -> Docs \cup {None}]
      /\ disk \in [Docs -> Seq(Piece) \cup {None}]
      /\ u \in Op /\ IsFile(u) /\ FilledAt(u) /\ LoopAt(u) /\ Doc[u] \in Docs
  BY SizeType DEF Single, LoopType, DiskType, FileOp, Filled, Loops
<1>one. ASSUME NEW o \in FileOp, o # u, pc[o] \in Running \cup {"queued"}
        PROVE  pc[u] \notin Running \cup {"queued"}
  BY <1>one DEF Single, OneAtATime
\* At rest, only the flag of the short write counts.
<1>rest. ASSUME pc[u] \notin Running \cup {"queued"}, pc'[u] = pc[u],
                short'[u] = short[u]
         PROVE  FilledAt(u)'
  BY <1>0, <1>rest DEF FilledAt, Running, InLoop
<1>1. CASE cancelTransfer
  BY <1>0, <1>1 DEF cancelTransfer, FilledAt, InLoop
<1>2. CASE Restart
  BY <1>0, <1>2 DEF Restart, FilledAt, InLoop, Lost
<1>3. ASSUME NEW o \in Op, get_document_cb(o) PROVE FilledAt(u)'
  <2>0. o \in FileOp /\ pc[o] = "got"
    BY <1>3 DEF get_document_cb, FileOp
  <2>1. CASE u # o
    <3>1. pc[u] \notin Running \cup {"queued"}
      BY <1>one, <2>0, <2>1 DEF Running, InLoop
    <3>2. pc'[u] = pc[u] /\ short'[u] = short[u]
      BY <1>0, <1>3, <2>1 DEF get_document_cb
    <3> QED
      BY <1>rest, <3>1, <3>2
  <2>2. CASE u = o
    <3>1. PICK n \in 0 .. chunk[u] :
            /\ disk' = [disk EXCEPT ![Doc[u]] = disk[Doc[u]] \o Slice(Doc[u], offset[u], n)]
            /\ short' = [short EXCEPT ![u] = short[u] \/ n < chunk[u]]
      BY <1>3, <2>2, Written
    <3>2. /\ disk[Doc[u]] \in Seq(Piece)
          /\ short[u] => Len(disk[Doc[u]]) < offset[u]
          /\ ~short[u] => disk[Doc[u]] = Prefix(Doc[u], offset[u])
      BY <1>3, <2>2, Written
    <3>3. offset[u] \in Nat /\ chunk[u] \in Nat /\ n \in Nat /\ n <= chunk[u]
      <4>1. offset[u] \in Nat /\ chunk[u] \in Nat
        BY <1>0 DEF Single, LoopType
      <4> QED
        BY <3>1, <4>1
    <3>4. /\ Slice(Doc[u], offset[u], n) \in Seq(Piece)
          /\ Len(Slice(Doc[u], offset[u], n)) = n
      BY <1>0, <3>3, SliceType
    <3>5. disk'[Doc[u]] = disk[Doc[u]] \o Slice(Doc[u], offset[u], n)
      BY <1>0, <3>1
    <3>6. disk'[Doc[u]] \in Seq(Piece) /\ Len(disk'[Doc[u]]) = Len(disk[Doc[u]]) + n
      <4>1. \A s, r \in Seq(Piece) : s \o r \in Seq(Piece) /\ Len(s \o r) = Len(s) + Len(r)
        OBVIOUS
      <4>2. disk[Doc[u]] \in Seq(Piece)
        BY <3>2
      <4> QED
        BY <3>4, <3>5, <4>1, <4>2, Zenon
    <3>7. offset'[u] = offset[u] + chunk[u]
      BY <1>3, <2>2 DEF get_document_cb, Advance, Single, LoopType
    <3>8. short'[u] = (short[u] \/ n < chunk[u])
      BY <1>0, <3>1
    <3>9. short'[u] => Len(disk'[Doc[u]]) < offset'[u]
      <4>1. CASE short[u]
        <5>1. Len(disk[Doc[u]]) < offset[u] /\ Len(disk[Doc[u]]) \in Nat
          BY <3>2, <4>1
        <5> QED
          BY <3>3, <3>6, <3>7, <5>1
      <4>2. CASE ~short[u] /\ n < chunk[u]
        <5>1. Len(disk[Doc[u]]) = offset[u]
          BY <1>0, <3>2, <3>3, <4>2, PrefixType
        <5> QED
          BY <3>3, <3>6, <3>7, <4>2, <5>1
      <4> QED
        BY <3>8, <4>1, <4>2
    <3>10. ~short'[u] => disk'[Doc[u]] = Prefix(Doc[u], offset'[u])
      <4> SUFFICES ASSUME ~short'[u] PROVE disk'[Doc[u]] = Prefix(Doc[u], offset'[u])
        OBVIOUS
      <4>0. ~short[u] /\ ~(n < chunk[u])
        BY <3>8, Zenon
      <4>1. ~short[u] /\ n = chunk[u]
        BY <3>3, <4>0
      <4>2. Prefix(Doc[u], offset[u]) \o Slice(Doc[u], offset[u], n) = Prefix(Doc[u], offset[u] + n)
        BY <1>0, <3>3, PrefixGrows
      <4> QED
        BY <3>2, <3>5, <3>7, <4>1, <4>2
    <3>11. disk'[Doc[u]] # None
      BY <3>6, DownloadAssumption
    <3>12. /\ path' = Doc[u] /\ file' = [doc |-> Doc[u], open |-> TRUE]
           /\ pc'[u] \in {"wait", "finish"}
      BY <1>0, <1>3, <2>0, <2>2 DEF get_document_cb, FilledAt, InLoop
    <3> QED
      BY <3>9, <3>10, <3>11, <3>12 DEF FilledAt, InLoop
  <2> QED
    BY <2>1, <2>2
<1>4. ASSUME NEW o \in Op, Recreate(o) PROVE FilledAt(u)'
  <2>0. o \in FileOp /\ pc[o] = "check" /\ path = Doc[o]
    BY <1>4 DEF Recreate, FileOp, Single, Loops, LoopAt, Filled, FilledAt
  <2>1. CASE u # o
    <3>1. pc[u] \notin Running \cup {"queued"}
      BY <1>one, <2>0, <2>1 DEF Running, InLoop
    <3>2. pc'[u] = pc[u] /\ short'[u] = short[u]
      BY <1>0, <1>4, <2>1 DEF Recreate
    <3> QED
      BY <1>rest, <3>1, <3>2
  <2>2. CASE u = o
    <3>1. /\ offset'[u] = 0 /\ short'[u] = FALSE /\ pc'[u] = "wait" /\ path' = Doc[u]
          /\ file' = [doc |-> Doc[u], open |-> TRUE]
          /\ disk'[Doc[u]] = <<>>
      BY <1>0, <1>4, <2>0, <2>2 DEF Recreate, Recreated, LoopAt, FilledAt
    <3>2. <<>> = Prefix(Doc[u], 0) /\ <<>> \in Seq(Piece)
      BY DEF Prefix
    <3> QED
      BY <3>1, <3>2, DownloadAssumption DEF FilledAt, InLoop
  <2> QED
    BY <2>1, <2>2
<1>5. ASSUME NEW o \in Op, Finish(o) PROVE FilledAt(u)'
  <2>1. CASE o \notin FileOp
    BY <1>0, <1>5, <2>1 DEF Finish, FilledAt, FileOp
  <2>2. CASE o \in FileOp /\ u # o
    <3>1. pc[u] \notin Running \cup {"queued"}
      BY <1>one, <1>5, <2>2 DEF Finish, Running, InLoop
    <3>2. pc'[u] = pc[u] /\ short'[u] = short[u]
      BY <1>0, <1>5, <2>2 DEF Finish
    <3> QED
      BY <1>rest, <3>1, <3>2
  <2>3. CASE u = o
    <3>1. /\ pc[u] = "finish" /\ pc'[u] = "open" /\ url'[u] = path /\ disk' = disk
          /\ short' = short
      BY <1>0, <1>5, <2>3 DEF Finish
    <3>2. /\ path = Doc[u] /\ disk[Doc[u]] # None
          /\ ~short[u] => disk[Doc[u]] = Prefix(Doc[u], offset[u])
          /\ Fits(Doc[u]) => offset[u] = Size[Doc[u]]
      BY <1>0, <3>1 DEF FilledAt, LoopAt, InLoop
    <3> QED
      BY <3>1, <3>2 DEF FilledAt, InLoop, Whole
  <2> QED
    BY <2>1, <2>2, <2>3
<1>6. ASSUME NEW o \in Op, downloadFileForMessage(o) PROVE FilledAt(u)'
  <2>0. o \in FileOp /\ pc[o] = "queued"
    BY <1>6 DEF downloadFileForMessage, FileOp, Single, Loops, LoopAt
  <2>1. CASE u # o
    <3>1. pc[u] \notin Running \cup {"queued"}
      BY <1>one, <2>0, <2>1
    <3>2. pc'[u] = pc[u] /\ short'[u] = short[u]
      BY <1>0, <1>6, <2>1 DEF downloadFileForMessage
    <3> QED
      BY <1>rest, <3>1, <3>2
  <2>2. CASE u = o
    BY <1>0, <1>6, <2>0, <2>2 DEF downloadFileForMessage, FilledAt, InLoop
  <2> QED
    BY <2>1, <2>2
<1>7. ASSUME NEW o \in Op, UseCached(o) PROVE FilledAt(u)'
  <2>1. CASE u # o
    BY <1>0, <1>7, <2>1 DEF UseCached, FilledAt
  <2>2. CASE u = o
    <3>1. /\ pc[u] = "check" /\ path = Doc[u] /\ disk[Doc[u]] # None
          /\ Len(disk[Doc[u]]) = Size[Doc[u]]
      BY <1>0, <1>7, <2>2 DEF UseCached, FileIsComplete, FilledAt
    <3>2. disk[Doc[u]] = Whole(Doc[u])
      BY <1>0, <3>1 DEF Single, CacheIntact, IsFile
    <3>3. pc'[u] = "open" /\ url'[u] = path /\ disk' = disk
      BY <1>0, <1>7, <2>2 DEF UseCached
    <3> QED
      BY <3>1, <3>2, <3>3 DEF FilledAt, InLoop
  <2> QED
    BY <2>1, <2>2
<1>8. ASSUME NEW o \in Op,
             \/ getDoc(o) \/ Receive(o) \/ openUrl(o)
      PROVE  FilledAt(u)'
  BY <1>0, <1>8 DEF getDoc, Receive, openUrl, FilledAt, InLoop, Fits
<1>11. ASSUME NEW o \in Op, GetFails(o) PROVE FilledAt(u)'
  <2>1. CASE u = o
    BY <1>0, <1>11, <2>1 DEF GetFails, FilledAt, InLoop
  <2>2. CASE u # o
    <3>1. /\ offset'[u] = offset[u] /\ pc'[u] = pc[u] /\ short'[u] = short[u]
          /\ UNCHANGED <<url, path, file, disk>>
      BY <1>0, <1>11, <2>2 DEF GetFails, Single, LoopType
    <3> QED
      BY <1>0, <3>1 DEF FilledAt, Fits
  <2> QED
    BY <2>1, <2>2
<1>9. ASSUME NEW o \in Op, tg_get_photo_file(o) \/ photo_file_cb(o)
      PROVE  FilledAt(u)'
  <2>1. o # u
    BY <1>0, <1>9 DEF tg_get_photo_file, photo_file_cb
  <2>2. CASE tg_get_photo_file(o)
    BY <1>0, <2>1, <2>2 DEF tg_get_photo_file, FilledAt
  <2>3. CASE photo_file_cb(o)
    <3>1. /\ offset'[u] = offset[u] /\ pc'[u] = pc[u]
          /\ UNCHANGED <<url, short, path, file, disk>>
      BY <1>0, <2>1, <2>3 DEF photo_file_cb, Single, LoopType
    <3> QED
      BY <1>0, <3>1 DEF FilledAt
  <2> QED
    BY <1>9, <2>2, <2>3
<1>10. CASE UNCHANGED vars
  BY <1>0, <1>10 DEF vars, FilledAt
<1> QED
  BY <1>1, <1>2, <1>3, <1>4, <1>5, <1>6, <1>7, <1>8, <1>9, <1>10, <1>11, StepCases

\* A short write leaves the file short, whatever follows.
LEMMA CacheStep ==
  ASSUME Single, [Next]_vars
  PROVE  CacheIntact'
<1>1. CASE UNCHANGED disk
  BY <1>1 DEF Single, CacheIntact, Whole, Prefix
<1>2. ASSUME NEW o \in Op, Recreate(o) PROVE CacheIntact'
  <2> SUFFICES ASSUME NEW d \in Docs \cap File,
                      disk'[d] # None, Len(disk'[d]) = Size[d]
               PROVE  disk'[d] = Whole(d)
    BY DEF CacheIntact, Whole, Prefix
  <2>1. disk' = [disk EXCEPT ![path] = <<>>] /\ disk \in [Docs -> Seq(Piece) \cup {None}]
    BY <1>2 DEF Recreate, Recreated, Single, DiskType
  <2>2. CASE d = path
    <3>1. disk'[d] = <<>> /\ Size[d] = 0
      BY <2>1, <2>2
    <3> QED
      BY <3>1 DEF Whole, Prefix
  <2>3. CASE d # path
    <3>1. disk'[d] = disk[d]
      BY <2>1, <2>3
    <3> QED
      BY <3>1 DEF Single, CacheIntact
  <2> QED
    BY <2>2, <2>3
<1>3. ASSUME NEW o \in Op, get_document_cb(o) PROVE CacheIntact'
  <2> SUFFICES ASSUME NEW d \in Docs \cap File,
                      disk'[d] # None, Len(disk'[d]) = Size[d]
               PROVE  disk'[d] = Whole(d)
    BY DEF CacheIntact, Whole, Prefix
  <2>1. /\ o \in FileOp
        /\ \E n \in 0 .. chunk[o] :
             disk' = [disk EXCEPT ![Doc[o]] = disk[Doc[o]] \o Slice(Doc[o], offset[o], n)]
    BY <1>3, Written
  <2>2. CASE d # Doc[o]
    <3>1. disk'[d] = disk[d]
      BY <2>1, <2>2 DEF Single, DiskType
    <3> QED
      BY <3>1 DEF Single, CacheIntact
  <2>3. CASE d = Doc[o]
    <3>1. FilledAt(o)' /\ LoopAt(o)'
      BY <1>3, <2>1, FilledStep, LoopStep DEF Filled, Loops, FileOp, IsFile, Single
    <3>2. pc'[o] \in InLoop /\ offset'[o] \in Nat /\ chunk'[o] \in Nat
      BY <1>3 DEF get_document_cb, Goto, InLoop, Single, LoopType, Advance
    <3>3. Size[d] \in Nat
      BY DownloadAssumption
    <3>4. /\ short'[o] => Len(disk'[d]) < offset'[o]
          /\ ~short'[o] => disk'[d] = Prefix(d, offset'[o])
      BY <2>3, <3>1, <3>2 DEF FilledAt
    <3>5. offset'[o] <= Size[d]
      BY <2>3, <3>1, <3>2, <3>3 DEF LoopAt
    <3>6. ~(Len(disk'[d]) < offset'[o])
      BY <3>2, <3>3, <3>5
    <3>7. offset'[o] = Size[d]
      BY <3>2, <3>4, <3>6, PrefixType
    <3> QED
      BY <3>4, <3>6, <3>7 DEF Whole
  <2> QED
    BY <2>2, <2>3
<1>4. \/ UNCHANGED disk \/ \E o \in Op : Recreate(o) \/ get_document_cb(o)
  BY StepCases
  DEF cancelTransfer, Restart, getDoc, tg_get_photo_file, downloadFileForMessage,
      UseCached, Receive, GetFails, photo_file_cb, Finish, openUrl, vars
<1> QED
  BY <1>1, <1>2, <1>3, <1>4

\* Every step keeps the open file a prefix of its document.
LEMMA SingleStep ==
  ASSUME Single, ~Overlap, [Next]_vars
  PROVE  Single'
<1>1. LoopType /\ Loops /\ OneAtATime
  BY DEF Single
<1> QED
  BY <1>1, LoopTypeStep, LoopStep, DiskTypeStep, OneStep, FilledStep, CacheStep
  DEF Single

\* Taps one at a time: the open file is the prefix that was delivered.
THEOREM SingleCorrect == Spec /\ ~Overlap => []Single
<1>1. CASE ~Overlap
  <2>1. Single /\ [Next]_vars => Single'
    BY <1>1, SingleStep
  <2> QED
    BY <2>1, SingleInit, PTL DEF Spec
<1>2. CASE Overlap
  BY <1>2
<1> QED
  BY <1>1, <1>2

\* One transfer at a time, a cached file of the right size is the document:
\* downloadFileForMessage may return it by its size alone, after any failure,
\* stop, short write or end of the process.
THEOREM CacheCorrect == Spec /\ ~Overlap => []CacheIntact
<1>1. Single => CacheIntact
  BY DEF Single
<1> QED
  BY <1>1, SingleCorrect, PTL

SeenType == seen \in [Op -> Seq(Piece)]

\* Every step keeps what was opened whole.
LEMMA SeenStep ==
  ASSUME Single, SeenType, OpenedIsWhole, [Next]_vars
  PROVE  SeenType' /\ OpenedIsWhole'
<1> USE DEF Goto
<1>0. pc \in [Op -> Location] /\ short \in [Op -> BOOLEAN] /\ seen \in [Op -> Seq(Piece)]
  BY DEF Single, LoopType, DiskType, SeenType
<1>1. ASSUME NEW o \in Op, openUrl(o) PROVE SeenType' /\ OpenedIsWhole'
  <2>1. o \in FileOp /\ url[o] = Doc[o] /\ disk[Doc[o]] # None
    BY <1>1 DEF openUrl, Single, Loops, LoopAt, FileOp, Filled, FilledAt
  <2>2. ~short[o] /\ Fits(Doc[o]) => disk[Doc[o]] = Whole(Doc[o])
    BY <1>1, <2>1 DEF openUrl, Single, Filled, FilledAt
  <2>3. disk[Doc[o]] \in Seq(Piece)
    BY <1>1, <2>1, SizeType DEF Single, DiskType
  <2>4. seen' = [seen EXCEPT ![o] = disk[Doc[o]]]
    BY <1>1, <2>1 DEF openUrl
  <2>5. SeenType'
    BY <1>0, <2>3, <2>4 DEF SeenType
  <2>6. ASSUME NEW u \in Op, pc'[u] = "opened", IsFile(u), ~short'[u],
               Fits(Doc[u])
        PROVE  seen'[u] = Whole(Doc[u])
    <3>1. CASE u = o
      BY <1>0, <1>1, <2>2, <2>4, <2>6, <3>1 DEF openUrl
    <3>2. CASE u # o
      BY <1>0, <1>1, <2>4, <2>6, <3>2 DEF openUrl, OpenedIsWhole
    <3> QED
      BY <3>1, <3>2
  <2> QED
    BY <2>5, <2>6 DEF OpenedIsWhole, IsFile, Whole, Prefix, Fits
<1>2. ASSUME seen' = seen, \A u \in Op : pc'[u] = "opened" /\ IsFile(u) /\ ~short'[u]
                                       => pc[u] = "opened" /\ ~short[u]
      PROVE  SeenType' /\ OpenedIsWhole'
  BY <1>0, <1>2 DEF SeenType, OpenedIsWhole, IsFile, Whole, Prefix, Fits
<1>3. CASE cancelTransfer
  BY <1>0, <1>2, <1>3 DEF cancelTransfer
<1>4. CASE Restart
  BY <1>0, <1>2, <1>4 DEF Restart
<1>5. ASSUME NEW o \in Op,
             \/ getDoc(o) \/ tg_get_photo_file(o) \/ downloadFileForMessage(o)
             \/ UseCached(o) \/ Recreate(o) \/ Receive(o) \/ GetFails(o)
      PROVE  SeenType' /\ OpenedIsWhole'
  BY <1>0, <1>2, <1>5
  DEF getDoc, tg_get_photo_file, downloadFileForMessage, UseCached, Recreate,
      Receive, GetFails
<1>6. ASSUME NEW o \in Op, get_document_cb(o) PROVE SeenType' /\ OpenedIsWhole'
  BY <1>0, <1>2, <1>6 DEF get_document_cb
<1>7. ASSUME NEW o \in Op, photo_file_cb(o) PROVE SeenType' /\ OpenedIsWhole'
  BY <1>0, <1>2, <1>7 DEF photo_file_cb
<1>8. ASSUME NEW o \in Op, Finish(o) PROVE SeenType' /\ OpenedIsWhole'
  BY <1>0, <1>2, <1>8 DEF Finish
<1>9. CASE UNCHANGED vars
  BY <1>2, <1>9 DEF vars
<1> QED
  BY <1>1, <1>3, <1>4, <1>5, <1>6, <1>7, <1>8, <1>9, StepCases

\* Only whole documents are opened, with the type of what is seen.
LEMMA SeenCorrect == Spec /\ ~Overlap => [](SeenType /\ OpenedIsWhole)
<1>1. Init => SeenType /\ OpenedIsWhole
  BY DEF Init, SeenType, OpenedIsWhole
<1>2. Single /\ SeenType /\ OpenedIsWhole /\ [Next]_vars
        => (SeenType /\ OpenedIsWhole)'
  BY SeenStep
<1> QED
  BY <1>1, <1>2, SingleCorrect, PTL DEF Spec

\* One transfer at a time, a document handed to openUrl is the one that was
\* tapped, and whole, unless a write of its own transfer was short or its size
\* does not fit an int.
THEOREM OpensTheDocument == Spec /\ ~Overlap => []OpenedIsWhole
BY SeenCorrect, PTL

\* One transfer at a time, the state keeps its type: no path is followed and
\* no file opened that is not there.
THEOREM DownloadTypeCorrect == Spec /\ ~Overlap => []DownloadTypeOK
<1>1. Single /\ SeenType => DownloadTypeOK
  BY DEF Single, LoopType, DiskType, SeenType, DownloadTypeOK
<1> QED
  BY <1>1, SingleCorrect, SeenCorrect, PTL
=============================================================================
