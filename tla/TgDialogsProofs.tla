---------------------------- MODULE TgDialogsProofs ----------------------------
(***************************************************************************)
(* Theorems about the list of dialogs (module TgDialogs), for every set of *)
(* dialogs, every size of a page and every order of messages and loads.    *)
(***************************************************************************)
EXTENDS TgDialogs, TLAPS, FiniteSetTheorems

\* A step is one of the actions: the case split every proof below uses.
LEMMA StepCases ==
  ASSUME Next
  PROVE  \/ reloadData \/ scrollViewDidEndDecelerating \/ refresh
         \/ willResignActive \/ onHidden
         \/ StartCached \/ StartFrom \/ tg_get_dialogs_callback \/ NoAnswer
         \/ get_dialogs_cb \/ Notify \/ Delivered \/ CachedDone \/ NextPage
         \/ LoadDone \/ FilterRead \/ FilterShow \/ Restart
         \/ \E d \in Dialog : Arrive(d)
BY DEF Next, Screen, SyncData, Query

(***************************************************************************)
(* The operators of the model.                                             *)
(***************************************************************************)

\* Dates and counts are times.
LEMMA TimeType ==
  /\ Time \subseteq Nat /\ 0 \in Time /\ Now \in Time
  /\ \A t \in 1 .. MaxClock : t \in Time
  /\ Cardinality(Dialog) \in Nat
<1>1. Cardinality(Dialog) \in Nat /\ MaxClock \in Nat
  BY DialogsAssumption, FS_CardinalityType
<1> QED
  BY <1>1 DEF Time, Now

\* An order of a set has every element at one place.
LEMMA EnumerationType ==
  ASSUME NEW S \in SUBSET Dialog, NEW s \in Enumerations(S)
  PROVE  /\ s \in Seq(Dialog) /\ IsInjective(s)
         /\ Len(s) = Cardinality(S) /\ DOMAIN s = 1 .. Len(s)
         /\ \A i \in DOMAIN s : s[i] \in S
<1>1. IsFiniteSet(S) /\ Cardinality(S) \in Nat
  BY DialogsAssumption, FS_Subset, FS_CardinalityType
<1>2. s \in [1 .. Cardinality(S) -> S] /\ IsInjective(s)
  BY DEF Enumerations
<1>3. s \in Seq(Dialog) /\ Len(s) = Cardinality(S)
  BY <1>1, <1>2
<1> QED
  BY <1>2, <1>3

\* The empty set has the empty order.
LEMMA EnumerationOfNone == <<>> \in Enumerations({})
<1>1. Cardinality({}) = 0
  BY FS_EmptySet
<1> QED
  BY <1>1 DEF Enumerations, IsInjective

\* A sequence with a new element at the end.
LEMMA AppendNew ==
  ASSUME NEW s \in Seq(Dialog), IsInjective(s), NEW d \in Dialog
  PROVE  LET t == IF d \in Range(s) THEN s ELSE Append(s, d)
         IN  /\ t \in Seq(Dialog) /\ IsInjective(t)
             /\ Range(t) = Range(s) \cup {d}
<1> DEFINE t == IF d \in Range(s) THEN s ELSE Append(s, d)
<1>1. CASE d \in Range(s)
  BY <1>1
<1>2. CASE d \notin Range(s)
  <2>1. /\ t \in Seq(Dialog) /\ Len(t) = Len(s) + 1 /\ DOMAIN t = 1 .. Len(s) + 1
        /\ t[Len(s) + 1] = d /\ \A i \in 1 .. Len(s) : t[i] = s[i]
        /\ DOMAIN s = 1 .. Len(s) /\ Len(s) \in Nat
    BY <1>2
  <2>2. \A i \in 1 .. Len(s) : s[i] # d
    BY <1>2, <2>1 DEF Range
  <2> HIDE DEF t
  <2>3. IsInjective(t)
    BY <2>1, <2>2 DEF IsInjective
  <2>4. Range(t) = Range(s) \cup {d}
    <3>1. ASSUME NEW x \in Range(t) PROVE x \in Range(s) \cup {d}
      <4>1. PICK i \in 1 .. Len(s) + 1 : x = t[i]
        BY <2>1, <3>1 DEF Range
      <4>2. CASE i = Len(s) + 1
        BY <2>1, <4>1, <4>2
      <4>3. CASE i \in 1 .. Len(s)
        BY <2>1, <4>1, <4>3 DEF Range
      <4> QED
        BY <2>1, <4>1, <4>2, <4>3
    <3>2. ASSUME NEW x \in Range(s) PROVE x \in Range(t)
      <4>1. PICK i \in 1 .. Len(s) : x = s[i]
        BY <2>1, <3>2 DEF Range
      <4>2. i \in 1 .. Len(s) + 1 /\ t[i] = x
        BY <2>1, <4>1
      <4> QED
        BY <2>1, <4>2 DEF Range
    <3>3. d \in Range(t)
      <4>1. Len(s) + 1 \in 1 .. Len(s) + 1
        BY <2>1
      <4> QED
        BY <2>1, <4>1 DEF Range
    <3> QED
      BY <3>1, <3>2, <3>3
  <2> QED
    BY <2>1, <2>3, <2>4 DEF t
<1> QED
  BY <1>1, <1>2

\* The elements of a sequence of dialogs.
LEMMA RangeType ==
  ASSUME NEW s \in Seq(Dialog)
  PROVE  Range(s) \subseteq Dialog /\ \A i \in DOMAIN s : s[i] \in Dialog
BY DEF Range

(***************************************************************************)
(* The type of the state.                                                  *)
(***************************************************************************)

\* The screen before the first load is well typed.
LEMMA TypeInit ==
  ASSUME Init
  PROVE  DialogsTypeOK
<1>1. date \in [Dialog -> Time]
  BY TimeType DEF Init
<1>2. /\ stored \in [Dialog -> Time \cup {None}] /\ known \in [Dialog -> Time]
      /\ refused \subseteq Dialog
  BY TimeType DEF Init
<1>3. cur \in Operation
  BY TimeType DEF Init, Cached, Operation
<1>4. /\ <<>> \in Seq(Item) /\ <<>> \in Seq(Dialog) /\ <<>> \in Seq(Operation)
      /\ IsInjective(<<>>)
  BY DEF IsInjective
<1> QED
  BY <1>1, <1>2, <1>3, <1>4 DEF Init, DialogsTypeOK, Location

\* The operations that the screen adds.
LEMMA OperationType ==
  /\ Cached \in Operation /\ \A t \in Time : From(t) \in Operation
BY TimeType DEF Cached, From, Operation

\* The steps of the screen and of the filter.
LEMMA ScreenType ==
  ASSUME DialogsTypeOK,
         \/ reloadData \/ scrollViewDidEndDecelerating \/ refresh
         \/ willResignActive \/ onHidden \/ FilterRead \/ FilterShow
  PROVE  DialogsTypeOK'
<1> USE DEF server, disk, list, view, load
<1>0. ops \in Seq(Operation) /\ taps \in Nat /\ <<>> \in Seq(Operation)
  BY DEF DialogsTypeOK
<1>1. CASE reloadData
  <2>1. ops' \in Seq(Operation) /\ taps' \in Nat
    BY <1>0, <1>1, OperationType DEF reloadData, Tap
  <2> QED
    BY <1>1, <2>1 DEF reloadData, DialogsTypeOK
<1>2. CASE scrollViewDidEndDecelerating
  <2>1. PICK t \in {Now} \cup {known[d] : d \in Range(shown)}
              \cup {known[d] : d \in IF loaded = <<>> THEN {} ELSE {Last(loaded)}} :
           getDialogsFrom(ops, t)
    BY <1>2 DEF scrollViewDidEndDecelerating
  <2>2. loaded # <<>> => Last(loaded) \in Dialog
    <3>1. loaded \in Seq(Dialog)
      BY DEF DialogsTypeOK
    <3> QED
      BY <3>1 DEF Last
  <2>3. Range(shown) \subseteq Dialog /\ known \in [Dialog -> Time]
    BY RangeType DEF DialogsTypeOK
  <2>4. t \in Time
    BY <2>1, <2>2, <2>3, TimeType
  <2>5. ops' \in Seq(Operation) /\ taps' \in Nat /\ cached' = FALSE
    BY <1>0, <1>2, <2>1, <2>4, OperationType
    DEF scrollViewDidEndDecelerating, getDialogsFrom, Tap
  <2> QED
    BY <1>2, <2>5 DEF scrollViewDidEndDecelerating, DialogsTypeOK
<1>3. CASE refresh
  <2>1. ops' \in Seq(Operation) /\ taps' \in Nat /\ all' = TRUE
    BY <1>0, <1>3, OperationType DEF refresh, Tap, cancelAll
  <2> QED
    BY <1>3, <2>1 DEF refresh, DialogsTypeOK
<1>4. CASE willResignActive
  <2>1. ops' \in Seq(Operation) /\ taps' \in Nat /\ cached' = FALSE
    BY <1>0, <1>4 DEF willResignActive, Tap, cancelAll
  <2> QED
    BY <1>4, <2>1 DEF willResignActive, DialogsTypeOK
<1>5. CASE onHidden
  <2>1. archive' \in BOOLEAN /\ filter' = TRUE /\ taps' \in Nat
    BY <1>0, <1>5 DEF onHidden, Tap
  <2> QED
    BY <1>5, <2>1 DEF onHidden, DialogsTypeOK
<1>6. CASE FilterRead
  <2>1. Visible \in SUBSET Dialog
    BY RangeType DEF Visible, DialogsTypeOK
  <2>2. filtered' \in Enumerations(Visible)
    BY <1>6 DEF FilterRead, Filtered
  <2>3. filtered' \in Seq(Dialog) /\ IsInjective(filtered)' /\ filter' = FALSE
    BY <1>6, <2>1, <2>2, EnumerationType DEF FilterRead, IsInjective
  <2> QED
    BY <1>6, <2>3 DEF FilterRead, DialogsTypeOK
<1>7. CASE FilterShow
  <2>1. shown' = filtered /\ filtered' = None /\ filtered \in Seq(Dialog) /\ IsInjective(filtered)
    BY <1>7 DEF FilterShow, DialogsTypeOK
  <2>2. IsInjective(shown)'
    BY <2>1 DEF IsInjective
  <2> QED
    BY <1>7, <2>1, <2>2 DEF FilterShow, DialogsTypeOK
<1> QED
  BY <1>1, <1>2, <1>3, <1>4, <1>5, <1>6, <1>7

\* What StartCached reads, and what the server answers.
LEMMA ReadType ==
  ASSUME DialogsTypeOK, NEW read \in Rows
  PROVE  /\ read \in Seq(Dialog) /\ IsInjective(read)
         /\ [i \in DOMAIN read |-> [peer |-> read[i], date |-> stored[read[i]],
                                    quoted |-> FALSE]] \in Seq(Item)
<1>1. {d \in Range(rows) : stored[d] # None} \in SUBSET Dialog
  BY RangeType DEF DialogsTypeOK
<1>2. read \in Enumerations({d \in Range(rows) : stored[d] # None})
  BY DEF Rows
<1>3. read \in Seq(Dialog) /\ IsInjective(read)
  BY <1>1, <1>2, EnumerationType
<1>4. ASSUME NEW i \in DOMAIN read
      PROVE  [peer |-> read[i], date |-> stored[read[i]], quoted |-> FALSE] \in Item
  <2>1. read[i] \in Dialog /\ stored[read[i]] # None
    BY <1>1, <1>2, EnumerationType
  <2>2. stored[read[i]] \in Time
    BY <2>1 DEF DialogsTypeOK
  <2> QED
    BY <2>1, <2>2 DEF Item
<1>5. DOMAIN read = 1 .. Len(read) /\ Len(read) \in Nat
  BY <1>3
<1> QED
  BY <1>3, <1>4, <1>5

\* A page of the server is a sequence of items.
LEMMA AnswerType ==
  ASSUME DialogsTypeOK, NEW older \in Newest(Older(Offset)), NEW n \in Nat, n <= Len(older),
         NEW top \in [1 .. n -> TopDates(SubSeq(older, 1, n))], NEW quoted \in SUBSET Quotable
  PROVE  [i \in 1 .. n |-> [peer |-> older[i], date |-> top[i],
                            quoted |-> older[i] \in quoted]] \in Seq(Item)
<1>1. Older(Offset) \in SUBSET Dialog
  BY DEF Older
<1>2. older \in Enumerations(Older(Offset))
  BY DEF Newest
<1>3. older \in Seq(Dialog) /\ Len(older) \in Nat /\ DOMAIN older = 1 .. Len(older)
  BY <1>1, <1>2, EnumerationType
<1>4. \A i \in 1 .. n : older[i] \in Dialog
  BY <1>3, RangeType
<1>5. TopDates(SubSeq(older, 1, n)) \subseteq Time
  <2>1. SubSeq(older, 1, n) \in Seq(Dialog)
    BY <1>3
  <2>2. Range(SubSeq(older, 1, n)) \subseteq Dialog /\ date \in [Dialog -> Time]
    BY <2>1, RangeType DEF DialogsTypeOK
  <2> QED
    BY <2>2, TimeType DEF TopDates
<1>6. \A i \in 1 .. n : top[i] \in Time
  BY <1>5
<1>7. \A i \in 1 .. n : [peer |-> older[i], date |-> top[i],
                         quoted |-> older[i] \in quoted] \in Item
  BY <1>4, <1>6 DEF Item
<1> QED
  BY <1>7

\* The steps of the running load, of the server and of the process.
LEMMA LoadType ==
  ASSUME DialogsTypeOK,
         \/ StartCached \/ StartFrom \/ tg_get_dialogs_callback \/ NoAnswer
         \/ get_dialogs_cb \/ Notify \/ Delivered \/ CachedDone \/ NextPage
         \/ LoadDone \/ Restart \/ \E d \in Dialog : Arrive(d)
  PROVE  DialogsTypeOK'
<1> USE DEF server, disk, list, view, load, Location
<1>0. ops \in Seq(Operation) /\ <<>> \in Seq(Item) /\ todo \in Seq(Item)
  BY DEF DialogsTypeOK
<1>h. ops # <<>> => Head(ops) \in Operation /\ Tail(ops) \in Seq(Operation)
  BY <1>0
<1>1. CASE StartCached
  <2>1. todo' \in Seq(Item)
    <3>1. CASE notFirst
      <4>1. PICK read \in Rows :
              todo' = [i \in DOMAIN read |-> [peer |-> read[i], date |-> stored[read[i]],
                                             quoted |-> FALSE]]
        BY <1>1, <3>1 DEF StartCached
      <4> QED
        BY <4>1, ReadType
    <3>2. CASE ~notFirst
      <4>1. todo' = <<>>
        BY <1>1, <3>2 DEF StartCached
      <4> QED
        BY <1>0, <4>1
    <3> QED
      BY <3>1, <3>2
  <2>2. cur' \in Operation /\ ops' \in Seq(Operation)
    BY <1>h, <1>1 DEF StartCached
  <2> QED
    BY <1>1, <2>1, <2>2 DEF StartCached, DialogsTypeOK
<1>2. CASE StartFrom
  <2>1. all' \in BOOLEAN
    BY <1>2 DEF StartFrom, DialogsTypeOK
  <2>2. cur' \in Operation /\ ops' \in Seq(Operation)
    BY <1>h, <1>2, <2>1 DEF StartFrom, Operation
  <2> QED
    BY <1>2, <2>1, <2>2 DEF StartFrom, DialogsTypeOK
<1>3. CASE tg_get_dialogs_callback
  <2>1. PICK older \in Newest(Older(Offset)) :
          LET n == IF Len(older) < Asked THEN Len(older) ELSE Asked
          IN  /\ \E top \in [1 .. n -> TopDates(SubSeq(older, 1, n))], quoted \in SUBSET Quotable :
                   todo' = [i \in 1 .. n |-> [peer |-> older[i], date |-> top[i],
                                              quoted |-> older[i] \in quoted]]
              /\ count' = Counted(n)
              /\ total' \in IF n = Len(older) THEN {total, Cardinality(Dialog)}
                            ELSE {Cardinality(Dialog)}
    BY <1>3 DEF tg_get_dialogs_callback
  <2> DEFINE n == IF Len(older) < Asked THEN Len(older) ELSE Asked
  <2>2. Len(older) \in Nat
    <3>1. Older(Offset) \in SUBSET Dialog /\ older \in Enumerations(Older(Offset))
      BY DEF Older, Newest
    <3>2. older \in Seq(Dialog)
      BY <3>1, EnumerationType
    <3> QED
      BY <3>2
  <2>3. n \in Nat /\ n <= Len(older)
    BY <2>2, DialogsAssumption DEF Asked
  <2>4. todo' \in Seq(Item)
    <3>1. PICK top \in [1 .. n -> TopDates(SubSeq(older, 1, n))], quoted \in SUBSET Quotable :
            todo' = [i \in 1 .. n |-> [peer |-> older[i], date |-> top[i],
                                       quoted |-> older[i] \in quoted]]
      BY <2>1
    <3> HIDE DEF n
    <3> QED
      BY <2>3, <3>1, AnswerType
  <2>5. count' \in Nat /\ total' \in Nat
    <3>1. Cardinality(Dialog) \in Nat /\ total \in Nat /\ count \in Nat
      BY TimeType DEF DialogsTypeOK
    <3> HIDE DEF n
    <3>2. count' = Counted(n) /\ total' \in {total, Cardinality(Dialog)}
      BY <2>1 DEF n
    <3> QED
      BY <2>3, <3>1, <3>2 DEF Counted
  <2> QED
    BY <1>3, <2>4, <2>5 DEF tg_get_dialogs_callback, DialogsTypeOK
<1>4. CASE get_dialogs_cb
  <2> DEFINE item == Head(todo)
  <2>1. item \in Item /\ Tail(todo) \in Seq(Item)
    BY <1>0, <1>4 DEF get_dialogs_cb
  <2>2. item.peer \in Dialog /\ item.date \in Time /\ item.quoted \in BOOLEAN
    BY <2>1 DEF Item
  <2>3. /\ todo' = Tail(todo) /\ loaded' = Added(item.peer)
        /\ known' = [known EXCEPT ![item.peer] = item.date]
        /\ \/ tg_dialog_to_database(item)
           \/ UNCHANGED <<rows, stored, refused>>
    BY <1>4 DEF get_dialogs_cb
  <2> HIDE DEF item
  <2>4. loaded' \in Seq(Dialog) /\ IsInjective(loaded')
    BY <2>2, <2>3, AppendNew DEF Added, DialogsTypeOK
  <2>5. known' \in [Dialog -> Time]
    BY <2>2, <2>3 DEF DialogsTypeOK
  <2>6. /\ rows' \in Seq(Dialog) /\ IsInjective(rows')
        /\ stored' \in [Dialog -> Time \cup {None}] /\ refused' \subseteq Dialog
    <3>1. CASE tg_dialog_to_database(item)
      <4>1. rows' \in Seq(Dialog) /\ IsInjective(rows')
        BY <2>2, <3>1, AppendNew DEF tg_dialog_to_database, DialogsTypeOK
      <4>2. stored' \in [Dialog -> Time \cup {None}]
        BY <2>2, <3>1 DEF tg_dialog_to_database, Saved, DialogsTypeOK
      <4>3. refused' \subseteq Dialog
        BY <2>2, <3>1 DEF tg_dialog_to_database, DialogsTypeOK
      <4> QED
        BY <4>1, <4>2, <4>3
    <3>2. CASE UNCHANGED <<rows, stored, refused>>
      BY <3>2 DEF DialogsTypeOK
    <3> QED
      BY <2>3, <3>1, <3>2
  <2> QED
    BY <1>4, <2>1, <2>3, <2>4, <2>5, <2>6 DEF get_dialogs_cb, DialogsTypeOK
<1>5. CASE CachedDone
  <2>1. ops' \in Seq(Operation) /\ cached' \in BOOLEAN
    <3>1. CASE getDialogsFrom(ops, Now)
      <4>1. From(Now) \in Operation
        BY OperationType, TimeType
      <4>2. cached' = FALSE /\ ops' = Append(ops, From(Now))
        BY <3>1 DEF getDialogsFrom
      <4>3. \A e \in Operation : Append(ops, e) \in Seq(Operation)
        BY <1>0
      <4> QED
        BY <4>1, <4>2, <4>3
    <3>2. CASE UNCHANGED <<cached, ops>>
      BY <3>2 DEF DialogsTypeOK
    <3> QED
      BY <1>5, <3>1, <3>2 DEF CachedDone
  <2> QED
    BY <1>5, <2>1 DEF CachedDone, DialogsTypeOK
<1>6. CASE NoAnswer \/ Delivered \/ NextPage
  BY <1>6 DEF NoAnswer, Delivered, NextPage, DialogsTypeOK
<1>7. CASE Notify
  BY <1>7 DEF Notify, DialogsTypeOK
<1>8. CASE LoadDone
  BY <1>8, OperationType DEF LoadDone, EndFilters, DialogsTypeOK
<1>9. CASE Restart
  <2>1. /\ <<>> \in Seq(Dialog) /\ <<>> \in Seq(Operation) /\ IsInjective(<<>>)
        /\ known' \in [Dialog -> Time] /\ cur' \in Operation /\ run' \in Nat
    BY <1>9, TimeType, OperationType DEF Restart, IsInjective, DialogsTypeOK
  <2> QED
    BY <1>0, <1>9, <2>1 DEF Restart, DialogsTypeOK
<1>10. ASSUME NEW d \in Dialog, Arrive(d) PROVE DialogsTypeOK'
  <2>1. date' \in [Dialog -> Time]
    BY <1>10, TimeType DEF Arrive, DialogsTypeOK
  <2> QED
    BY <1>10, <2>1 DEF Arrive, DialogsTypeOK
<1> QED
  BY <1>1, <1>2, <1>3, <1>4, <1>5, <1>6, <1>7, <1>8, <1>9, <1>10

\* The state of the list keeps its type: in particular no dialog is twice in
\* the database, in loadedData or on the screen, whatever loads overlap.
THEOREM DialogsTypeCorrect == Spec => []DialogsTypeOK
<1>1. ASSUME DialogsTypeOK, UNCHANGED vars PROVE DialogsTypeOK'
  BY <1>1 DEF vars, DialogsTypeOK, IsInjective
<1>2. DialogsTypeOK /\ [Next]_vars => DialogsTypeOK'
  BY <1>1, ScreenType, LoadType, StepCases
<1> QED
  BY <1>2, TypeInit, PTL DEF Spec

(***************************************************************************)
(* What is shown.                                                          *)
(***************************************************************************)

\* The arrays that filterData may make depend on three fields.
LEMMA SameFiltered ==
  ASSUME UNCHANGED <<loaded, known, archive>>
  PROVE  Filtered' = Filtered
BY DEF Filtered, Visible, Enumerations, Above, Range, IsInjective

\* The filter shows nothing of an empty array.
LEMMA FilterInit ==
  ASSUME loaded = <<>>
  PROVE  <<>> \in Filtered
<1>1. Visible = {}
  BY DEF Visible, Range
<1> QED
  BY <1>1, EnumerationOfNone DEF Filtered

\* Every change of the array leaves a filter due.
LEMMA FilterStep ==
  ASSUME DialogsTypeOK, FilterDue, [Next]_vars
  PROVE  FilterDue'
<1> USE DEF server, disk, list, view, load
<1>1. ASSUME UNCHANGED <<loaded, known, archive, shown, filtered, filter>>,
             pc' = "idle" => pc = "idle"
      PROVE  FilterDue'
  BY <1>1, SameFiltered DEF FilterDue
<1>2. ASSUME filter' = TRUE \/ pc' # "idle" PROVE FilterDue'
  BY <1>2 DEF FilterDue
<1>3. CASE reloadData \/ scrollViewDidEndDecelerating \/ refresh \/ willResignActive
  BY <1>1, <1>3
  DEF reloadData, scrollViewDidEndDecelerating, refresh, willResignActive
<1>4. CASE onHidden \/ CachedDone \/ LoadDone
  BY <1>2, <1>4 DEF onHidden, CachedDone, LoadDone, EndFilters
<1>5. CASE StartCached \/ StartFrom \/ tg_get_dialogs_callback \/ NoAnswer
           \/ get_dialogs_cb \/ Notify \/ Delivered \/ NextPage
  BY <1>2, <1>5
  DEF StartCached, StartFrom, tg_get_dialogs_callback, NoAnswer, get_dialogs_cb,
      Notify, Delivered, NextPage
<1>6. CASE FilterRead
  <2>1. filtered' \in Filtered /\ Filtered' = Filtered
    BY <1>6, SameFiltered DEF FilterRead
  <2>2. filtered' # None
    <3>1. Visible \in SUBSET Dialog
      BY RangeType DEF Visible, DialogsTypeOK
    <3>2. filtered' \in Seq(Dialog)
      BY <2>1, <3>1, EnumerationType DEF Filtered
    <3> QED
      BY <3>2, DialogsAssumption
  <2> QED
    BY <2>1, <2>2 DEF FilterDue
<1>7. CASE FilterShow
  <2>1. /\ filtered # None /\ shown' = filtered /\ filtered' = None
        /\ filter' = filter /\ pc' = pc /\ Filtered' = Filtered
    BY <1>7, SameFiltered DEF FilterShow
  <2> QED
    BY <2>1 DEF FilterDue
<1>8. CASE Restart
  <2>1. loaded' = <<>> /\ shown' = <<>> /\ filtered' = None
    BY <1>8 DEF Restart
  <2>2. Visible' = {}
    BY <2>1 DEF Visible, Range
  <2>3. <<>> \in Filtered'
    BY <2>2, EnumerationOfNone DEF Filtered
  <2> QED
    BY <2>1, <2>3 DEF FilterDue
<1>9. CASE \E d \in Dialog : Arrive(d)
  BY <1>1, <1>9 DEF Arrive
<1>10. CASE UNCHANGED vars
  BY <1>1, <1>10 DEF vars
<1> QED
  BY <1>3, <1>4, <1>5, <1>6, <1>7, <1>8, <1>9, <1>10, StepCases

\* When no load runs and no filtering is due, the screen shows what is
\* loaded, filtered and in order, although get_dialogs_cb skips the filtering
\* whenever loadDialogsCached happens to be set.
THEOREM ShowsTheLoaded == Spec => []ShownIsLoaded
<1>1. Init => FilterDue
  BY FilterInit DEF Init, FilterDue
<1>2. FilterDue => ShownIsLoaded
  BY DEF FilterDue, ShownIsLoaded
<1>3. DialogsTypeOK /\ FilterDue /\ [Next]_vars => FilterDue'
  BY FilterStep
<1> QED
  BY <1>1, <1>2, <1>3, DialogsTypeCorrect, PTL DEF Spec

(***************************************************************************)
(* The list and the database.                                              *)
(***************************************************************************)

Agree == LoadedIsStored /\ InHandIsStored

\* Nothing is loaded or stored at the start.
LEMMA AgreeInit ==
  ASSUME Init
  PROVE  Agree
<1>1. loaded = <<>> /\ pc = "idle" /\ \A d \in Dialog : stored[d] = None
  BY DEF Init
<1>2. Range(loaded) = {}
  BY <1>1 DEF Range
<1> QED
  BY <1>1, <1>2 DEF Agree, LoadedIsStored, InHandIsStored

\* Enough, when neither the rows nor what is loaded changes.
LEMMA AgreeKept ==
  ASSUME Agree, UNCHANGED <<rows, stored, refused, loaded, known>>,
         pc' \in {"request", "next", "end"} => cur'.kind = "from",
         pc' \in {"deliver", "notify"} /\ cur'.kind = "cached" =>
           pc \in {"deliver", "notify"} /\ UNCHANGED <<cur, todo>>
  PROVE  Agree'
<1>1. LoadedIsStored'
  BY DEF Agree, LoadedIsStored, Range
<1>2. InHandIsStored'
  BY DEF Agree, InHandIsStored, Range
<1> QED
  BY <1>1, <1>2 DEF Agree

\* A dialog is delivered: the row, if any, is written with it.
LEMMA DeliverAgrees ==
  ASSUME DialogsTypeOK, Agree, get_dialogs_cb
  PROVE  Agree'
<1> DEFINE p == Head(todo).peer
           t == Head(todo).date
<1>1. /\ Head(todo) \in Item /\ Head(todo) = todo[1] /\ todo \in Seq(Item)
      /\ 1 \in DOMAIN todo /\ pc = "deliver"
      /\ cur.kind \in {"from", "cached"}
  BY DEF get_dialogs_cb, DialogsTypeOK, Operation
<1>2. p \in Dialog
  BY <1>1 DEF Item
<1>3. /\ loaded' = Added(p) /\ known' = [known EXCEPT ![p] = t]
      /\ todo' = Tail(todo) /\ pc' = "notify" /\ cur' = cur
  BY DEF get_dialogs_cb
<1>4. cur.kind = "cached" => t = stored[p] /\ p \in Range(rows)
  BY <1>1 DEF Agree, InHandIsStored
<1>5. /\ known \in [Dialog -> Time] /\ stored \in [Dialog -> Time \cup {None}]
      /\ rows \in Seq(Dialog) /\ IsInjective(rows)
      /\ loaded \in Seq(Dialog) /\ IsInjective(loaded)
  BY DEF DialogsTypeOK
<1>6. /\ cur.kind = "from" =>
           /\ \/ stored' = stored /\ refused' = refused \cup {p}
              \/ stored' = [stored EXCEPT ![p] = t] /\ refused' = refused \ {p}
           /\ rows' = IF p \in Range(rows) THEN rows ELSE Append(rows, p)
      /\ cur.kind = "cached" => UNCHANGED <<rows, stored, refused>>
  BY <1>1 DEF get_dialogs_cb, tg_dialog_to_database, Saved
<1> HIDE DEF p, t
<1>7. Range(loaded') = Range(loaded) \cup {p}
  BY <1>2, <1>3, <1>5, AppendNew DEF Added
<1>8. Range(rows') = Range(rows) \cup {p}
  <2>1. CASE cur.kind = "from"
    BY <1>2, <1>5, <1>6, <2>1, AppendNew
  <2>2. CASE cur.kind = "cached"
    BY <1>4, <1>6, <2>2
  <2> QED
    BY <1>1, <2>1, <2>2
<1>9. \A d \in Dialog : d # p => stored'[d] = stored[d] /\ known'[d] = known[d]
                                /\ (d \in refused => d \in refused')
  BY <1>1, <1>2, <1>3, <1>5, <1>6
<1>10. known'[p] = t /\ (stored'[p] = t \/ p \in refused')
  BY <1>1, <1>2, <1>3, <1>4, <1>5, <1>6
<1>11. LoadedIsStored'
  <2>1. ASSUME NEW d \in Range(loaded')
        PROVE  d \in Range(rows') /\ (stored'[d] = known'[d] \/ d \in refused')
    <3>1. CASE d = p
      BY <1>8, <1>10, <3>1
    <3>2. CASE d # p
      <4>1. d \in Range(loaded) /\ d \in Dialog
        BY <1>5, <1>7, <2>1, <3>2, RangeType
      <4>2. d \in Range(rows) /\ (stored[d] = known[d] \/ d \in refused)
        BY <4>1 DEF Agree, LoadedIsStored
      <4> QED
        BY <1>8, <1>9, <3>2, <4>1, <4>2
    <3> QED
      BY <3>1, <3>2
  <2> QED
    BY <2>1 DEF LoadedIsStored, Range
<1>12. InHandIsStored'
  <2>1. \A d \in Dialog : stored'[d] # None => d \in Range(rows')
    BY <1>8, <1>9 DEF Agree, InHandIsStored
  <2>2. CASE cur.kind = "from"
    BY <1>3, <2>1, <2>2 DEF InHandIsStored, Range
  <2>3. CASE cur.kind = "cached"
    <3>1. ASSUME NEW i \in DOMAIN todo'
          PROVE  todo'[i].peer \in Range(rows) /\ todo'[i].date = stored[todo'[i].peer]
      <4>1. i + 1 \in DOMAIN todo /\ todo'[i] = todo[i + 1]
        BY <1>1, <1>3, <3>1
      <4> QED
        BY <1>1, <2>3, <4>1 DEF Agree, InHandIsStored
    <3>2. rows' = rows /\ stored' = stored
      BY <1>6, <2>3
    <3> QED
      BY <1>3, <2>1, <3>1, <3>2 DEF InHandIsStored, Range
  <2> QED
    BY <1>1, <2>2, <2>3
<1> QED
  BY <1>11, <1>12 DEF Agree

\* No step sets the list and the database apart.
LEMMA AgreeStep ==
  ASSUME DialogsTypeOK, Agree, [Next]_vars
  PROVE  Agree'
<1> USE DEF server, disk, list, view, load
<1>k. pc \in {"request", "next", "end"} => cur.kind = "from"
  BY DEF Agree, InHandIsStored
<1>1. CASE \/ reloadData \/ scrollViewDidEndDecelerating \/ refresh
           \/ willResignActive \/ onHidden \/ FilterRead \/ FilterShow
  BY <1>1, <1>k, AgreeKept
  DEF reloadData, scrollViewDidEndDecelerating, refresh, willResignActive,
      onHidden, FilterRead, FilterShow
<1>2. CASE StartCached
  <2>1. PICK read \in IF notFirst THEN Rows ELSE {<<>>} :
          todo' = [i \in DOMAIN read |-> [peer |-> read[i], date |-> stored[read[i]],
                                         quoted |-> FALSE]]
    BY <1>2 DEF StartCached
  <2>2. \A i \in DOMAIN read : read[i] \in Range(rows)
    <3>1. CASE notFirst
      <4>1. read \in Enumerations({d \in Range(rows) : stored[d] # None})
        BY <2>1, <3>1 DEF Rows
      <4>2. {d \in Range(rows) : stored[d] # None} \in SUBSET Dialog
        BY RangeType DEF DialogsTypeOK
      <4> QED
        BY <4>1, <4>2, EnumerationType
    <3>2. CASE ~notFirst
      BY <2>1, <3>2
    <3> QED
      BY <3>1, <3>2
  <2>3. UNCHANGED <<rows, stored, refused, loaded, known>> /\ pc' = "deliver"
    BY <1>2 DEF StartCached
  <2>4. LoadedIsStored'
    BY <2>3 DEF Agree, LoadedIsStored, Range
  <2>5. /\ DOMAIN todo' = DOMAIN read
        /\ \A i \in DOMAIN read : todo'[i].peer = read[i] /\ todo'[i].date = stored[read[i]]
    BY <2>1
  <2>6. InHandIsStored'
    BY <2>2, <2>3, <2>5 DEF Agree, InHandIsStored, Range
  <2> QED
    BY <2>4, <2>6 DEF Agree
<1>3. CASE tg_get_dialogs_callback
  BY <1>3, <1>k, AgreeKept DEF tg_get_dialogs_callback
<1>4. CASE get_dialogs_cb
  BY <1>4, DeliverAgrees
<1>5. CASE Notify \/ Delivered \/ CachedDone \/ NoAnswer \/ NextPage \/ LoadDone
  BY <1>5, <1>k, AgreeKept DEF Notify, Delivered, CachedDone, NoAnswer, NextPage, LoadDone
<1>6. CASE StartFrom
  <2>1. Head(ops) \in Operation /\ Head(ops).kind = "from"
    BY <1>6 DEF StartFrom, DialogsTypeOK
  <2>2. cur' = [Head(ops) EXCEPT !.all = all'] /\ pc' = "request"
        /\ UNCHANGED <<rows, stored, refused, loaded, known>>
    BY <1>6 DEF StartFrom
  <2>3. cur'.kind = "from"
    BY <2>1, <2>2 DEF Operation
  <2> QED
    BY <2>2, <2>3, AgreeKept
<1>7. CASE Restart
  <2>1. loaded' = <<>> /\ UNCHANGED <<rows, stored>> /\ pc' = "idle"
    BY <1>7 DEF Restart
  <2>2. Range(loaded') = {}
    BY <2>1 DEF Range
  <2>3. LoadedIsStored'
    BY <2>2 DEF LoadedIsStored, Range
  <2>4. InHandIsStored'
    BY <2>1 DEF Agree, InHandIsStored, Range
  <2> QED
    BY <2>3, <2>4 DEF Agree
<1>8. ASSUME NEW d \in Dialog, Arrive(d) PROVE Agree'
  BY <1>8, <1>k, AgreeKept DEF Arrive
<1>9. CASE UNCHANGED vars
  BY <1>9, <1>k, AgreeKept DEF vars
<1> QED
  BY <1>1, <1>2, <1>3, <1>4, <1>5, <1>6, <1>7, <1>8, <1>9, StepCases

\* What is loaded has a row with the same date, whether the server or the
\* database delivered it last and whatever date the answer gave, in this
\* process or after a restart; a dialog whose last UPDATE was refused because
\* of an apostrophe has its row, with what was written before.
THEOREM ListAgreesWithRows == Spec => []LoadedIsStored
<1>1. DialogsTypeOK /\ Agree /\ [Next]_vars => Agree'
  BY AgreeStep
<1>2. Agree => LoadedIsStored
  BY DEF Agree
<1> QED
  BY <1>1, <1>2, AgreeInit, DialogsTypeCorrect, PTL DEF Spec
=============================================================================
