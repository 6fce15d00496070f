----------------------------- MODULE TgChatProofs -----------------------------
(***************************************************************************)
(* Theorems about the messages of a chat (module TgChat), for every number *)
(* of messages, documents, operations and processes.                       *)
(***************************************************************************)
EXTENDS TgChat, TLAPS, FiniteSetTheorems

\* A step of an operation, by itself or as a query returns.
Runs(w) == Step(w) \/ Query(w)

\* A step is one of the actions: the case split every proof below uses.
LEMMA StepCases ==
  ASSUME Next
  PROVE  \/ didEndDecelerating \/ inputButtonPressed \/ timer \/ authorizedAs
         \/ \E m \in Range(bubbles) : performSwipeToLeft(m)
         \/ askToRemoveMessage \/ onYes \/ onCancel
         \/ Start \/ Cut \/ DeleteAnswered \/ DeleteUnanswered \/ DeleteRow
         \/ ClearChosen \/ Arrive \/ Restart
         \/ \E d \in Doc : sendDocument(d)
         \/ \E m \in updates : updateNewMessage(m) \/ updateShortChatMessage(m)
         \/ \E w \in Worker :
              \/ NoNetwork(w) \/ tg_get_messages_from_database(w)
              \/ tg_messages_get_history(w) \/ Answer(w) \/ NoAnswer(w)
              \/ messages_callback(w) \/ AddBubble(w) \/ LoadDone(w)
              \/ SetRead(w) \/ tg_message_send(w) \/ SendFails(w)
BY DEF Next, SyncStep, Step, Query, Worker

(***************************************************************************)
(* The operators of the model.                                             *)
(***************************************************************************)

\* The phases of an operation and what is left after each.
LEMMA PlanFacts ==
  /\ Operations \subseteq Plans /\ <<>> \notin Operations /\ <<>> \in Plans
  /\ \A pl \in Plans : pl # <<>> =>
       /\ Tail(pl) \in Plans
       /\ Head(pl) \in {"local", "remote", "older", "send", "cut", "delete"}
       /\ Head(pl) = "cut" => Tail(pl) = <<"delete">>
       /\ Head(pl) = "delete" => pl = <<"delete">> /\ Tail(pl) = <<>>
       /\ Head(pl) \notin {"cut", "delete"} =>
            Tail(pl) = <<>> \/ Head(Tail(pl)) \in {"remote", "older"}
BY DEF Plans, Operations, Reload, Load, More, Send, Removal

\* The removal is the only operation with its two phases.
LEMMA RemovalRange ==
  /\ Range(Removal) = {"cut", "delete"}
  /\ \A op \in Operations : Head(op) \in {"cut", "delete"} => op = Removal
  /\ Head(Removal) = "cut"
<1>1. DOMAIN Removal = {1, 2} /\ Removal[1] = "cut" /\ Removal[2] = "delete"
  BY DEF Removal
<1>2. Range(Removal) = {"cut", "delete"}
  BY <1>1 DEF Range
<1> QED
  BY <1>2 DEF Operations, Reload, Load, More, Send, Removal

\* The elements of a sequence.
LEMMA RangeType ==
  ASSUME NEW S, NEW s \in Seq(S)
  PROVE  /\ Range(s) \subseteq S /\ DOMAIN s = 1 .. Len(s) /\ Len(s) \in Nat
         /\ \A i \in DOMAIN s : s[i] \in S /\ s[i] \in Range(s)
BY DEF Range

\* The empty sequence has no elements.
LEMMA EmptyRange == Range(<<>>) = {} /\ IsInjective(<<>>)
BY DEF Range, IsInjective

\* Taking the first element of a sequence.
LEMMA HeadTail ==
  ASSUME NEW S, NEW s \in Seq(S), s # <<>>
  PROVE  /\ Head(s) \in S /\ Head(s) \in Range(s) /\ Tail(s) \in Seq(S)
         /\ Range(Tail(s)) \subseteq Range(s)
<1>1. /\ Head(s) = s[1] /\ 1 \in DOMAIN s /\ Tail(s) \in Seq(S) /\ Len(s) \in Nat
      /\ DOMAIN Tail(s) = 1 .. Len(s) - 1 /\ DOMAIN s = 1 .. Len(s)
      /\ \A i \in 1 .. Len(s) - 1 : Tail(s)[i] = s[i + 1]
  OBVIOUS
<1>2. ASSUME NEW x \in Range(Tail(s)) PROVE x \in Range(s)
  <2>1. PICK i \in 1 .. Len(s) - 1 : x = s[i + 1]
    BY <1>1, <1>2 DEF Range
  <2>2. i + 1 \in DOMAIN s
    BY <1>1, <2>1
  <2> QED
    BY <2>1, <2>2 DEF Range
<1> QED
  BY <1>1, <1>2 DEF Range

\* Adding an element at the end, a new one without repetition.
LEMMA AppendRange ==
  ASSUME NEW S, NEW s \in Seq(S), NEW e \in S
  PROVE  /\ Append(s, e) \in Seq(S) /\ Range(Append(s, e)) = Range(s) \cup {e}
         /\ IsInjective(s) /\ e \notin Range(s) => IsInjective(Append(s, e))
<1> DEFINE t == Append(s, e)
<1>1. /\ t \in Seq(S) /\ DOMAIN t = 1 .. Len(s) + 1 /\ Len(s) \in Nat
      /\ t[Len(s) + 1] = e /\ \A i \in 1 .. Len(s) : t[i] = s[i]
      /\ DOMAIN s = 1 .. Len(s)
  OBVIOUS
<1> HIDE DEF t
<1>2. ASSUME NEW x \in Range(t) PROVE x \in Range(s) \cup {e}
  <2>1. PICK i \in 1 .. Len(s) + 1 : x = t[i]
    BY <1>1, <1>2 DEF Range
  <2>2. CASE i = Len(s) + 1
    BY <1>1, <2>1, <2>2
  <2>3. CASE i \in 1 .. Len(s)
    BY <1>1, <2>1, <2>3 DEF Range
  <2> QED
    BY <1>1, <2>1, <2>2, <2>3
<1>3. ASSUME NEW x \in Range(s) PROVE x \in Range(t)
  <2>1. PICK i \in 1 .. Len(s) : x = s[i]
    BY <1>1, <1>3 DEF Range
  <2>2. i \in 1 .. Len(s) + 1 /\ t[i] = x
    BY <1>1, <2>1
  <2> QED
    BY <1>1, <2>2 DEF Range
<1>4. e \in Range(t)
  <2>1. Len(s) + 1 \in 1 .. Len(s) + 1
    BY <1>1
  <2> QED
    BY <1>1, <2>1 DEF Range
<1>5. Range(t) = Range(s) \cup {e}
  BY <1>2, <1>3, <1>4
<1>6. ASSUME IsInjective(s), e \notin Range(s) PROVE IsInjective(t)
  <2>1. \A i \in 1 .. Len(s) : s[i] # e
    BY <1>1, <1>6 DEF Range
  <2> QED
    BY <1>1, <1>6, <2>1 DEF IsInjective
<1> QED
  BY <1>1, <1>5, <1>6 DEF t

\* One element taken out.
LEMMA RemoveAtFacts ==
  ASSUME NEW S, NEW s \in Seq(S), NEW i \in DOMAIN s
  PROVE  LET t == RemoveAt(s, i)
         IN  /\ t \in Seq(S) /\ Range(t) \subseteq Range(s)
             /\ IsInjective(s) => IsInjective(t) /\ s[i] \notin Range(t)
<1> DEFINE t == RemoveAt(s, i)
<1>1. Len(s) \in Nat /\ DOMAIN s = 1 .. Len(s) /\ i \in 1 .. Len(s)
  OBVIOUS
<1>2. /\ SubSeq(s, 1, i - 1) \in Seq(S) /\ Len(SubSeq(s, 1, i - 1)) = i - 1
      /\ \A j \in 1 .. i - 1 : SubSeq(s, 1, i - 1)[j] = s[j]
  BY <1>1
<1>3. /\ SubSeq(s, i + 1, Len(s)) \in Seq(S)
      /\ Len(SubSeq(s, i + 1, Len(s))) = Len(s) - i
      /\ \A j \in 1 .. Len(s) - i : SubSeq(s, i + 1, Len(s))[j] = s[i + j]
  BY <1>1
<1>4. \A a, b \in Seq(S) :
        /\ a \o b \in Seq(S) /\ Len(a \o b) = Len(a) + Len(b)
        /\ \A j \in 1 .. Len(a) + Len(b) :
             (a \o b)[j] = IF j <= Len(a) THEN a[j] ELSE b[j - Len(a)]
  OBVIOUS
<1>5. /\ t \in Seq(S) /\ DOMAIN t = 1 .. Len(s) - 1
      /\ \A j \in 1 .. Len(s) - 1 : t[j] = IF j < i THEN s[j] ELSE s[j + 1]
  <2> DEFINE u == SubSeq(s, 1, i - 1)
             v == SubSeq(s, i + 1, Len(s))
  <2>1. t = u \o v
    BY DEF RemoveAt
  <2>2. /\ u \in Seq(S) /\ Len(u) = i - 1
        /\ \A j \in 1 .. i - 1 : u[j] = s[j]
    BY <1>2
  <2>3. /\ v \in Seq(S) /\ Len(v) = Len(s) - i
        /\ \A j \in 1 .. Len(s) - i : v[j] = s[i + j]
    BY <1>3
  <2> HIDE DEF t, u, v
  <2>4. /\ u \o v \in Seq(S) /\ Len(u \o v) = Len(u) + Len(v)
        /\ \A j \in 1 .. Len(u) + Len(v) :
             (u \o v)[j] = IF j <= Len(u) THEN u[j] ELSE v[j - Len(u)]
    BY <1>4, <2>2, <2>3, Zenon
  <2>5. Len(u) + Len(v) = Len(s) - 1
    BY <1>1, <2>2, <2>3
  <2>6. /\ t \in Seq(S) /\ Len(t) = Len(s) - 1
        /\ \A j \in 1 .. Len(s) - 1 :
             t[j] = IF j <= Len(u) THEN u[j] ELSE v[j - Len(u)]
    BY <2>1, <2>4, <2>5, Zenon
  <2>7. ASSUME NEW j \in 1 .. Len(s) - 1
        PROVE  t[j] = IF j < i THEN s[j] ELSE s[j + 1]
    <3>1. CASE j < i
      <4>1. j \in 1 .. i - 1 /\ j <= Len(u)
        BY <1>1, <2>2, <2>7, <3>1
      <4>2. t[j] = u[j] /\ u[j] = s[j]
        BY <2>2, <2>6, <2>7, <4>1, Zenon
      <4> QED
        BY <3>1, <4>2
    <3>2. CASE ~(j < i)
      <4>1. /\ j - Len(u) \in 1 .. Len(s) - i /\ i + (j - Len(u)) = j + 1
            /\ ~(j <= Len(u))
        BY <1>1, <2>2, <2>7, <3>2
      <4>2. t[j] = v[j - Len(u)] /\ v[j - Len(u)] = s[i + (j - Len(u))]
        BY <2>3, <2>6, <2>7, <4>1, Zenon
      <4> QED
        BY <3>2, <4>1, <4>2
    <3> QED
      BY <3>1, <3>2
  <2>8. DOMAIN t = 1 .. Len(t)
    BY <2>6
  <2> QED
    BY <2>6, <2>7, <2>8
<1> HIDE DEF t
<1>6. ASSUME NEW j \in 1 .. Len(s) - 1
      PROVE  \E k \in 1 .. Len(s) :
               t[j] = s[k] /\ k # i /\ k = IF j < i THEN j ELSE j + 1
  <2>1. CASE j < i
    <3>1. j \in 1 .. Len(s) /\ j # i /\ t[j] = s[j]
      BY <1>1, <1>5, <1>6, <2>1
    <3> QED
      BY <2>1, <3>1
  <2>2. CASE ~(j < i)
    <3>1. j + 1 \in 1 .. Len(s) /\ j + 1 # i /\ t[j] = s[j + 1]
      BY <1>1, <1>5, <1>6, <2>2
    <3> QED
      BY <2>2, <3>1
  <2> QED
    BY <2>1, <2>2
<1>7. Range(t) \subseteq Range(s)
  <2>1. ASSUME NEW x \in Range(t) PROVE x \in Range(s)
    <3>1. PICK j \in 1 .. Len(s) - 1 : x = t[j]
      BY <1>5, <2>1 DEF Range
    <3>2. PICK k \in 1 .. Len(s) : t[j] = s[k]
      BY <1>6
    <3> QED
      BY <1>1, <3>1, <3>2 DEF Range
  <2> QED
    BY <2>1
<1>8. ASSUME IsInjective(s) PROVE IsInjective(t) /\ s[i] \notin Range(t)
  <2>1. s[i] \notin Range(t)
    BY <1>1, <1>5, <1>6, <1>8 DEF Range, IsInjective
  <2>2. ASSUME NEW j \in 1 .. Len(s) - 1, NEW k \in 1 .. Len(s) - 1, t[j] = t[k]
        PROVE  j = k
    <3>1. PICK j1 \in 1 .. Len(s) : t[j] = s[j1] /\ j1 = IF j < i THEN j ELSE j + 1
      BY <1>6
    <3>2. PICK k1 \in 1 .. Len(s) : t[k] = s[k1] /\ k1 = IF k < i THEN k ELSE k + 1
      BY <1>6
    <3>3. j1 = k1
      BY <1>1, <1>8, <2>2, <3>1, <3>2 DEF IsInjective
    <3> QED
      BY <1>1, <3>1, <3>2, <3>3
  <2> QED
    BY <1>5, <2>1, <2>2 DEF IsInjective
<1> QED
  BY <1>5, <1>7, <1>8 DEF t

\* removeObject leaves a subsequence; it repeats nothing and lacks m.
LEMMA WithoutFacts ==
  ASSUME NEW S, NEW s \in Seq(S), NEW m, NEW t \in Without(s, m)
  PROVE  /\ t \in Seq(S) /\ Range(t) \subseteq Range(s)
         /\ IsInjective(s) => IsInjective(t) /\ m \notin Range(t)
<1>1. CASE {i \in DOMAIN s : s[i] = m} = {}
  <2>1. t = s
    BY <1>1 DEF Without
  <2>2. m \notin Range(s)
    BY <1>1 DEF Range
  <2> QED
    BY <2>1, <2>2
<1>2. CASE {i \in DOMAIN s : s[i] = m} # {}
  <2>1. PICK i \in DOMAIN s : s[i] = m /\ t = RemoveAt(s, i)
    BY <1>2 DEF Without
  <2> QED
    BY <2>1, RemoveAtFacts
<1> QED
  BY <1>1, <1>2

\* The first rows of a table are rows of it.
LEMMA FirstFacts ==
  ASSUME NEW S, NEW s \in Seq(S), NEW n \in Nat
  PROVE  First(s, n) \in Seq(S) /\ Range(First(s, n)) \subseteq Range(s)
<1> DEFINE k == IF Len(s) < n THEN Len(s) ELSE n
<1>1. k \in Nat /\ k <= Len(s) /\ Len(s) \in Nat
  OBVIOUS
<1> HIDE DEF k
<1>2. /\ SubSeq(s, 1, k) \in Seq(S) /\ DOMAIN SubSeq(s, 1, k) = 1 .. k
      /\ \A i \in 1 .. k : SubSeq(s, 1, k)[i] = s[i] /\ i \in DOMAIN s
  BY <1>1
<1>3. First(s, n) = SubSeq(s, 1, k)
  BY DEF First, k
<1> QED
  BY <1>2, <1>3 DEF Range

\* Storing a message adds its row unless it has one.
LEMMA StoredFacts ==
  ASSUME rows \in Seq(Message), IsInjective(rows), NEW m \in Message
  PROVE  /\ Stored(m) \in Seq(Message) /\ IsInjective(Stored(m))
         /\ Range(Stored(m)) = Range(rows) \cup {m}
BY AppendRange DEF Stored

\* A page has messages of the server.
LEMMA PageFacts ==
  ASSUME server \in SUBSET Message, NEW from \in Nat, NEW page \in Page(from)
  PROVE  page \in Seq(Message) /\ Range(page) \subseteq server
<1>1. OnPage(from) \subseteq server
  BY DEF OnPage
<1>2. IsFiniteSet(Message)
  <2>1. 1 \in Int /\ MaxMsg \in Int
    BY ChatAssumption
  <2> QED
    BY <2>1, FS_Interval DEF Message
<1>3. IsFiniteSet(OnPage(from)) /\ Cardinality(OnPage(from)) \in Nat
  BY <1>1, <1>2, FS_Subset, FS_CardinalityType
<1>4. page \in [1 .. Cardinality(OnPage(from)) -> OnPage(from)]
  BY DEF Page
<1> QED
  BY <1>1, <1>3, <1>4 DEF Range

(***************************************************************************)
(* The type of the state, and the phases of the operations.                *)
(***************************************************************************)

\* What an operation does to its own place and phases, and to no other's.
LEMMA GotoFacts ==
  ASSUME ChatTypeOK, NEW w \in Worker, NEW l \in Location, Goto(w, l)
  PROVE  /\ pc' \in [Worker -> Location] /\ pc'[w] = l
         /\ \A v \in Worker : v # w => pc'[v] = pc[v]
BY DEF ChatTypeOK, Goto

\* The end of a phase moves one worker on and leaves the others.
LEMMA EndPhaseFacts ==
  ASSUME ChatTypeOK, NEW w \in Worker, EndPhase(w), pc[w] \notin {"new", "idle"}
  PROVE  /\ pc' \in [Worker -> Location] /\ plan' \in [Worker -> Plans]
         /\ plan[w] \in Plans /\ plan[w] # <<>> /\ plan'[w] = Tail(plan[w])
         /\ pc'[w] = IF Tail(plan[w]) = <<>> THEN "idle" ELSE "ready"
         /\ \A v \in Worker : v # w => pc'[v] = pc[v] /\ plan'[v] = plan[v]
         /\ \A v \in Worker : pc'[v] \in {"new", "idle"} <=> plan'[v] = <<>>
<1> DEFINE l == IF Tail(plan[w]) = <<>> THEN "idle" ELSE "ready"
<1>1. plan[w] \in Plans /\ plan[w] # <<>> /\ plan \in [Worker -> Plans]
  BY DEF ChatTypeOK
<1>2. Tail(plan[w]) \in Plans
  BY <1>1, PlanFacts
<1>3. l \in Location /\ Goto(w, l) /\ plan' = [plan EXCEPT ![w] = Tail(plan[w])]
  BY DEF EndPhase, Location
<1>4. /\ plan' \in [Worker -> Plans] /\ plan'[w] = Tail(plan[w])
      /\ \A v \in Worker : v # w => plan'[v] = plan[v]
  BY <1>1, <1>2, <1>3
<1>5. /\ pc' \in [Worker -> Location] /\ pc'[w] = l
      /\ \A v \in Worker : v # w => pc'[v] = pc[v]
  BY <1>3, GotoFacts
<1>6. ASSUME NEW v \in Worker
      PROVE  pc'[v] \in {"new", "idle"} <=> plan'[v] = <<>>
  <2>1. CASE v = w
    BY <1>4, <1>5, <2>1
  <2>2. CASE v # w
    <3>1. pc[v] \in {"new", "idle"} <=> plan[v] = <<>>
      BY DEF ChatTypeOK
    <3> QED
      BY <1>4, <1>5, <2>2, <3>1
  <2> QED
    BY <2>1, <2>2
<1> QED
  BY <1>1, <1>4, <1>5, <1>6

\* The parts of the type.
PlaceType ==
  /\ pc \in [Worker -> Location] /\ plan \in [Worker -> Plans]
  /\ \A w \in Worker : pc[w] \in {"new", "idle"} <=> plan[w] = <<>>
HandType ==
  /\ offset \in [Worker -> Nat] /\ found \in [Worker -> BOOLEAN]
  /\ todo \in [Worker -> Seq(Message)]
StoreType ==
  /\ server \subseteq Message /\ last \in Old .. MaxMsg
  /\ updates \subseteq Message
  /\ rows \in Seq(Message) /\ IsInjective(rows) /\ bubbles \in Seq(Message)
ScreenType ==
  /\ channel \in BOOLEAN
  /\ authorized \in BOOLEAN /\ hung \in BOOLEAN /\ hasty \in BOOLEAN
  /\ ops \in Seq(Operations)
  /\ prompt \in [at : {"sheet", "ask"}, msg : Message] \cup {None}
  /\ chosen \in Message \cup {None} /\ removing \in Message \cup {None}
  /\ confirmed \subseteq Message /\ deleted \subseteq Message
  /\ gone \subseteq Message /\ late \subseteq Message
  /\ taps \in 0 .. MaxTaps /\ run \in 1 .. MaxRun

\* The type invariant in four parts, each kept for reasons of its own.
LEMMA TypeParts ==
  /\ ChatTypeOK <=> PlaceType /\ HandType /\ StoreType /\ ScreenType
  /\ ChatTypeOK' <=> PlaceType' /\ HandType' /\ StoreType' /\ ScreenType'
BY DEF ChatTypeOK, PlaceType, HandType, StoreType, ScreenType

\* The workers are syncData and the documents beside it.
LEMMA WorkerFacts == Sync \in Worker /\ Doc \subseteq Worker /\ Sync \notin Doc
BY ChatAssumption DEF Worker

\* The screen before the first load is well typed.
LEMMA InitType == Init => ChatTypeOK /\ Phases
<1> SUFFICES ASSUME Init PROVE ChatTypeOK /\ Phases
  OBVIOUS
<1> USE DEF Init
<1>1. /\ \A w \in Worker : pc[w] \in {"new", "idle"} /\ plan[w] = <<>>
                            /\ todo[w] = <<>>
      /\ removing = None
  OBVIOUS
<1>2. PlaceType
  BY <1>1, PlanFacts DEF PlaceType, Location
<1>3. HandType
  BY DEF HandType
<1>4. StoreType
  BY ChatAssumption, EmptyRange DEF StoreType, Message
<1>5. ScreenType
  <2>1. <<Reload>> \in Seq(Operations)
    BY DEF Operations
  <2>2. /\ authorized \in BOOLEAN /\ hung \in BOOLEAN /\ hasty \in BOOLEAN
        /\ channel \in BOOLEAN
    BY Zenon
  <2>3. taps \in 0 .. MaxTaps /\ run \in 1 .. MaxRun
    BY ChatAssumption
  <2> QED
    BY <2>1, <2>2, <2>3, Zenon DEF ScreenType
<1>6. Phases
  BY <1>1, WorkerFacts DEF Phases
<1> QED
  BY <1>2, <1>3, <1>4, <1>5, <1>6, TypeParts

\* The places and phases.
LEMMA PlaceStep ==
  ASSUME ChatTypeOK, Next
  PROVE  PlaceType'
<1> USE WorkerFacts
<1>1. PlaceType
  BY TypeParts
<1>2. ASSUME NEW w \in Worker, EndPhase(w), pc[w] \notin {"new", "idle"}
      PROVE  PlaceType'
  BY <1>2, EndPhaseFacts DEF PlaceType
<1>3. ASSUME NEW w \in Worker, NEW l \in Location \ {"new", "idle"}, Goto(w, l),
             UNCHANGED plan, pc[w] \notin {"new", "idle"}
      PROVE  PlaceType'
  BY <1>1, <1>3, GotoFacts DEF PlaceType
<1>4. CASE Start
  <2>1. /\ ops \in Seq(Operations) /\ ops # <<>>
        /\ plan' = [plan EXCEPT ![Sync] = Head(ops)] /\ Goto(Sync, "ready")
    BY <1>4 DEF Start, ChatTypeOK
  <2>2. Head(ops) \in Plans /\ Head(ops) # <<>>
    BY <2>1, PlanFacts
  <2>3. "ready" \in Location
    BY DEF Location
  <2> QED
    BY <1>1, <2>1, <2>2, <2>3, GotoFacts DEF PlaceType
<1>5. ASSUME NEW d \in Doc, sendDocument(d) PROVE PlaceType'
  <2>1. plan' = [plan EXCEPT ![d] = Send] /\ Goto(d, "ready") /\ d \in Worker
    BY <1>5 DEF sendDocument
  <2>2. Send \in Plans /\ Send # <<>>
    BY PlanFacts DEF Operations
  <2>3. "ready" \in Location
    BY DEF Location
  <2> QED
    BY <1>1, <2>1, <2>2, <2>3, GotoFacts DEF PlaceType
<1>6. CASE Restart
  BY <1>6, PlanFacts DEF Restart, PlaceType, Location
<1>7. ASSUME NEW w \in Worker,
             NoNetwork(w) \/ SetRead(w) \/ tg_message_send(w) \/ SendFails(w)
      PROVE  PlaceType'
  <2>1. EndPhase(w) /\ pc[w] \in {"ready", "mark"}
    BY <1>7 DEF NoNetwork, SetRead, tg_message_send, SendFails, Sending, Loading
  <2> QED
    BY <1>2, <2>1
<1>8. ASSUME NEW w \in Worker,
             \/ tg_get_messages_from_database(w) \/ tg_messages_get_history(w)
             \/ Answer(w) \/ NoAnswer(w) \/ messages_callback(w) \/ AddBubble(w)
             \/ LoadDone(w)
      PROVE  PlaceType'
  <2>1. /\ \E l \in {"find", "ask", "add", "mark"} : Goto(w, l)
        /\ UNCHANGED plan /\ pc[w] \in {"ready", "ask", "find", "add"}
    BY <1>8 DEF tg_get_messages_from_database, tg_messages_get_history, Answer,
                NoAnswer, messages_callback, AddBubble, LoadDone, Loading
  <2> QED
    BY <1>3, <2>1 DEF Location
<1>9. CASE Cut \/ ClearChosen
  <2>1. EndPhase(Sync) /\ pc[Sync] \in {"ready", "clear"}
    BY <1>9 DEF Cut, ClearChosen
  <2> QED
    BY <1>2, <2>1
<1>10. CASE DeleteAnswered \/ DeleteUnanswered \/ DeleteRow
  <2>1. /\ \E l \in {"row", "clear"} : Goto(Sync, l)
        /\ UNCHANGED plan /\ pc[Sync] \in {"ready", "row"}
    BY <1>10 DEF DeleteAnswered, DeleteUnanswered, DeleteRow
  <2> QED
    BY <1>3, <2>1 DEF Location
<1>11. CASE UNCHANGED <<pc, plan>>
  BY <1>1, <1>11 DEF PlaceType
<1>12. ASSUME \/ didEndDecelerating \/ inputButtonPressed \/ timer \/ authorizedAs
              \/ \E m \in Range(bubbles) : performSwipeToLeft(m)
              \/ askToRemoveMessage \/ onYes \/ onCancel \/ Arrive
              \/ \E m \in updates : updateNewMessage(m) \/ updateShortChatMessage(m)
       PROVE  UNCHANGED <<pc, plan>>
  BY <1>12 DEF didEndDecelerating, inputButtonPressed, timer, authorizedAs,
               performSwipeToLeft, askToRemoveMessage, onYes, onCancel, Arrive,
               updateNewMessage, updateShortChatMessage, Enqueue, work
<1> QED
  BY <1>4, <1>5, <1>6, <1>7, <1>8, <1>9, <1>10, <1>11, <1>12, StepCases

\* The messages in hand.
LEMMA HandStep ==
  ASSUME ChatTypeOK, Phases, Next
  PROVE  HandType'
<1> USE WorkerFacts
<1>1. HandType
  BY TypeParts
<1>2. ASSUME NEW w \in Worker, tg_get_messages_from_database(w) PROVE HandType'
  <2>1. First(rows, LocalLimit) \in Seq(Message)
    BY ChatAssumption, FirstFacts DEF ChatTypeOK
  <2>2. /\ todo' = [todo EXCEPT ![w] = First(rows, LocalLimit)]
        /\ UNCHANGED <<offset, found>>
    BY <1>2 DEF tg_get_messages_from_database
  <2> QED
    BY <1>1, <2>1, <2>2 DEF HandType
<1>3. ASSUME NEW w \in Worker, tg_messages_get_history(w) PROVE HandType'
  <2>1. AddOffset(w) \in Nat
    BY DEF AddOffset, ChatTypeOK
  <2>2. offset' = [offset EXCEPT ![w] = AddOffset(w)] /\ UNCHANGED <<todo, found>>
    BY <1>3 DEF tg_messages_get_history
  <2> QED
    BY <1>1, <2>1, <2>2 DEF HandType
<1>4. ASSUME NEW w \in Worker, Answer(w) PROVE HandType'
  <2>1. PICK page \in Page(offset[w]) : todo' = [todo EXCEPT ![w] = page]
    BY <1>4 DEF Answer
  <2>2. page \in Seq(Message)
    BY <2>1, PageFacts DEF ChatTypeOK
  <2>3. offset' = [offset EXCEPT ![w] = 0] /\ UNCHANGED found
    BY <1>4 DEF Answer
  <2> QED
    BY <1>1, <2>1, <2>2, <2>3 DEF HandType
<1>5. ASSUME NEW w \in Worker, NoAnswer(w) PROVE HandType'
  <2>1. offset' = [offset EXCEPT ![w] = 0] /\ UNCHANGED <<todo, found>>
    BY <1>5 DEF NoAnswer
  <2> QED
    BY <1>1, <2>1 DEF HandType
<1>6. ASSUME NEW w \in Worker, messages_callback(w) PROVE HandType'
  <2>1. /\ found' = [found EXCEPT ![w] = IsShown(Head(todo[w]))]
        /\ UNCHANGED <<todo, offset>>
    BY <1>6 DEF messages_callback
  <2>2. IsShown(Head(todo[w])) \in BOOLEAN
    BY DEF IsShown
  <2> QED
    BY <1>1, <2>1, <2>2, Zenon DEF HandType
<1>7. ASSUME NEW w \in Worker, AddBubble(w) PROVE HandType'
  <2>1. /\ found' = [found EXCEPT ![w] = FALSE]
        /\ todo' = [todo EXCEPT ![w] = Tail(todo[w])] /\ UNCHANGED offset
        /\ pc[w] = "add"
    BY <1>7 DEF AddBubble
  <2>2. todo[w] # <<>> /\ todo[w] \in Seq(Message)
    BY <1>1, <2>1 DEF Phases, HandType
  <2>3. Tail(todo[w]) \in Seq(Message)
    BY <2>2
  <2>4. todo' \in [Worker -> Seq(Message)]
    BY <1>1, <2>1, <2>3, Zenon DEF HandType
  <2>5. found' \in [Worker -> BOOLEAN]
    BY <1>1, <2>1, Zenon DEF HandType
  <2> QED
    BY <1>1, <2>1, <2>4, <2>5 DEF HandType
<1>8. CASE Restart
  BY <1>8 DEF Restart, HandType
<1>9. CASE UNCHANGED <<offset, found, todo>>
  BY <1>1, <1>9 DEF HandType
<1>10. ASSUME \/ didEndDecelerating \/ inputButtonPressed \/ timer \/ authorizedAs
              \/ \E m \in Range(bubbles) : performSwipeToLeft(m)
              \/ askToRemoveMessage \/ onYes \/ onCancel \/ Arrive
              \/ \E m \in updates : updateNewMessage(m) \/ updateShortChatMessage(m)
       PROVE  UNCHANGED <<offset, found, todo>>
  BY <1>10 DEF didEndDecelerating, inputButtonPressed, timer, authorizedAs,
               performSwipeToLeft, askToRemoveMessage, onYes, onCancel, Arrive,
               updateNewMessage, updateShortChatMessage, Enqueue, work
<1>11. ASSUME \/ Start \/ Cut \/ DeleteAnswered \/ DeleteUnanswered \/ DeleteRow
              \/ ClearChosen \/ \E d \in Doc : sendDocument(d)
              \/ \E w \in Worker : \/ NoNetwork(w) \/ LoadDone(w) \/ SetRead(w)
                                    \/ tg_message_send(w) \/ SendFails(w)
       PROVE  UNCHANGED <<offset, found, todo>>
  BY <1>11 DEF Start, Cut, DeleteAnswered, DeleteUnanswered, DeleteRow,
               ClearChosen, sendDocument, NoNetwork, LoadDone, SetRead,
               tg_message_send, SendFails
<1> QED
  BY <1>2, <1>3, <1>4, <1>5, <1>6, <1>7, <1>8, <1>9, <1>10, <1>11, StepCases

\* The server, the database and the bubbles.
LEMMA StoreStep ==
  ASSUME ChatTypeOK, Phases, Next
  PROVE  StoreType'
<1> USE WorkerFacts
<1>1. StoreType
  BY TypeParts
<1>2. ASSUME NEW w \in Worker, messages_callback(w) PROVE StoreType'
  <2>1. todo[w] \in Seq(Message) /\ todo[w] # <<>>
    BY <1>2 DEF messages_callback, ChatTypeOK
  <2>2. Head(todo[w]) \in Message
    BY <2>1, HeadTail
  <2>3. /\ rows' \in {rows, Stored(Head(todo[w]))}
        /\ UNCHANGED <<serverVars, bubbles>>
    BY <1>2 DEF messages_callback
  <2>4. rows' \in Seq(Message) /\ IsInjective(rows')
    BY <1>1, <2>2, <2>3, StoredFacts DEF StoreType
  <2> QED
    BY <1>1, <2>3, <2>4 DEF StoreType, serverVars
<1>3. ASSUME NEW w \in Worker, AddBubble(w) PROVE StoreType'
  <2>1. todo[w] \in Seq(Message) /\ todo[w] # <<>>
    BY <1>3 DEF AddBubble, ChatTypeOK, Phases
  <2>2. Head(todo[w]) \in Message
    BY <2>1, HeadTail
  <2>3. /\ bubbles' \in {bubbles, Append(bubbles, Head(todo[w]))}
        /\ UNCHANGED <<serverVars, rows>>
    BY <1>3 DEF AddBubble
  <2>4. bubbles' \in Seq(Message)
    BY <1>1, <2>2, <2>3, AppendRange DEF StoreType
  <2> QED
    BY <1>1, <2>3, <2>4 DEF StoreType, serverVars
<1>4. ASSUME last < MaxMsg
      PROVE  last + 1 \in Message /\ last + 1 \in Old .. MaxMsg
  BY <1>1, <1>4, ChatAssumption DEF StoreType, Message
<1>5. ASSUME NEW w \in Worker, tg_message_send(w) PROVE StoreType'
  <2>1. /\ last < MaxMsg /\ last' = last + 1 /\ server' = server \cup {last + 1}
        /\ rows' \in {rows, Stored(last + 1)} /\ UNCHANGED <<updates, bubbles>>
    BY <1>5 DEF tg_message_send
  <2>2. rows' \in Seq(Message) /\ IsInjective(rows')
    BY <1>1, <1>4, <2>1, StoredFacts DEF StoreType
  <2> QED
    BY <1>1, <1>4, <2>1, <2>2 DEF StoreType
<1>6. CASE Arrive
  BY <1>1, <1>4, <1>6 DEF Arrive, StoreType
<1>7. ASSUME NEW m \in updates, updateNewMessage(m) PROVE StoreType'
  <2>1. m \in Message /\ rows' = Stored(m) /\ updates' = updates \ {m}
    BY <1>1, <1>7 DEF updateNewMessage, StoreType
  <2>2. rows' \in Seq(Message) /\ IsInjective(rows')
    BY <1>1, <2>1, StoredFacts DEF StoreType
  <2> QED
    BY <1>1, <1>7, <2>1, <2>2 DEF StoreType, updateNewMessage
<1>8. ASSUME NEW m \in updates, updateShortChatMessage(m) PROVE StoreType'
  BY <1>1, <1>8 DEF StoreType, updateShortChatMessage
<1>9. CASE Cut
  <2>1. bubbles' \in Seq(Message)
    BY <1>1, <1>9, WithoutFacts DEF Cut, StoreType
  <2> QED
    BY <1>1, <1>9, <2>1 DEF Cut, StoreType, serverVars
<1>10. CASE DeleteRow
  <2>1. rows' \in Seq(Message) /\ IsInjective(rows')
    BY <1>1, <1>10, WithoutFacts DEF DeleteRow, StoreType, WithoutRow
  <2> QED
    BY <1>1, <1>10, <2>1 DEF DeleteRow, StoreType, serverVars
<1>11. CASE DeleteAnswered \/ DeleteUnanswered
  <2>1. server' \subseteq server /\ UNCHANGED <<last, updates, rows, bubbles>>
    BY <1>11 DEF DeleteAnswered, DeleteUnanswered, Remaining
  <2> QED
    BY <1>1, <2>1 DEF StoreType
<1>12. CASE Restart
  BY <1>1, <1>12 DEF Restart, StoreType
<1>13. CASE UNCHANGED <<serverVars, rows, bubbles>>
  BY <1>1, <1>13 DEF StoreType, serverVars
<1>14. ASSUME \/ didEndDecelerating \/ inputButtonPressed \/ timer \/ authorizedAs
              \/ \E m \in Range(bubbles) : performSwipeToLeft(m)
              \/ askToRemoveMessage \/ onYes \/ onCancel \/ Start
              \/ ClearChosen \/ \E d \in Doc : sendDocument(d)
       PROVE  UNCHANGED <<serverVars, rows, bubbles>>
  BY <1>14 DEF didEndDecelerating, inputButtonPressed, timer, authorizedAs,
               performSwipeToLeft, askToRemoveMessage, onYes, onCancel, Start,
               ClearChosen, sendDocument
<1>15. ASSUME \E w \in Worker :
                \/ NoNetwork(w) \/ tg_get_messages_from_database(w)
                \/ tg_messages_get_history(w) \/ Answer(w) \/ NoAnswer(w)
                \/ LoadDone(w) \/ SetRead(w) \/ SendFails(w)
       PROVE  UNCHANGED <<serverVars, rows, bubbles>>
  BY <1>15 DEF NoNetwork, tg_get_messages_from_database,
               tg_messages_get_history, Answer, NoAnswer, LoadDone, SetRead,
               SendFails
<1> QED
  BY <1>2, <1>3, <1>5, <1>6, <1>7, <1>8, <1>9, <1>10, <1>11, <1>12, <1>13,
     <1>14, <1>15, StepCases

\* The screen and the removals.
LEMMA ScreenStep ==
  ASSUME ChatTypeOK, Next
  PROVE  ScreenType'
<1> USE WorkerFacts
<1>1. ScreenType
  BY TypeParts
<1>2. Range(bubbles) \subseteq Message
  BY RangeType DEF ChatTypeOK
<1>3. ASSUME Tap
      PROVE  taps' \in 0 .. MaxTaps /\ run' \in 1 .. MaxRun /\ channel' = channel
  BY <1>1, <1>3, ChatAssumption DEF Tap, ScreenType
<1>4. ASSUME NEW op \in Operations, Enqueue(op) PROVE ops' \in Seq(Operations)
  BY <1>1, <1>4 DEF Enqueue, ScreenType
<1>5. CASE didEndDecelerating \/ inputButtonPressed \/ timer
  <2>1. \E op \in Operations : Enqueue(op)
    BY <1>5 DEF didEndDecelerating, inputButtonPressed, timer, Operations
  <2>2. Tap \/ UNCHANGED others
    BY <1>5 DEF didEndDecelerating, inputButtonPressed, timer
  <2>3. taps' \in 0 .. MaxTaps /\ run' \in 1 .. MaxRun /\ channel' = channel
    BY <1>1, <1>3, <2>2 DEF others, ScreenType
  <2>4. UNCHANGED <<mainVars, removalVars>>
    BY <1>5 DEF didEndDecelerating, inputButtonPressed, timer
  <2>5. ops' \in Seq(Operations)
    BY <1>4, <2>1
  <2> QED
    BY <1>1, <2>3, <2>4, <2>5, Zenon DEF ScreenType, mainVars, removalVars
<1>6. CASE authorizedAs
  BY <1>1, <1>6, Zenon DEF authorizedAs, ScreenType, removalVars, others, work
<1>7. ASSUME NEW m \in Range(bubbles), performSwipeToLeft(m) PROVE ScreenType'
  <2>1. m \in Message /\ chosen' = m /\ prompt' = [at |-> "sheet", msg |-> m]
    BY <1>2, <1>7 DEF performSwipeToLeft
  <2>2. hasty' \in BOOLEAN
    BY <1>7, Zenon DEF performSwipeToLeft
  <2>3. taps' \in 0 .. MaxTaps /\ run' \in 1 .. MaxRun /\ channel' = channel
    BY <1>3, <1>7 DEF performSwipeToLeft
  <2>4. prompt' \in [at : {"sheet", "ask"}, msg : Message]
    BY <2>1
  <2>5. UNCHANGED <<mainVars, work, removing, confirmed, deleted, gone, late>>
    BY <1>7 DEF performSwipeToLeft
  <2> QED
    BY <1>1, <2>1, <2>2, <2>3, <2>4, <2>5, Zenon DEF ScreenType, mainVars, work
<1>8. ASSUME prompt # None PROVE prompt \in [at : {"sheet", "ask"}, msg : Message]
  BY <1>1, <1>8 DEF ScreenType
<1>9. CASE askToRemoveMessage
  <2>1. prompt' = None \/ prompt' = [prompt EXCEPT !.at = "ask"]
    BY <1>9 DEF askToRemoveMessage
  <2>2. prompt \in [at : {"sheet", "ask"}, msg : Message]
    BY <1>8, <1>9 DEF askToRemoveMessage
  <2>3. prompt' \in [at : {"sheet", "ask"}, msg : Message] \cup {None}
    BY <2>1, <2>2
  <2>4. UNCHANGED <<mainVars, work, chosen, removing, confirmed, deleted, gone,
                    late, hasty, others>>
    BY <1>9 DEF askToRemoveMessage
  <2> QED
    BY <1>1, <2>3, <2>4, Zenon DEF ScreenType, mainVars, work, others
<1>10. CASE onYes
  <2>1. prompt.msg \in Message
    BY <1>8, <1>10 DEF onYes
  <2>2. ops' \in Seq(Operations)
    BY <1>4, <1>10 DEF onYes, Operations
  <2>3. /\ confirmed' = confirmed \cup {prompt.msg} /\ prompt' = None
        /\ UNCHANGED <<mainVars, chosen, removing, deleted, gone, late, hasty,
                       others>>
    BY <1>10 DEF onYes
  <2>4. confirmed' \subseteq Message
    BY <1>1, <2>1, <2>3 DEF ScreenType
  <2> QED
    BY <1>1, <2>2, <2>3, <2>4, Zenon DEF ScreenType, mainVars, others
<1>11. CASE onCancel
  BY <1>1, <1>11, Zenon DEF onCancel, ScreenType, mainVars, work, others
<1>12. CASE Start
  <2>1. ops' \in Seq(Operations)
    BY <1>1, <1>12 DEF Start, ScreenType
  <2> QED
    BY <1>1, <1>12, <2>1, Zenon DEF Start, ScreenType, mainVars, removalVars, others
<1>13. CASE DeleteAnswered \/ DeleteUnanswered
  <2>1. /\ deleted' \subseteq Message /\ removing' \in Message \cup {None}
    BY <1>1, <1>13 DEF DeleteAnswered, DeleteUnanswered, ToDelete, ScreenType
  <2>2. UNCHANGED <<mainVars, ops, prompt, chosen, confirmed, gone, late, hasty,
                    others>>
    BY <1>13 DEF DeleteAnswered, DeleteUnanswered
  <2> QED
    BY <1>1, <2>1, <2>2, Zenon DEF ScreenType, mainVars, others
<1>14. CASE DeleteRow
  <2>1. gone' \subseteq Message
    BY <1>1, <1>14 DEF DeleteRow, ScreenType
  <2>2. InHand \subseteq Message
    <3>1. \A d \in Doc : Range(todo[d]) \subseteq Message
      BY RangeType DEF ChatTypeOK
    <3> QED
      BY <3>1 DEF InHand, ChatTypeOK
  <2>3. late' \subseteq Message
    BY <1>1, <1>14, <2>2 DEF DeleteRow, ScreenType
  <2>4. /\ removing' = None
        /\ UNCHANGED <<mainVars, ops, prompt, chosen, confirmed, deleted, hasty,
                       others>>
    BY <1>14 DEF DeleteRow
  <2> QED
    BY <1>1, <2>1, <2>3, <2>4, Zenon DEF ScreenType, mainVars, others
<1>15. CASE ClearChosen
  BY <1>1, <1>15, Zenon DEF ClearChosen, ScreenType, mainVars, others
<1>16. CASE Restart
  <2>1. ops' \in Seq(Operations)
    BY <1>16 DEF Restart, Operations
  <2>2. run' \in 1 .. MaxRun
    BY <1>1, <1>16, ChatAssumption DEF Restart, ScreenType
  <2> QED
    BY <1>1, <1>16, <2>1, <2>2, Zenon DEF Restart, ScreenType
<1>17. ASSUME NEW m \in updates, updateShortChatMessage(m) PROVE ScreenType'
  <2>1. ops' \in Seq(Operations)
    BY <1>4, <1>17 DEF updateShortChatMessage, Operations
  <2> QED
    BY <1>1, <1>17, <2>1, Zenon DEF updateShortChatMessage, ScreenType, mainVars,
                                    removalVars, others
<1>18. CASE UNCHANGED <<mainVars, ops, removalVars, others>>
  BY <1>1, <1>18, Zenon DEF ScreenType, mainVars, removalVars, others
<1>19. ASSUME \/ Cut \/ Arrive \/ \E d \in Doc : sendDocument(d)
              \/ \E m \in updates : updateNewMessage(m)
       PROVE  ScreenType'
  <2>1. Tap \/ UNCHANGED others
    BY <1>19 DEF Cut, Arrive, sendDocument, updateNewMessage
  <2>2. taps' \in 0 .. MaxTaps /\ run' \in 1 .. MaxRun /\ channel' = channel
    BY <1>1, <1>3, <2>1 DEF others, ScreenType
  <2>3. UNCHANGED <<mainVars, ops, removalVars>>
    BY <1>19 DEF Cut, Arrive, sendDocument, updateNewMessage, work
  <2> QED
    BY <1>1, <2>2, <2>3, Zenon DEF ScreenType, mainVars, removalVars
<1>20. ASSUME \E w \in Worker :
                \/ NoNetwork(w) \/ tg_get_messages_from_database(w)
                \/ tg_messages_get_history(w) \/ Answer(w) \/ NoAnswer(w)
                \/ messages_callback(w) \/ AddBubble(w) \/ LoadDone(w)
                \/ SetRead(w) \/ tg_message_send(w) \/ SendFails(w)
       PROVE  UNCHANGED <<mainVars, ops, removalVars, others>>
  BY <1>20 DEF NoNetwork, tg_get_messages_from_database,
               tg_messages_get_history, Answer, NoAnswer, messages_callback,
               AddBubble, LoadDone, SetRead, tg_message_send, SendFails
<1> QED
  BY <1>5, <1>6, <1>7, <1>9, <1>10, <1>11, <1>12, <1>13, <1>14, <1>15, <1>16,
     <1>17, <1>18, <1>19, <1>20, StepCases

\* Every step keeps the type.
LEMMA TypeStep ==
  ASSUME ChatTypeOK, Phases, [Next]_vars
  PROVE  ChatTypeOK'
<1>1. CASE Next
  BY <1>1, PlaceStep, HandStep, StoreStep, ScreenStep, TypeParts
<1>2. CASE UNCHANGED vars
  BY <1>2 DEF vars, ChatTypeOK
<1> QED
  BY <1>1, <1>2

\* A step of an operation changes nothing of another.
LEMMA OwnStep ==
  ASSUME ChatTypeOK, NEW w \in Worker, Runs(w)
  PROVE  /\ \A v \in Worker : v # w => /\ pc'[v] = pc[v] /\ plan'[v] = plan[v]
                                       /\ todo'[v] = todo[v]
                                       /\ found'[v] = found[v]
         /\ UNCHANGED <<ops, updates, mainVars, removalVars, others>>
<1>1. /\ pc' = [pc EXCEPT ![w] = pc'[w]] /\ plan' = [plan EXCEPT ![w] = plan'[w]]
      /\ UNCHANGED <<ops, updates, mainVars, removalVars, others>>
  <2>1. CASE NoNetwork(w) \/ SetRead(w) \/ tg_message_send(w) \/ SendFails(w)
    BY <2>1 DEF NoNetwork, SetRead, tg_message_send, SendFails, EndPhase, Goto,
                ChatTypeOK, serverVars
  <2>2. CASE \/ tg_get_messages_from_database(w) \/ tg_messages_get_history(w)
             \/ Answer(w) \/ NoAnswer(w) \/ messages_callback(w) \/ AddBubble(w)
             \/ LoadDone(w)
    BY <2>2 DEF tg_get_messages_from_database, tg_messages_get_history, Answer,
                NoAnswer, messages_callback, AddBubble, LoadDone, Goto, ChatTypeOK,
                serverVars
  <2> QED
    BY <2>1, <2>2 DEF Runs, Step, Query
<1>2. todo' = [todo EXCEPT ![w] = todo'[w]] /\ found' = [found EXCEPT ![w] = found'[w]]
  <2>1. CASE \/ NoNetwork(w) \/ LoadDone(w) \/ tg_message_send(w) \/ SendFails(w)
             \/ tg_messages_get_history(w) \/ NoAnswer(w) \/ SetRead(w)
    BY <2>1 DEF NoNetwork, LoadDone, SetRead, tg_message_send, SendFails,
                tg_messages_get_history, NoAnswer, ChatTypeOK
  <2>2. CASE \/ tg_get_messages_from_database(w) \/ Answer(w)
             \/ messages_callback(w) \/ AddBubble(w)
    BY <2>2 DEF tg_get_messages_from_database, Answer, messages_callback,
                AddBubble, ChatTypeOK
  <2> QED
    BY <2>1, <2>2 DEF Runs, Step, Query
<1> QED
  BY <1>1, <1>2 DEF ChatTypeOK

\* A message in hand belongs to a load.
TodoPhase ==
  \A w \in Worker : /\ pc[w] \notin {"find", "add"} => todo[w] = <<>>
                    /\ pc[w] = "add" => todo[w] # <<>>
SyncPhase ==
  /\ pc[Sync] \in {"row", "clear"} => plan[Sync] = <<"delete">>
  /\ pc[Sync] \in {"ask", "find", "add", "mark"} =>
       Head(plan[Sync]) \in {"local", "remote", "older"}
  /\ pc[Sync] # "row" => removing = None

\* Every step keeps a worker inside the phases of its plan.
LEMMA PhasesStep ==
  ASSUME ChatTypeOK, Phases, Next
  PROVE  Phases'
<1> USE WorkerFacts
<1> SUFFICES TodoPhase' /\ SyncPhase'
  BY DEF Phases, TodoPhase, SyncPhase
<1>1. TodoPhase /\ SyncPhase
  BY DEF Phases, TodoPhase, SyncPhase
<1>2. ASSUME NEW w \in Worker, Runs(w)
      PROVE  /\ pc'[w] \notin {"find", "add"} => todo'[w] = <<>>
             /\ pc'[w] = "add" => todo'[w] # <<>>
             /\ pc'[w] \notin {"row", "clear"} /\ pc[w] \notin {"row", "clear"}
             /\ \/ /\ pc[w] \in {"ready", "ask", "find", "add", "mark"}
                   /\ plan'[w] = plan[w]
                   /\ pc[w] = "ready" => Head(plan[w]) \in {"local", "remote", "older"}
                \/ pc'[w] \in {"ready", "idle"}
  <2>1. CASE NoNetwork(w) \/ SetRead(w) \/ tg_message_send(w) \/ SendFails(w)
    <3>1. /\ EndPhase(w) /\ todo'[w] = todo[w] /\ todo[w] = <<>>
          /\ pc[w] \in {"ready", "mark"}
      BY <1>1, <2>1 DEF NoNetwork, SetRead, tg_message_send, SendFails, Loading,
                        Sending, TodoPhase
    <3>2. pc'[w] \in {"ready", "idle"}
      BY <3>1, EndPhaseFacts
    <3> QED
      BY <3>1, <3>2
  <2>2. CASE tg_get_messages_from_database(w)
    <3>1. Goto(w, "find") /\ UNCHANGED plan /\ Loading(w)
      BY <2>2 DEF tg_get_messages_from_database
    <3>2. pc'[w] = "find"
      BY <3>1, GotoFacts DEF Location
    <3> QED
      BY <3>1, <3>2 DEF Loading
  <2>3. CASE tg_messages_get_history(w)
    <3>1. Goto(w, "ask") /\ UNCHANGED <<plan, todo>> /\ Loading(w)
      BY <2>3 DEF tg_messages_get_history
    <3>2. pc'[w] = "ask" /\ todo[w] = <<>>
      BY <1>1, <3>1, GotoFacts DEF Location, Loading, TodoPhase
    <3> QED
      BY <3>1, <3>2 DEF Loading
  <2>4. CASE Answer(w) \/ NoAnswer(w)
    <3>1. Goto(w, "find") /\ UNCHANGED plan /\ pc[w] = "ask"
      BY <2>4 DEF Answer, NoAnswer
    <3>2. pc'[w] = "find"
      BY <3>1, GotoFacts DEF Location
    <3> QED
      BY <3>1, <3>2
  <2>5. CASE messages_callback(w)
    <3>1. /\ Goto(w, "add") /\ UNCHANGED <<plan, todo>> /\ pc[w] = "find"
          /\ todo[w] # <<>>
      BY <2>5 DEF messages_callback
    <3>2. pc'[w] = "add"
      BY <3>1, GotoFacts DEF Location
    <3> QED
      BY <3>1, <3>2
  <2>6. CASE AddBubble(w)
    <3>1. Goto(w, "find") /\ UNCHANGED plan /\ pc[w] = "add"
      BY <2>6 DEF AddBubble
    <3>2. pc'[w] = "find"
      BY <3>1, GotoFacts DEF Location
    <3> QED
      BY <3>1, <3>2
  <2>7. CASE LoadDone(w)
    <3>1. /\ Goto(w, "mark") /\ UNCHANGED <<plan, todo>> /\ pc[w] = "find"
          /\ todo[w] = <<>>
      BY <2>7 DEF LoadDone
    <3>2. pc'[w] = "mark"
      BY <3>1, GotoFacts DEF Location
    <3> QED
      BY <3>1, <3>2
  <2> QED
    BY <1>2, <2>1, <2>2, <2>3, <2>4, <2>5, <2>6, <2>7 DEF Runs, Step, Query
<1>3. ASSUME NEW w \in Worker, Runs(w) PROVE TodoPhase' /\ SyncPhase'
  <2>1. TodoPhase'
    BY <1>1, <1>2, <1>3, OwnStep DEF TodoPhase
  <2>2. UNCHANGED removing
    BY <1>3, OwnStep DEF removalVars
  <2>3. CASE w # Sync
    <3>1. pc'[Sync] = pc[Sync] /\ plan'[Sync] = plan[Sync]
      BY <1>3, <2>3, OwnStep
    <3> QED
      BY <1>1, <2>1, <2>2, <3>1 DEF SyncPhase
  <2>4. CASE w = Sync
    BY <1>1, <1>2, <1>3, <2>1, <2>2, <2>4 DEF SyncPhase
  <2> QED
    BY <2>3, <2>4
<1>4. ASSUME NEW l \in Location \ {"find", "add"}, pc'[Sync] = l,
             pc[Sync] \notin {"find", "add"}, UNCHANGED todo,
             \A v \in Worker : v # Sync => pc'[v] = pc[v]
      PROVE  TodoPhase'
  BY <1>1, <1>4 DEF TodoPhase
<1>5. CASE Start
  <2>1. Goto(Sync, "ready") /\ pc[Sync] = "idle" /\ UNCHANGED <<todo, removing>>
    BY <1>5 DEF Start, removalVars
  <2>2. pc'[Sync] = "ready" /\ \A v \in Worker : v # Sync => pc'[v] = pc[v]
    BY <2>1, GotoFacts DEF Location
  <2>3. TodoPhase'
    BY <1>4, <2>1, <2>2 DEF Location
  <2> QED
    BY <1>1, <2>1, <2>2, <2>3 DEF SyncPhase
<1>6. CASE Cut \/ ClearChosen
  <2>1. /\ EndPhase(Sync) /\ pc[Sync] \in {"ready", "clear"}
        /\ UNCHANGED <<todo, removing>>
    BY <1>6 DEF Cut, ClearChosen, removalVars
  <2>2. /\ pc'[Sync] \in {"ready", "idle"}
        /\ \A v \in Worker : v # Sync => pc'[v] = pc[v]
    BY <2>1, EndPhaseFacts
  <2>3. TodoPhase'
    BY <1>4, <2>1, <2>2 DEF Location
  <2> QED
    BY <1>1, <2>1, <2>2, <2>3 DEF SyncPhase
<1>7. CASE DeleteAnswered \/ DeleteUnanswered
  <2>1. /\ \/ Goto(Sync, "row")
           \/ Goto(Sync, "clear") /\ UNCHANGED removing
        /\ pc[Sync] = "ready" /\ UNCHANGED <<todo, plan>>
        /\ Head(plan[Sync]) = "delete"
    BY <1>7 DEF DeleteAnswered, DeleteUnanswered
  <2>2. /\ \/ pc'[Sync] = "row"
           \/ pc'[Sync] = "clear" /\ UNCHANGED removing
        /\ \A v \in Worker : v # Sync => pc'[v] = pc[v]
    BY <2>1, GotoFacts DEF Location
  <2>3. TodoPhase'
    BY <1>4, <2>1, <2>2 DEF Location
  <2>4. plan'[Sync] = <<"delete">>
    <3>1. plan[Sync] \in Plans /\ plan[Sync] # <<>>
      BY <2>1 DEF ChatTypeOK
    <3> QED
      BY <2>1, <3>1, PlanFacts
  <2>5. SyncPhase'
    BY <1>1, <2>1, <2>2, <2>4 DEF SyncPhase
  <2> QED
    BY <2>3, <2>5
<1>8. CASE DeleteRow
  <2>1. /\ Goto(Sync, "clear") /\ removing' = None
        /\ pc[Sync] = "row" /\ UNCHANGED <<todo, plan>>
    BY <1>8 DEF DeleteRow
  <2>2. pc'[Sync] = "clear" /\ \A v \in Worker : v # Sync => pc'[v] = pc[v]
    BY <2>1, GotoFacts DEF Location
  <2>3. TodoPhase'
    BY <1>4, <2>1, <2>2 DEF Location
  <2> QED
    BY <1>1, <2>1, <2>2, <2>3 DEF SyncPhase
<1>9. ASSUME NEW d \in Doc, sendDocument(d) PROVE TodoPhase' /\ SyncPhase'
  <2>1. /\ plan' = [plan EXCEPT ![d] = Send] /\ Goto(d, "ready") /\ d \in Worker
        /\ pc[d] = "new" /\ UNCHANGED <<todo, removing>> /\ d # Sync
    BY <1>9 DEF sendDocument, removalVars
  <2>2. pc'[d] = "ready" /\ \A v \in Worker : v # d => pc'[v] = pc[v]
    BY <2>1, GotoFacts DEF Location
  <2>3. plan'[Sync] = plan[Sync]
    BY <2>1 DEF ChatTypeOK
  <2>4. TodoPhase'
    BY <1>1, <2>1, <2>2 DEF TodoPhase
  <2> QED
    BY <1>1, <2>1, <2>2, <2>3, <2>4 DEF SyncPhase
<1>10. CASE Restart
  BY <1>10 DEF Restart, TodoPhase, SyncPhase
<1>11. CASE UNCHANGED <<pc, plan, todo, removing>>
  BY <1>1, <1>11 DEF TodoPhase, SyncPhase
<1>12. ASSUME \/ didEndDecelerating \/ inputButtonPressed \/ timer \/ authorizedAs
              \/ \E m \in Range(bubbles) : performSwipeToLeft(m)
              \/ askToRemoveMessage \/ onYes \/ onCancel \/ Arrive
              \/ \E m \in updates : updateNewMessage(m) \/ updateShortChatMessage(m)
       PROVE  UNCHANGED <<pc, plan, todo, removing>>
  BY <1>12 DEF didEndDecelerating, inputButtonPressed, timer, authorizedAs,
               performSwipeToLeft, askToRemoveMessage, onYes, onCancel, Arrive,
               updateNewMessage, updateShortChatMessage, Enqueue, work,
               removalVars
<1> QED
  BY <1>3, <1>5, <1>6, <1>7, <1>8, <1>9, <1>10, <1>11, <1>12
     DEF Next, SyncStep, Runs

\* Every state has its type, and the operations their phases.
THEOREM ChatTypeCorrect == Spec => [](ChatTypeOK /\ Phases)
<1>1. ChatTypeOK /\ Phases /\ [Next]_vars => (ChatTypeOK /\ Phases)'
  <2>1. CASE UNCHANGED vars
    BY <2>1 DEF vars, ChatTypeOK, Phases
  <2> QED
    BY <2>1, TypeStep, PhasesStep
<1> QED
  BY <1>1, InitType, PTL DEF Spec

(***************************************************************************)
(* A message is shown once.                                                *)
(***************************************************************************)

\* An operation that runs has been started.
LEMMA StepRuns ==
  ASSUME NEW w, Runs(w)
  PROVE  pc[w] \in {"ready", "ask", "find", "add", "mark"}
BY DEF Runs, Step, Query, SetRead, NoNetwork, tg_get_messages_from_database, tg_messages_get_history,
       Answer, NoAnswer, messages_callback, AddBubble, LoadDone,
       tg_message_send, SendFails, Loading, Sending

\* Where an operation is after a step of its own.
LEMMA StepPlace ==
  ASSUME ChatTypeOK, NEW w \in Worker, Runs(w)
  PROVE  /\ pc'[w] \in {"idle", "ready", "ask", "find", "add", "mark"}
         /\ pc'[w] = "add" => messages_callback(w)
<1>1. CASE NoNetwork(w) \/ SetRead(w) \/ tg_message_send(w) \/ SendFails(w)
  <2>1. EndPhase(w) /\ pc[w] \in {"ready", "mark"}
    BY <1>1 DEF NoNetwork, SetRead, tg_message_send, SendFails, Loading, Sending
  <2> QED
    BY <2>1, EndPhaseFacts
<1>2. CASE \/ tg_get_messages_from_database(w) \/ tg_messages_get_history(w)
           \/ Answer(w) \/ NoAnswer(w) \/ AddBubble(w) \/ LoadDone(w)
  <2>1. Goto(w, "find") \/ Goto(w, "ask") \/ Goto(w, "mark")
    BY <1>2 DEF tg_get_messages_from_database, tg_messages_get_history, Answer,
                NoAnswer, AddBubble, LoadDone
  <2> QED
    BY <2>1, GotoFacts DEF Location
<1>3. CASE messages_callback(w)
  BY <1>3, GotoFacts DEF messages_callback, Location
<1> QED
  BY <1>1, <1>2, <1>3 DEF Runs, Step, Query

\* Within a process a document once sent beside syncData stays sent.
LEMMA DocKept ==
  ASSUME ChatTypeOK, Next, ~Restart, DocSent
  PROVE  DocSent'
<1> USE WorkerFacts
<1>1. PICK d \in Doc : pc[d] # "new"
  BY DEF DocSent
<1> SUFFICES pc'[d] # "new"
  BY DEF DocSent
<1>2. ASSUME NEW w \in Worker, Runs(w) PROVE pc'[d] # "new"
  <2>1. pc'[w] # "new"
    BY <1>2, StepPlace
  <2>2. w # d => pc'[d] = pc[d]
    BY <1>2, OwnStep
  <2> QED
    BY <1>1, <2>1, <2>2
<1>3. CASE \/ Start \/ Cut \/ DeleteAnswered \/ DeleteUnanswered \/ DeleteRow
           \/ ClearChosen
  <2>1. \E l : Goto(Sync, l)
    BY <1>3 DEF Start, Cut, DeleteAnswered, DeleteUnanswered, DeleteRow,
                ClearChosen, EndPhase
  <2>2. pc'[d] = pc[d]
    BY <2>1 DEF Goto, ChatTypeOK
  <2> QED
    BY <1>1, <2>2
<1>4. ASSUME NEW e \in Doc, sendDocument(e) PROVE pc'[d] # "new"
  BY <1>1, <1>4 DEF sendDocument, Goto, ChatTypeOK
<1>5. CASE UNCHANGED pc
  BY <1>1, <1>5
<1>6. ASSUME \/ didEndDecelerating \/ inputButtonPressed \/ timer \/ authorizedAs
             \/ \E m \in Range(bubbles) : performSwipeToLeft(m)
             \/ askToRemoveMessage \/ onYes \/ onCancel \/ Arrive
             \/ \E m \in updates : updateNewMessage(m) \/ updateShortChatMessage(m)
      PROVE  UNCHANGED pc
  BY <1>6 DEF didEndDecelerating, inputButtonPressed, timer, authorizedAs,
              performSwipeToLeft, askToRemoveMessage, onYes, onCancel, Arrive,
              updateNewMessage, updateShortChatMessage, Enqueue, work
<1> QED
  BY <1>2, <1>3, <1>4, <1>5, <1>6 DEF Next, SyncStep, Runs

\* Without a document sent, every worker step is one of syncData.
LEMMA OnlySyncRuns ==
  ASSUME ~DocSent, NEW w \in Worker, Runs(w)
  PROVE  w = Sync
BY StepRuns DEF DocSent, Worker

\* The screen does not change, nor what the operation of syncData is at.
LEMMA Elsewhere ==
  ASSUME \/ didEndDecelerating \/ inputButtonPressed \/ timer \/ authorizedAs
         \/ \E m \in Range(bubbles) : performSwipeToLeft(m)
         \/ askToRemoveMessage \/ onYes \/ onCancel \/ Arrive
         \/ \E m \in updates : updateNewMessage(m) \/ updateShortChatMessage(m)
  PROVE  UNCHANGED <<pc, plan, todo, found, bubbles, removing, deleted, gone, late>>
BY DEF didEndDecelerating, inputButtonPressed, timer, authorizedAs,
       performSwipeToLeft, askToRemoveMessage, onYes, onCancel, Arrive,
       updateNewMessage, updateShortChatMessage, Enqueue, work, removalVars

\* What the lookup of messages_callback found out stays true.
LEMMA FoundStep ==
  ASSUME ChatTypeOK, Phases, FoundIsShown, Next
  PROVE  FoundIsShown'
<1> USE WorkerFacts
<1>1. CASE Restart
  BY <1>1, EmptyRange DEF Restart, FoundIsShown
<1>2. CASE DocSent /\ ~Restart
  BY <1>2, DocKept DEF FoundIsShown
<1>3. CASE \E d \in Doc : sendDocument(d)
  <2>1. PICK d \in Doc : sendDocument(d)
    BY <1>3
  <2>2. pc'[d] = "ready"
    BY <2>1, GotoFacts DEF sendDocument, Location
  <2> QED
    BY <2>2 DEF FoundIsShown, DocSent
<1>4. ASSUME ~DocSent
      PROVE  /\ IsInjective(bubbles) /\ bubbles \in Seq(Message)
             /\ pc[Sync] = "add" =>
                  (found[Sync] <=> Head(todo[Sync]) \in Range(bubbles))
  BY <1>4 DEF FoundIsShown, ChatTypeOK
<1>5. ASSUME IsInjective(bubbles'), pc'[Sync] # "add" PROVE FoundIsShown'
  BY <1>5 DEF FoundIsShown
<1>6. CASE ~DocSent /\ Cut
  <2>1. IsInjective(bubbles')
    BY <1>4, <1>6, WithoutFacts DEF Cut
  <2>2. pc'[Sync] # "add"
    BY <1>6, EndPhaseFacts DEF Cut
  <2> QED
    BY <1>5, <2>1, <2>2
<1>7. CASE /\ ~DocSent
           /\ \/ Start \/ DeleteAnswered \/ DeleteUnanswered \/ DeleteRow
              \/ ClearChosen
  <2>1. /\ UNCHANGED bubbles
        /\ \E l \in {"idle", "ready", "row", "clear"} : Goto(Sync, l)
    BY <1>7 DEF Start, DeleteAnswered, DeleteUnanswered, DeleteRow, ClearChosen,
                EndPhase
  <2>2. pc'[Sync] # "add"
    BY <2>1, GotoFacts DEF Location
  <2> QED
    BY <1>4, <1>5, <1>7, <2>1, <2>2
<1>8. CASE ~DocSent /\ Runs(Sync)
  <2>1. CASE messages_callback(Sync)
    <3>1. /\ found' = [found EXCEPT ![Sync] = Head(todo[Sync]) \in Range(bubbles)]
          /\ UNCHANGED <<todo, bubbles>>
      BY <2>1 DEF messages_callback, IsShown
    <3>2. found'[Sync] <=> Head(todo[Sync]) \in Range(bubbles)
      BY <3>1, Zenon DEF ChatTypeOK
    <3> QED
      BY <1>4, <1>8, <3>1, <3>2 DEF FoundIsShown
  <2>2. CASE AddBubble(Sync)
    <3>1. /\ pc[Sync] = "add"
          /\ bubbles' = IF found[Sync] THEN bubbles
                        ELSE Append(bubbles, Head(todo[Sync]))
      BY <2>2 DEF AddBubble
    <3>2. todo[Sync] # <<>> /\ todo[Sync] \in Seq(Message)
      BY <3>1 DEF Phases, ChatTypeOK
    <3>3. Head(todo[Sync]) \in Message
      BY <3>2, HeadTail
    <3>4. IsInjective(bubbles')
      <4>1. CASE found[Sync]
        BY <1>4, <1>8, <3>1, <4>1
      <4>2. CASE ~found[Sync]
        BY <1>4, <1>8, <3>1, <3>3, <4>2, AppendRange
      <4> QED
        BY <4>1, <4>2
    <3>5. pc'[Sync] # "add"
      BY <2>2, GotoFacts DEF AddBubble, Location
    <3> QED
      BY <1>5, <3>4, <3>5
  <2>3. CASE ~messages_callback(Sync) /\ ~AddBubble(Sync)
    <3>1. UNCHANGED bubbles
      BY <1>8, <2>3 DEF Runs, Step, Query, SetRead, NoNetwork, tg_get_messages_from_database,
         tg_messages_get_history, Answer, NoAnswer, LoadDone, SetRead, tg_message_send,
         SendFails
    <3>2. pc'[Sync] # "add"
      BY <1>8, <2>3, StepPlace
    <3> QED
      BY <1>4, <1>5, <1>8, <3>1, <3>2
  <2> QED
    BY <2>1, <2>2, <2>3
<1>9. CASE UNCHANGED <<pc, todo, found, bubbles>>
  BY <1>9 DEF FoundIsShown, DocSent
<1> QED
  BY <1>1, <1>2, <1>3, <1>6, <1>7, <1>8, <1>9, Elsewhere, OnlySyncRuns
     DEF Next, SyncStep, Runs

\* However loads, rows and updates overlap, a message is shown once, unless a
\* document is sent beside them.
THEOREM ShowsOnce == Spec => []ShownOnce
<1>1. Init => FoundIsShown
  BY EmptyRange, WorkerFacts DEF Init, FoundIsShown
<1>2. ChatTypeOK /\ Phases /\ FoundIsShown /\ [Next]_vars => FoundIsShown'
  <2>1. CASE UNCHANGED vars
    BY <2>1 DEF vars, FoundIsShown, DocSent
  <2> QED
    BY <2>1, FoundStep
<1>3. FoundIsShown => ShownOnce
  BY DEF FoundIsShown, ShownOnce
<1> QED
  BY <1>1, <1>2, <1>3, ChatTypeCorrect, PTL DEF Spec

(***************************************************************************)
(* The server deletes what was confirmed.                                  *)
(***************************************************************************)

\* The other operations are no removals.
LEMMA NotRemoval ==
  Reload # Removal /\ Load # Removal /\ More # Removal /\ Send # Removal
BY DEF Reload, Load, More, Send, Removal

\* The current operation is a removal.
Removes == plan[Sync] # <<>> /\ Head(plan[Sync]) \in {"cut", "delete"}

\* A removal is pending in the queue or in the hands of syncData.
LEMMA PendingParts ==
  /\ RemovalPending <=> Removal \in Range(ops) \/ Removes
  /\ RemovalPending' <=> Removal \in Range(ops') \/ Removes'
BY RemovalRange DEF RemovalPending, Removes

\* Only an answer "yes" makes a removal.
LEMMA NotPendingStep ==
  ASSUME ChatTypeOK, Phases, Next, ~onYes, ~RemovalPending
  PROVE  ~RemovalPending'
<1> USE WorkerFacts
<1>1. ops \in Seq(Operations) /\ Removal \notin Range(ops) /\ ~Removes
  BY PendingParts DEF ChatTypeOK
<1> SUFFICES Removal \notin Range(ops') /\ ~Removes'
  BY PendingParts
<1>2. ASSUME NEW op \in Operations \ {Removal}, Enqueue(op)
      PROVE  Removal \notin Range(ops') /\ ~Removes'
  <2>1. ops' = Append(ops, op) /\ UNCHANGED plan
    BY <1>2 DEF Enqueue
  <2>2. Range(ops') = Range(ops) \cup {op}
    BY <1>1, <2>1, AppendRange
  <2> QED
    BY <1>1, <2>1, <2>2 DEF Removes
<1>3. ASSUME EndPhase(Sync), UNCHANGED ops, pc[Sync] \notin {"new", "idle"}
      PROVE  Removal \notin Range(ops') /\ ~Removes'
  <2>1. plan[Sync] \in Plans /\ plan[Sync] # <<>> /\ plan'[Sync] = Tail(plan[Sync])
    BY <1>3, EndPhaseFacts
  <2>2. Head(plan[Sync]) \notin {"cut", "delete"}
    BY <1>1, <2>1 DEF Removes
  <2>3. Tail(plan[Sync]) = <<>> \/ Head(Tail(plan[Sync])) \in {"remote", "older"}
    BY <2>1, <2>2, PlanFacts
  <2> QED
    BY <1>1, <1>3, <2>1, <2>3 DEF Removes
<1>4. ASSUME UNCHANGED ops, plan'[Sync] = plan[Sync]
      PROVE  Removal \notin Range(ops') /\ ~Removes'
  BY <1>1, <1>4 DEF Removes
<1>5. CASE \/ didEndDecelerating \/ inputButtonPressed \/ timer
           \/ \E m \in updates : updateShortChatMessage(m)
  <2>1. Enqueue(Load) \/ Enqueue(More) \/ Enqueue(Send)
    BY <1>5 DEF didEndDecelerating, inputButtonPressed, timer,
                updateShortChatMessage
  <2>2. {Load, More, Send} \subseteq Operations \ {Removal}
    BY NotRemoval DEF Operations
  <2> QED
    BY <1>2, <2>1, <2>2
<1>6. CASE Start
  <2>1. /\ ops # <<>> /\ plan' = [plan EXCEPT ![Sync] = Head(ops)]
        /\ ops' = Tail(ops)
    BY <1>6 DEF Start
  <2>2. /\ Head(ops) \in Operations /\ Head(ops) \in Range(ops)
        /\ Range(Tail(ops)) \subseteq Range(ops)
    BY <1>1, <2>1, HeadTail
  <2>3. Head(Head(ops)) \notin {"cut", "delete"}
    BY <1>1, <2>2, RemovalRange
  <2>4. plan'[Sync] = Head(ops)
    BY <2>1 DEF ChatTypeOK
  <2> QED
    BY <1>1, <2>1, <2>2, <2>3, <2>4 DEF Removes
<1>7. CASE Cut \/ ClearChosen
  BY <1>3, <1>7 DEF Cut, ClearChosen
<1>8. ASSUME NEW w \in Worker, Runs(w)
      PROVE  Removal \notin Range(ops') /\ ~Removes'
  <2>1. UNCHANGED ops
    BY <1>8, OwnStep
  <2>2. CASE w # Sync
    <3>1. plan'[Sync] = plan[Sync]
      BY <1>8, <2>2, OwnStep
    <3> QED
      BY <1>4, <2>1, <3>1
  <2>3. CASE w = Sync
    <3>1. EndPhase(Sync) \/ UNCHANGED plan
      BY <1>8, <2>3 DEF Runs, Step, Query, SetRead, NoNetwork, tg_get_messages_from_database,
         tg_messages_get_history, Answer, NoAnswer, messages_callback,
         AddBubble, LoadDone, SetRead, tg_message_send, SendFails
    <3>2. pc[Sync] \notin {"new", "idle"}
      BY <1>8, <2>3, StepRuns
    <3> QED
      BY <1>3, <1>4, <2>1, <3>1, <3>2
  <2> QED
    BY <2>2, <2>3
<1>9. CASE Restart
  <2>1. ops' = <<Reload>> /\ plan'[Sync] = <<>>
    BY <1>9 DEF Restart
  <2>2. Range(<<Reload>>) = {Reload}
    BY DEF Range
  <2> QED
    BY <2>1, <2>2, NotRemoval DEF Removes
<1>10. ASSUME NEW d \in Doc, sendDocument(d)
       PROVE  Removal \notin Range(ops') /\ ~Removes'
  <2>1. UNCHANGED ops /\ plan' = [plan EXCEPT ![d] = Send] /\ d # Sync
    BY <1>10 DEF sendDocument
  <2>2. plan'[Sync] = plan[Sync]
    BY <2>1 DEF ChatTypeOK
  <2> QED
    BY <1>4, <2>1, <2>2
<1>11. ASSUME \/ DeleteAnswered \/ DeleteUnanswered \/ DeleteRow
              \/ authorizedAs \/ \E m \in Range(bubbles) : performSwipeToLeft(m)
              \/ askToRemoveMessage \/ onCancel \/ Arrive
              \/ \E m \in updates : updateNewMessage(m)
       PROVE  UNCHANGED <<ops, plan>>
  BY <1>11 DEF DeleteAnswered, DeleteUnanswered, DeleteRow, authorizedAs,
               performSwipeToLeft, askToRemoveMessage, onCancel, Arrive,
               updateNewMessage, work
<1> QED
  BY <1>4, <1>5, <1>6, <1>7, <1>8, <1>9, <1>10, <1>11 DEF Next, SyncStep, Runs

\* A second choice during a removal is never forgotten.
LEMMA HastyKept ==
  ASSUME ChatTypeOK, Next, hasty
  PROVE  hasty'
<1> USE WorkerFacts
<1>1. CASE \E m \in Range(bubbles) : performSwipeToLeft(m)
  BY <1>1, Zenon DEF performSwipeToLeft
<1>2. CASE \E w \in Worker : Runs(w)
  BY <1>2, OwnStep DEF removalVars
<1>3. CASE \/ didEndDecelerating \/ inputButtonPressed \/ timer
           \/ authorizedAs \/ askToRemoveMessage \/ onYes \/ onCancel
           \/ Arrive \/ Restart \/ \E d \in Doc : sendDocument(d)
           \/ \E m \in updates : updateNewMessage(m) \/ updateShortChatMessage(m)
  BY <1>3 DEF didEndDecelerating, inputButtonPressed, timer,
     authorizedAs, askToRemoveMessage, onYes, onCancel, Arrive, Restart,
     sendDocument, updateNewMessage, updateShortChatMessage, removalVars
<1>4. CASE \/ Start \/ Cut \/ DeleteAnswered \/ DeleteUnanswered
           \/ DeleteRow \/ ClearChosen
  BY <1>4 DEF Start, Cut, DeleteAnswered, DeleteUnanswered, DeleteRow,
     ClearChosen, removalVars
<1> QED
  BY <1>1, <1>2, <1>3, <1>4 DEF Next, SyncStep, Runs

\* Without a second choice messageToRemove stays the confirmed one.
LEMMA ChosenStep ==
  ASSUME ChatTypeOK, Phases, ChosenIsAsked, Next
  PROVE  ChosenIsAsked'
<1> USE WorkerFacts
<1>1. CASE hasty
  <2>1. hasty'
    BY <1>1, HastyKept
  <2> QED
    BY <2>1 DEF ChosenIsAsked
<1>2. CASE ~hasty
  <2>1. /\ deleted \subseteq confirmed
        /\ prompt # None => chosen = prompt.msg /\ ~RemovalPending
        /\ RemovalPending => chosen \in confirmed \cup {None}
    BY <1>2 DEF ChosenIsAsked
  <2>2. ~RemovalPending /\ ~onYes => ~RemovalPending'
    BY NotPendingStep
  <2>3. ASSUME NEW m \in Range(bubbles), performSwipeToLeft(m)
        PROVE  ChosenIsAsked'
    <3>1. CASE RemovalPending
      BY <2>3, <3>1, Zenon DEF performSwipeToLeft, ChosenIsAsked
    <3>2. CASE ~RemovalPending
      <4>1. ~RemovalPending'
        BY <2>3, <3>2 DEF performSwipeToLeft, RemovalPending, work
      <4>2. /\ chosen' = m /\ prompt' = [at |-> "sheet", msg |-> m]
            /\ UNCHANGED <<deleted, confirmed>>
        BY <2>3 DEF performSwipeToLeft
      <4> QED
        BY <2>1, <4>1, <4>2 DEF ChosenIsAsked
    <3> QED
      BY <3>1, <3>2
  <2>4. CASE askToRemoveMessage \/ onCancel
    <3>1. /\ \/ prompt' = None
             \/ prompt # None /\ prompt' = [prompt EXCEPT !.at = "ask"]
          /\ UNCHANGED <<chosen, deleted, confirmed, ops, plan>>
      BY <2>4 DEF askToRemoveMessage, onCancel, work
    <3>2. ASSUME prompt # None PROVE [prompt EXCEPT !.at = "ask"].msg = prompt.msg
      BY <3>2 DEF ChatTypeOK
    <3>3. RemovalPending' <=> RemovalPending
      BY <3>1 DEF RemovalPending
    <3>4. prompt' # None => chosen' = prompt'.msg /\ ~RemovalPending'
      BY <2>1, <3>1, <3>2, <3>3
    <3> QED
      BY <2>1, <3>1, <3>3, <3>4 DEF ChosenIsAsked
  <2>5. CASE onYes
    <3>1. /\ prompt # None /\ prompt' = None /\ confirmed' = confirmed \cup {prompt.msg}
          /\ UNCHANGED <<chosen, deleted>>
      BY <2>5 DEF onYes
    <3> QED
      BY <2>1, <3>1 DEF ChosenIsAsked
  <2>6. CASE DeleteAnswered \/ DeleteUnanswered
    <3>1. /\ pc[Sync] = "ready" /\ Head(plan[Sync]) = "delete"
          /\ deleted' \subseteq deleted \cup ({chosen} \ {None})
          /\ UNCHANGED <<prompt, chosen, confirmed, ops, plan>>
      BY <2>6 DEF DeleteAnswered, DeleteUnanswered, ToDelete
    <3>2. plan[Sync] # <<>>
      BY <3>1 DEF ChatTypeOK
    <3>3. RemovalPending
      BY <3>1, <3>2, PendingParts DEF Removes
    <3>4. RemovalPending'
      BY <3>1, <3>3 DEF RemovalPending
    <3> QED
      BY <2>1, <3>1, <3>3, <3>4 DEF ChosenIsAsked
  <2>7. CASE ClearChosen
    <3>1. pc[Sync] = "clear" /\ chosen' = None /\ UNCHANGED <<prompt, deleted, confirmed>>
      BY <2>7 DEF ClearChosen
    <3>2. plan[Sync] = <<"delete">>
      BY <3>1 DEF Phases
    <3>3. RemovalPending
      BY <3>2, PendingParts DEF Removes
    <3> QED
      BY <2>1, <3>1, <3>3 DEF ChosenIsAsked
  <2>8. CASE Restart
    BY <2>1, <2>8 DEF Restart, ChosenIsAsked
  <2>9. ASSUME UNCHANGED <<prompt, chosen, deleted, confirmed>>, ~onYes
        PROVE  ChosenIsAsked'
    BY <2>1, <2>2, <2>9 DEF ChosenIsAsked
  <2>10. CASE \E w \in Worker : Runs(w)
    <3>1. UNCHANGED <<prompt, chosen, deleted, confirmed>>
      BY <2>10, OwnStep DEF removalVars
    <3> QED
      BY <2>5, <2>9, <3>1
  <2>11. ASSUME \/ didEndDecelerating \/ inputButtonPressed \/ timer
                \/ authorizedAs \/ Arrive \/ \E d \in Doc : sendDocument(d)
                \/ \E m \in updates : updateNewMessage(m) \/ updateShortChatMessage(m)
                \/ Start \/ Cut \/ DeleteRow
         PROVE  UNCHANGED <<prompt, chosen, deleted, confirmed>>
    BY <2>11 DEF didEndDecelerating, inputButtonPressed, timer, authorizedAs,
       Arrive, sendDocument, updateNewMessage, updateShortChatMessage, Start,
       Cut, DeleteRow, removalVars
  <2> QED
    BY <2>3, <2>4, <2>5, <2>6, <2>7, <2>8, <2>9, <2>10, <2>11 DEF Next, SyncStep, Runs
<1> QED
  BY <1>1, <1>2

\* Without a choice made in haste, the server deletes only what the user has
\* confirmed.
THEOREM DeletesTheConfirmed == Spec => []OnlyConfirmed
<1>1. Init => ChosenIsAsked
  <2>1. ASSUME Init PROVE ChosenIsAsked
    BY <2>1 DEF Init, ChosenIsAsked
  <2> QED
    BY <2>1
<1>2. ChatTypeOK /\ Phases /\ ChosenIsAsked /\ [Next]_vars => ChosenIsAsked'
  <2>1. CASE UNCHANGED vars
    BY <2>1 DEF vars, ChosenIsAsked, RemovalPending
  <2> QED
    BY <2>1, ChosenStep
<1>3. ChosenIsAsked => OnlyConfirmed
  BY DEF ChosenIsAsked, OnlyConfirmed
<1> QED
  BY <1>1, <1>2, <1>3, ChatTypeCorrect, PTL DEF Spec

(***************************************************************************)
(* A message that was removed stays away.                                  *)
(***************************************************************************)

\* A new message is the last one.
LEMMA LastGrows ==
  ASSUME ChatTypeOK, Next
  PROVE  /\ last' \in {last, last + 1} /\ 1 .. last \subseteq 1 .. last'
         /\ last' # last => last' \in 1 .. last' /\ last' \notin 1 .. last
<1>1. last' \in {last, last + 1}
  BY StepCases DEF didEndDecelerating, inputButtonPressed, timer, authorizedAs,
     performSwipeToLeft, askToRemoveMessage, onYes, onCancel, Start, Cut,
     DeleteAnswered, DeleteUnanswered, DeleteRow, ClearChosen, Arrive, Restart,
     sendDocument, updateNewMessage, updateShortChatMessage, NoNetwork,
     tg_get_messages_from_database, tg_messages_get_history, Answer, NoAnswer,
     messages_callback, AddBubble, LoadDone, SetRead, tg_message_send, SendFails,
     serverVars
<1>2. last \in Nat
  BY ChatAssumption DEF ChatTypeOK
<1> QED
  BY <1>1, <1>2

\* What a step of an operation adds, and from where.
LEMMA StepAdds ==
  ASSUME ChatTypeOK, Phases, NEW w \in Worker, Runs(w)
  PROVE  /\ \/ last' = last /\ server' = server
            \/ last' = last + 1 /\ server' = server \cup {last + 1}
         /\ Range(rows') \subseteq Range(rows) \cup Range(todo[w])
                                    \cup ({last'} \ {last})
         /\ Range(bubbles') \subseteq Range(bubbles) \cup Range(todo[w])
         /\ Range(todo'[w]) \subseteq Range(todo[w]) \cup Range(rows) \cup server
<1>1. /\ todo \in [Worker -> Seq(Message)] /\ todo[w] \in Seq(Message)
      /\ rows \in Seq(Message) /\ IsInjective(rows) /\ bubbles \in Seq(Message)
      /\ last \in Nat
  BY ChatAssumption DEF ChatTypeOK
<1>2. CASE tg_get_messages_from_database(w)
  <2>1. /\ todo' = [todo EXCEPT ![w] = First(rows, LocalLimit)]
        /\ UNCHANGED <<last, server, rows, bubbles>>
    BY <1>2 DEF tg_get_messages_from_database, serverVars
  <2>2. Range(First(rows, LocalLimit)) \subseteq Range(rows)
    BY <1>1, ChatAssumption, FirstFacts
  <2>3. todo'[w] = First(rows, LocalLimit)
    BY <1>1, <2>1
  <2> QED
    BY <2>1, <2>2, <2>3
<1>3. CASE Answer(w)
  <2>1. PICK page \in Page(offset[w]) : todo' = [todo EXCEPT ![w] = page]
    BY <1>3 DEF Answer
  <2>2. Range(page) \subseteq server
    BY PageFacts DEF ChatTypeOK
  <2>3. todo'[w] = page
    BY <1>1, <2>1
  <2>4. UNCHANGED <<last, server, rows, bubbles>>
    BY <1>3 DEF Answer, serverVars
  <2> QED
    BY <2>2, <2>3, <2>4
<1>4. CASE messages_callback(w)
  <2>1. /\ rows' \in {rows, Stored(Head(todo[w]))} /\ todo[w] # <<>>
        /\ UNCHANGED <<last, server, bubbles, todo>>
    BY <1>4 DEF messages_callback, serverVars
  <2>2. Head(todo[w]) \in Message /\ Head(todo[w]) \in Range(todo[w])
    BY <1>1, <2>1, HeadTail
  <2>3. Range(rows') \subseteq Range(rows) \cup {Head(todo[w])}
    BY <1>1, <2>1, <2>2, StoredFacts
  <2> QED
    BY <2>1, <2>2, <2>3
<1>5. CASE AddBubble(w)
  <2>1. /\ bubbles' \in {bubbles, Append(bubbles, Head(todo[w]))} /\ pc[w] = "add"
        /\ todo' = [todo EXCEPT ![w] = Tail(todo[w])]
        /\ UNCHANGED <<last, server, rows>>
    BY <1>5 DEF AddBubble, serverVars
  <2>2. todo[w] # <<>>
    BY <2>1 DEF Phases
  <2>3. /\ Head(todo[w]) \in Message /\ Head(todo[w]) \in Range(todo[w])
        /\ Range(Tail(todo[w])) \subseteq Range(todo[w])
    BY <1>1, <2>2, HeadTail
  <2>4. Range(bubbles') \subseteq Range(bubbles) \cup {Head(todo[w])}
    <3> HIDE DEF Range
    <3>1. CASE bubbles' = bubbles
      BY <3>1, Zenon
    <3>2. CASE bubbles' = Append(bubbles, Head(todo[w]))
      <4>1. bubbles \in Seq(Message) /\ Head(todo[w]) \in Message
        BY <1>1, <2>3
      <4>2. Range(Append(bubbles, Head(todo[w])))
              = Range(bubbles) \cup {Head(todo[w])}
        BY <4>1, AppendRange
      <4> QED
        BY <3>2, <4>2, Zenon
    <3> QED
      BY <2>1, <3>1, <3>2, Zenon
  <2>5. todo'[w] = Tail(todo[w])
    BY <1>1, <2>1
  <2> QED
    BY <2>1, <2>3, <2>4, <2>5
<1>6. CASE tg_message_send(w)
  <2>1. /\ last' = last + 1 /\ server' = server \cup {last + 1} /\ last < MaxMsg
        /\ rows' \in {rows, Stored(last + 1)} /\ UNCHANGED <<bubbles, todo>>
    BY <1>6 DEF tg_message_send
  <2>2. last + 1 \in Message /\ last' # last
    BY <1>1, <2>1, ChatAssumption DEF Message
  <2>3. Range(rows') \subseteq Range(rows) \cup {last + 1}
    BY <1>1, <2>1, <2>2, StoredFacts
  <2> QED
    BY <2>1, <2>2, <2>3
<1>7. CASE \/ NoNetwork(w) \/ tg_messages_get_history(w) \/ NoAnswer(w)
           \/ LoadDone(w) \/ SetRead(w) \/ SendFails(w)
  BY <1>7 DEF NoNetwork, tg_messages_get_history, NoAnswer, LoadDone, SetRead,
              SendFails, serverVars
<1> QED
  BY <1>2, <1>3, <1>4, <1>5, <1>6, <1>7 DEF Runs, Step, Query

\* What else a step changes of the messages: nothing is added but a new
\* message, and a stored update.
LEMMA OthersAdd ==
  ASSUME ChatTypeOK, Phases, Next, \A w \in Worker : ~Runs(w)
  PROVE  /\ server' \subseteq server \cup ({last'} \ {last})
         /\ updates' \subseteq updates \cup ({last'} \ {last})
         /\ Range(rows') \subseteq Range(rows) \cup updates
         /\ Range(bubbles') \subseteq Range(bubbles)
         /\ \A w \in Worker : Range(todo'[w]) \subseteq Range(todo[w])
<1> USE WorkerFacts
<1>1. /\ rows \in Seq(Message) /\ IsInjective(rows) /\ bubbles \in Seq(Message)
      /\ updates \subseteq Message /\ last \in Nat
  BY ChatAssumption DEF ChatTypeOK
<1>2. CASE Arrive
  BY <1>1, <1>2 DEF Arrive, work
<1>3. ASSUME NEW m \in updates, updateNewMessage(m)
      PROVE  /\ Range(rows') \subseteq Range(rows) \cup updates
             /\ updates' \subseteq updates /\ UNCHANGED <<server, bubbles, todo>>
  <2>1. Range(Stored(m)) = Range(rows) \cup {m}
    BY <1>1, <1>3, StoredFacts
  <2> QED
    BY <1>3, <2>1 DEF updateNewMessage, work
<1>4. CASE Cut
  <2>1. Range(bubbles') \subseteq Range(bubbles)
    BY <1>1, <1>4, WithoutFacts DEF Cut
  <2> QED
    BY <1>4, <2>1 DEF Cut, serverVars
<1>5. CASE DeleteRow
  <2>1. Range(rows') \subseteq Range(rows)
    BY <1>1, <1>5, WithoutFacts DEF DeleteRow, WithoutRow
  <2> QED
    BY <1>5, <2>1 DEF DeleteRow, serverVars
<1>6. CASE Restart
  BY <1>6, EmptyRange DEF Restart
<1>7. CASE DeleteAnswered \/ DeleteUnanswered
  BY <1>7 DEF DeleteAnswered, DeleteUnanswered, Remaining
<1>8. ASSUME \/ didEndDecelerating \/ inputButtonPressed \/ timer \/ authorizedAs
             \/ \E m \in Range(bubbles) : performSwipeToLeft(m)
             \/ askToRemoveMessage \/ onYes \/ onCancel \/ Start \/ ClearChosen
             \/ \E d \in Doc : sendDocument(d)
             \/ \E m \in updates : updateShortChatMessage(m)
      PROVE  /\ updates' \subseteq updates
             /\ UNCHANGED <<server, rows, bubbles, todo>>
  BY <1>8 DEF didEndDecelerating, inputButtonPressed, timer, authorizedAs,
     performSwipeToLeft, askToRemoveMessage, onYes, onCancel, Start,
     ClearChosen, sendDocument, updateShortChatMessage, Enqueue, work,
     serverVars
<1> QED
  BY <1>2, <1>3, <1>4, <1>5, <1>6, <1>7, <1>8 DEF Next, SyncStep, Runs

\* What becomes of the removal.
LEMMA RemovalMoves ==
  ASSUME ChatTypeOK, Next
  PROVE  \/ DeleteRow
         \/ UNCHANGED gone /\ UNCHANGED late
             /\ \/ DeleteAnswered
                \/ Restart
                \/ UNCHANGED removing
                     /\ \/ UNCHANGED chosen
                        \/ ClearChosen
                        \/ \E m \in Range(bubbles) : performSwipeToLeft(m)
<1> USE WorkerFacts
<1>1. CASE \E w \in Worker : Runs(w)
  BY <1>1, OwnStep DEF removalVars
<1>2. CASE \/ didEndDecelerating \/ inputButtonPressed \/ timer \/ authorizedAs
           \/ \E m \in Range(bubbles) : performSwipeToLeft(m)
           \/ askToRemoveMessage \/ onYes \/ onCancel \/ Arrive \/ Restart
           \/ \E d \in Doc : sendDocument(d)
           \/ \E m \in updates : updateNewMessage(m) \/ updateShortChatMessage(m)
  BY <1>2 DEF didEndDecelerating, inputButtonPressed, timer, authorizedAs,
     performSwipeToLeft, askToRemoveMessage, onYes, onCancel, Arrive, Restart,
     sendDocument, updateNewMessage, updateShortChatMessage, removalVars
<1>3. CASE \/ Start \/ Cut \/ DeleteAnswered \/ DeleteUnanswered \/ DeleteRow
           \/ ClearChosen
  BY <1>3 DEF Start, Cut, DeleteAnswered, DeleteUnanswered, ClearChosen,
              removalVars
<1> QED
  BY <1>1, <1>2, <1>3 DEF Next, SyncStep, Runs

\* No step puts a message anywhere before the server has it.
LEMMA SentStep ==
  ASSUME ChatTypeOK, Phases, Sent, Next
  PROVE  Sent'
<1> USE WorkerFacts
<1>1. /\ 1 .. last \subseteq 1 .. last'
      /\ last' # last => last' \in 1 .. last'
      /\ last' \in {last, last + 1}
  BY LastGrows
<1>2. /\ server' \cup updates' \cup Range(rows') \cup Range(bubbles')
           \subseteq 1 .. last'
      /\ \A w \in Worker : Range(todo'[w]) \subseteq 1 .. last'
  <2>1. ASSUME NEW w \in Worker, Runs(w)
        PROVE  /\ server' \cup updates' \cup Range(rows') \cup Range(bubbles')
                    \subseteq 1 .. last'
               /\ \A v \in Worker : Range(todo'[v]) \subseteq 1 .. last'
    <3>1. /\ server' \subseteq server \cup ({last'} \ {last})
          /\ Range(rows') \subseteq Range(rows) \cup Range(todo[w])
                                     \cup ({last'} \ {last})
          /\ Range(bubbles') \subseteq Range(bubbles) \cup Range(todo[w])
          /\ Range(todo'[w]) \subseteq Range(todo[w]) \cup Range(rows) \cup server
      <4>1. last \in Nat
        BY ChatAssumption DEF ChatTypeOK
      <4>2. last' = last + 1 => last' # last
        BY <4>1
      <4> QED
        BY <2>1, <4>2, StepAdds
    <3>2. UNCHANGED updates /\ \A v \in Worker : v # w => todo'[v] = todo[v]
      BY <2>1, OwnStep
    <3>3. Range(todo'[w]) \subseteq 1 .. last'
      BY <1>1, <3>1 DEF Sent
    <3>4. \A v \in Worker : v # w => Range(todo'[v]) \subseteq 1 .. last'
      BY <1>1, <3>2 DEF Sent
    <3>5. Range(rows') \cup Range(bubbles') \subseteq 1 .. last'
      BY <1>1, <3>1 DEF Sent
    <3>6. server' \cup updates' \subseteq 1 .. last'
      BY <1>1, <3>1, <3>2 DEF Sent
    <3> QED
      BY <3>3, <3>4, <3>5, <3>6
  <2>2. CASE \A w \in Worker : ~Runs(w)
    <3>1. /\ server' \subseteq server \cup ({last'} \ {last})
          /\ updates' \subseteq updates \cup ({last'} \ {last})
          /\ Range(rows') \subseteq Range(rows) \cup updates
          /\ Range(bubbles') \subseteq Range(bubbles)
          /\ \A w \in Worker : Range(todo'[w]) \subseteq Range(todo[w])
      BY <2>2, OthersAdd
    <3>2. server' \cup updates' \subseteq 1 .. last'
      BY <1>1, <3>1 DEF Sent
    <3>3. Range(rows') \cup Range(bubbles') \subseteq 1 .. last'
      BY <1>1, <3>1 DEF Sent
    <3>4. \A w \in Worker : Range(todo'[w]) \subseteq 1 .. last'
      BY <1>1, <3>1 DEF Sent
    <3> QED
      BY <3>2, <3>3, <3>4
  <2> QED
    BY <2>1, <2>2
<1>3. /\ gone' \subseteq gone \cup ({removing} \ {None})
      /\ chosen' \in {chosen, None} \cup Range(bubbles)
      /\ removing' \in {removing, chosen, None}
  <2>1. CASE DeleteRow
    BY <2>1 DEF DeleteRow
  <2>2. CASE DeleteAnswered
    BY <2>2 DEF DeleteAnswered, ToDelete
  <2>3. CASE Restart
    BY <2>3 DEF Restart
  <2>4. CASE ClearChosen
    BY <2>4 DEF ClearChosen
  <2>5. CASE \E m \in Range(bubbles) : performSwipeToLeft(m)
    BY <2>5 DEF performSwipeToLeft
  <2> QED
    BY <2>1, <2>2, <2>3, <2>4, <2>5, RemovalMoves
<1>4. gone' \subseteq 1 .. last'
  BY <1>1, <1>3 DEF Sent
<1>5. {chosen', removing'} \subseteq (1 .. last') \cup {None}
  BY <1>1, <1>3 DEF Sent
<1> QED
  BY <1>2, <1>4, <1>5 DEF Sent

\* A chat stays a channel or not.
LEMMA ChannelKept ==
  ASSUME Next
  PROVE  channel' = channel
BY StepCases DEF didEndDecelerating, inputButtonPressed, timer, authorizedAs,
   performSwipeToLeft, askToRemoveMessage, onYes, onCancel, Start, Cut,
   DeleteAnswered, DeleteUnanswered, DeleteRow, ClearChosen, Arrive, Restart,
   sendDocument, updateNewMessage, updateShortChatMessage, NoNetwork,
   tg_get_messages_from_database, tg_messages_get_history, Answer, NoAnswer,
   messages_callback, AddBubble, LoadDone, SetRead, tg_message_send, SendFails,
   Tap, others

\* What happens to the messages of the server.
LEMMA ServerMoves ==
  ASSUME Next
  PROVE  \/ UNCHANGED <<server, last>>
         \/ UNCHANGED last /\ server' = Remaining
         \/ last' = last + 1 /\ server' = server \cup {last + 1}
BY StepCases DEF didEndDecelerating, inputButtonPressed, timer, authorizedAs,
   performSwipeToLeft, askToRemoveMessage, onYes, onCancel, Start, Cut,
   DeleteAnswered, DeleteUnanswered, DeleteRow, ClearChosen, Arrive, Restart,
   sendDocument, updateNewMessage, updateShortChatMessage, NoNetwork,
   tg_get_messages_from_database, tg_messages_get_history, Answer, NoAnswer,
   messages_callback, AddBubble, LoadDone, SetRead, tg_message_send, SendFails,
   serverVars

\* A channel loses no message.
LEMMA ChannelStep ==
  ASSUME ChatTypeOK, Next, channel, server = 1 .. last
  PROVE  server' = 1 .. last'
<1>1. last \in Nat
  BY ChatAssumption DEF ChatTypeOK
<1>2. Remaining = server
  BY DEF Remaining
<1>3. 1 .. (last + 1) = 1 .. last \cup {last + 1}
  BY <1>1
<1> QED
  BY <1>2, <1>3, ServerMoves

\* A deleted message of another chat comes back from nowhere.
LEMMA GoneStep ==
  ASSUME ChatTypeOK, Phases, Sent, ~channel, GoneIsNowhere, Next
  PROVE  GoneIsNowhere'
<1>c. ~channel'
  BY ChannelKept
<1> USE WorkerFacts
<1> DEFINE Away(m) == /\ m \notin Range(rows) /\ m \notin updates
                      /\ \A w \in Worker : m \notin Range(todo[w])
<1>1. /\ last' \in {last, last + 1}
      /\ last' # last => last' \notin 1 .. last
  BY LastGrows
<1>2. /\ None \notin Message /\ server \subseteq Message /\ last \in Nat
      /\ server' \subseteq Message
  <2>1. ChatTypeOK'
    BY TypeStep
  <2>2. server' \subseteq Message
    BY <2>1 DEF ChatTypeOK
  <2>3. None \notin Message /\ last \in Nat
    BY ChatAssumption DEF Message, ChatTypeOK
  <2> QED
    BY <2>2, <2>3 DEF ChatTypeOK
<1>3. ASSUME NEW m \in 1 .. last, m \notin server
      PROVE  m \notin server' /\ (Away(m) => Away(m)')
  <2>1. m # last' \/ last' = last
    BY <1>1, <1>3
  <2>2. ASSUME NEW w \in Worker, Runs(w) PROVE m \notin server' /\ (Away(m) => Away(m)')
    <3>1. /\ server' \subseteq server \cup ({last'} \ {last})
          /\ Range(rows') \subseteq Range(rows) \cup Range(todo[w])
                                     \cup ({last'} \ {last})
          /\ Range(todo'[w]) \subseteq Range(todo[w]) \cup Range(rows) \cup server
      <4>1. last' = last + 1 => last' # last
        BY <1>2
      <4> QED
        BY <2>2, <4>1, StepAdds
    <3>2. UNCHANGED updates /\ \A v \in Worker : v # w => todo'[v] = todo[v]
      BY <2>2, OwnStep
    <3>3. m \notin server'
      BY <1>3, <2>1, <3>1
    <3>4. ASSUME Away(m) PROVE Away(m)'
      <4>1. m \notin Range(rows') /\ m \notin Range(todo'[w]) /\ m \notin updates'
        BY <1>3, <2>1, <3>1, <3>2, <3>4
      <4>2. \A v \in Worker : v # w => m \notin Range(todo'[v])
        BY <3>2, <3>4
      <4> QED
        BY <4>1, <4>2
    <3> QED
      BY <3>3, <3>4
  <2>3. CASE \A w \in Worker : ~Runs(w)
    <3>1. /\ server' \subseteq server \cup ({last'} \ {last})
          /\ updates' \subseteq updates \cup ({last'} \ {last})
          /\ Range(rows') \subseteq Range(rows) \cup updates
          /\ \A w \in Worker : Range(todo'[w]) \subseteq Range(todo[w])
      BY <2>3, OthersAdd
    <3>2. m \notin server'
      BY <1>3, <2>1, <3>1
    <3>3. ASSUME Away(m) PROVE Away(m)'
      BY <2>1, <3>1, <3>3
    <3> QED
      BY <3>2, <3>3
  <2> QED
    BY <2>2, <2>3
<1>4. ASSUME NEW m \in gone
      PROVE  m \in 1 .. last /\ m \notin server /\ (m \in late \/ Away(m))
  BY <1>4 DEF GoneIsNowhere, Sent
<1>5. removing' \notin server'
  <2>1. ASSUME removing' \in {removing, None} PROVE removing' \notin server'
    <3>1. CASE removing' = None
      BY <1>2, <3>1
    <3>2. CASE removing' = removing /\ removing # None
      <4>1. removing \in 1 .. last /\ removing \notin server
        BY <3>2 DEF Sent, GoneIsNowhere
      <4> QED
        BY <1>3, <3>2, <4>1
    <3> QED
      BY <2>1, <3>1, <3>2
  <2>2. CASE DeleteAnswered
    BY <2>2 DEF DeleteAnswered, Remaining
  <2>3. CASE ~DeleteAnswered
    BY <2>1, <2>3, RemovalMoves DEF DeleteRow, Restart
  <2> QED
    BY <2>2, <2>3
<1>6. ASSUME NEW m \in gone' PROVE m \notin server' /\ (m \in late' \/ Away(m)')
  <2>1. CASE m \in gone
    <3>1. m \in late => m \in late'
      BY RemovalMoves DEF DeleteRow
    <3> QED
      BY <1>3, <1>4, <2>1, <3>1
  <2>2. CASE m \notin gone
    <3>1. DeleteRow
      BY <1>6, <2>2, RemovalMoves
    <3>2. m = removing /\ m # None /\ late' = late \cup ({removing} \cap InHand)
      BY <1>6, <2>2, <3>1 DEF DeleteRow
    <3>3. /\ m \notin server /\ pc[Sync] = "row" /\ rows' \in Without(rows, m)
          /\ UNCHANGED <<server, updates, todo>>
      BY <3>1, <3>2 DEF DeleteRow, WithoutRow, serverVars, GoneIsNowhere
    <3>4. m \notin Range(rows')
      BY <3>3, WithoutFacts DEF ChatTypeOK
    <3>5. m \notin Range(todo[Sync])
      BY <3>3, EmptyRange DEF Phases
    <3>6. m \in InHand \/ (m \notin updates /\ \A d \in Doc : m \notin Range(todo[d]))
      BY DEF InHand
    <3>7. m \in InHand \/ \A w \in Worker : m \notin Range(todo[w])
      BY <3>5, <3>6 DEF Worker
    <3> QED
      BY <3>2, <3>3, <3>4, <3>6, <3>7
  <2> QED
    BY <2>1, <2>2
<1> QED
  BY <1>5, <1>6, <1>c DEF GoneIsNowhere

\* A step of the operation of syncData is not one of a removal, nor does it
\* lead into the middle of one.
LEMMA SyncStepLoads ==
  ASSUME ChatTypeOK, Phases, Runs(Sync)
  PROVE  ~(plan'[Sync] = <<"delete">> /\ pc'[Sync] \in {"ready", "row"})
<1> USE WorkerFacts
<1>1. CASE \/ NoNetwork(Sync) \/ SetRead(Sync) \/ tg_message_send(Sync)
           \/ SendFails(Sync)
  <2>1. EndPhase(Sync) /\ pc[Sync] \in {"ready", "mark"}
    BY <1>1 DEF NoNetwork, SetRead, tg_message_send, SendFails, Loading, Sending
  <2>2. Head(plan[Sync]) \in {"local", "remote", "older", "send"}
    BY <1>1 DEF NoNetwork, SetRead, tg_message_send, SendFails, Loading,
                Sending, Phases
  <2>3. plan[Sync] \in Plans /\ plan[Sync] # <<>> /\ plan'[Sync] = Tail(plan[Sync])
    BY <2>1, EndPhaseFacts
  <2>4. Tail(plan[Sync]) = <<>> \/ Head(Tail(plan[Sync])) \in {"remote", "older"}
    BY <2>2, <2>3, PlanFacts
  <2>5. Head(<<"delete">>) = "delete" /\ <<"delete">> # <<>>
    OBVIOUS
  <2>6. Tail(plan[Sync]) # <<"delete">>
    BY <2>4, <2>5
  <2> QED
    BY <2>3, <2>6
<1>2. CASE \/ tg_get_messages_from_database(Sync) \/ tg_messages_get_history(Sync)
           \/ Answer(Sync) \/ NoAnswer(Sync) \/ messages_callback(Sync)
           \/ AddBubble(Sync) \/ LoadDone(Sync)
  <2>1. \/ Goto(Sync, "find") \/ Goto(Sync, "ask") \/ Goto(Sync, "add")
        \/ Goto(Sync, "mark")
    BY <1>2 DEF tg_get_messages_from_database, tg_messages_get_history, Answer,
                NoAnswer, messages_callback, AddBubble, LoadDone
  <2>2. pc'[Sync] \in {"find", "ask", "add", "mark"}
    BY <2>1, GotoFacts DEF Location
  <2> QED
    BY <2>2
<1> QED
  BY <1>1, <1>2 DEF Runs, Step, Query

\* A bubble taken out stays out until its message is deleted.
LEMMA CutStep ==
  ASSUME ChatTypeOK, Phases, FoundIsShown, GoneIsNowhere, CutIsOut, Next
  PROVE  CutIsOut'
<1> USE WorkerFacts
<1>0. CASE channel
  BY <1>0, ChannelKept DEF CutIsOut
<1>1. CASE hasty
  BY <1>1, HastyKept DEF CutIsOut
<1>2. CASE Restart
  <2>1. bubbles' = <<>> /\ plan'[Sync] = <<>>
    BY <1>2 DEF Restart
  <2> QED
    BY <2>1, EmptyRange DEF CutIsOut
<1>3. CASE DocSent /\ ~Restart
  BY <1>3, DocKept DEF CutIsOut
<1>4. CASE ~channel /\ ~hasty /\ ~DocSent /\ ~Restart
  <2> DEFINE Middle == plan[Sync] = <<"delete">> /\ pc[Sync] \in {"ready", "row"}
  <2>1. /\ gone \cap Range(bubbles) \subseteq late
        /\ Middle => chosen \notin Range(bubbles) /\ removing \notin Range(bubbles)
    BY <1>4 DEF CutIsOut
  <2>2. IsInjective(bubbles) /\ bubbles \in Seq(Message) /\ None \notin Range(bubbles)
    <3>1. IsInjective(bubbles) /\ bubbles \in Seq(Message)
      BY <1>4 DEF FoundIsShown, ChatTypeOK
    <3>2. Range(bubbles) \subseteq Message
      BY <3>1, RangeType
    <3>3. None \notin Message
      BY ChatAssumption DEF Message
    <3> QED
      BY <3>1, <3>2, <3>3
  <2> SUFFICES \/ hasty' \/ DocSent'
               \/ /\ gone' \cap Range(bubbles') \subseteq late'
                  /\ Middle' => chosen' \notin Range(bubbles')
                                /\ removing' \notin Range(bubbles')
    BY Zenon DEF CutIsOut
  <2>3. ASSUME ~DeleteRow PROVE UNCHANGED <<gone, late>>
    BY <2>3, RemovalMoves
  <2>4. CASE Cut
    <3>1. /\ bubbles' \in Without(bubbles, chosen) /\ UNCHANGED <<removalVars, ops>>
          /\ pc[Sync] = "ready"
      BY <2>4 DEF Cut
    <3>2. Range(bubbles') \subseteq Range(bubbles) /\ chosen \notin Range(bubbles')
      BY <2>2, <3>1, WithoutFacts
    <3>3. removing = None
      BY <3>1 DEF Phases
    <3> QED
      BY <2>1, <2>2, <3>1, <3>2, <3>3 DEF removalVars
  <2>5. ASSUME NEW m \in Range(bubbles), performSwipeToLeft(m)
        PROVE  \/ hasty'
               \/ /\ gone' \cap Range(bubbles') \subseteq late'
                  /\ ~Middle'
    <3>1. CASE RemovalPending
      BY <2>5, <3>1, Zenon DEF performSwipeToLeft
    <3>2. CASE ~RemovalPending
      <4>1. UNCHANGED <<plan, gone, late, bubbles>>
        BY <2>5 DEF performSwipeToLeft, work
      <4>2. plan[Sync] # <<"delete">>
        BY <3>2, PendingParts DEF Removes
      <4> QED
        BY <2>1, <4>1, <4>2
    <3> QED
      BY <3>1, <3>2
  <2>6. CASE DeleteAnswered \/ DeleteUnanswered
    <3>1. /\ pc[Sync] = "ready" /\ Head(plan[Sync]) = "delete"
          /\ removing' \in {removing, chosen}
          /\ UNCHANGED <<bubbles, chosen, gone, late>>
      BY <2>6 DEF DeleteAnswered, DeleteUnanswered, ToDelete
    <3>2. plan[Sync] = <<"delete">>
      <4>1. plan[Sync] \in Plans /\ plan[Sync] # <<>>
        BY <3>1 DEF ChatTypeOK
      <4> QED
        BY <3>1, <4>1, PlanFacts
    <3> QED
      BY <2>1, <3>1, <3>2
  <2>7. CASE DeleteRow
    <3>1. /\ pc[Sync] = "row" /\ gone' = gone \cup ({removing} \ {None})
          /\ late \subseteq late' /\ UNCHANGED bubbles /\ Goto(Sync, "clear")
      BY <2>7 DEF DeleteRow
    <3>2. plan[Sync] = <<"delete">>
      BY <3>1 DEF Phases
    <3>3. pc'[Sync] = "clear"
      BY <3>1, GotoFacts DEF Location
    <3> QED
      BY <2>1, <3>1, <3>2, <3>3
  <2>8. CASE ClearChosen
    <3>1. EndPhase(Sync) /\ pc[Sync] = "clear" /\ UNCHANGED <<bubbles, gone, late>>
      BY <2>8 DEF ClearChosen
    <3>2. plan[Sync] = <<"delete">> /\ plan'[Sync] = Tail(plan[Sync])
      BY <3>1, EndPhaseFacts DEF Phases
    <3> QED
      BY <2>1, <3>1, <3>2
  <2>9. CASE Start
    <3>1. /\ ops \in Seq(Operations) /\ ops # <<>>
          /\ plan' = [plan EXCEPT ![Sync] = Head(ops)]
          /\ UNCHANGED <<bubbles, removalVars>>
      BY <2>9 DEF Start, ChatTypeOK
    <3>2. Head(ops) \in Operations
      BY <3>1, HeadTail
    <3>3. plan'[Sync] \in Operations
      BY <3>1, <3>2 DEF ChatTypeOK
    <3>4. <<"delete">> \notin Operations
      BY DEF Operations, Reload, Load, More, Send, Removal
    <3> QED
      BY <2>1, <3>1, <3>3, <3>4 DEF removalVars
  <2>10. CASE Runs(Sync)
    <3>1. Range(bubbles') \subseteq Range(bubbles) \cup Range(todo[Sync])
      BY <2>10, StepAdds
    <3>2. UNCHANGED <<gone, late>>
      BY <2>10, OwnStep DEF removalVars
    <3>3. \A m \in gone : m \in late \/ m \notin Range(todo[Sync])
      BY <1>4 DEF GoneIsNowhere
    <3>4. gone' \cap Range(bubbles') \subseteq late'
      BY <2>1, <3>1, <3>2, <3>3
    <3> QED
      BY <2>10, <3>4, SyncStepLoads
  <2>11. CASE \E d \in Doc : sendDocument(d)
    <3>1. PICK d \in Doc : sendDocument(d)
      BY <2>11
    <3>2. pc'[d] = "ready"
      BY <3>1, GotoFacts DEF sendDocument, Location
    <3> QED
      BY <3>2 DEF DocSent
  <2>12. ASSUME UNCHANGED <<pc, plan, bubbles, gone, late, removing, chosen>>
         PROVE  /\ gone' \cap Range(bubbles') \subseteq late'
                /\ Middle' => chosen' \notin Range(bubbles')
                              /\ removing' \notin Range(bubbles')
    BY <2>1, <2>12
  <2>13. ASSUME \/ didEndDecelerating \/ inputButtonPressed \/ timer \/ authorizedAs
                \/ askToRemoveMessage \/ onYes \/ onCancel \/ Arrive
                \/ \E m \in updates : updateNewMessage(m) \/ updateShortChatMessage(m)
         PROVE  UNCHANGED <<pc, plan, bubbles, gone, late, removing, chosen>>
    BY <2>13 DEF didEndDecelerating, inputButtonPressed, timer, authorizedAs,
       askToRemoveMessage, onYes, onCancel, Arrive, updateNewMessage,
       updateShortChatMessage, Enqueue, work, removalVars
  <2> HIDE DEF Middle
  <2>14. ASSUME NEW w \in Worker, Runs(w) PROVE Runs(Sync)
    BY <1>4, <2>14, OnlySyncRuns
  <2> QED
    BY <1>4, <2>4, <2>5, <2>6, <2>7, <2>8, <2>9, <2>10, <2>11, <2>12, <2>13,
       <2>14 DEF Next, SyncStep, Runs
<1> QED
  BY <1>0, <1>1, <1>2, <1>3, <1>4

\* A message whose removal the server has confirmed comes back to the database
\* or the screen only from a server that still has it, which is so for channels
\* alone, or from what had it in hand; to the screen also after a hasty choice
\* or beside a document.
THEOREM RemovedIsAway == Spec => []RemovedStaysAway
<1> DEFINE Inv == ChosenIsAsked /\ FoundIsShown /\ Sent /\ GoneIsNowhere /\ CutIsOut
<1>1. Init => Inv
  <2> SUFFICES ASSUME Init PROVE Inv
    OBVIOUS
  <2> USE DEF Init
  <2>1. FoundIsShown /\ ChosenIsAsked
    BY EmptyRange, WorkerFacts DEF FoundIsShown, ChosenIsAsked
  <2>2. Sent
    BY EmptyRange DEF Sent
  <2>3. GoneIsNowhere
    BY ChatAssumption DEF GoneIsNowhere
  <2>4. CutIsOut
    BY WorkerFacts DEF CutIsOut
  <2> QED
    BY <2>1, <2>2, <2>3, <2>4
<1>2. ChatTypeOK /\ Phases /\ Inv /\ [Next]_vars => Inv'
  <2> SUFFICES ASSUME ChatTypeOK, Phases, Inv, [Next]_vars PROVE Inv'
    OBVIOUS
  <2>1. CASE Next
    <3>1. ChosenIsAsked' /\ FoundIsShown' /\ Sent' /\ CutIsOut'
      BY <2>1, ChosenStep, FoundStep, SentStep, CutStep
    <3>2. CASE channel
      <4>1. server = 1 .. last
        BY <3>2 DEF GoneIsNowhere
      <4>2. server' = 1 .. last' /\ channel'
        BY <2>1, <3>2, <4>1, ChannelStep, ChannelKept
      <4>3. GoneIsNowhere'
        BY <4>2 DEF GoneIsNowhere
      <4> QED
        BY <3>1, <4>3
    <3>3. CASE ~channel
      BY <2>1, <3>1, <3>3, GoneStep
    <3> QED
      BY <3>2, <3>3
  <2>2. CASE UNCHANGED vars
    <3>1. ChosenIsAsked' /\ FoundIsShown' /\ Sent'
      BY <2>2 DEF vars, ChosenIsAsked, RemovalPending, FoundIsShown, DocSent, Sent
    <3>2. GoneIsNowhere' /\ CutIsOut'
      BY <2>2 DEF vars, GoneIsNowhere, CutIsOut, DocSent
    <3> QED
      BY <3>1, <3>2
  <2> QED
    BY <2>1, <2>2
<1>3. Inv => RemovedStaysAway
  <2> SUFFICES ASSUME Inv PROVE RemovedStaysAway
    OBVIOUS
  <2>1. CASE channel
    <3>1. gone \subseteq server
      BY <2>1 DEF GoneIsNowhere, Sent
    <3> QED
      BY <2>1, <3>1 DEF RemovedStaysAway
  <2>2. CASE ~channel
    BY <2>2 DEF GoneIsNowhere, CutIsOut, RemovedStaysAway
  <2> QED
    BY <2>1, <2>2
<1> QED
  BY <1>1, <1>2, <1>3, ChatTypeCorrect, PTL DEF Spec
=============================================================================
