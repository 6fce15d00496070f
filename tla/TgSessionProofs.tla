--------------------------- MODULE TgSessionProofs ---------------------------
(***************************************************************************)
(* Theorems about the session layer (module TgSession), for every number   *)
(* of threads, server messages and packages.                               *)
(***************************************************************************)
EXTENDS TgSession, TLAPS, FiniteSetTheorems

\* A step is one of the actions: the case split every proof below uses.
LEMMA StepCases ==
  ASSUME Next
  PROVE  \E t \in Thread :
           \/ tg_ack(t) \/ tg_get_current_time(t) \/ Number(t)
           \/ DropNext(t) \/ DropsDone(t) \/ Send(t)
           \/ \E m \in ServerMsg : tg_add_msgid(t, m)
           \/ tg_add_todrop(t) \/ Resend(t) \/ NewQuery(t)
BY DEF Next

\* What Number appends: a message of the kind the thread makes, with the id it
\* has read and the next number.
LEMMA NumberMessage ==
  ASSUME SessionTypeOK, NEW t \in Thread, Number(t)
  PROVE  \E m \in Message :
           /\ m.kind = making[t] /\ m.id = id[t]
           /\ m.ref \in IF making[t] = "drop" THEN Undropped(t) ELSE {0}
           /\ m.seqno = IF IsContent(making[t]) THEN 2 * seqn + 1 ELSE 2 * seqn
           /\ pkg' = [pkg EXCEPT ![t] = [acks |-> pkg[t].acks,
                                         msgs |-> Append(pkg[t].msgs, m)]]
<1>1. PICK r \in IF making[t] = "drop" THEN Undropped(t) ELSE {0} :
        pkg' = [pkg EXCEPT ![t].msgs = Append(@,
          [kind |-> making[t], id |-> id[t], ref |-> r,
           seqno |-> IF IsContent(making[t]) THEN 2 * seqn + 1 ELSE 2 * seqn])]
  BY DEF Number
<1>2. r \in Nat
  <2>1. todrop \subseteq Nat
    BY DEF SessionTypeOK
  <2>2. Undropped(t) \subseteq Nat
    BY <2>1 DEF Undropped
  <2>3. r \in Undropped(t) \/ r = 0
    BY <1>1
  <2> QED
    BY <2>2, <2>3
<1>3. making[t] \in Kind /\ id[t] \in Nat /\ 2 * seqn \in Nat /\ 2 * seqn + 1 \in Nat
  BY DEF SessionTypeOK
<1> DEFINE m == [kind |-> making[t], id |-> id[t], ref |-> r,
                 seqno |-> IF IsContent(making[t]) THEN 2 * seqn + 1 ELSE 2 * seqn]
<1>4. m \in Message
  BY <1>2, <1>3 DEF Message
<1>5. \A P, v : P \in [acks : SUBSET Entry, msgs : Seq(Message)] =>
        [P EXCEPT !.msgs = v] = [acks |-> P.acks, msgs |-> v]
  OBVIOUS
<1> HIDE DEF m
<1>6. pkg' = [pkg EXCEPT ![t] = [pkg[t] EXCEPT !.msgs = Append(pkg[t].msgs, m)]]
  BY <1>1 DEF m
<1>7. pkg' = [pkg EXCEPT ![t] = [acks |-> pkg[t].acks,
                                 msgs |-> Append(pkg[t].msgs, m)]]
  BY <1>6, <1>5 DEF SessionTypeOK
<1>8. /\ m.kind = making[t] /\ m.id = id[t]
      /\ m.ref \in IF making[t] = "drop" THEN Undropped(t) ELSE {0}
      /\ m.seqno = IF IsContent(making[t]) THEN 2 * seqn + 1 ELSE 2 * seqn
  BY DEF m
<1> QED
  BY <1>4, <1>7, <1>8

\* A message appended to a package leaves the ones before it.
LEMMA AppendFacts ==
  ASSUME NEW s \in Seq(Message), NEW m \in Message
  PROVE  /\ Append(s, m) \in Seq(Message) /\ Append(s, m) # <<>>
         /\ Len(Append(s, m)) = Len(s) + 1 /\ Len(s) \in Nat
         /\ \A i \in 1 .. Len(s) : Append(s, m)[i] = s[i]
         /\ Append(s, m)[Len(s) + 1] = m
         /\ \A i \in 1 .. Len(s) + 1 : i \in 1 .. Len(s) \/ i = Len(s) + 1
         /\ s # <<>> => Append(s, m)[1] = s[1]
         /\ s = <<>> => Append(s, m)[1] = m /\ Len(s) = 0
OBVIOUS

\* The fields of a message of a package.
LEMMA MessageType ==
  ASSUME NEW s \in Seq(Message), NEW i \in 1 .. Len(s)
  PROVE  /\ s[i] \in Message /\ s[i].kind \in Kind /\ s[i].id \in Nat
         /\ s[i].seqno \in Nat /\ s[i].ref \in Nat
<1>1. s[i] \in Message
  OBVIOUS
<1> QED
  BY <1>1 DEF Message

\* Sends is a natural number as long as finitely many packages were sent.
LEMMA SendsType ==
  ASSUME IsFiniteSet(log), NEW t
  PROVE  Sends(t) \in Nat
BY FS_Subset, FS_CardinalityType, {p \in log : p.by = t} \subseteq log DEF Sends

(***************************************************************************)
(* Type correctness, with what a thread has built at each place and the    *)
(* numbering of the packages.                                              *)
(***************************************************************************)

Shape == SessionTypeOK /\ Progress /\ LogNumbered

\* An empty session is well typed.
LEMMA TypeInit ==
  ASSUME Init
  PROVE  Shape
<1>1. SessionTypeOK
  BY SessionAssumption
  DEF Init, SessionTypeOK, Location, Kind, Content, EmptyPkg
<1>2. Progress
  BY DEF Init, Progress, BuiltAt, EmptyPkg
<1>3. LogNumbered
  BY FS_EmptySet DEF Init, LogNumbered
<1> QED
  BY <1>1, <1>2, <1>3 DEF Shape

\* Every step keeps the type.
LEMMA TypeStep ==
  ASSUME Shape, [Next]_vars
  PROVE  SessionTypeOK'
<1> USE SessionAssumption
    DEF Shape, SessionTypeOK, Location, Kind, Content, EmptyPkg, Goto, Make
<1>1. ASSUME NEW t \in Thread, tg_ack(t) PROVE SessionTypeOK'
  BY <1>1 DEF tg_ack, Unacked
<1>2. ASSUME NEW t \in Thread, tg_get_current_time(t) PROVE SessionTypeOK'
  BY <1>2 DEF tg_get_current_time, Now
<1>3. ASSUME NEW t \in Thread, Number(t) PROVE SessionTypeOK'
  <2>1. PICK m \in Message :
          pkg' = [pkg EXCEPT ![t] = [acks |-> pkg[t].acks,
                                     msgs |-> Append(pkg[t].msgs, m)]]
    BY <1>3, NumberMessage
  <2>2. pkg' \in [Thread -> [acks : SUBSET Entry, msgs : Seq(Message)]]
    <3>1. Append(pkg[t].msgs, m) \in Seq(Message) /\ pkg[t].acks \subseteq Entry
      OBVIOUS
    <3> QED
      BY <2>1, <3>1
  <2>3. seqn' \in Nat /\ making' \in [Thread -> Kind]
    BY <1>3 DEF Number
  <2>4. pc' \in [Thread -> Location]
    BY <1>3 DEF Number
  <2> QED
    BY <1>3, <2>2, <2>3, <2>4 DEF Number
<1>4. ASSUME NEW t \in Thread, DropNext(t) PROVE SessionTypeOK'
  BY <1>4 DEF DropNext
<1>5. ASSUME NEW t \in Thread, DropsDone(t) PROVE SessionTypeOK'
  <2>1. pkg[t].msgs # <<>> /\ pkg[t].msgs \in Seq(Message)
    BY <1>5 DEF DropsDone, Progress, BuiltAt
  <2>2. pkg[t].msgs[1] \in Message
    BY <2>1
  <2>3. QueryId(t) \in Nat
    BY <2>2 DEF QueryId, Message
  <2> QED
    BY <1>5, <2>3 DEF DropsDone, Drained
<1>6. ASSUME NEW t \in Thread, Send(t) PROVE SessionTypeOK'
  <2>1. Sends(t) + 1 \in Nat
    BY SendsType DEF LogNumbered
  <2>2. PICK ok \in BOOLEAN :
          /\ log' = log \cup {[by |-> t, no |-> Sends(t) + 1, ok |-> ok,
                               acks |-> pkg[t].acks, msgs |-> pkg[t].msgs]}
          /\ pc' = [pc EXCEPT ![t] = IF ok THEN "wait" ELSE "done"]
    BY <1>6 DEF Send
  <2>3. \A p \in log' :
          /\ p.by \in Thread /\ p.no \in Nat /\ p.ok \in BOOLEAN
          /\ p.acks \subseteq Entry /\ p.msgs \in Seq(Message)
    BY <2>1, <2>2
  <2>4. pkg' \in [Thread -> [acks : SUBSET Entry, msgs : Seq(Message)]]
    BY <1>6 DEF Send
  <2>5. pc' \in [Thread -> Location]
    BY <2>2
  <2> QED
    BY <1>6, <2>3, <2>4, <2>5 DEF Send
<1>7. ASSUME NEW t \in Thread, NEW m \in ServerMsg, tg_add_msgid(t, m)
      PROVE  SessionTypeOK'
  <2>1. [msg |-> m, no |-> reads + 1] \in Entry
    BY DEF Entry
  <2> QED
    BY <1>7, <2>1 DEF tg_add_msgid
<1>8. ASSUME NEW t \in Thread, tg_add_todrop(t) PROVE SessionTypeOK'
  BY <1>8 DEF tg_add_todrop
<1>9. ASSUME NEW t \in Thread, Resend(t) PROVE SessionTypeOK'
  BY <1>9 DEF Resend
<1>10. ASSUME NEW t \in Thread, NewQuery(t) PROVE SessionTypeOK'
  BY <1>10 DEF NewQuery
<1>11. CASE UNCHANGED vars
  BY <1>11 DEF vars
<1> QED
  BY <1>1, <1>2, <1>3, <1>4, <1>5, <1>6, <1>7, <1>8, <1>9, <1>10, <1>11,
     StepCases

\* Every step keeps a package as far as its thread has built it.
LEMMA ProgressStep ==
  ASSUME Shape, [Next]_vars
  PROVE  Progress'
<1> SUFFICES ASSUME NEW u \in Thread PROVE BuiltAt(u)'
  BY DEF Progress
<1> USE DEF Goto, Make, EmptyPkg
<1>0. /\ BuiltAt(u) /\ pc[u] \in Location /\ making[u] \in Kind
      /\ pkg[u].msgs \in Seq(Message)
      /\ pc \in [Thread -> Location] /\ making \in [Thread -> Kind]
      /\ pkg \in [Thread -> [acks : SUBSET Entry, msgs : Seq(Message)]]
  BY DEF Shape, Progress, SessionTypeOK
<1>1. ASSUME NEW t \in Thread, tg_ack(t) PROVE BuiltAt(u)'
  BY <1>0, <1>1 DEF tg_ack, BuiltAt
<1>2. ASSUME NEW t \in Thread, tg_get_current_time(t) PROVE BuiltAt(u)'
  BY <1>0, <1>2 DEF tg_get_current_time, BuiltAt
<1>3. ASSUME NEW t \in Thread, Number(t) PROVE BuiltAt(u)'
  <2>1. CASE u # t
    BY <1>0, <1>3, <2>1 DEF Number, BuiltAt
  <2>2. CASE u = t
    <3>1. PICK m \in Message :
            /\ m.kind = making[t]
            /\ pkg' = [pkg EXCEPT ![t] = [acks |-> pkg[t].acks,
                                          msgs |-> Append(pkg[t].msgs, m)]]
      BY <1>3, NumberMessage DEF Shape
    <3>2. pkg'[u].msgs = Append(pkg[u].msgs, m)
      BY <1>0, <2>2, <3>1
    <3>3. /\ pc[u] = "seqno"
          /\ making'[u] = IF making[u] = "query" THEN "ack" ELSE making[u]
          /\ pc'[u] = CASE making[u] = "query" -> "clock"
                        [] making[u] \in {"ack", "drop"} -> "drops"
                        [] OTHER -> "send"
      BY <1>0, <1>3, <2>2 DEF Number
    <3> DEFINE s == pkg[u].msgs
    <3>4. s \in Seq(Message)
      BY <1>0
    <3>5. making[u] \in {"plain", "query"} <=> s = <<>>
      BY <1>0, <3>3 DEF BuiltAt
    <3>6. s # <<>> => s[1].kind = "query"
      BY <1>0, <3>3 DEF BuiltAt
    <3>7. \A i \in 1 .. Len(s) : s[i].kind # "container"
      BY <1>0, <3>3 DEF BuiltAt
    <3> HIDE DEF s
    <3>8. pkg'[u].msgs = Append(s, m)
      BY <3>2 DEF s
    <3>9. Append(s, m) # <<>>
      BY <3>4, AppendFacts
    <3>10. making[u] # "plain" => Append(s, m)[1].kind = "query"
      BY <3>1, <2>2, <3>4, <3>5, <3>6, AppendFacts
    <3>11. making[u] # "container" =>
             \A i \in 1 .. Len(Append(s, m)) : Append(s, m)[i].kind # "container"
      BY <3>1, <2>2, <3>4, <3>7, AppendFacts
    <3> QED
      BY <1>0, <3>3, <3>8, <3>9, <3>10, <3>11 DEF BuiltAt, Kind, Content
  <2> QED
    BY <2>1, <2>2
<1>4. ASSUME NEW t \in Thread, DropNext(t) PROVE BuiltAt(u)'
  BY <1>0, <1>4 DEF DropNext, BuiltAt
<1>5. ASSUME NEW t \in Thread, DropsDone(t) PROVE BuiltAt(u)'
  BY <1>0, <1>5 DEF DropsDone, BuiltAt
<1>6. ASSUME NEW t \in Thread, Send(t) PROVE BuiltAt(u)'
  BY <1>0, <1>6 DEF Send, BuiltAt
<1>7. ASSUME NEW t \in Thread, NEW m \in ServerMsg, tg_add_msgid(t, m)
      PROVE  BuiltAt(u)'
  BY <1>0, <1>7 DEF tg_add_msgid, BuiltAt
<1>8. ASSUME NEW t \in Thread, tg_add_todrop(t) PROVE BuiltAt(u)'
  BY <1>0, <1>8 DEF tg_add_todrop, BuiltAt
<1>9. ASSUME NEW t \in Thread, Resend(t) PROVE BuiltAt(u)'
  BY <1>0, <1>9 DEF Resend, BuiltAt
<1>10. ASSUME NEW t \in Thread, NewQuery(t) PROVE BuiltAt(u)'
  BY <1>0, <1>10 DEF NewQuery, BuiltAt
<1>11. CASE UNCHANGED vars
  BY <1>0, <1>11 DEF vars, BuiltAt
<1> QED
  BY <1>1, <1>2, <1>3, <1>4, <1>5, <1>6, <1>7, <1>8, <1>9, <1>10, <1>11,
     StepCases

\* Send adds one package, the next one of its thread, and gives it what the
\* thread has built.
LEMMA SendPackage ==
  ASSUME Shape, NEW t \in Thread, Send(t)
  PROVE  \E new :
           /\ new.by = t /\ new.no = Sends(t) + 1 /\ new.ok \in BOOLEAN
           /\ new.acks = pkg[t].acks /\ new.msgs = pkg[t].msgs
           /\ pc' = [pc EXCEPT ![t] = IF new.ok THEN "wait" ELSE "done"]
           /\ log' = log \cup {new} /\ new \notin log
           /\ Sends(t)' = Sends(t) + 1
           /\ \A u \in Thread \ {t} :
                Cardinality({p \in log' : p.by = u}) = Sends(u)
<1>1. PICK ok \in BOOLEAN :
        /\ log' = log \cup {[by |-> t, no |-> Sends(t) + 1, ok |-> ok,
                             acks |-> pkg[t].acks, msgs |-> pkg[t].msgs]}
        /\ pc' = [pc EXCEPT ![t] = IF ok THEN "wait" ELSE "done"]
  BY SessionAssumption DEF Send, Goto
<1> DEFINE new == [by |-> t, no |-> Sends(t) + 1, ok |-> ok,
                   acks |-> pkg[t].acks, msgs |-> pkg[t].msgs]
<1>2. /\ new.by = t /\ new.no = Sends(t) + 1 /\ new.ok = ok
      /\ new.acks = pkg[t].acks /\ new.msgs = pkg[t].msgs
      /\ log' = log \cup {new}
  BY <1>1
<1> HIDE DEF new
<1>3. Sends(t) \in Nat
  BY SendsType DEF Shape, LogNumbered
<1>4. new \notin log
  BY <1>2, <1>3 DEF Shape, LogNumbered
<1>5. Sends(t)' = Sends(t) + 1
  <2> DEFINE Mine == {p \in log : p.by = t}
  <2>1. IsFiniteSet(Mine)
    BY FS_Subset, Mine \subseteq log DEF Shape, LogNumbered
  <2>2. {p \in log' : p.by = t} = Mine \cup {new}
    BY <1>2
  <2>3. Cardinality(Mine \cup {new}) = Cardinality(Mine) + 1
    BY <1>4, <2>1, FS_AddElement
  <2> QED
    BY <2>2, <2>3 DEF Sends
<1>6. ASSUME NEW u \in Thread \ {t}
      PROVE  Cardinality({p \in log' : p.by = u}) = Sends(u)
  <2>1. {p \in log' : p.by = u} = {p \in log : p.by = u}
    BY <1>2
  <2> QED
    BY <2>1 DEF Sends
<1> QED
  BY <1>1, <1>2, <1>4, <1>5, <1>6

\* Every step keeps the sent packages numbered per thread.
LEMMA LogStep ==
  ASSUME Shape, [Next]_vars
  PROVE  LogNumbered'
<1>1. ASSUME NEW t \in Thread, Send(t) PROVE LogNumbered'
  <2>1. PICK new :
          /\ new.by = t /\ new.no = Sends(t) + 1
          /\ log' = log \cup {new} /\ new \notin log
          /\ Sends(t)' = Sends(t) + 1
          /\ \A u \in Thread \ {t} :
               Cardinality({p \in log' : p.by = u}) = Sends(u)
    BY <1>1, SendPackage
  <2>2. IsFiniteSet(log')
    BY <2>1, FS_AddElement DEF Shape, LogNumbered
  <2>3. \A u \in Thread : Sends(u) \in Nat
    BY SendsType DEF Shape, LogNumbered
  <2>4. ASSUME NEW p \in log' PROVE p.no \in 1 .. Sends(p.by)'
    <3>1. CASE p = new
      BY <2>1, <2>3, <3>1
    <3>2. CASE p \in log /\ p.by = t
      BY <2>1, <2>3, <3>2 DEF Shape, LogNumbered
    <3>3. CASE p \in log /\ p.by # t
      <4>1. p.by \in Thread \ {t}
        BY <3>3 DEF Shape, SessionTypeOK
      <4>2. Sends(p.by)' = Sends(p.by)
        BY <4>1, <2>1 DEF Sends
      <4> QED
        BY <3>3, <4>2 DEF Shape, LogNumbered
    <3> QED
      BY <2>1, <3>1, <3>2, <3>3
  <2>5. \A p1, p2 \in log' : p1.by = p2.by /\ p1.no = p2.no => p1 = p2
    <3>1. \A p \in log : p.by = t => p.no # new.no
      BY <2>1, <2>3 DEF Shape, LogNumbered
    <3> QED
      BY <2>1, <3>1 DEF Shape, LogNumbered
  <2> QED
    BY <2>2, <2>4, <2>5 DEF LogNumbered
<1>2. ASSUME log' = log PROVE LogNumbered'
  BY <1>2 DEF Shape, LogNumbered, Sends
<1> QED
  BY <1>1, <1>2, StepCases
  DEF vars, tg_ack, tg_get_current_time, Number, DropNext, DropsDone,
      tg_add_msgid, tg_add_todrop, Resend, NewQuery

\* The type of the state holds in every reachable state: whatever the threads
\* do, ids and sequence numbers are natural numbers and every package is a
\* sequence of messages.
THEOREM SessionTypeCorrect == Spec => []SessionTypeOK
<1>1. Shape /\ [Next]_vars => Shape'
  BY TypeStep, ProgressStep, LogStep DEF Shape
<1>2. Shape => SessionTypeOK
  BY DEF Shape
<1> QED
  BY <1>1, <1>2, TypeInit, PTL DEF Spec

(***************************************************************************)
(* Packages.  A step leaves all of them, changes the one that a thread     *)
(* builds, or gives that one to send() and leaves an empty one behind.     *)
(***************************************************************************)

PackageOf(t, n, a, s) == [by |-> t, no |-> n, acks |-> a, msgs |-> s]

\* The fields of a package.
LEMMA PackageFields ==
  ASSUME NEW t, NEW n, NEW a, NEW s
  PROVE  /\ PackageOf(t, n, a, s).by = t /\ PackageOf(t, n, a, s).no = n
         /\ PackageOf(t, n, a, s).acks = a /\ PackageOf(t, n, a, s).msgs = s
BY DEF PackageOf

\* The fields of a package of the session have their types.
LEMMA PackageType ==
  ASSUME SessionTypeOK, NEW p \in Packages
  PROVE  /\ p.by \in Thread /\ p.no \in Nat
         /\ p.acks \subseteq Entry /\ p.msgs \in Seq(Message)
BY DEF SessionTypeOK, Packages, Building, Given

\* Only the package that thread t builds changes.
LEMMA Rebuilt ==
  ASSUME Shape, NEW t \in Thread, log' = log,
         \A u \in Thread \ {t} : pkg'[u] = pkg[u]
  PROVE  \E Q :
           /\ Packages = Q \cup {PackageOf(t, 0, pkg[t].acks, pkg[t].msgs)}
           /\ Packages' = Q \cup {PackageOf(t, 0, pkg'[t].acks, pkg'[t].msgs)}
           /\ \A q \in Q : q.by # t \/ q.no # 0
<1> DEFINE Q == {Building(u) : u \in Thread \ {t}} \cup {Given(p) : p \in log}
<1>1. Packages = Q \cup {PackageOf(t, 0, pkg[t].acks, pkg[t].msgs)}
  BY DEF Packages, Building, PackageOf
<1>2. Packages' = Q \cup {PackageOf(t, 0, pkg'[t].acks, pkg'[t].msgs)}
  BY DEF Packages, Building, Given, PackageOf
<1>3. \A q \in Q : q.by # t \/ q.no # 0
  <2>1. \A u \in Thread \ {t} : Building(u).by # t
    BY DEF Building
  <2>2. \A p \in log : Given(p).no # 0
    <3>1. \A p \in log : Sends(p.by) \in Nat
      BY SendsType DEF Shape, LogNumbered
    <3> QED
      BY <3>1 DEF Given, Shape, LogNumbered
  <2> QED
    BY <2>1, <2>2
<1> QED
  BY <1>1, <1>2, <1>3

\* The package of thread t is given to send().
LEMMA Sent ==
  ASSUME Shape, NEW t \in Thread, Send(t)
  PROVE  \E Q :
           /\ Packages = Q \cup {PackageOf(t, 0, pkg[t].acks, pkg[t].msgs)}
           /\ Packages' = Q \cup {PackageOf(t, 0, {}, <<>>),
                PackageOf(t, Sends(t) + 1, pkg[t].acks, pkg[t].msgs)}
           /\ \A q \in Q : q.by # t \/ q.no \notin {0, Sends(t) + 1}
<1> DEFINE Q == {Building(u) : u \in Thread \ {t}} \cup {Given(p) : p \in log}
<1>0. \A u \in Thread : Sends(u) \in Nat
  BY SendsType DEF Shape, LogNumbered
<1>1. Packages = Q \cup {PackageOf(t, 0, pkg[t].acks, pkg[t].msgs)}
  BY DEF Packages, Building, PackageOf
<1>2. PICK new :
        /\ new.by = t /\ new.no = Sends(t) + 1
        /\ new.acks = pkg[t].acks /\ new.msgs = pkg[t].msgs
        /\ log' = log \cup {new}
  BY SendPackage
<1>3. /\ pkg'[t].acks = {} /\ pkg'[t].msgs = <<>>
      /\ \A u \in Thread \ {t} : pkg'[u] = pkg[u]
  BY DEF Send, EmptyPkg, Shape, SessionTypeOK
<1>4. Given(new) = PackageOf(t, Sends(t) + 1, pkg[t].acks, pkg[t].msgs)
  BY <1>2 DEF Given, PackageOf
<1>5. {Given(p) : p \in log'} = {Given(p) : p \in log} \cup {Given(new)}
  BY <1>2
<1>6. {Building(u) : u \in Thread}' =
        {Building(u) : u \in Thread \ {t}} \cup {PackageOf(t, 0, {}, <<>>)}
  BY <1>3 DEF Building, PackageOf
<1>7. Packages' = {Building(u) : u \in Thread}' \cup {Given(p) : p \in log'}
  BY DEF Packages, Given
<1>8. \A q \in Q : q.by # t \/ q.no \notin {0, Sends(t) + 1}
  <2>1. \A u \in Thread \ {t} : Building(u).by # t
    BY DEF Building
  <2>2. ASSUME NEW q \in Q PROVE q.by # t \/ q.no \notin {0, Sends(t) + 1}
    <3>1. ASSUME NEW u \in Thread \ {t}, q = Building(u)
          PROVE  q.by # t \/ q.no \notin {0, Sends(t) + 1}
      <4>1. Building(u).by # t
        BY <2>1
      <4> QED
        BY <3>1, <4>1
    <3>2. ASSUME NEW p \in log, q = Given(p)
          PROVE  q.by # t \/ q.no \notin {0, Sends(t) + 1}
      <4>1. Given(p).no # 0 /\ (Given(p).by = t => Given(p).no # Sends(t) + 1)
        BY <1>0 DEF Given, Shape, LogNumbered, SessionTypeOK
      <4> QED
        BY <3>2, <4>1
    <3> QED
      BY <3>1, <3>2
  <2> QED
    BY <2>2
<1> HIDE DEF Q
<1>9. Packages' = Q \cup {PackageOf(t, 0, {}, <<>>),
                PackageOf(t, Sends(t) + 1, pkg[t].acks, pkg[t].msgs)}
  BY <1>4, <1>5, <1>6, <1>7 DEF Q
<1> QED
  BY <1>1, <1>8, <1>9

\* The packages change only with what is built and what is sent.
LEMMA Untouched ==
  ASSUME pkg' = pkg, log' = log
  PROVE  Packages' = Packages
BY DEF Packages, Building, Given

(***************************************************************************)
(* Acknowledgements.                                                       *)
(***************************************************************************)

\* The entries of tg->msgids stay told apart by their calls.
LEMMA EntriesStep ==
  ASSUME SessionTypeOK, EntriesRead, [Next]_vars
  PROVE  EntriesRead'
<1>1. ASSUME NEW t \in Thread, NEW m \in ServerMsg, tg_add_msgid(t, m)
      PROVE  EntriesRead'
  <2> DEFINE entry == [msg |-> m, no |-> reads + 1]
  <2>1. received' = received \cup {entry} /\ reads' = reads + 1 /\ reads \in Nat
    BY <1>1 DEF tg_add_msgid, SessionTypeOK
  <2>2. entry.no = reads + 1
    OBVIOUS
  <2>3. \A e \in received : e.no \in 1 .. reads
    BY DEF EntriesRead
  <2> HIDE DEF entry
  <2> QED
    BY <2>1, <2>2, <2>3 DEF EntriesRead
<1>2. ASSUME received' = received, reads' = reads PROVE EntriesRead'
  BY <1>2 DEF EntriesRead
<1> QED
  BY <1>1, <1>2, StepCases
  DEF vars, tg_ack, tg_get_current_time, Number, Send, DropNext, DropsDone,
      tg_add_todrop, Resend, NewQuery

\* A step acknowledges only what no package has acknowledged.
LEMMA AckedStep ==
  ASSUME Shape, EntriesRead, AckedOnce, [Next]_vars
  PROVE  AckedOnce'
<1>1. ASSUME NEW t \in Thread, tg_ack(t) PROVE AckedOnce'
  <2> DEFINE old == PackageOf(t, 0, pkg[t].acks, pkg[t].msgs)
             new == PackageOf(t, 0, pkg'[t].acks, pkg'[t].msgs)
  <2>1. pkg[t].acks = {} /\ pkg'[t].acks = msgids
    BY <1>1 DEF tg_ack, Shape, Progress, BuiltAt, EmptyPkg, SessionTypeOK
  <2>2. log' = log /\ \A u \in Thread \ {t} : pkg'[u] = pkg[u]
    BY <1>1 DEF tg_ack, Shape, SessionTypeOK
  <2>3. PICK Q :
          /\ Packages = Q \cup {old} /\ Packages' = Q \cup {new}
          /\ \A q \in Q : q.by # t \/ q.no # 0
    BY <1>1, <2>2, Rebuilt
  <2>4. old.acks = {} /\ new.acks = msgids
    BY <2>1, PackageFields
  <2>5. msgids' = {} /\ received' = received
    BY <1>1 DEF tg_ack, Unacked
  <2> HIDE DEF old, new
  <2>6. received' = msgids' \cup UNION {p.acks : p \in Packages'}
    BY <2>3, <2>4, <2>5 DEF AckedOnce
  <2>7. \A p1, p2 \in Packages' : p1.acks \cap p2.acks # {} => p1 = p2
    BY <2>3, <2>4 DEF AckedOnce
  <2> QED
    BY <2>5, <2>6, <2>7 DEF AckedOnce
<1>2. ASSUME NEW t \in Thread, Number(t) PROVE AckedOnce'
  <2> DEFINE old == PackageOf(t, 0, pkg[t].acks, pkg[t].msgs)
             new == PackageOf(t, 0, pkg'[t].acks, pkg'[t].msgs)
  <2>1. pkg'[t].acks = pkg[t].acks
    BY <1>2, NumberMessage DEF Shape, SessionTypeOK
  <2>2. log' = log /\ \A u \in Thread \ {t} : pkg'[u] = pkg[u]
    BY <1>2 DEF Number, Shape, SessionTypeOK
  <2>3. PICK Q :
          /\ Packages = Q \cup {old} /\ Packages' = Q \cup {new}
          /\ \A q \in Q : q.by # t \/ q.no # 0
    BY <1>2, <2>2, Rebuilt
  <2>4. old.acks = new.acks /\ old \notin Q
    BY <2>1, <2>3, PackageFields
  <2>5. msgids' = msgids /\ received' = received
    BY <1>2 DEF Number
  <2> HIDE DEF old, new
  <2>6. received' = msgids' \cup UNION {p.acks : p \in Packages'}
    BY <2>3, <2>4, <2>5 DEF AckedOnce
  <2>7. \A p1, p2 \in Packages' : p1.acks \cap p2.acks # {} => p1 = p2
    BY <2>3, <2>4 DEF AckedOnce
  <2> QED
    BY <2>3, <2>4, <2>5, <2>6, <2>7 DEF AckedOnce
<1>3. ASSUME NEW t \in Thread, Send(t) PROVE AckedOnce'
  <2> DEFINE old == PackageOf(t, 0, pkg[t].acks, pkg[t].msgs)
             new == PackageOf(t, Sends(t) + 1, pkg[t].acks, pkg[t].msgs)
             empty == PackageOf(t, 0, {}, <<>>)
  <2>1. PICK Q :
          /\ Packages = Q \cup {old} /\ Packages' = Q \cup {empty, new}
          /\ \A q \in Q : q.by # t \/ q.no \notin {0, Sends(t) + 1}
    BY <1>3, Sent
  <2>2. old.acks = new.acks /\ empty.acks = {} /\ old \notin Q
    BY <2>1, PackageFields
  <2>3. msgids' = msgids /\ received' = received
    BY <1>3 DEF Send
  <2> HIDE DEF old, new, empty
  <2>4. received' = msgids' \cup UNION {p.acks : p \in Packages'}
    BY <2>1, <2>2, <2>3 DEF AckedOnce
  <2>5. \A p1, p2 \in Packages' : p1.acks \cap p2.acks # {} => p1 = p2
    BY <2>1, <2>2 DEF AckedOnce
  <2> QED
    BY <2>1, <2>2, <2>3, <2>4, <2>5 DEF AckedOnce
<1>4. ASSUME NEW t \in Thread, NEW m \in ServerMsg, tg_add_msgid(t, m)
      PROVE  AckedOnce'
  <2>1. Packages' = Packages
    BY <1>4, Untouched DEF tg_add_msgid
  <2> DEFINE entry == [msg |-> m, no |-> reads + 1]
  <2>2. entry.no = reads + 1 /\ reads \in Nat
    BY DEF Shape, SessionTypeOK
  <2>3. msgids' = msgids \cup {entry} /\ received' = received \cup {entry}
    BY <1>4 DEF tg_add_msgid
  <2> HIDE DEF entry
  <2>4. entry \notin received
    BY <2>2 DEF EntriesRead
  <2>5. \A p \in Packages : entry \notin p.acks
    BY <2>4 DEF AckedOnce
  <2> QED
    BY <2>1, <2>3, <2>5 DEF AckedOnce
<1>5. ASSUME pkg' = pkg, log' = log, msgids' = msgids, received' = received
      PROVE  AckedOnce'
  BY <1>5, Untouched DEF AckedOnce
<1> QED
  BY <1>1, <1>2, <1>3, <1>4, <1>5, StepCases
  DEF vars, tg_get_current_time, DropNext, DropsDone, tg_add_todrop, Resend,
      NewQuery

\* No entry of tg->msgids is lost or acknowledged twice, also when the server
\* repeats a message: it waits in tg->msgids or is in the msgs_ack of exactly
\* one package, for any number of threads in tg_ack and tg_add_msgid.
THEOREM AcknowledgedOnce == Spec => []AckedOnce
<1>1. Init => AckedOnce /\ EntriesRead
  BY DEF Init, AckedOnce, EntriesRead, Packages, Building, EmptyPkg
<1>2. Shape /\ [Next]_vars => Shape'
  BY TypeStep, ProgressStep, LogStep DEF Shape
<1>3. Shape /\ EntriesRead /\ [Next]_vars => EntriesRead'
  BY EntriesStep DEF Shape
<1>4. Shape /\ EntriesRead /\ AckedOnce /\ [Next]_vars => AckedOnce'
  BY AckedStep
<1> QED
  BY <1>1, <1>2, <1>3, <1>4, TypeInit, PTL DEF Spec

(***************************************************************************)
(* Message ids and sequence numbers.                                       *)
(***************************************************************************)

\* Only Number puts a message into a package, behind the ones it has.
LEMMA Origin ==
  ASSUME Shape, [Next]_vars, NEW p \in Packages'
  PROVE  \/ p.msgs = <<>>
         \/ \E q \in Packages : q.msgs = p.msgs
         \/ \E t \in Thread : \E m \in Message :
              /\ Number(t) /\ p.msgs = Append(pkg[t].msgs, m)
              /\ m.kind = making[t] /\ m.id = id[t]
              /\ m.seqno = IF IsContent(making[t]) THEN 2 * seqn + 1 ELSE 2 * seqn
              /\ \E q \in Packages : q.msgs = pkg[t].msgs
<1> DEFINE Goal == \/ p.msgs = <<>>
                   \/ \E q \in Packages : q.msgs = p.msgs
                   \/ \E t \in Thread : \E m \in Message :
                        /\ Number(t) /\ p.msgs = Append(pkg[t].msgs, m)
                        /\ m.kind = making[t] /\ m.id = id[t]
                        /\ m.seqno = IF IsContent(making[t]) THEN 2 * seqn + 1 ELSE 2 * seqn
                        /\ \E q \in Packages : q.msgs = pkg[t].msgs
<1> HIDE DEF Goal
<1>1. ASSUME NEW t \in Thread, tg_ack(t) PROVE Goal
  <2>1. log' = log /\ \A u \in Thread \ {t} : pkg'[u] = pkg[u]
    BY <1>1 DEF tg_ack, Shape, SessionTypeOK
  <2>2. PICK Q :
          /\ Packages = Q \cup {PackageOf(t, 0, pkg[t].acks, pkg[t].msgs)}
          /\ Packages' = Q \cup {PackageOf(t, 0, pkg'[t].acks, pkg'[t].msgs)}
    BY <1>1, <2>1, Rebuilt
  <2>3. pkg'[t].msgs = <<>>
    BY <1>1 DEF tg_ack, Shape, SessionTypeOK
  <2> QED
    BY <2>2, <2>3, PackageFields DEF Goal
<1>2. ASSUME NEW t \in Thread, Number(t) PROVE Goal
  <2>1. log' = log /\ \A u \in Thread \ {t} : pkg'[u] = pkg[u]
    BY <1>2 DEF Number, Shape, SessionTypeOK
  <2>2. PICK Q :
          /\ Packages = Q \cup {PackageOf(t, 0, pkg[t].acks, pkg[t].msgs)}
          /\ Packages' = Q \cup {PackageOf(t, 0, pkg'[t].acks, pkg'[t].msgs)}
    BY <1>2, <2>1, Rebuilt
  <2>3. PICK m \in Message :
          /\ m.kind = making[t] /\ m.id = id[t]
          /\ m.seqno = IF IsContent(making[t]) THEN 2 * seqn + 1 ELSE 2 * seqn
          /\ pkg' = [pkg EXCEPT ![t] = [acks |-> pkg[t].acks,
                                        msgs |-> Append(pkg[t].msgs, m)]]
    BY <1>2, NumberMessage DEF Shape
  <2>4. pkg'[t].msgs = Append(pkg[t].msgs, m)
    BY <1>2, <2>3 DEF Shape, SessionTypeOK
  <2>5. \E q \in Packages : q.msgs = pkg[t].msgs
    BY <2>2, PackageFields
  <2>6. CASE p \in Q
    BY <2>2, <2>6 DEF Goal
  <2>7. CASE p = PackageOf(t, 0, pkg'[t].acks, pkg'[t].msgs)
    <3>1. p.msgs = Append(pkg[t].msgs, m)
      BY <2>4, <2>7 DEF PackageOf
    <3> QED
      <4>1. /\ m.kind = making[t] /\ m.id = id[t]
            /\ m.seqno = IF IsContent(making[t]) THEN 2 * seqn + 1 ELSE 2 * seqn
        BY <2>3
      <4>2. Number(t) /\ t \in Thread
        BY <1>2
      <4> QED
        BY <2>5, <3>1, <4>1, <4>2, Zenon DEF Goal
  <2> QED
    BY <2>2, <2>6, <2>7
<1>3. ASSUME NEW t \in Thread, Send(t) PROVE Goal
  <2>1. PICK Q :
          /\ Packages = Q \cup {PackageOf(t, 0, pkg[t].acks, pkg[t].msgs)}
          /\ Packages' = Q \cup {PackageOf(t, 0, {}, <<>>),
               PackageOf(t, Sends(t) + 1, pkg[t].acks, pkg[t].msgs)}
    BY <1>3, Sent
  <2> QED
    BY <2>1, PackageFields DEF Goal
<1>4. ASSUME pkg' = pkg, log' = log PROVE Goal
  BY <1>4, Untouched DEF Goal
<1>5. Goal
  BY <1>1, <1>2, <1>3, <1>4, StepCases
  DEF vars, tg_get_current_time, DropNext, DropsDone, tg_add_msgid,
      tg_add_todrop, Resend, NewQuery
<1> QED
  BY <1>5 DEF Goal

\* The clock and the counter do not go back; seqn counts content.
LEMMA CountersGrow ==
  ASSUME Shape, [Next]_vars
  PROVE  /\ clock' \in Nat /\ clock' >= clock
         /\ seqn' \in Nat /\ seqn' >= seqn
         /\ \A t \in Thread : Number(t) =>
              seqn' = IF IsContent(making[t]) THEN seqn + 1 ELSE seqn
<1>0. clock \in Nat /\ seqn \in Nat
  BY DEF Shape, SessionTypeOK
<1>1. ASSUME NEW t \in Thread, tg_get_current_time(t)
      PROVE  clock' \in Nat /\ clock' >= clock /\ seqn' = seqn
  BY <1>0, <1>1 DEF tg_get_current_time, Now
<1>2. ASSUME NEW t \in Thread, Number(t)
      PROVE  /\ clock' = clock /\ seqn' \in Nat /\ seqn' >= seqn
             /\ seqn' = IF IsContent(making[t]) THEN seqn + 1 ELSE seqn
  BY <1>0, <1>2 DEF Number
<1>3. \/ \E t \in Thread : tg_get_current_time(t)
      \/ \E t \in Thread : Number(t)
      \/ clock' = clock /\ seqn' = seqn
  BY StepCases
  DEF vars, tg_ack, DropNext, DropsDone, Send, tg_add_msgid, tg_add_todrop,
      Resend, NewQuery
<1> QED
  BY <1>0, <1>1, <1>2, <1>3

\* No id is ahead of the clock.
LEMMA BelowStep ==
  ASSUME Shape, BelowClock, [Next]_vars
  PROVE  BelowClock'
<1>0. /\ clock' \in Nat /\ clock' >= clock /\ seqn' \in Nat /\ seqn' >= seqn
      /\ clock \in Nat /\ seqn \in Nat
  BY CountersGrow DEF Shape, SessionTypeOK
<1>1. ASSUME NEW p \in Packages', NEW i \in 1 .. Len(p.msgs)
      PROVE  p.msgs[i].id \in 1 .. clock' /\ p.msgs[i].seqno <= 2 * seqn'
  <2>1. CASE p.msgs = <<>>
    BY <2>1
  <2>2. ASSUME NEW q \in Packages, q.msgs = p.msgs
        PROVE  p.msgs[i].id \in 1 .. clock' /\ p.msgs[i].seqno <= 2 * seqn'
    <3>1. q.msgs[i].id \in 1 .. clock /\ q.msgs[i].seqno <= 2 * seqn
      BY <2>2, <1>1 DEF BelowClock
    <3>2. q.msgs[i].seqno \in Nat /\ q.msgs[i].id \in Nat
      <4>1. q.msgs \in Seq(Message) /\ i \in 1 .. Len(q.msgs)
        BY <2>2, <1>1, PackageType DEF Shape
      <4> QED
        BY <4>1, MessageType
    <3> QED
      BY <1>0, <2>2, <3>1, <3>2
  <2>3. ASSUME NEW t \in Thread, NEW m \in Message, NEW q \in Packages,
               Number(t), p.msgs = Append(pkg[t].msgs, m), q.msgs = pkg[t].msgs,
               m.kind = making[t], m.id = id[t],
               m.seqno = IF IsContent(making[t]) THEN 2 * seqn + 1 ELSE 2 * seqn
        PROVE  p.msgs[i].id \in 1 .. clock' /\ p.msgs[i].seqno <= 2 * seqn'
    <3>0. q.msgs \in Seq(Message)
      BY <2>3, PackageType DEF Shape
    <3>1. i \in 1 .. Len(q.msgs) \/ i = Len(q.msgs) + 1
      BY <1>1, <2>3, <3>0, AppendFacts
    <3>2. CASE i \in 1 .. Len(q.msgs)
      <4>1. q.msgs[i].id \in 1 .. clock /\ q.msgs[i].seqno <= 2 * seqn
        BY <3>2, <2>3 DEF BelowClock
      <4>2. q.msgs[i].seqno \in Nat /\ q.msgs[i].id \in Nat
        BY <3>2, <3>0, MessageType
      <4>3. p.msgs[i] = q.msgs[i]
        BY <2>3, <3>0, <3>2, AppendFacts
      <4> QED
        BY <1>0, <4>1, <4>2, <4>3
    <3>3. CASE i = Len(q.msgs) + 1
      <4>1. p.msgs[i] = m
        BY <2>3, <3>0, <3>3, AppendFacts
      <4>2. m.id \in 1 .. clock
        BY <2>3 DEF BelowClock, Number
      <4>3. m.seqno <= 2 * seqn'
        BY <1>0, <2>3, CountersGrow
      <4> QED
        BY <1>0, <4>1, <4>2, <4>3
    <3> QED
      BY <3>1, <3>2, <3>3
  <2> QED
    BY <2>1, <2>2, <2>3, Origin
<1>2. ASSUME NEW u \in Thread, pc'[u] = "seqno"
      PROVE  /\ id'[u] \in 1 .. clock'
             /\ \A i \in 1 .. Len(pkg'[u].msgs) : pkg'[u].msgs[i].id <= id'[u]
  <2> USE DEF Goto
  <2>1. ASSUME NEW t \in Thread, tg_get_current_time(t), u = t
        PROVE  /\ id'[u] \in 1 .. clock'
               /\ \A i \in 1 .. Len(pkg'[u].msgs) : pkg'[u].msgs[i].id <= id'[u]
    <3>1. pkg' = pkg /\ id'[u] = clock' /\ clock' \in Nat /\ clock' > 0 /\ clock' >= clock
      BY <2>1 DEF tg_get_current_time, Now, Shape, SessionTypeOK
    <3>2. Building(u) \in Packages
      BY <1>2 DEF Packages
    <3>3. \A i \in 1 .. Len(pkg[u].msgs) : pkg[u].msgs[i].id \in 1 .. clock
      BY <3>2 DEF BelowClock, Building
    <3> QED
      BY <1>0, <3>1, <3>3
  <2>2. CASE pc[u] = "seqno" /\ pkg'[u] = pkg[u] /\ id'[u] = id[u]
    BY <1>0, <1>2, <2>2 DEF BelowClock
  <2>3. \/ \E t \in Thread : tg_get_current_time(t) /\ u = t
        \/ pc[u] = "seqno" /\ pkg'[u] = pkg[u] /\ id'[u] = id[u]
    <3>0. /\ pc \in [Thread -> Location] /\ id \in [Thread -> Nat]
          /\ pkg \in [Thread -> [acks : SUBSET Entry, msgs : Seq(Message)]]
      BY DEF Shape, SessionTypeOK
    <3>1. ASSUME NEW t \in Thread, Number(t)
          PROVE  pc[u] = "seqno" /\ pkg'[u] = pkg[u] /\ id'[u] = id[u]
      BY <1>2, <3>0, <3>1 DEF Number
    <3>2. ASSUME NEW t \in Thread, tg_get_current_time(t), u # t
          PROVE  pc[u] = "seqno" /\ pkg'[u] = pkg[u] /\ id'[u] = id[u]
      BY <1>2, <3>0, <3>2 DEF tg_get_current_time
    <3>3. ASSUME NEW t \in Thread, tg_ack(t) \/ Send(t)
          PROVE  pc[u] = "seqno" /\ pkg'[u] = pkg[u] /\ id'[u] = id[u]
      BY <1>2, <3>0, <3>3 DEF tg_ack, Send
    <3>4. ASSUME NEW t \in Thread, NEW m \in ServerMsg,
                 \/ DropNext(t) \/ DropsDone(t) \/ tg_add_msgid(t, m)
                 \/ tg_add_todrop(t) \/ Resend(t) \/ NewQuery(t)
          PROVE  pc[u] = "seqno" /\ pkg'[u] = pkg[u] /\ id'[u] = id[u]
      BY <1>2, <3>0, <3>4
      DEF DropNext, DropsDone, tg_add_msgid, tg_add_todrop, Resend, NewQuery
    <3>5. ASSUME NEW t \in Thread,
                 \/ DropNext(t) \/ DropsDone(t)
                 \/ tg_add_todrop(t) \/ Resend(t) \/ NewQuery(t)
          PROVE  pc[u] = "seqno" /\ pkg'[u] = pkg[u] /\ id'[u] = id[u]
      BY <1>2, <3>0, <3>5
      DEF DropNext, DropsDone, tg_add_msgid, tg_add_todrop, Resend, NewQuery
    <3>6. CASE UNCHANGED vars
      BY <1>2, <3>6 DEF vars
    <3> QED
      BY <3>1, <3>2, <3>3, <3>4, <3>5, <3>6, StepCases
  <2> QED
    BY <2>1, <2>2, <2>3
<1> QED
  BY <1>1, <1>2 DEF BelowClock

\* A new message gets an id above all before it in its package.
LEMMA OrderedStep ==
  ASSUME Shape, BelowClock, PackageOrdered, [Next]_vars
  PROVE  PackageOrdered'
<1> SUFFICES ASSUME NEW p \in Packages', NEW i \in 1 .. Len(p.msgs),
                    NEW j \in 1 .. Len(p.msgs), i < j
             PROVE  /\ p.msgs[i].id <= p.msgs[j].id
                    /\ p.msgs[i].seqno <= p.msgs[j].seqno
                    /\ p.msgs[i].kind # "container"
  BY DEF PackageOrdered
<1>1. CASE p.msgs = <<>>
  BY <1>1
<1>2. CASE \E q \in Packages : q.msgs = p.msgs
  BY <1>2 DEF PackageOrdered
<1>3. ASSUME NEW t \in Thread, NEW m \in Message, NEW q \in Packages,
             Number(t), p.msgs = Append(pkg[t].msgs, m), q.msgs = pkg[t].msgs,
             m.kind = making[t], m.id = id[t],
             m.seqno = IF IsContent(making[t]) THEN 2 * seqn + 1 ELSE 2 * seqn
      PROVE  /\ p.msgs[i].id <= p.msgs[j].id
             /\ p.msgs[i].seqno <= p.msgs[j].seqno
             /\ p.msgs[i].kind # "container"
  <2> DEFINE s == pkg[t].msgs
  <2>0. s \in Seq(Message) /\ pc[t] = "seqno" /\ seqn \in Nat
    BY <1>3 DEF Number, Shape, SessionTypeOK
  <2>1. \A k \in 1 .. Len(s) : s[k].id <= id[t] /\ s[k].kind # "container"
    BY <1>3, <2>0 DEF BelowClock, Shape, Progress, BuiltAt
  <2>2. \A k \in 1 .. Len(s) : s[k].seqno <= 2 * seqn
    BY <1>3 DEF BelowClock
  <2>3. \A k, l \in 1 .. Len(s) : k < l =>
          s[k].id <= s[l].id /\ s[k].seqno <= s[l].seqno
    BY <1>3 DEF PackageOrdered
  <2>4. p.msgs = Append(s, m)
    BY <1>3
  <2> HIDE DEF s
  <2>5. Len(p.msgs) = Len(s) + 1 /\ Len(s) \in Nat
    BY <2>0, <2>4, AppendFacts
  <2>6. i \in 1 .. Len(s)
    BY <2>5
  <2>7. p.msgs[i] = s[i] /\ s[i].id \in Nat /\ s[i].seqno \in Nat
    BY <2>0, <2>4, <2>6, AppendFacts, MessageType
  <2>8. CASE j \in 1 .. Len(s)
    <3>1. p.msgs[j] = s[j]
      BY <2>0, <2>4, <2>8, AppendFacts
    <3> QED
      BY <2>1, <2>3, <2>6, <2>7, <2>8, <3>1
  <2>9. CASE j = Len(s) + 1
    <3>1. p.msgs[j] = m
      BY <2>0, <2>4, <2>9, AppendFacts
    <3>2. s[i].seqno <= m.seqno
      BY <1>3, <2>0, <2>2, <2>6, <2>7
    <3> QED
      BY <1>3, <2>1, <2>6, <2>7, <3>1, <3>2
  <2> QED
    BY <2>5, <2>8, <2>9
<1> QED
  BY <1>1, <1>2, <1>3, Origin

\* An empty session has no ids.
LEMMA BelowInit ==
  ASSUME Init
  PROVE  BelowClock /\ PackageOrdered
<1>1. \A p \in Packages : p.msgs = <<>>
  BY DEF Init, Packages, Building, EmptyPkg
<1> QED
  BY <1>1 DEF Init, BelowClock, PackageOrdered

\* Ids and sequence numbers never decrease within a package and the container
\* comes last, for any number of threads that read the one clock and count
\* with the one counter in any order, and whether or not the clock has ties.
THEOREM PackagesOrdered == Spec => []PackageOrdered
<1>1. Shape /\ [Next]_vars => Shape'
  BY TypeStep, ProgressStep, LogStep DEF Shape
<1>2. Shape /\ BelowClock /\ [Next]_vars => BelowClock'
  BY BelowStep
<1>3. Shape /\ BelowClock /\ PackageOrdered /\ [Next]_vars => PackageOrdered'
  BY OrderedStep
<1> QED
  BY <1>1, <1>2, <1>3, TypeInit, BelowInit, PTL DEF Spec

(***************************************************************************)
(* Sequence numbers.  The injection from messages to numbers: a package    *)
(* that is sent keeps its messages, and a new message gets a new number.   *)
(***************************************************************************)

\* A step numbers a message by the content before it.
LEMMA SeqnoStep ==
  ASSUME Shape, SeqnoNumbersContent, [Next]_vars
  PROVE  SeqnoNumbersContent'
<1> USE DEF Numbered
<1> DEFINE
      Odd(P, n) == \A p \in P : \A i \in 1 .. Len(p.msgs) :
        p.msgs[i].kind \in Content => \E k \in 1 .. n : p.msgs[i].seqno = 2 * k - 1
      NoGap(P, n) == \A k \in 1 .. n : \E p \in P : \E i \in 1 .. Len(p.msgs) :
        p.msgs[i].kind \in Content /\ p.msgs[i].seqno = 2 * k - 1
      Once(P) == \A p1, p2 \in P :
        \A i \in 1 .. Len(p1.msgs), j \in 1 .. Len(p2.msgs) :
          /\ p1.msgs[i].kind \in Content /\ p2.msgs[j].kind \in Content
          /\ p1.msgs[i].seqno = p2.msgs[j].seqno
          => p1 = p2 /\ i = j
      Even(P) == \A p \in P : \A i \in 1 .. Len(p.msgs) :
        p.msgs[i].kind \in Kind \ Content => p.msgs[i].seqno % 2 = 0
<1>0. Odd(Packages, seqn) /\ NoGap(Packages, seqn) /\ Once(Packages) /\ Even(Packages)
  <2>1. Odd(Packages, seqn)
    BY DEF SeqnoNumbersContent
  <2>2. NoGap(Packages, seqn)
    BY DEF SeqnoNumbersContent
  <2>3. Once(Packages)
    BY DEF SeqnoNumbersContent
  <2>4. Even(Packages)
    BY DEF SeqnoNumbersContent
  <2> QED
    BY <2>1, <2>2, <2>3, <2>4
<1>9. ASSUME Odd(Packages', seqn'), NoGap(Packages', seqn'), Once(Packages'),
             Even(Packages')
      PROVE  SeqnoNumbersContent'
  <2>1. \A p \in Packages' : \A i \in Numbered(p, Content) :
          \E n \in 1 .. seqn' : p.msgs[i].seqno = 2 * n - 1
    BY <1>9
  <2>2. \A n \in 1 .. seqn' : \E p \in Packages' : \E i \in Numbered(p, Content) :
          p.msgs[i].seqno = 2 * n - 1
    BY <1>9
  <2>3. \A p1, p2 \in Packages' :
          \A i \in Numbered(p1, Content), j \in Numbered(p2, Content) :
            p1.msgs[i].seqno = p2.msgs[j].seqno => p1 = p2 /\ i = j
    BY <1>9
  <2>4. \A p \in Packages' : \A i \in Numbered(p, Kind \ Content) :
          p.msgs[i].seqno % 2 = 0
    BY <1>9
  <2> HIDE DEF Numbered
  <2> QED
    BY <2>1, <2>2, <2>3, <2>4 DEF SeqnoNumbersContent
<1>1. ASSUME NEW t \in Thread, Number(t) PROVE SeqnoNumbersContent'
  <2> DEFINE old == PackageOf(t, 0, pkg[t].acks, pkg[t].msgs)
             new == PackageOf(t, 0, pkg'[t].acks, pkg'[t].msgs)
             s == pkg[t].msgs
  <2>1. log' = log /\ \A u \in Thread \ {t} : pkg'[u] = pkg[u]
    BY <1>1 DEF Number, Shape, SessionTypeOK
  <2>2. PICK Q :
          /\ Packages = Q \cup {old} /\ Packages' = Q \cup {new}
          /\ \A q \in Q : q.by # t \/ q.no # 0
    BY <1>1, <2>1, Rebuilt
  <2>3. PICK m \in Message :
          /\ m.kind = making[t]
          /\ m.seqno = IF IsContent(making[t]) THEN 2 * seqn + 1 ELSE 2 * seqn
          /\ pkg' = [pkg EXCEPT ![t] = [acks |-> pkg[t].acks,
                                        msgs |-> Append(pkg[t].msgs, m)]]
    BY <1>1, NumberMessage DEF Shape
  <2>4. s \in Seq(Message) /\ pkg'[t].msgs = Append(s, m) /\ seqn \in Nat
    BY <1>1, <2>3 DEF Shape, SessionTypeOK
  <2>5. /\ old.msgs = s /\ new.msgs = Append(s, m)
        /\ old \notin Q /\ new \notin Q
    BY <2>2, <2>4 DEF PackageOf
  <2>6. m.kind \in Kind
    BY <2>3 DEF Message
  <2>7. /\ m.kind \in Content => m.seqno = 2 * seqn + 1 /\ seqn' = seqn + 1
        /\ m.kind \notin Content => m.seqno = 2 * seqn /\ seqn' = seqn
    BY <1>1, <2>3 DEF IsContent, Number
  <2> HIDE DEF old, new, s
  <2>8. /\ Len(new.msgs) = Len(s) + 1 /\ Len(s) \in Nat
        /\ new.msgs[Len(s) + 1] = m
        /\ \A i \in 1 .. Len(s) : new.msgs[i] = old.msgs[i]
        /\ Len(old.msgs) = Len(s)
    BY <2>4, <2>5, AppendFacts
  <2>9. ASSUME NEW p \in Packages', NEW i \in 1 .. Len(p.msgs)
        PROVE  \/ p = new /\ i = Len(s) + 1 /\ p.msgs[i] = m
               \/ \E q \in Packages :
                    /\ i \in 1 .. Len(q.msgs) /\ q.msgs[i] = p.msgs[i]
                    /\ p \in Q => q = p
                    /\ p \notin Q => q = old /\ p = new
    BY <2>2, <2>8
  <2>10. ASSUME NEW p \in Packages', NEW i \in 1 .. Len(p.msgs),
                p.msgs[i].kind \in Content
         PROVE  \E n \in 1 .. seqn' : p.msgs[i].seqno = 2 * n - 1
    <3>1. CASE p.msgs[i] = m
      <4>1. seqn' \in 1 .. seqn' /\ m.seqno = 2 * seqn' - 1
        <5>1. m.seqno = 2 * seqn + 1 /\ seqn' = seqn + 1
          BY <2>7, <2>10, <3>1
        <5> QED
          BY <2>4, <5>1
      <4> QED
        BY <3>1, <4>1
    <3>2. ASSUME NEW q \in Packages, i \in 1 .. Len(q.msgs), q.msgs[i] = p.msgs[i]
          PROVE  \E n \in 1 .. seqn' : p.msgs[i].seqno = 2 * n - 1
      <4>1. PICK n \in 1 .. seqn : p.msgs[i].seqno = 2 * n - 1
        <5>1. q.msgs[i].kind \in Content /\ Odd(Packages, seqn)
          BY <1>0, <2>10, <3>2
        <5> QED
          BY <3>2, <5>1
      <4>2. n \in 1 .. seqn'
        BY <2>4, <2>7
      <4> QED
        BY <4>1, <4>2
    <3> QED
      BY <2>9, <3>1, <3>2
  <2>11. ASSUME NEW n \in 1 .. seqn'
         PROVE  \E p \in Packages' : \E i \in 1 .. Len(p.msgs) :
                  p.msgs[i].kind \in Content /\ p.msgs[i].seqno = 2 * n - 1
    <3>1. CASE n \in 1 .. seqn
      <4>0. PICK p \in Packages : \E i \in 1 .. Len(p.msgs) :
              p.msgs[i].kind \in Content /\ p.msgs[i].seqno = 2 * n - 1
        BY <1>0, <3>1
      <4>1. PICK i \in 1 .. Len(p.msgs) :
              p.msgs[i].kind \in Content /\ p.msgs[i].seqno = 2 * n - 1
        BY <4>0
      <4>2. CASE p = old
        <5>1. i \in 1 .. Len(new.msgs) /\ new.msgs[i] = p.msgs[i] /\ new \in Packages'
          BY <2>2, <2>8, <4>2
        <5> QED
          BY <4>1, <5>1
      <4>3. CASE p \in Q
        BY <2>2, <4>1, <4>3
      <4> QED
        BY <2>2, <4>2, <4>3
    <3>2. CASE n = seqn + 1 /\ m.kind \in Content
      <4>1. Len(s) + 1 \in 1 .. Len(new.msgs) /\ new \in Packages' /\ m.seqno = 2 * n - 1
        BY <2>2, <2>4, <2>7, <2>8, <3>2
      <4> QED
        BY <2>8, <3>2, <4>1
    <3> QED
      BY <2>4, <2>7, <3>1, <3>2
  <2>12. \A q \in Packages : \A i \in 1 .. Len(q.msgs) :
           q.msgs[i].kind \in Content => q.msgs[i].seqno # 2 * seqn + 1
    <3> SUFFICES ASSUME NEW q \in Packages, NEW i \in 1 .. Len(q.msgs),
                        q.msgs[i].kind \in Content
                 PROVE  q.msgs[i].seqno # 2 * seqn + 1
      OBVIOUS
    <3>1. PICK n \in 1 .. seqn : q.msgs[i].seqno = 2 * n - 1
      BY <1>0
    <3> QED
      BY <2>4, <3>1
  <2>13. ASSUME NEW p1 \in Packages', NEW p2 \in Packages',
                NEW i \in 1 .. Len(p1.msgs), NEW j \in 1 .. Len(p2.msgs),
                p1.msgs[i].kind \in Content, p2.msgs[j].kind \in Content,
                p1.msgs[i].seqno = p2.msgs[j].seqno
         PROVE  p1 = p2 /\ i = j
    <3>1. CASE p1 = new /\ i = Len(s) + 1 /\ p1.msgs[i] = m
      BY <2>7, <2>9, <2>12, <2>13, <3>1
    <3>2. CASE p2 = new /\ j = Len(s) + 1 /\ p2.msgs[j] = m
      BY <2>7, <2>9, <2>12, <2>13, <3>2
    <3>3. ASSUME NEW q1 \in Packages, i \in 1 .. Len(q1.msgs),
                 q1.msgs[i] = p1.msgs[i], p1 \in Q => q1 = p1,
                 p1 \notin Q => q1 = old /\ p1 = new,
                 NEW q2 \in Packages, j \in 1 .. Len(q2.msgs),
                 q2.msgs[j] = p2.msgs[j], p2 \in Q => q2 = p2,
                 p2 \notin Q => q2 = old /\ p2 = new
          PROVE  p1 = p2 /\ i = j
      <4>1. q1 = q2 /\ i = j
        <5>1. /\ q1.msgs[i].kind \in Content /\ q2.msgs[j].kind \in Content
              /\ q1.msgs[i].seqno = q2.msgs[j].seqno
          BY <2>13, <3>3
        <5>2. Once(Packages)
          BY <1>0
        <5>3. /\ q1 \in Packages /\ i \in 1 .. Len(q1.msgs)
              /\ q2 \in Packages /\ j \in 1 .. Len(q2.msgs)
          BY <3>3
        <5> QED
          BY <5>1, <5>2, <5>3
      <4> QED
        BY <2>5, <3>3, <4>1
    <3> QED
      BY <2>9, <3>1, <3>2, <3>3
  <2>14. ASSUME NEW p \in Packages', NEW i \in 1 .. Len(p.msgs),
                p.msgs[i].kind \in Kind \ Content
         PROVE  p.msgs[i].seqno % 2 = 0
    <3>1. CASE p.msgs[i] = m
      BY <2>4, <2>7, <2>14, <3>1
    <3>2. CASE \E q \in Packages : i \in 1 .. Len(q.msgs) /\ q.msgs[i] = p.msgs[i]
      BY <1>0, <2>14, <3>2
    <3> QED
      BY <2>9, <3>1, <3>2
  <2>15. Odd(Packages', seqn') /\ NoGap(Packages', seqn')
    BY <2>10, <2>11
  <2>16. Once(Packages')
    BY <2>13
  <2>17. Even(Packages')
    BY <2>14
  <2> QED
    BY <1>9, <2>15, <2>16, <2>17
<1>2. ASSUME NEW t \in Thread, Send(t) PROVE SeqnoNumbersContent'
  <2> DEFINE old == PackageOf(t, 0, pkg[t].acks, pkg[t].msgs)
             new == PackageOf(t, Sends(t) + 1, pkg[t].acks, pkg[t].msgs)
             empty == PackageOf(t, 0, {}, <<>>)
  <2>1. PICK Q :
          /\ Packages = Q \cup {old} /\ Packages' = Q \cup {empty, new}
          /\ \A q \in Q : q.by # t \/ q.no \notin {0, Sends(t) + 1}
    BY <1>2, Sent
  <2>2. /\ old.msgs = new.msgs /\ empty.msgs = <<>> /\ old \notin Q /\ new \notin Q
    BY <2>1 DEF PackageOf
  <2>3. seqn' = seqn
    BY <1>2 DEF Send
  <2> HIDE DEF old, new, empty
  <2>4. ASSUME NEW p \in Packages', NEW i \in 1 .. Len(p.msgs)
        PROVE  \E q \in Packages :
                 /\ i \in 1 .. Len(q.msgs) /\ q.msgs[i] = p.msgs[i]
                 /\ p \in Q => q = p
                 /\ p \notin Q => q = old /\ p = new
    BY <2>1, <2>2
  <2>5. NoGap(Packages', seqn')
    <3> SUFFICES ASSUME NEW k \in 1 .. seqn
                 PROVE  \E p \in Packages' : \E i \in 1 .. Len(p.msgs) :
                          p.msgs[i].kind \in Content /\ p.msgs[i].seqno = 2 * k - 1
      BY <2>3
    <3>1. PICK p \in Packages : \E i \in 1 .. Len(p.msgs) :
            p.msgs[i].kind \in Content /\ p.msgs[i].seqno = 2 * k - 1
      BY <1>0
    <3>2. CASE p = old
      BY <2>1, <2>2, <3>1, <3>2
    <3>3. CASE p \in Q
      BY <2>1, <3>1, <3>3
    <3> QED
      BY <2>1, <3>2, <3>3
  <2>6. ASSUME NEW p1 \in Packages', NEW p2 \in Packages',
               NEW i \in 1 .. Len(p1.msgs), NEW j \in 1 .. Len(p2.msgs),
               p1.msgs[i].kind \in Content, p2.msgs[j].kind \in Content,
               p1.msgs[i].seqno = p2.msgs[j].seqno
        PROVE  p1 = p2 /\ i = j
    <3>1. PICK q1 \in Packages :
            /\ i \in 1 .. Len(q1.msgs) /\ q1.msgs[i] = p1.msgs[i]
            /\ p1 \in Q => q1 = p1
            /\ p1 \notin Q => q1 = old /\ p1 = new
      BY <2>4
    <3>2. PICK q2 \in Packages :
            /\ j \in 1 .. Len(q2.msgs) /\ q2.msgs[j] = p2.msgs[j]
            /\ p2 \in Q => q2 = p2
            /\ p2 \notin Q => q2 = old /\ p2 = new
      BY <2>4
    <3>3. q1 = q2 /\ i = j
      <4>1. /\ q1.msgs[i].kind \in Content /\ q2.msgs[j].kind \in Content
            /\ q1.msgs[i].seqno = q2.msgs[j].seqno
        BY <2>6, <3>1, <3>2
      <4>2. Once(Packages)
        BY <1>0
      <4>3. /\ q1 \in Packages /\ i \in 1 .. Len(q1.msgs)
            /\ q2 \in Packages /\ j \in 1 .. Len(q2.msgs)
        BY <3>1, <3>2
      <4> QED
        BY <4>1, <4>2, <4>3
    <3> QED
      BY <2>2, <3>1, <3>2, <3>3
  <2>7. ASSUME NEW p \in Packages', NEW i \in 1 .. Len(p.msgs)
        PROVE  /\ p.msgs[i].kind \in Content =>
                    \E n \in 1 .. seqn' : p.msgs[i].seqno = 2 * n - 1
               /\ p.msgs[i].kind \in Kind \ Content => p.msgs[i].seqno % 2 = 0
    <3>1. PICK q \in Packages : i \in 1 .. Len(q.msgs) /\ q.msgs[i] = p.msgs[i]
      BY <2>4
    <3>2. q.msgs[i].kind \in Content => \E n \in 1 .. seqn : q.msgs[i].seqno = 2 * n - 1
      <4>1. Odd(Packages, seqn)
        BY <1>0
      <4> QED
        BY <3>1, <4>1
    <3>3. q.msgs[i].kind \in Kind \ Content => q.msgs[i].seqno % 2 = 0
      <4>1. Even(Packages)
        BY <1>0
      <4> QED
        BY <3>1, <4>1
    <3> QED
      BY <2>3, <3>1, <3>2, <3>3
  <2>8. Odd(Packages', seqn') /\ Even(Packages')
    BY <2>7
  <2>9. Once(Packages')
    BY <2>6
  <2> QED
    BY <1>9, <2>5, <2>8, <2>9
<1>3. ASSUME NEW t \in Thread, tg_ack(t) PROVE SeqnoNumbersContent'
  <2> DEFINE old == PackageOf(t, 0, pkg[t].acks, pkg[t].msgs)
             new == PackageOf(t, 0, pkg'[t].acks, pkg'[t].msgs)
  <2>1. log' = log /\ \A u \in Thread \ {t} : pkg'[u] = pkg[u]
    BY <1>3 DEF tg_ack, Shape, SessionTypeOK
  <2>2. PICK Q : Packages = Q \cup {old} /\ Packages' = Q \cup {new}
    BY <1>3, <2>1, Rebuilt
  <2>3. pkg[t].msgs = <<>> /\ pkg'[t].msgs = <<>> /\ seqn' = seqn
    BY <1>3 DEF tg_ack, Shape, Progress, BuiltAt, EmptyPkg, SessionTypeOK
  <2>4. old.msgs = <<>> /\ new.msgs = <<>>
    BY <2>3 DEF PackageOf
  <2> HIDE DEF old, new
  <2>5. \A p \in Packages' : \A i \in 1 .. Len(p.msgs) : p \in Packages
    BY <2>2, <2>4
  <2>6. \A p \in Packages : \A i \in 1 .. Len(p.msgs) : p \in Packages'
    BY <2>2, <2>4
  <2>7. Odd(Packages', seqn')
    <3>1. Odd(Packages, seqn)
      BY <1>0
    <3> QED
      BY <2>3, <2>5, <3>1
  <2>8. NoGap(Packages', seqn')
    <3>1. NoGap(Packages, seqn)
      BY <1>0
    <3> QED
      BY <2>3, <2>6, <3>1
  <2>9. Once(Packages')
    <3>1. Once(Packages)
      BY <1>0
    <3> QED
      BY <2>5, <3>1
  <2>10. Even(Packages')
    <3>1. Even(Packages)
      BY <1>0
    <3> QED
      BY <2>5, <3>1
  <2> QED
    BY <1>9, <2>7, <2>8, <2>9, <2>10
<1>4. ASSUME pkg' = pkg, log' = log, seqn' = seqn PROVE SeqnoNumbersContent'
  BY <1>4, Untouched DEF SeqnoNumbersContent
<1> QED
  BY <1>1, <1>2, <1>3, <1>4, StepCases
  DEF vars, tg_get_current_time, DropNext, DropsDone, tg_add_msgid,
      tg_add_todrop, Resend, NewQuery

\* Over all threads and packages, the content-related messages are numbered
\* 1, 3, 5 ... without a gap and without a repetition, and every other message
\* has an even number: seqnm is enough, although the id of a message is read
\* from the clock before it is taken.
THEOREM ContentNumbered == Spec => []SeqnoNumbersContent
<1>1. Init => SeqnoNumbersContent
  <2>1. Init => \A p \in Packages : p.msgs = <<>>
    BY DEF Init, Packages, Building, EmptyPkg
  <2> QED
    BY <2>1 DEF Init, SeqnoNumbersContent, Numbered
<1>2. Shape /\ [Next]_vars => Shape'
  BY TypeStep, ProgressStep, LogStep DEF Shape
<1>3. Shape /\ SeqnoNumbersContent /\ [Next]_vars => SeqnoNumbersContent'
  BY SeqnoStep
<1> QED
  BY <1>1, <1>2, <1>3, TypeInit, PTL DEF Spec

(***************************************************************************)
(* queue->msgid.                                                           *)
(***************************************************************************)

\* The id a query is known by is no later than the clock.
LEMMA MsgidStep ==
  ASSUME Shape, BelowClock, MsgidInTime, [Next]_vars
  PROVE  MsgidInTime'
<1> SUFFICES ASSUME NEW u \in Thread PROVE MsgidAt(u)'
  BY DEF MsgidInTime
<1> USE DEF Goto, Make
<1>0. /\ MsgidAt(u) /\ BuiltAt(u)
      /\ pc \in [Thread -> Location] /\ making \in [Thread -> Kind]
      /\ id \in [Thread -> Nat] /\ msgid \in [Thread -> Nat]
      /\ pkg \in [Thread -> [acks : SUBSET Entry, msgs : Seq(Message)]]
  BY DEF MsgidInTime, Shape, Progress, SessionTypeOK
<1>1. ASSUME NEW t \in Thread, tg_ack(t) PROVE MsgidAt(u)'
  BY <1>0, <1>1 DEF tg_ack, MsgidAt, IsQueryOf, MessagesOf
<1>2. ASSUME NEW t \in Thread, tg_get_current_time(t) PROVE MsgidAt(u)'
  <2>1. CASE u # t
    BY <1>0, <1>2, <2>1 DEF tg_get_current_time, MsgidAt, IsQueryOf, MessagesOf
  <2>2. CASE u = t
    <3>1. /\ pc[u] = "clock" /\ pc'[u] = "seqno"
          /\ making' = making /\ pkg' = pkg
          /\ msgid'[u] = IF making[u] \in {"plain", "container"} /\ msgid[u] = 0
                         THEN id'[u] ELSE msgid[u]
      BY <1>0, <1>2, <2>2 DEF tg_get_current_time
    <3>2. making[u] = "plain" => msgid'[u] = id'[u]
      BY <1>0, <3>1 DEF MsgidAt
    <3>3. making[u] = "container" => msgid'[u] = pkg[u].msgs[1].id
      <4>1. CASE making[u] = "container"
        <5>1. pkg[u].msgs # <<>> /\ msgid[u] = pkg[u].msgs[1].id
          BY <1>0, <3>1, <4>1 DEF BuiltAt, MsgidAt
        <5>2. 1 \in 1 .. Len(pkg[u].msgs)
          BY <1>0, <5>1
        <5>3. Building(u) \in Packages
          BY DEF Packages
        <5>4. pkg[u].msgs[1].id \in 1 .. clock
          BY <5>2, <5>3 DEF BelowClock, Building
        <5> QED
          BY <3>1, <5>1, <5>4
      <4> QED
        BY <4>1
    <3> QED
      BY <3>1, <3>2, <3>3 DEF MsgidAt
  <2> QED
    BY <2>1, <2>2
<1>3. ASSUME NEW t \in Thread, Number(t) PROVE MsgidAt(u)'
  <2>1. CASE u # t
    BY <1>0, <1>3, <2>1 DEF Number, MsgidAt, IsQueryOf, MessagesOf
  <2>2. CASE u = t
    <3>1. PICK m \in Message :
            /\ m.kind = making[u] /\ m.id = id[u]
            /\ pkg' = [pkg EXCEPT ![u] = [acks |-> pkg[u].acks,
                                          msgs |-> Append(pkg[u].msgs, m)]]
      BY <1>3, <2>2, NumberMessage DEF Shape
    <3> DEFINE s == pkg[u].msgs
    <3>2. s \in Seq(Message) /\ pkg'[u].msgs = Append(s, m)
      BY <1>0, <3>1
    <3>3. /\ pc[u] = "seqno" /\ msgid' = msgid
          /\ making'[u] = IF making[u] = "query" THEN "ack" ELSE making[u]
          /\ pc'[u] = CASE making[u] = "query" -> "clock"
                        [] making[u] \in {"ack", "drop"} -> "drops"
                        [] OTHER -> "send"
      BY <1>0, <1>3, <2>2 DEF Number
    <3>4. /\ making[u] = "plain" => s = <<>> /\ msgid[u] = id[u]
          /\ making[u] = "container" =>
               s # <<>> /\ s[1].kind = "query" /\ msgid[u] = s[1].id
      BY <1>0, <3>3 DEF BuiltAt, MsgidAt
    <3> HIDE DEF s
    <3>5. 1 \in 1 .. Len(Append(s, m))
      BY <3>2, AppendFacts
    <3>6. making[u] \in {"plain", "container"} =>
            /\ Append(s, m)[1].kind \in {"query", "plain"}
            /\ Append(s, m)[1].id = msgid[u]
      BY <3>1, <3>2, <3>4, AppendFacts
    <3>7. making[u] \in {"plain", "container"} => IsQueryOf(pkg'[u].msgs, msgid[u])
      BY <3>2, <3>5, <3>6 DEF IsQueryOf, MessagesOf
    <3>8. pc'[u] = "send" => making[u] \in {"plain", "container"}
      BY <1>0, <3>3 DEF Kind, Content
    <3>9. pc'[u] \in {"clock", "seqno"} => making'[u] = "ack"
      BY <1>0, <3>3 DEF Kind, Content
    <3> QED
      BY <3>3, <3>7, <3>8, <3>9 DEF MsgidAt, IsQueryOf
  <2> QED
    BY <2>1, <2>2
<1>4. ASSUME NEW t \in Thread, DropNext(t) PROVE MsgidAt(u)'
  BY <1>0, <1>4 DEF DropNext, MsgidAt, IsQueryOf, MessagesOf
<1>5. ASSUME NEW t \in Thread, DropsDone(t) PROVE MsgidAt(u)'
  BY <1>0, <1>5 DEF DropsDone, QueryId, MsgidAt, IsQueryOf, MessagesOf
<1>6. ASSUME NEW t \in Thread, Send(t) PROVE MsgidAt(u)'
  BY <1>0, <1>6 DEF Send, MsgidAt, IsQueryOf, MessagesOf
<1>7. ASSUME NEW t \in Thread, NEW m \in ServerMsg, tg_add_msgid(t, m)
      PROVE  MsgidAt(u)'
  BY <1>0, <1>7 DEF tg_add_msgid, MsgidAt, IsQueryOf, MessagesOf
<1>8. ASSUME NEW t \in Thread, tg_add_todrop(t) PROVE MsgidAt(u)'
  BY <1>0, <1>8 DEF tg_add_todrop, MsgidAt, IsQueryOf, MessagesOf
<1>9. ASSUME NEW t \in Thread, Resend(t) PROVE MsgidAt(u)'
  BY <1>0, <1>9 DEF Resend, MsgidAt, IsQueryOf, MessagesOf
<1>10. ASSUME NEW t \in Thread, NewQuery(t) PROVE MsgidAt(u)'
  BY <1>0, <1>10 DEF NewQuery, MsgidAt, IsQueryOf, MessagesOf
<1>11. CASE UNCHANGED vars
  BY <1>0, <1>11 DEF vars, MsgidAt, IsQueryOf, MessagesOf
<1> QED
  BY <1>1, <1>2, <1>3, <1>4, <1>5, <1>6, <1>7, <1>8, <1>9, <1>10, <1>11,
     StepCases

\* The id a query is known by stays that of its message.
LEMMA NamesStep ==
  ASSUME Shape, MsgidInTime, MsgidNamesQuery, [Next]_vars
  PROVE  MsgidNamesQuery'
<1> USE DEF Goto, Make
<1>0. /\ pc \in [Thread -> Location] /\ msgid \in [Thread -> Nat]
      /\ \A p \in log : p.by \in Thread /\ p.no \in Nat
  BY DEF Shape, SessionTypeOK
<1>1. ASSUME NEW t \in Thread, Send(t) PROVE MsgidNamesQuery'
  <2>1. PICK new :
          /\ new.by = t /\ new.no = Sends(t) + 1 /\ new.msgs = pkg[t].msgs
          /\ log' = log \cup {new}
          /\ Sends(t)' = Sends(t) + 1
          /\ \A u \in Thread \ {t} :
               Cardinality({p \in log' : p.by = u}) = Sends(u)
    BY <1>1, SendPackage
  <2>2. IsQueryOf(pkg[t].msgs, msgid[t]) /\ msgid' = msgid
        /\ \A u \in Thread \ {t} : pc'[u] = pc[u]
    BY <1>0, <1>1 DEF Send, MsgidInTime, MsgidAt
  <2>3. ASSUME NEW p \in log', pc'[p.by] = "wait", p.no = Sends(p.by)'
        PROVE  IsQueryOf(p.msgs, msgid'[p.by])
    <3>1. CASE p = new
      BY <2>1, <2>2, <3>1
    <3>2. CASE p \in log /\ p.by = t
      <4>1. p.no <= Sends(t) /\ Sends(t) \in Nat /\ p.no \in Nat
        BY <3>2, SendsType DEF Shape, LogNumbered, SessionTypeOK
      <4>2. p.no = Sends(t) + 1
        BY <2>1, <2>3, <3>2
      <4> QED
        BY <4>1, <4>2
    <3>3. CASE p \in log /\ p.by # t
      <4>1. p.by \in Thread \ {t}
        BY <1>0, <3>3
      <4>2. Sends(p.by)' = Sends(p.by)
        BY <4>1, <2>1 DEF Sends
      <4> QED
        BY <2>2, <2>3, <3>3, <4>1, <4>2 DEF MsgidNamesQuery
    <3> QED
      BY <2>1, <3>1, <3>2, <3>3
  <2> QED
    BY <2>3 DEF MsgidNamesQuery, IsQueryOf, MessagesOf
<1>2. ASSUME log' = log,
             \A u \in Thread : pc'[u] = "wait" =>
                                  pc[u] = "wait" /\ msgid'[u] = msgid[u]
      PROVE  MsgidNamesQuery'
  BY <1>0, <1>2 DEF MsgidNamesQuery, Sends, IsQueryOf, MessagesOf
<1>3. ASSUME NEW t \in Thread, tg_get_current_time(t) PROVE MsgidNamesQuery'
  BY <1>0, <1>2, <1>3 DEF tg_get_current_time
<1>4. ASSUME NEW t \in Thread, Number(t) PROVE MsgidNamesQuery'
  <2>1. log' = log /\ msgid' = msgid
    BY <1>4 DEF Number
  <2>2. \A u \in Thread : pc'[u] = "wait" => pc[u] = "wait"
    BY <1>0, <1>4 DEF Number
  <2> QED
    BY <1>2, <2>1, <2>2
<1>5. ASSUME NEW t \in Thread, tg_ack(t) \/ DropsDone(t) \/ NewQuery(t)
      PROVE  MsgidNamesQuery'
  BY <1>0, <1>2, <1>5 DEF tg_ack, DropsDone, NewQuery
<1>6. ASSUME NEW t \in Thread, DropNext(t) \/ tg_add_todrop(t) \/ Resend(t)
      PROVE  MsgidNamesQuery'
  BY <1>0, <1>2, <1>6 DEF DropNext, tg_add_todrop, Resend
<1>7. ASSUME NEW t \in Thread, NEW m \in ServerMsg, tg_add_msgid(t, m)
      PROVE  MsgidNamesQuery'
  BY <1>0, <1>2, <1>7 DEF tg_add_msgid
<1>8. CASE UNCHANGED vars
  BY <1>2, <1>8 DEF vars
<1> QED
  BY <1>1, <1>3, <1>4, <1>5, <1>6, <1>7, <1>8, StepCases

\* A thread that waits waits for the id that its query carries in the package
\* it sent last, in a container or not and after any number of repetitions:
\* the rpc_result for the query finds the object (tg_header sets queue->msgid
\* at a different place in each case).
THEOREM MsgidIsTheQuerys == Spec => []MsgidNamesQuery
<1>1. Init => MsgidInTime /\ MsgidNamesQuery
  BY DEF Init, MsgidInTime, MsgidAt, MsgidNamesQuery
<1>2. Shape /\ [Next]_vars => Shape'
  BY TypeStep, ProgressStep, LogStep DEF Shape
<1>3. Shape /\ BelowClock /\ [Next]_vars => BelowClock'
  BY BelowStep
<1>4. Shape /\ BelowClock /\ MsgidInTime /\ [Next]_vars => MsgidInTime'
  BY MsgidStep
<1>5. Shape /\ MsgidInTime /\ MsgidNamesQuery /\ [Next]_vars => MsgidNamesQuery'
  BY NamesStep
<1> QED
  BY <1>1, <1>2, <1>3, <1>4, <1>5, TypeInit, BelowInit, PTL DEF Spec

(***************************************************************************)
(* Drops.  They are named by message id, so they need a clock that does    *)
(* not return one value twice.                                             *)
(***************************************************************************)

\* Where two messages come from: messages of different packages were in
\* different packages before the step, unless Number has just made one.
LEMMA PairOrigin ==
  ASSUME Shape, [Next]_vars, NEW p1 \in Packages', NEW p2 \in Packages',
         NEW i \in 1 .. Len(p1.msgs), NEW j \in 1 .. Len(p2.msgs)
  PROVE  \/ p1 = p2 /\ i = j
         \/ \E q1, q2 \in Packages :
              /\ i \in 1 .. Len(q1.msgs) /\ q1.msgs[i] = p1.msgs[i]
              /\ j \in 1 .. Len(q2.msgs) /\ q2.msgs[j] = p2.msgs[j]
              /\ q1 = q2 => p1 = p2
         \/ \E t \in Thread, q \in Packages :
              /\ Number(t)
              /\ \/ /\ p1.msgs[i].id = id[t]
                    /\ p1.msgs[i].ref \in IF making[t] = "drop" THEN Undropped(t) ELSE {0}
                    /\ j \in 1 .. Len(q.msgs) /\ q.msgs[j] = p2.msgs[j]
                 \/ /\ p2.msgs[j].id = id[t]
                    /\ p2.msgs[j].ref \in IF making[t] = "drop" THEN Undropped(t) ELSE {0}
                    /\ i \in 1 .. Len(q.msgs) /\ q.msgs[i] = p1.msgs[i]
<1> DEFINE
      Same == p1 = p2 /\ i = j
      Old == \E q1, q2 \in Packages :
               /\ i \in 1 .. Len(q1.msgs) /\ q1.msgs[i] = p1.msgs[i]
               /\ j \in 1 .. Len(q2.msgs) /\ q2.msgs[j] = p2.msgs[j]
               /\ q1 = q2 => p1 = p2
      New == \E t \in Thread, q \in Packages :
               /\ Number(t)
               /\ \/ /\ p1.msgs[i].id = id[t]
                     /\ p1.msgs[i].ref \in IF making[t] = "drop" THEN Undropped(t) ELSE {0}
                     /\ j \in 1 .. Len(q.msgs) /\ q.msgs[j] = p2.msgs[j]
                  \/ /\ p2.msgs[j].id = id[t]
                     /\ p2.msgs[j].ref \in IF making[t] = "drop" THEN Undropped(t) ELSE {0}
                     /\ i \in 1 .. Len(q.msgs) /\ q.msgs[i] = p1.msgs[i]
<1>1. ASSUME NEW t \in Thread, Number(t) PROVE Same \/ Old \/ New
  <2> DEFINE old == PackageOf(t, 0, pkg[t].acks, pkg[t].msgs)
             new == PackageOf(t, 0, pkg'[t].acks, pkg'[t].msgs)
             s == pkg[t].msgs
  <2>1. log' = log /\ \A u \in Thread \ {t} : pkg'[u] = pkg[u]
    BY <1>1 DEF Number, Shape, SessionTypeOK
  <2>2. PICK Q :
          /\ Packages = Q \cup {old} /\ Packages' = Q \cup {new}
          /\ \A q \in Q : q.by # t \/ q.no # 0
    BY <1>1, <2>1, Rebuilt
  <2>3. PICK m \in Message :
          /\ m.id = id[t]
          /\ m.ref \in IF making[t] = "drop" THEN Undropped(t) ELSE {0}
          /\ pkg' = [pkg EXCEPT ![t] = [acks |-> pkg[t].acks,
                                        msgs |-> Append(pkg[t].msgs, m)]]
    BY <1>1, NumberMessage DEF Shape
  <2>4. s \in Seq(Message) /\ pkg'[t].msgs = Append(s, m)
    BY <1>1, <2>3 DEF Shape, SessionTypeOK
  <2>5. /\ old.msgs = s /\ new.msgs = Append(s, m)
        /\ old \notin Q /\ new \notin Q
    BY <2>2, <2>4 DEF PackageOf
  <2> HIDE DEF old, new, s
  <2>6. /\ Len(new.msgs) = Len(s) + 1 /\ Len(s) \in Nat
        /\ new.msgs[Len(s) + 1] = m
        /\ \A k \in 1 .. Len(s) : new.msgs[k] = old.msgs[k]
        /\ Len(old.msgs) = Len(s)
    BY <2>4, <2>5, AppendFacts
  <2>7. ASSUME NEW p \in Packages', NEW k \in 1 .. Len(p.msgs)
        PROVE  \/ p = new /\ k = Len(s) + 1 /\ p.msgs[k] = m
               \/ \E q \in Packages :
                    /\ k \in 1 .. Len(q.msgs) /\ q.msgs[k] = p.msgs[k]
                    /\ p \in Q => q = p
                    /\ p \notin Q => q = old /\ p = new
    BY <2>2, <2>6
  <2>8. CASE p1.msgs[i] = m /\ p1 = new /\ i = Len(s) + 1
    <3>1. CASE p2 = new /\ j = Len(s) + 1
      BY <2>8, <3>1
    <3>2. CASE \E q \in Packages : j \in 1 .. Len(q.msgs) /\ q.msgs[j] = p2.msgs[j]
      <4>1. PICK q \in Packages : j \in 1 .. Len(q.msgs) /\ q.msgs[j] = p2.msgs[j]
        BY <3>2
      <4>2. /\ p1.msgs[i].id = id[t]
            /\ p1.msgs[i].ref \in IF making[t] = "drop" THEN Undropped(t) ELSE {0}
        BY <2>3, <2>8
      <4>3. New
        BY <1>1, <4>1, <4>2
      <4> QED
        BY <4>3
    <3> QED
      BY <2>7, <3>1, <3>2
  <2>9. CASE p2.msgs[j] = m /\ p2 = new /\ j = Len(s) + 1
    <3>1. CASE p1 = new /\ i = Len(s) + 1
      BY <2>9, <3>1
    <3>2. CASE \E q \in Packages : i \in 1 .. Len(q.msgs) /\ q.msgs[i] = p1.msgs[i]
      <4>1. PICK q \in Packages : i \in 1 .. Len(q.msgs) /\ q.msgs[i] = p1.msgs[i]
        BY <3>2
      <4>2. /\ p2.msgs[j].id = id[t]
            /\ p2.msgs[j].ref \in IF making[t] = "drop" THEN Undropped(t) ELSE {0}
        BY <2>3, <2>9
      <4>3. New
        BY <1>1, <4>1, <4>2
      <4> QED
        BY <4>3
    <3> QED
      BY <2>7, <3>1, <3>2
  <2>10. ASSUME NEW q1 \in Packages, i \in 1 .. Len(q1.msgs),
                q1.msgs[i] = p1.msgs[i], p1 \in Q => q1 = p1,
                p1 \notin Q => q1 = old /\ p1 = new,
                NEW q2 \in Packages, j \in 1 .. Len(q2.msgs),
                q2.msgs[j] = p2.msgs[j], p2 \in Q => q2 = p2,
                p2 \notin Q => q2 = old /\ p2 = new
         PROVE  Old
    <3>1. q1 = q2 => p1 = p2
      BY <2>5, <2>10
    <3> QED
      BY <2>10, <3>1
  <2> HIDE DEF Same, Old, New
  <2> QED
    BY <2>7, <2>8, <2>9, <2>10
<1>2. ASSUME NEW t \in Thread, Send(t) PROVE Old
  <2> DEFINE old == PackageOf(t, 0, pkg[t].acks, pkg[t].msgs)
             new == PackageOf(t, Sends(t) + 1, pkg[t].acks, pkg[t].msgs)
             empty == PackageOf(t, 0, {}, <<>>)
  <2>1. PICK Q :
          /\ Packages = Q \cup {old} /\ Packages' = Q \cup {empty, new}
          /\ \A q \in Q : q.by # t \/ q.no \notin {0, Sends(t) + 1}
    BY <1>2, Sent
  <2>2. /\ old.msgs = new.msgs /\ empty.msgs = <<>> /\ old \notin Q /\ new \notin Q
    BY <2>1 DEF PackageOf
  <2> HIDE DEF old, new, empty
  <2>3. ASSUME NEW p \in Packages', NEW k \in 1 .. Len(p.msgs)
        PROVE  \E q \in Packages :
                 /\ k \in 1 .. Len(q.msgs) /\ q.msgs[k] = p.msgs[k]
                 /\ p \in Q => q = p
                 /\ p \notin Q => q = old /\ p = new
    BY <2>1, <2>2
  <2>4. PICK q1 \in Packages :
          /\ i \in 1 .. Len(q1.msgs) /\ q1.msgs[i] = p1.msgs[i]
          /\ p1 \in Q => q1 = p1
          /\ p1 \notin Q => q1 = old /\ p1 = new
    BY <2>3
  <2>5. PICK q2 \in Packages :
          /\ j \in 1 .. Len(q2.msgs) /\ q2.msgs[j] = p2.msgs[j]
          /\ p2 \in Q => q2 = p2
          /\ p2 \notin Q => q2 = old /\ p2 = new
    BY <2>3
  <2>6. q1 = q2 => p1 = p2
    BY <2>2, <2>4, <2>5
  <2> QED
    BY <2>4, <2>5, <2>6
<1>3. ASSUME NEW t \in Thread, tg_ack(t) PROVE Old
  <2> DEFINE old == PackageOf(t, 0, pkg[t].acks, pkg[t].msgs)
             new == PackageOf(t, 0, pkg'[t].acks, pkg'[t].msgs)
  <2>1. log' = log /\ \A u \in Thread \ {t} : pkg'[u] = pkg[u]
    BY <1>3 DEF tg_ack, Shape, SessionTypeOK
  <2>2. PICK Q : Packages = Q \cup {old} /\ Packages' = Q \cup {new}
    BY <1>3, <2>1, Rebuilt
  <2>3. pkg'[t].msgs = <<>>
    BY <1>3 DEF tg_ack, Shape, SessionTypeOK
  <2>4. new.msgs = <<>>
    BY <2>3 DEF PackageOf
  <2> HIDE DEF old, new
  <2>5. p1 \in Packages /\ p2 \in Packages
    BY <2>2, <2>4
  <2> QED
    BY <2>5
<1>4. ASSUME pkg' = pkg, log' = log PROVE Old
  <2>1. p1 \in Packages /\ p2 \in Packages
    BY <1>4, Untouched
  <2> QED
    BY <2>1
<1> HIDE DEF Same, Old, New
<1>5. Same \/ Old \/ New
  BY <1>1, <1>2, <1>3, <1>4, StepCases
  DEF vars, tg_get_current_time, DropNext, DropsDone, tg_add_msgid,
      tg_add_todrop, Resend, NewQuery
<1> QED
  BY <1>5 DEF Same, Old, New

\* With a clock that never repeats a value no two messages have one id.
LEMMA DistinctStep ==
  ASSUME ~ClockTies, Shape, BelowClock, DistinctMsgids, [Next]_vars
  PROVE  DistinctMsgids'
<1> DEFINE
      Once(P) == \A p1, p2 \in P :
        \A i \in 1 .. Len(p1.msgs), j \in 1 .. Len(p2.msgs) :
          p1.msgs[i].id = p2.msgs[j].id => p1 = p2 /\ i = j
<1>0. Once(Packages)
  BY DEF DistinctMsgids
<1>1. ASSUME NEW p1 \in Packages', NEW p2 \in Packages',
             NEW i \in 1 .. Len(p1.msgs), NEW j \in 1 .. Len(p2.msgs),
             p1.msgs[i].id = p2.msgs[j].id
      PROVE  p1 = p2 /\ i = j
  <2>1. ASSUME NEW q1 \in Packages, NEW q2 \in Packages,
               i \in 1 .. Len(q1.msgs), q1.msgs[i] = p1.msgs[i],
               j \in 1 .. Len(q2.msgs), q2.msgs[j] = p2.msgs[j],
               q1 = q2 => p1 = p2
        PROVE  p1 = p2 /\ i = j
    <3>1. q1.msgs[i].id = q2.msgs[j].id
      BY <1>1, <2>1
    <3>2. q1 = q2 /\ i = j
      BY <1>0, <2>1, <3>1
    <3> QED
      BY <2>1, <3>2
  <2>2. ASSUME NEW t \in Thread, NEW q \in Packages, Number(t)
        PROVE  \A k \in 1 .. Len(q.msgs) : q.msgs[k].id # id[t]
    BY <2>2 DEF Number, DistinctMsgids
  <2> QED
    BY <1>1, <2>1, <2>2, PairOrigin
<1>2. ASSUME NEW t \in Thread, tg_get_current_time(t)
      PROVE  /\ pkg' = pkg /\ log' = log /\ pc' = [pc EXCEPT ![t] = "seqno"]
             /\ id' = [id EXCEPT ![t] = clock + 1]
  BY <1>2 DEF tg_get_current_time, Now, Goto
<1>3. ASSUME NEW t \in Thread, Number(t)
      PROVE  /\ id' = id /\ pc[t] = "seqno" /\ pc'[t] # "seqno"
             /\ \A v \in Thread \ {t} : pc'[v] = pc[v]
  BY <1>3 DEF Number, Goto, Shape, SessionTypeOK
<1>4. \/ \E t \in Thread : tg_get_current_time(t)
      \/ id' = id /\ \A v \in Thread : pc'[v] = "seqno" => pc[v] = "seqno"
  <2>0. pc \in [Thread -> Location]
    BY DEF Shape, SessionTypeOK
  <2>1. ASSUME NEW t \in Thread, Number(t)
        PROVE  id' = id /\ \A v \in Thread : pc'[v] = "seqno" => pc[v] = "seqno"
    BY <1>3, <2>1
  <2>2. ASSUME NEW t \in Thread,
               \/ tg_ack(t) \/ DropNext(t) \/ DropsDone(t) \/ Send(t)
               \/ tg_add_todrop(t) \/ Resend(t) \/ NewQuery(t)
        PROVE  id' = id /\ \A v \in Thread : pc'[v] = "seqno" => pc[v] = "seqno"
    BY <2>0, <2>2
    DEF tg_ack, DropNext, DropsDone, Send, tg_add_todrop, Resend, NewQuery, Goto
  <2>3. ASSUME NEW t \in Thread, NEW m \in ServerMsg, tg_add_msgid(t, m)
        PROVE  id' = id /\ pc' = pc
    BY <2>3 DEF tg_add_msgid
  <2>4. CASE UNCHANGED vars
    BY <2>4 DEF vars
  <2> QED
    BY <2>1, <2>2, <2>3, <2>4, StepCases
<1>5. ASSUME NEW v \in Thread, pc'[v] = "seqno", NEW p \in Packages',
             NEW i \in 1 .. Len(p.msgs)
      PROVE  p.msgs[i].id # id'[v]
  <2>1. ASSUME NEW t \in Thread, tg_get_current_time(t)
        PROVE  p.msgs[i].id # id'[v]
    <3>1. p \in Packages
      BY <1>2, <2>1, Untouched
    <3>2. p.msgs[i].id \in 1 .. clock /\ clock \in Nat
      BY <3>1 DEF BelowClock, Shape, SessionTypeOK
    <3>3. CASE v = t
      <4>1. id'[v] = clock + 1
        BY <1>2, <2>1, <3>3 DEF Shape, SessionTypeOK
      <4> QED
        BY <3>2, <4>1
    <3>4. CASE v # t
      <4>1. id'[v] = id[v] /\ pc[v] = "seqno"
        BY <1>2, <1>5, <2>1, <3>4 DEF Shape, SessionTypeOK
      <4> QED
        BY <3>1, <4>1 DEF DistinctMsgids
    <3> QED
      BY <3>3, <3>4
  <2>2. CASE id' = id /\ pc[v] = "seqno"
    <3>1. CASE \E q \in Packages : i \in 1 .. Len(q.msgs) /\ q.msgs[i] = p.msgs[i]
      BY <2>2, <3>1 DEF DistinctMsgids
    <3>2. ASSUME NEW t \in Thread, Number(t), p.msgs[i].id = id[t]
          PROVE  p.msgs[i].id # id'[v]
      <4>1. v # t
        BY <1>3, <1>5, <3>2
      <4> QED
        BY <1>3, <2>2, <3>2, <4>1 DEF DistinctMsgids
    <3>3. ASSUME NEW t \in Thread, NEW m \in Message, NEW q \in Packages,
                 Number(t), p.msgs = Append(pkg[t].msgs, m),
                 q.msgs = pkg[t].msgs, m.id = id[t]
          PROVE  p.msgs[i].id # id'[v]
      <4>1. q.msgs \in Seq(Message)
        BY <3>3, PackageType DEF Shape
      <4>2. \/ i \in 1 .. Len(q.msgs) /\ q.msgs[i] = p.msgs[i]
            \/ p.msgs[i] = m
        BY <1>5, <3>3, <4>1, AppendFacts
      <4> QED
        BY <3>1, <3>2, <3>3, <4>2
    <3>4. p.msgs # <<>>
      BY <1>5
    <3> QED
      BY <3>1, <3>3, <3>4, Origin
  <2> QED
    BY <1>4, <1>5, <2>1, <2>2
<1>6. ASSUME NEW v \in Thread, NEW w \in Thread, pc'[v] = "seqno",
             pc'[w] = "seqno", id'[w] = id'[v]
      PROVE  v = w
  <2>1. ASSUME NEW t \in Thread, tg_get_current_time(t) PROVE v = w
    <3>1. /\ \A x \in Thread : pc[x] = "seqno" => id[x] \in 1 .. clock
          /\ clock \in Nat /\ id \in [Thread -> Nat] /\ pc \in [Thread -> Location]
      BY DEF BelowClock, Shape, SessionTypeOK
    <3>2. \A x \in Thread : /\ x = t => id'[x] = clock + 1
                            /\ x # t => id'[x] = id[x] /\ pc'[x] = pc[x]
      BY <1>2, <2>1, <3>1
    <3>3. \A x, y \in Thread :
            pc[x] = "seqno" /\ pc[y] = "seqno" /\ id[x] = id[y] => x = y
      BY DEF DistinctMsgids
    <3>4. /\ v = t => id'[v] = clock + 1
          /\ v # t => id'[v] = id[v] /\ pc'[v] = pc[v]
          /\ w = t => id'[w] = clock + 1
          /\ w # t => id'[w] = id[w] /\ pc'[w] = pc[w]
      BY <1>6, <3>2
    <3>5. /\ pc[v] = "seqno" => id[v] \in 1 .. clock
          /\ pc[w] = "seqno" => id[w] \in 1 .. clock
          /\ clock \in Nat
      BY <1>6, <3>1
    <3>7. pc[v] = "seqno" /\ pc[w] = "seqno" /\ id[v] = id[w] => v = w
      BY <1>6, <3>3
    <3>6. pc'[v] = "seqno" /\ pc'[w] = "seqno" /\ id'[w] = id'[v]
      BY <1>6
    <3> QED
      BY <3>4, <3>5, <3>6, <3>7
  <2>2. CASE id' = id /\ pc[v] = "seqno" /\ pc[w] = "seqno"
    BY <1>6, <2>2 DEF DistinctMsgids
  <2> QED
    BY <1>4, <1>6, <2>1, <2>2
<1> QED
  BY <1>1, <1>5, <1>6 DEF DistinctMsgids

\* What a package drops.
LEMMA RefsOf ==
  ASSUME NEW p, NEW r
  PROVE  r \in Refs(p) <=> r # 0 /\ \E i \in 1 .. Len(p.msgs) : p.msgs[i].ref = r
BY DEF Refs, MessagesOf

\* An unwanted answer is that of a query already sent.
LEMMA UnwantedStep ==
  ASSUME Shape, BelowClock, MsgidNamesQuery, UnwantedIsPast, [Next]_vars
  PROVE  UnwantedIsPast'
<1>0. /\ pc \in [Thread -> Location]
      /\ \A p \in log : p.by \in Thread /\ p.no \in 1 .. Sends(p.by) /\ Sends(p.by) \in Nat
  BY SendsType DEF Shape, SessionTypeOK, LogNumbered
<1>1. ASSUME NEW t \in Thread, Send(t) PROVE UnwantedIsPast'
  <2>1. PICK new :
          /\ new.by = t /\ new.no = Sends(t) + 1
          /\ pc' = [pc EXCEPT ![t] = IF new.ok THEN "wait" ELSE "done"]
          /\ log' = log \cup {new} /\ new.ok \in BOOLEAN
          /\ Sends(t)' = Sends(t) + 1
          /\ \A u \in Thread \ {t} :
               Cardinality({p \in log' : p.by = u}) = Sends(u)
    BY <1>1, SendPackage
  <2>2. unwanted' = unwanted
    BY <1>1 DEF Send
  <2>3. ASSUME NEW u \in unwanted
        PROVE  u > 0 /\ \E p \in log' :
                 /\ p.ok /\ IsQueryOf(p.msgs, u)
                 /\ pc'[p.by] = "wait" => p.no < Cardinality({x \in log' : x.by = p.by})
    <3>1. PICK p \in log : /\ u > 0 /\ p.ok /\ IsQueryOf(p.msgs, u)
                           /\ pc[p.by] = "wait" => p.no < Sends(p.by)
      BY DEF UnwantedIsPast
    <3>2. CASE p.by = t
      <4>1. p.no < Sends(t) + 1
        BY <1>0, <3>2
      <4>2. Cardinality({x \in log' : x.by = t}) = Sends(t) + 1
        BY <2>1 DEF Sends
      <4>3. p \in log' /\ p.no < Cardinality({x \in log' : x.by = p.by})
        BY <2>1, <3>2, <4>1, <4>2
      <4> QED
        BY <3>1, <4>3
    <3>3. CASE p.by # t
      <4>1. p.by \in Thread \ {t}
        BY <1>0, <3>3
      <4>2. /\ pc'[p.by] = pc[p.by]
            /\ Cardinality({x \in log' : x.by = p.by}) = Sends(p.by)
        BY <1>0, <2>1, <4>1
      <4> QED
        BY <2>1, <3>1, <4>2
    <3> QED
      BY <3>2, <3>3
  <2>4. ASSUME NEW v \in Thread, pc'[v] = "wait"
        PROVE  \E p \in log' : p.by = v /\ p.no = Cardinality({x \in log' : x.by = v}) /\ p.ok
    <3>1. CASE v = t
      <4>1. new.ok /\ new \in log'
        BY <1>0, <2>1, <2>4, <3>1
      <4>2. Cardinality({x \in log' : x.by = v}) = new.no
        BY <2>1, <3>1 DEF Sends
      <4> QED
        BY <2>1, <3>1, <4>1, <4>2
    <3>2. CASE v # t
      <4>1. pc[v] = "wait"
        BY <1>0, <2>1, <2>4, <3>2
      <4>2. PICK p \in log : p.by = v /\ p.no = Sends(v) /\ p.ok
        BY <4>1 DEF UnwantedIsPast
      <4>3. v \in Thread \ {t}
        BY <3>2
      <4>4. Cardinality({x \in log' : x.by = v}) = Sends(v)
        BY <2>1, <4>3
      <4> QED
        BY <2>1, <4>2, <4>4
    <3> QED
      BY <3>1, <3>2
  <2> QED
    BY <2>2, <2>3, <2>4 DEF UnwantedIsPast, Sends, IsQueryOf, MessagesOf
<1>2. ASSUME NEW t \in Thread, tg_add_todrop(t) PROVE UnwantedIsPast'
  <2>1. /\ pc[t] = "wait" /\ log' = log /\ unwanted' = unwanted \cup {msgid[t]}
        /\ pc' = [pc EXCEPT ![t] = "done"]
    BY <1>2 DEF tg_add_todrop, Goto
  <2>2. \A v \in Thread : pc'[v] = "wait" => pc[v] = "wait"
    BY <1>0, <2>1
  <2>3. PICK p \in log : p.by = t /\ p.no = Sends(t) /\ p.ok
    BY <1>2, <2>1 DEF UnwantedIsPast
  <2>4. IsQueryOf(p.msgs, msgid[t])
    BY <2>1, <2>3 DEF MsgidNamesQuery
  <2>5. msgid[t] > 0
    <3>1. PICK i \in 1 .. Len(p.msgs) : p.msgs[i].id = msgid[t]
      BY <2>4 DEF IsQueryOf, MessagesOf
    <3>2. Given(p) \in Packages
      BY DEF Packages
    <3>3. p.msgs[i].id \in 1 .. clock
      BY <3>2 DEF BelowClock, Given
    <3> QED
      BY <3>1, <3>3
  <2>6. pc'[p.by] # "wait"
    BY <1>0, <1>2, <2>1, <2>3
  <2>7. ASSUME NEW u \in unwanted'
        PROVE  u > 0 /\ \E x \in log : /\ x.ok /\ IsQueryOf(x.msgs, u)
                                       /\ pc'[x.by] = "wait" => x.no < Sends(x.by)
    <3>1. CASE u = msgid[t]
      BY <2>3, <2>4, <2>5, <2>6, <3>1
    <3>2. CASE u \in unwanted
      BY <1>0, <2>2, <3>2 DEF UnwantedIsPast
    <3> QED
      BY <2>1, <3>1, <3>2
  <2>8. ASSUME NEW v \in Thread, pc'[v] = "wait"
        PROVE  \E x \in log : x.by = v /\ x.no = Sends(v) /\ x.ok
    BY <2>2, <2>8 DEF UnwantedIsPast
  <2>9. ASSUME NEW u \in unwanted'
        PROVE  u > 0 /\ \E x \in log' :
                 /\ x.ok /\ IsQueryOf(x.msgs, u)
                 /\ pc'[x.by] = "wait" => x.no < Cardinality({y \in log' : y.by = x.by})
    <3>1. PICK x \in log : /\ u > 0 /\ x.ok /\ IsQueryOf(x.msgs, u)
                           /\ pc'[x.by] = "wait" => x.no < Sends(x.by)
      BY <2>7
    <3>2. x \in log' /\ Cardinality({y \in log' : y.by = x.by}) = Sends(x.by)
      BY <2>1 DEF Sends
    <3> QED
      BY <3>1, <3>2
  <2>10. ASSUME NEW v \in Thread, pc'[v] = "wait"
         PROVE  \E x \in log' : /\ x.by = v /\ x.ok
                                /\ x.no = Cardinality({y \in log' : y.by = v})
    BY <2>1, <2>8, <2>10 DEF Sends
  <2> QED
    BY <2>9, <2>10 DEF UnwantedIsPast, Sends, IsQueryOf, MessagesOf
<1>3. ASSUME log' = log, unwanted' = unwanted,
             \A v \in Thread : pc'[v] = "wait" => pc[v] = "wait"
      PROVE  UnwantedIsPast'
  <2>1. ASSUME NEW u \in unwanted
        PROVE  u > 0 /\ \E x \in log : /\ x.ok /\ IsQueryOf(x.msgs, u)
                                       /\ pc'[x.by] = "wait" => x.no < Sends(x.by)
    BY <1>0, <1>3 DEF UnwantedIsPast
  <2>2. ASSUME NEW v \in Thread, pc'[v] = "wait"
        PROVE  \E x \in log : x.by = v /\ x.no = Sends(v) /\ x.ok
    BY <1>3, <2>2 DEF UnwantedIsPast
  <2>3. ASSUME NEW u \in unwanted'
        PROVE  u > 0 /\ \E x \in log' :
                 /\ x.ok /\ IsQueryOf(x.msgs, u)
                 /\ pc'[x.by] = "wait" => x.no < Cardinality({y \in log' : y.by = x.by})
    <3>0. u \in unwanted
      BY <1>3
    <3>1. PICK x \in log : /\ u > 0 /\ x.ok /\ IsQueryOf(x.msgs, u)
                           /\ pc'[x.by] = "wait" => x.no < Sends(x.by)
      BY <2>1, <3>0
    <3>2. x \in log' /\ Cardinality({y \in log' : y.by = x.by}) = Sends(x.by)
      BY <1>3 DEF Sends
    <3> QED
      BY <3>1, <3>2
  <2>4. ASSUME NEW v \in Thread, pc'[v] = "wait"
        PROVE  \E x \in log' : /\ x.by = v /\ x.ok
                               /\ x.no = Cardinality({y \in log' : y.by = v})
    BY <1>3, <2>2, <2>4 DEF Sends
  <2> QED
    BY <2>3, <2>4 DEF UnwantedIsPast, Sends, IsQueryOf, MessagesOf
<1>4. ASSUME NEW t \in Thread, Number(t) PROVE UnwantedIsPast'
  <2>1. log' = log /\ unwanted' = unwanted
    BY <1>4 DEF Number
  <2>2. \A v \in Thread : pc'[v] = "wait" => pc[v] = "wait"
    BY <1>0, <1>4 DEF Number, Goto
  <2> QED
    BY <1>3, <2>1, <2>2
<1>5. ASSUME NEW t \in Thread,
             \/ tg_ack(t) \/ tg_get_current_time(t) \/ DropNext(t)
             \/ DropsDone(t) \/ Resend(t) \/ NewQuery(t)
      PROVE  UnwantedIsPast'
  <2>1. log' = log /\ unwanted' = unwanted
    BY <1>5 DEF tg_ack, tg_get_current_time, DropNext, DropsDone, Resend, NewQuery
  <2>2. \A v \in Thread : pc'[v] = "wait" => pc[v] = "wait"
    BY <1>0, <1>5
    DEF tg_ack, tg_get_current_time, DropNext, DropsDone, Resend, NewQuery, Goto
  <2> QED
    BY <1>3, <2>1, <2>2
<1>6. ASSUME NEW t \in Thread, NEW m \in ServerMsg, tg_add_msgid(t, m)
      PROVE  UnwantedIsPast'
  BY <1>3, <1>6 DEF tg_add_msgid
<1>7. CASE UNCHANGED vars
  BY <1>3, <1>7 DEF vars
<1> QED
  BY <1>1, <1>2, <1>4, <1>5, <1>6, <1>7, StepCases

\* Where a drop in a package comes from: tg_to_drop writes one of the list.
LEMMA RefsOrigin ==
  ASSUME Shape, [Next]_vars, NEW p \in Packages', NEW r \in Refs(p)
  PROVE  \/ \E q \in Packages :
              /\ r \in Refs(q) /\ q.by = p.by
              /\ q.no = p.no \/ (Send(p.by) /\ q.no = 0)
         \/ /\ Number(p.by) /\ p.no = 0 /\ p.by \in Thread
            /\ making[p.by] = "drop" /\ r \in Undropped(p.by)
<1> DEFINE
      Old == \E q \in Packages :
               /\ r \in Refs(q) /\ q.by = p.by
               /\ q.no = p.no \/ (Send(p.by) /\ q.no = 0)
      New == /\ Number(p.by) /\ p.no = 0 /\ p.by \in Thread
             /\ making[p.by] = "drop" /\ r \in Undropped(p.by)
<1>0. PICK i \in 1 .. Len(p.msgs) : r # 0 /\ p.msgs[i].ref = r
  BY RefsOf
<1>1. ASSUME NEW t \in Thread, Number(t) PROVE Old \/ New
  <2> DEFINE old == PackageOf(t, 0, pkg[t].acks, pkg[t].msgs)
             new == PackageOf(t, 0, pkg'[t].acks, pkg'[t].msgs)
             s == pkg[t].msgs
  <2>1. log' = log /\ \A u \in Thread \ {t} : pkg'[u] = pkg[u]
    BY <1>1 DEF Number, Shape, SessionTypeOK
  <2>2. PICK Q : Packages = Q \cup {old} /\ Packages' = Q \cup {new}
    BY <1>1, <2>1, Rebuilt
  <2>3. PICK m \in Message :
          /\ m.ref \in IF making[t] = "drop" THEN Undropped(t) ELSE {0}
          /\ pkg' = [pkg EXCEPT ![t] = [acks |-> pkg[t].acks,
                                        msgs |-> Append(pkg[t].msgs, m)]]
    BY <1>1, NumberMessage DEF Shape
  <2>4. s \in Seq(Message) /\ pkg'[t].msgs = Append(s, m)
    BY <1>1, <2>3 DEF Shape, SessionTypeOK
  <2>5. /\ old.msgs = s /\ new.msgs = Append(s, m)
        /\ old.by = t /\ new.by = t /\ old.no = 0 /\ new.no = 0
    BY <2>4 DEF PackageOf
  <2> HIDE DEF old, new, s
  <2>6. CASE p \in Q
    BY <2>2, <2>6
  <2>7. CASE p = new /\ i \in 1 .. Len(s)
    <3>0. Append(s, m)[i] = s[i]
      BY <2>4, <2>7, AppendFacts
    <3>1. old.msgs[i].ref = r /\ i \in 1 .. Len(old.msgs)
      BY <1>0, <2>5, <2>7, <3>0
    <3>2. r \in Refs(old)
      BY <1>0, <3>1, RefsOf
    <3> QED
      BY <2>2, <2>5, <2>7, <3>2
  <2>8. CASE p = new /\ i = Len(s) + 1
    <3>1. m.ref = r
      BY <1>0, <2>4, <2>5, <2>8, AppendFacts
    <3>2. making[t] = "drop" /\ r \in Undropped(t)
      BY <1>0, <2>3, <3>1
    <3> QED
      BY <1>1, <2>5, <2>8, <3>2
  <2>9. p = new => i \in 1 .. Len(s) \/ i = Len(s) + 1
    BY <2>4, <2>5, AppendFacts
  <2> QED
    BY <2>2, <2>6, <2>7, <2>8, <2>9
<1>2. ASSUME NEW t \in Thread, Send(t) PROVE Old
  <2> DEFINE old == PackageOf(t, 0, pkg[t].acks, pkg[t].msgs)
             new == PackageOf(t, Sends(t) + 1, pkg[t].acks, pkg[t].msgs)
             empty == PackageOf(t, 0, {}, <<>>)
  <2>1. PICK Q : Packages = Q \cup {old} /\ Packages' = Q \cup {empty, new}
    BY <1>2, Sent
  <2>2. /\ old.msgs = new.msgs /\ empty.msgs = <<>>
        /\ old.by = t /\ new.by = t /\ old.no = 0
    BY DEF PackageOf
  <2> HIDE DEF old, new, empty
  <2>3. CASE p \in Q
    BY <2>1, <2>3
  <2>4. CASE p = new
    <3>1. r \in Refs(old)
      BY <1>0, <2>2, <2>4, RefsOf
    <3> QED
      BY <1>2, <2>1, <2>2, <2>4, <3>1
  <2>5. p # empty
    BY <1>0, <2>2
  <2> QED
    BY <2>1, <2>3, <2>4, <2>5
<1>3. ASSUME NEW t \in Thread, tg_ack(t) PROVE Old
  <2> DEFINE old == PackageOf(t, 0, pkg[t].acks, pkg[t].msgs)
             new == PackageOf(t, 0, pkg'[t].acks, pkg'[t].msgs)
  <2>1. log' = log /\ \A u \in Thread \ {t} : pkg'[u] = pkg[u]
    BY <1>3 DEF tg_ack, Shape, SessionTypeOK
  <2>2. PICK Q : Packages = Q \cup {old} /\ Packages' = Q \cup {new}
    BY <1>3, <2>1, Rebuilt
  <2>3. pkg'[t].msgs = <<>>
    BY <1>3 DEF tg_ack, Shape, SessionTypeOK
  <2>4. new.msgs = <<>>
    BY <2>3 DEF PackageOf
  <2> HIDE DEF old, new
  <2>5. p \in Packages
    BY <1>0, <2>2, <2>4
  <2> QED
    BY <2>5
<1>4. ASSUME pkg' = pkg, log' = log PROVE Old
  <2>1. p \in Packages
    BY <1>4, Untouched
  <2> QED
    BY <2>1
<1> HIDE DEF Old, New
<1>5. Old \/ New
  BY <1>1, <1>2, <1>3, <1>4, StepCases
  DEF vars, tg_get_current_time, DropNext, DropsDone, tg_add_msgid,
      tg_add_todrop, Resend, NewQuery
<1> QED
  BY <1>5 DEF Old, New

\* No drop is lost from the packages.
LEMMA RefsKept ==
  ASSUME Shape, [Next]_vars, NEW q \in Packages, NEW r \in Refs(q)
  PROVE  \E p \in Packages' : r \in Refs(p)
<1> DEFINE Kept == \E p \in Packages' : r \in Refs(p)
<1>0. PICK i \in 1 .. Len(q.msgs) : r # 0 /\ q.msgs[i].ref = r
  BY RefsOf
<1>1. ASSUME NEW t \in Thread, Number(t) PROVE Kept
  <2> DEFINE old == PackageOf(t, 0, pkg[t].acks, pkg[t].msgs)
             new == PackageOf(t, 0, pkg'[t].acks, pkg'[t].msgs)
             s == pkg[t].msgs
  <2>1. log' = log /\ \A u \in Thread \ {t} : pkg'[u] = pkg[u]
    BY <1>1 DEF Number, Shape, SessionTypeOK
  <2>2. PICK Q : Packages = Q \cup {old} /\ Packages' = Q \cup {new}
    BY <1>1, <2>1, Rebuilt
  <2>3. PICK m \in Message :
          pkg' = [pkg EXCEPT ![t] = [acks |-> pkg[t].acks,
                                     msgs |-> Append(pkg[t].msgs, m)]]
    BY <1>1, NumberMessage DEF Shape
  <2>4. s \in Seq(Message) /\ pkg'[t].msgs = Append(s, m)
    BY <1>1, <2>3 DEF Shape, SessionTypeOK
  <2>5. old.msgs = s /\ new.msgs = Append(s, m)
    BY <2>4 DEF PackageOf
  <2> HIDE DEF old, new, s
  <2>6. CASE q \in Q
    BY <2>2, <2>6
  <2>7. CASE q = old
    <3>1. new.msgs[i].ref = r /\ i \in 1 .. Len(new.msgs)
      BY <1>0, <2>4, <2>5, <2>7, AppendFacts
    <3>2. r \in Refs(new)
      BY <1>0, <3>1, RefsOf
    <3> QED
      BY <2>2, <3>2
  <2> QED
    BY <2>2, <2>6, <2>7
<1>2. ASSUME NEW t \in Thread, Send(t) PROVE Kept
  <2> DEFINE old == PackageOf(t, 0, pkg[t].acks, pkg[t].msgs)
             new == PackageOf(t, Sends(t) + 1, pkg[t].acks, pkg[t].msgs)
             empty == PackageOf(t, 0, {}, <<>>)
  <2>1. PICK Q : Packages = Q \cup {old} /\ Packages' = Q \cup {empty, new}
    BY <1>2, Sent
  <2>2. old.msgs = new.msgs
    BY DEF PackageOf
  <2> HIDE DEF old, new, empty
  <2>3. CASE q = old
    <3>1. r \in Refs(new)
      BY <1>0, <2>2, <2>3, RefsOf
    <3> QED
      BY <2>1, <3>1
  <2> QED
    BY <2>1, <2>3
<1>3. ASSUME NEW t \in Thread, tg_ack(t) PROVE Kept
  <2> DEFINE old == PackageOf(t, 0, pkg[t].acks, pkg[t].msgs)
             new == PackageOf(t, 0, pkg'[t].acks, pkg'[t].msgs)
  <2>1. log' = log /\ \A u \in Thread \ {t} : pkg'[u] = pkg[u]
    BY <1>3 DEF tg_ack, Shape, SessionTypeOK
  <2>2. PICK Q : Packages = Q \cup {old} /\ Packages' = Q \cup {new}
    BY <1>3, <2>1, Rebuilt
  <2>3. pkg[t].msgs = <<>>
    BY <1>3 DEF tg_ack, Shape, Progress, BuiltAt, EmptyPkg
  <2>4. old.msgs = <<>>
    BY <2>3 DEF PackageOf
  <2> HIDE DEF old, new
  <2>5. q \in Packages'
    BY <1>0, <2>2, <2>4
  <2> QED
    BY <2>5
<1>4. ASSUME pkg' = pkg, log' = log PROVE Kept
  BY <1>4, Untouched
<1> HIDE DEF Kept
<1>5. Kept
  BY <1>1, <1>2, <1>3, <1>4, StepCases
  DEF vars, tg_get_current_time, DropNext, DropsDone, tg_add_msgid,
      tg_add_todrop, Resend, NewQuery
<1> QED
  BY <1>5 DEF Kept

\* The id that tg_add_todrop adds was not in the list before.
LEMMA FreshDrop ==
  ASSUME Shape, DistinctMsgids, MsgidNamesQuery, UnwantedIsPast,
         NEW t \in Thread, pc[t] = "wait"
  PROVE  msgid[t] \notin unwanted
<1> SUFFICES ASSUME msgid[t] \in unwanted PROVE FALSE
  OBVIOUS
<1>1. PICK p1 \in log : p1.by = t /\ p1.no = Sends(t)
  BY DEF UnwantedIsPast
<1>2. PICK i \in 1 .. Len(p1.msgs) : p1.msgs[i].id = msgid[t]
  BY <1>1 DEF MsgidNamesQuery, IsQueryOf, MessagesOf
<1>3. PICK p2 \in log : /\ IsQueryOf(p2.msgs, msgid[t])
                        /\ pc[p2.by] = "wait" => p2.no < Sends(p2.by)
  BY DEF UnwantedIsPast
<1>4. PICK j \in 1 .. Len(p2.msgs) : p2.msgs[j].id = msgid[t]
  BY <1>3 DEF IsQueryOf, MessagesOf
<1>5. Given(p1) \in Packages /\ Given(p2) \in Packages
  BY DEF Packages
<1>6. Given(p1).msgs = p1.msgs /\ Given(p2).msgs = p2.msgs
  BY DEF Given
<1>7. Given(p1) = Given(p2)
  BY <1>2, <1>4, <1>5, <1>6 DEF DistinctMsgids
<1>8. p1.by = p2.by /\ p1.no = p2.no
  BY <1>7 DEF Given
<1>9. Sends(t) \in Nat
  BY SendsType DEF Shape, LogNumbered
<1> QED
  BY <1>1, <1>3, <1>8, <1>9

\* Only the thread in the drop loop has written drops of what is still listed.
LEMMA HeldStep ==
  ASSUME Shape, DistinctMsgids, MsgidNamesQuery, UnwantedIsPast, DropsHeld,
         DroppedOnce, [Next]_vars
  PROVE  DropsHeld'
<1> USE DEF Goto, Make
<1>0. /\ pc \in [Thread -> Location] /\ making \in [Thread -> Kind]
      /\ todropm \in Thread \cup {None} /\ None \notin Thread
  BY SessionAssumption DEF Shape, SessionTypeOK
<1> DEFINE Holds(t, m, mk, c) ==
             m = t <=> mk[t] = "drop" /\ c[t] \in {"clock", "seqno", "drops"}
<1>1. \A t \in Thread : Holds(t, todropm, making, pc)
  BY DEF DropsHeld
<1>2. ASSUME NEW u \in Thread PROVE Holds(u, todropm', making', pc')
  <2>1. ASSUME NEW t \in Thread, Number(t) PROVE Holds(u, todropm', making', pc')
    BY <1>0, <1>1, <2>1 DEF Number, Kind, Content
  <2>2. ASSUME NEW t \in Thread, tg_ack(t) \/ tg_get_current_time(t) \/ Send(t)
        PROVE  Holds(u, todropm', making', pc')
    BY <1>0, <1>1, <2>2 DEF tg_ack, tg_get_current_time, Send
  <2>3. ASSUME NEW t \in Thread, DropNext(t) \/ DropsDone(t)
        PROVE  Holds(u, todropm', making', pc')
    BY <1>0, <1>1, <2>3 DEF DropNext, DropsDone
  <2>4. ASSUME NEW t \in Thread, tg_add_todrop(t) \/ Resend(t) \/ NewQuery(t)
        PROVE  Holds(u, todropm', making', pc')
    BY <1>0, <1>1, <2>4 DEF tg_add_todrop, Resend, NewQuery
  <2>5. ASSUME NEW t \in Thread, NEW m \in ServerMsg, tg_add_msgid(t, m)
        PROVE  Holds(u, todropm', making', pc')
    BY <1>1, <2>5 DEF tg_add_msgid
  <2>6. CASE UNCHANGED vars
    BY <1>1, <2>6 DEF vars
  <2> HIDE DEF Holds
  <2> QED
    BY <2>1, <2>2, <2>3, <2>4, <2>5, <2>6, StepCases
<1>3. ASSUME NEW p \in Packages', NEW r \in Refs(p), r \in todrop'
      PROVE  p.by = todropm' /\ p.no = 0
  <2>1. ASSUME NEW q \in Packages, r \in Refs(q), r \in todrop
        PROVE  q.by = todropm /\ q.no = 0
    BY <2>1 DEF DropsHeld
  <2>2. ASSUME todrop' = todrop, todropm' = todropm
        PROVE  p.by = todropm' /\ p.no = 0
    <3>1. ASSUME NEW q \in Packages, r \in Refs(q), q.by = p.by,
                 q.no = p.no \/ (Send(p.by) /\ q.no = 0)
          PROVE  p.by = todropm' /\ p.no = 0
      <4>1. q.by = todropm /\ q.no = 0 /\ q.by \in Thread
        BY <1>3, <2>1, <2>2, <3>1, PackageType DEF Shape
      <4>2. ~Send(p.by)
        BY <1>1, <3>1, <4>1 DEF Send
      <4> QED
        BY <2>2, <3>1, <4>1, <4>2
    <3>2. CASE Number(p.by) /\ p.no = 0 /\ p.by \in Thread /\ making[p.by] = "drop"
      BY <1>1, <2>2, <3>2 DEF Number
    <3> QED
      BY <3>1, <3>2, RefsOrigin
  <2>3. ASSUME NEW t \in Thread, DropNext(t) PROVE p.by = todropm' /\ p.no = 0
    <3>1. p \in Packages /\ todrop' = todrop /\ todropm' = t /\ todropm \in {None, t}
      BY <2>3, Untouched DEF DropNext
    <3>2. p.by = todropm /\ p.no = 0 /\ p.by \in Thread
      BY <1>3, <2>1, <3>1, PackageType DEF Shape
    <3> QED
      BY <1>0, <3>1, <3>2
  <2>4. ASSUME NEW t \in Thread, DropsDone(t) PROVE p.by = todropm' /\ p.no = 0
    BY <1>3, <2>4 DEF DropsDone, Drained
  <2>5. ASSUME NEW t \in Thread, tg_add_todrop(t) PROVE p.by = todropm' /\ p.no = 0
    <3>1. p \in Packages /\ todrop' = todrop \cup {msgid[t]} /\ todropm = None /\ pc[t] = "wait"
      BY <2>5, Untouched DEF tg_add_todrop
    <3>2. r # msgid[t]
      <4>1. r \in unwanted
        BY <3>1 DEF DroppedOnce
      <4> QED
        BY <2>5, <3>1, <4>1, FreshDrop
    <3>3. p.by = None /\ p.by \in Thread
      BY <1>3, <2>1, <3>1, <3>2, PackageType DEF Shape
    <3> QED
      BY <1>0, <3>3
  <2> QED
    BY <2>2, <2>3, <2>4, <2>5, StepCases
    DEF vars, tg_ack, tg_get_current_time, Number, Send, tg_add_msgid, Resend,
        NewQuery
<1> HIDE DEF Holds
<1>4. \A p \in Packages' : Refs(p) \cap todrop' # {} => p.by = todropm' /\ p.no = 0
  BY <1>3
<1>5. \A u \in Thread : todropm' = u <=> /\ making'[u] = "drop"
                                          /\ pc'[u] \in {"clock", "seqno", "drops"}
  BY <1>2 DEF Holds
<1> QED
  BY <1>4, <1>5 DEF DropsHeld, Refs, MessagesOf

\* A step drops only what no package has dropped.
LEMMA DroppedStep ==
  ASSUME Shape, DropsHeld, UnwantedIsPast, UnwantedIsPast', DroppedOnce, [Next]_vars
  PROVE  DroppedOnce'
<1>0. /\ \A p \in Packages : \A r \in Refs(p) : r \in unwanted
      /\ todrop \subseteq unwanted
      /\ \A u \in unwanted : u > 0 /\ (u \in todrop \/ \E p \in Packages : u \in Refs(p))
  BY DEF DroppedOnce, UnwantedIsPast
<1>1. \A t \in Thread : Undropped(t) \subseteq todrop
  BY DEF Undropped
<1>2. /\ unwanted \subseteq unwanted' /\ todrop' \subseteq unwanted'
      /\ \A u \in unwanted' : u \in unwanted \/ u \in todrop'
      /\ todrop \subseteq todrop' \/ \E t \in Thread : DropsDone(t)
  BY <1>0, StepCases
  DEF vars, tg_ack, tg_get_current_time, Number, DropNext, DropsDone, Drained,
      Send, tg_add_msgid, tg_add_todrop, Resend, NewQuery
<1>3. ASSUME NEW p \in Packages', NEW r \in Refs(p) PROVE r \in unwanted'
  BY <1>0, <1>1, <1>2, RefsOrigin
<1>4. ASSUME NEW u \in unwanted'
      PROVE  u \in todrop' \/ \E p \in Packages' : u \in Refs(p)
  <2>1. CASE u \in unwanted /\ u \in todrop
    <3>1. ASSUME NEW t \in Thread, DropsDone(t) PROVE \E p \in Packages' : u \in Refs(p)
      <4>1. u \notin Undropped(t)
        BY <3>1 DEF DropsDone
      <4>2. PICK i \in 1 .. Len(pkg[t].msgs) : pkg[t].msgs[i].ref = u
        BY <2>1, <4>1 DEF Undropped
      <4>3. Building(t).msgs = pkg[t].msgs
        BY DEF Building
      <4>4. u # 0
        BY <1>0, <2>1
      <4>5. u \in Refs(Building(t))
        BY <4>2, <4>3, <4>4, RefsOf
      <4>6. Building(t) \in Packages /\ Packages' = Packages
        BY <3>1, Untouched DEF Packages, DropsDone
      <4> QED
        BY <4>5, <4>6
    <3> QED
      BY <1>2, <2>1, <3>1
  <2>2. CASE \E q \in Packages : u \in Refs(q)
    BY <2>2, RefsKept
  <2> QED
    BY <1>0, <1>2, <2>1, <2>2
<1>5. unwanted' = todrop' \cup UNION {Refs(p) : p \in Packages'}
  BY <1>2, <1>3, <1>4
<1>6. ASSUME NEW p1 \in Packages', NEW p2 \in Packages',
             NEW r \in Refs(p1), r \in Refs(p2)
      PROVE  p1 = p2
  <2>1. PICK i \in 1 .. Len(p1.msgs) : p1.msgs[i].ref = r /\ r # 0
    BY RefsOf
  <2>2. PICK j \in 1 .. Len(p2.msgs) : p2.msgs[j].ref = r
    BY <1>6, RefsOf
  <2>3. ASSUME NEW q1 \in Packages, NEW q2 \in Packages,
               i \in 1 .. Len(q1.msgs), q1.msgs[i] = p1.msgs[i],
               j \in 1 .. Len(q2.msgs), q2.msgs[j] = p2.msgs[j],
               q1 = q2 => p1 = p2
        PROVE  p1 = p2
    <3>1. r \in Refs(q1) /\ r \in Refs(q2)
      BY <2>1, <2>2, <2>3, RefsOf
    <3>2. q1 = q2
      BY <2>3, <3>1 DEF DroppedOnce
    <3> QED
      BY <2>3, <3>2
  <2>4. ASSUME NEW t \in Thread, NEW q \in Packages, Number(t),
               r \in IF making[t] = "drop" THEN Undropped(t) ELSE {0},
               NEW k \in 1 .. Len(q.msgs), q.msgs[k].ref = r
        PROVE  FALSE
    <3>1. making[t] = "drop" /\ r \in Undropped(t) /\ r \in todrop
      BY <1>1, <2>1, <2>4
    <3>2. r \in Refs(q)
      BY <2>1, <2>4, RefsOf
    <3>3. q.by = todropm /\ q.no = 0
      BY <2>4, <3>1, <3>2 DEF DropsHeld
    <3>4. todropm = t
      BY <2>4, <3>1 DEF DropsHeld, Number
    <3>5. q = Building(t)
      <4>1. ASSUME NEW x \in log, q = Given(x) PROVE FALSE
        <5>1. x.no \in 1 .. Sends(x.by) /\ Sends(x.by) \in Nat
          BY <4>1, SendsType DEF Shape, LogNumbered
        <5>2. x.no = 0
          BY <3>3, <4>1 DEF Given
        <5> QED
          BY <5>1, <5>2
      <4>2. ASSUME NEW v \in Thread, q = Building(v) PROVE v = t
        BY <3>3, <3>4, <4>2 DEF Building
      <4> QED
        BY <2>4, <4>1, <4>2 DEF Packages
    <3>6. q.msgs = pkg[t].msgs
      BY <3>5 DEF Building
    <3> QED
      BY <2>4, <3>1, <3>6 DEF Undropped
  <2>5. ASSUME NEW t \in Thread, NEW q \in Packages, Number(t),
               \/ /\ p1.msgs[i].ref \in IF making[t] = "drop" THEN Undropped(t) ELSE {0}
                  /\ j \in 1 .. Len(q.msgs) /\ q.msgs[j] = p2.msgs[j]
               \/ /\ p2.msgs[j].ref \in IF making[t] = "drop" THEN Undropped(t) ELSE {0}
                  /\ i \in 1 .. Len(q.msgs) /\ q.msgs[i] = p1.msgs[i]
        PROVE  FALSE
    <3>1. r \in IF making[t] = "drop" THEN Undropped(t) ELSE {0}
      BY <2>1, <2>2, <2>5
    <3>2. \E k \in 1 .. Len(q.msgs) : q.msgs[k].ref = r
      BY <2>1, <2>2, <2>5
    <3> QED
      BY <2>4, <2>5, <3>1, <3>2
  <2>6. \/ p1 = p2
        \/ \E q1, q2 \in Packages :
             /\ i \in 1 .. Len(q1.msgs) /\ q1.msgs[i] = p1.msgs[i]
             /\ j \in 1 .. Len(q2.msgs) /\ q2.msgs[j] = p2.msgs[j]
             /\ q1 = q2 => p1 = p2
        \/ \E t \in Thread, q \in Packages :
             /\ Number(t)
             /\ \/ /\ p1.msgs[i].ref \in IF making[t] = "drop" THEN Undropped(t) ELSE {0}
                   /\ j \in 1 .. Len(q.msgs) /\ q.msgs[j] = p2.msgs[j]
                \/ /\ p2.msgs[j].ref \in IF making[t] = "drop" THEN Undropped(t) ELSE {0}
                   /\ i \in 1 .. Len(q.msgs) /\ q.msgs[i] = p1.msgs[i]
    BY <1>6, PairOrigin
  <2>7. ASSUME NEW q1 \in Packages, NEW q2 \in Packages,
               /\ i \in 1 .. Len(q1.msgs) /\ q1.msgs[i] = p1.msgs[i]
               /\ j \in 1 .. Len(q2.msgs) /\ q2.msgs[j] = p2.msgs[j]
               /\ q1 = q2 => p1 = p2
        PROVE  p1 = p2
    BY <2>3, <2>7
  <2> QED
    BY <2>5, <2>6, <2>7
<1>7. \A p1, p2 \in Packages' : Refs(p1) \cap Refs(p2) # {} => p1 = p2
  BY <1>6
<1>8. \A u \in unwanted' : \E p \in log' : p.ok /\ IsQueryOf(p.msgs, u)
  BY DEF UnwantedIsPast, IsQueryOf, MessagesOf
<1> QED
  BY <1>5, <1>7, <1>8 DEF DroppedOnce, Refs, IsQueryOf, MessagesOf

\* With a clock that never returns a value twice, no answer is dropped twice
\* and none of a query that was not sent: tg_add_todrop, which runs in the
\* thread that gives up, and tg_to_drop, which runs in any thread that builds
\* a container, agree on the list.
THEOREM DropsOnce == Spec /\ ~ClockTies => []DroppedOnce
<1> SUFFICES ASSUME ~ClockTies PROVE Spec => []DroppedOnce
  OBVIOUS
<1> DEFINE Inv == /\ Shape /\ BelowClock /\ MsgidInTime /\ MsgidNamesQuery
                  /\ DistinctMsgids /\ UnwantedIsPast /\ DropsHeld /\ DroppedOnce
<1>1. Init => Inv
  <2> SUFFICES ASSUME Init PROVE Inv
    OBVIOUS
  <2>1. \A p \in Packages : p.msgs = <<>>
    BY DEF Init, Packages, Building, EmptyPkg
  <2>2. \A p \in Packages : Refs(p) = {}
    BY <2>1 DEF Refs, MessagesOf
  <2>3. DistinctMsgids
    BY <2>1 DEF Init, DistinctMsgids
  <2>4. DropsHeld
    BY <2>2, SessionAssumption DEF Init, DropsHeld
  <2>5. UnwantedIsPast
    BY DEF Init, UnwantedIsPast
  <2>6. DroppedOnce
    BY <2>2 DEF Init, DroppedOnce
  <2>7. MsgidInTime /\ MsgidNamesQuery
    BY DEF Init, MsgidInTime, MsgidAt, MsgidNamesQuery
  <2> QED
    BY <2>3, <2>4, <2>5, <2>6, <2>7, TypeInit, BelowInit
<1>2. Inv /\ [Next]_vars => Inv'
  <2> SUFFICES ASSUME Inv, [Next]_vars PROVE Inv'
    OBVIOUS
  <2>1. Shape'
    BY TypeStep, ProgressStep, LogStep DEF Shape
  <2>2. BelowClock' /\ MsgidInTime' /\ MsgidNamesQuery'
    BY BelowStep, MsgidStep, NamesStep
  <2>3. DistinctMsgids' /\ UnwantedIsPast' /\ DropsHeld'
    BY DistinctStep, UnwantedStep, HeldStep
  <2>4. DroppedOnce'
    BY <2>3, DroppedStep
  <2> QED
    BY <2>1, <2>2, <2>3, <2>4
<1>3. Inv => DroppedOnce
  OBVIOUS
<1> QED
  BY <1>1, <1>2, <1>3, PTL DEF Spec
=============================================================================
