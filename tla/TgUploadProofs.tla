---------------------------- MODULE TgUploadProofs ----------------------------
(***************************************************************************)
(* Theorems about uploads (module TgUpload), for every set of sends, every *)
(* number of parts and every loss of answers.                              *)
(***************************************************************************)
EXTENDS TgUpload, TLAPS, FiniteSetTheorems

\* A step is one of the actions: the case split every proof below uses.
LEMMA StepCases ==
  ASSUME Next
  PROVE  \/ cancelTransfer
         \/ \E s \in Send :
              \/ sendDocument(s) \/ SendHangs(s) \/ Start(s) \/ StartFails(s)
              \/ ReadPart(s) \/ EndOfFile(s) \/ SaveConfirmed(s)
              \/ SaveFails(s) \/ UseAfterFree(s) \/ Progress(s)
              \/ SendMedia(s)
BY DEF Next, Thread, Query

\* The number of parts of what is in hand.
LEMMA PartsType ==
  ASSUME NEW s \in Send
  PROVE  Parts[s] \in Nat /\ Parts[s] <= MaxParts /\ MaxParts \in Nat
BY UploadAssumption

\* An operation that reads has something to read.
LEMMA ContentType ==
  ASSUME UploadType, NEW s \in Send, Readable(s), pc[s] \in Active
  PROVE  Content(s) \in Send
<1>1. CASE Src[s] = "voice"
  BY <1>1 DEF UploadType, Readable, Content, Shared
<1>2. CASE Src[s] # "voice"
  BY <1>2 DEF UploadType, Readable, Content
<1> QED
  BY <1>1, <1>2

\* Nothing sent and nothing stored satisfies the invariant.
LEMMA UploadInit ==
  ASSUME Init
  PROVE  Uploading
<1>1. UploadType
  BY DEF Init, UploadType
<1>2. ASSUME NEW s \in Send PROVE Readable(s) /\ StoredAt(s) /\ ChosenAt(s)
  BY <1>2 DEF Init, Readable, StoredAt, ChosenAt, Active
<1> QED
  BY <1>1, <1>2 DEF Uploading, Init

Arrives(s) == {body[s]} \cup (IF s \in Big THEN {Garbled} ELSE {})

\* A part of the file of s is stored, as it was read or garbled.
LEMMA StoreType ==
  ASSUME UploadType, NEW s \in Send, Readable(s), pc[s] \in {"save", "poll"}, Store(s)
  PROVE  /\ part[s] \in 0 .. MaxParts - 1 /\ body[s] \in Send
         /\ saved' \in [Send -> [0 .. MaxParts - 1 -> Send \cup {Garbled, None}]]
         /\ \A r \in Send : r # s => saved'[r] = saved[r]
         /\ \E b \in Arrives(s) : \A p \in 0 .. MaxParts - 1 :
              saved'[s][p] = IF p = part[s] THEN b ELSE saved[s][p]
<1>1. part[s] \in 0 .. MaxParts - 1 /\ body[s] \in Send
  BY UploadAssumption DEF UploadType, Readable
<1>2. PICK b \in Arrives(s) : saved' = [saved EXCEPT ![s][part[s]] = b]
  BY DEF Store, Arrives
<1>3. saved \in [Send -> [0 .. MaxParts - 1 -> Send \cup {Garbled, None}]]
  BY DEF UploadType
<1>4. /\ saved[s] \in [0 .. MaxParts - 1 -> Send \cup {Garbled, None}]
      /\ b \in Send \cup {Garbled, None}
  BY <1>1, <1>2, <1>3 DEF Arrives
<1>5. saved' = [saved EXCEPT ![s] = [saved[s] EXCEPT ![part[s]] = b]]
  BY <1>2
<1>6. [saved[s] EXCEPT ![part[s]] = b]
        \in [0 .. MaxParts - 1 -> Send \cup {Garbled, None}]
  BY <1>1, <1>4
<1>7. saved' \in [Send -> [0 .. MaxParts - 1 -> Send \cup {Garbled, None}]]
  BY <1>3, <1>5, <1>6
<1>8. saved'[s] = [saved[s] EXCEPT ![part[s]] = b]
  BY <1>3, <1>5
<1>9. \A r \in Send : r # s => saved'[r] = saved[r]
  BY <1>3, <1>5
<1>10. \A p \in 0 .. MaxParts - 1 :
         saved'[s][p] = IF p = part[s] THEN b ELSE saved[s][p]
  BY <1>4, <1>8
<1> QED
  BY <1>1, <1>2, <1>7, <1>9, <1>10

\* Every step keeps the type.
LEMMA TypeStep ==
  ASSUME Uploading, [Next]_vars
  PROVE  UploadType'
<1>0. UploadType /\ \A s \in Send : Readable(s)
  BY DEF Uploading
<1> USE DEF Goto, Active
<1>1. CASE cancelTransfer
  BY <1>0, <1>1 DEF cancelTransfer, UploadType
<1>2. ASSUME NEW s \in Send, sendDocument(s) PROVE UploadType'
  BY <1>0, <1>2 DEF sendDocument, WriteTmp, UploadType
<1>3. ASSUME NEW s \in Send, SendHangs(s) PROVE UploadType'
  BY <1>0, <1>3 DEF SendHangs, WriteTmp, UploadType
<1>4. ASSUME NEW s \in Send, Start(s) PROVE UploadType'
  <2>1. (IF Src[s] = "file" THEN s ELSE tmp[Src[s]]) \in Send \cup {None}
    BY <1>0, <1>4, UploadAssumption DEF UploadType, Shared
  <2> QED
    BY <1>0, <1>4, <2>1 DEF Start, UploadType
<1>5. ASSUME NEW s \in Send, StartFails(s) \/ EndOfFile(s) PROVE UploadType'
  BY <1>0, <1>5 DEF StartFails, EndOfFile, UploadType
<1>6. ASSUME NEW s \in Send, ReadPart(s) PROVE UploadType'
  <2>1. Content(s) \in Send
    BY <1>0, <1>6, ContentType DEF ReadPart
  <2> QED
    BY <1>0, <1>6, <2>1 DEF ReadPart, UploadType
<1>7. ASSUME NEW s \in Send, SaveConfirmed(s) PROVE UploadType'
  <2>1. saved' \in [Send -> [0 .. MaxParts - 1 -> Send \cup {Garbled, None}]]
    BY <1>0, <1>7, StoreType DEF SaveConfirmed
  <2> QED
    BY <1>0, <1>7, <2>1 DEF SaveConfirmed, UploadType
<1>8. ASSUME NEW s \in Send, SaveFails(s) PROVE UploadType'
  <2>1. saved' \in [Send -> [0 .. MaxParts - 1 -> Send \cup {Garbled, None}]]
    <3>1. CASE Store(s)
      BY <1>0, <1>8, <3>1, StoreType DEF SaveFails
    <3>2. CASE UNCHANGED saved
      BY <1>0, <3>2 DEF UploadType
    <3> QED
      BY <1>8, <3>1, <3>2 DEF SaveFails
  <2> QED
    BY <1>0, <1>8, <2>1 DEF SaveFails, AfterFailure, UploadType
<1>9. ASSUME NEW s \in Send, Progress(s) PROVE UploadType'
  <2>1. CASE Heeds(s) /\ stop
    BY <1>0, <1>9, <2>1 DEF Progress, UploadType
  <2>2. CASE ~(Heeds(s) /\ stop)
    <3>1. part' = [part EXCEPT ![s] = part[s] + 1] /\ pc' = [pc EXCEPT ![s] = "read"]
      BY <1>9, <2>2 DEF Progress
    <3>2. part' \in [Send -> Nat]
      BY <1>0, <1>9, <3>1 DEF UploadType
    <3> QED
      BY <1>0, <1>9, <3>1, <3>2 DEF Progress, UploadType
  <2> QED
    BY <2>1, <2>2
<1>10. ASSUME NEW s \in Send, SendMedia(s) PROVE UploadType'
  BY <1>0, <1>10 DEF SendMedia, UploadType
<1>12. ASSUME NEW s \in Send, UseAfterFree(s) PROVE UploadType'
  BY <1>0, <1>12 DEF UseAfterFree, UploadType
<1>11. CASE UNCHANGED vars
  BY <1>0, <1>11 DEF vars, UploadType
<1> QED
  BY <1>1, <1>2, <1>3, <1>4, <1>5, <1>6, <1>7, <1>8, <1>9, <1>10, <1>11, <1>12,
     StepCases

\* What a step of send s leaves alone.
LEMMA OthersKept ==
  ASSUME Uploading, NEW s \in Send, NEW r \in Send, r # s,
         \/ Start(s) \/ StartFails(s) \/ ReadPart(s) \/ EndOfFile(s)
         \/ SaveConfirmed(s) \/ SaveFails(s) \/ Progress(s) \/ SendMedia(s)
  PROVE  /\ pc'[r] = pc[r] /\ handle'[r] = handle[r] /\ body'[r] = body[r]
         /\ part'[r] = part[r] /\ saved'[r] = saved[r]
         /\ UNCHANGED <<tmp, rewritten>>
<1>0. UploadType
  BY DEF Uploading
<1>1. CASE Start(s)
  BY <1>0, <1>1 DEF Start, Goto, UploadType
<1>2. CASE StartFails(s) \/ ReadPart(s) \/ EndOfFile(s)
  BY <1>0, <1>2 DEF StartFails, ReadPart, EndOfFile, Goto, UploadType
<1>3. CASE SaveConfirmed(s)
  BY <1>0, <1>3 DEF SaveConfirmed, Store, Goto, UploadType
<1>4. CASE SaveFails(s)
  BY <1>0, <1>4 DEF SaveFails, Store, Goto, UploadType
<1>5. CASE Progress(s)
  BY <1>0, <1>5 DEF Progress, Goto, UploadType
<1>6. CASE SendMedia(s)
  BY <1>0, <1>6 DEF SendMedia, Goto, UploadType
<1> QED
  BY <1>1, <1>2, <1>3, <1>4, <1>5, <1>6

\* A send is read, sent and stored: one send at a time.
LEMMA SendStep ==
  ASSUME Uploading, [Next]_vars, NEW r \in Send
  PROVE  (Readable(r) /\ StoredAt(r) /\ ChosenAt(r))'
<1>0. UploadType /\ Readable(r) /\ StoredAt(r) /\ ChosenAt(r)
  BY DEF Uploading
<1>t. /\ pc \in [Send -> Active \cup {"idle", "queued", "hung", "cancelled",
                                      "failed", "sent", "dead"}]
      /\ handle \in [Send -> Send \cup {None}] /\ body \in [Send -> Send \cup {None}]
      /\ part \in [Send -> Nat] /\ tmp \in [Shared -> Send \cup {None}]
      /\ rewritten \in [Send -> BOOLEAN]
      /\ MaxParts \in Nat /\ Parts[r] \in Nat /\ Parts[r] <= MaxParts
      /\ None \notin Send /\ Src[r] \in {"photo", "voice", "file"}
  BY <1>0, UploadAssumption, PartsType DEF UploadType
<1> USE DEF Goto, Active
\* Enough, when the send itself is left alone.
<1>keep. ASSUME pc'[r] \in {pc[r], "cancelled", "dead"},
                handle'[r] = handle[r], body'[r] = body[r], part'[r] = part[r],
                saved'[r] = saved[r], UNCHANGED <<tmp, rewritten>>
         PROVE  (Readable(r) /\ StoredAt(r) /\ ChosenAt(r))'
  <2>1. Readable(r)'
    BY <1>0, <1>keep DEF Readable
  <2>2. StoredAt(r)'
    BY <1>0, <1>keep DEF StoredAt
  <2>3. ChosenAt(r)'
    BY <1>0, <1>keep DEF ChosenAt, Content
  <2> QED
    BY <2>1, <2>2, <2>3
<1>1. CASE cancelTransfer
  BY <1>0, <1>t, <1>1, <1>keep DEF cancelTransfer
\* Enough, when the temporary file is written for another send.
<1>tmp. ASSUME NEW s \in Send, WriteTmp(s), pc'[r] = pc[r],
               UNCHANGED <<handle, body, part, saved>>
        PROVE  (Readable(r) /\ StoredAt(r) /\ ChosenAt(r))'
  <2>1. /\ \A f \in Shared : tmp'[f] = IF f = Src[s] THEN s ELSE tmp[f]
        /\ rewritten'[r] = (rewritten[r]
              \/ (Src[r] = Src[s] /\ Src[s] \in Shared /\ Unread(r)))
    BY <1>tmp DEF WriteTmp
  <2>2. Readable(r)'
    BY <1>0, <1>t, <1>tmp, <2>1 DEF Readable
  <2>3. StoredAt(r)'
    BY <1>0, <1>tmp DEF StoredAt
  <2>4. ChosenAt(r)'
    <3> SUFFICES ASSUME ~rewritten'[r]
                 PROVE  /\ pc'[r] = "queued" /\ Src[r] \in Shared => tmp'[Src[r]] = r
                        /\ pc'[r] \in Active => Content(r)' = r /\ part'[r] <= Parts[r]
                        /\ pc'[r] \in {"save", "poll"} => body'[r] = r /\ part'[r] < Parts[r]
                        /\ pc'[r] = "media" => part'[r] = Parts[r]
                        /\ \A p \in 0 .. MaxParts - 1 :
                             saved'[r][p] \in {r, None} \cup (IF r \in Big THEN {Garbled} ELSE {})
      BY DEF ChosenAt
    <3>1. /\ ~rewritten[r]
          /\ ~(Src[r] = Src[s] /\ Src[s] \in Shared /\ Unread(r))
      BY <2>1, Zenon
    <3>2. /\ pc[r] = "queued" /\ Src[r] \in Shared => tmp[Src[r]] = r
          /\ pc[r] \in Active => Content(r) = r /\ part[r] <= Parts[r]
          /\ pc[r] \in {"save", "poll"} => body[r] = r /\ part[r] < Parts[r]
          /\ pc[r] = "media" => part[r] = Parts[r]
          /\ \A p \in 0 .. MaxParts - 1 :
               saved[r][p] \in {r, None} \cup (IF r \in Big THEN {Garbled} ELSE {})
      BY <1>0, <3>1 DEF ChosenAt
    <3>3. pc[r] = "queued" /\ Src[r] \in Shared => tmp'[Src[r]] = tmp[Src[r]]
      BY <2>1, <3>1 DEF Unread
    <3>4. pc[r] \in Active => Content(r)' = Content(r)
      BY <1>tmp, <2>1, <3>1 DEF Unread, Content, Shared
    <3> QED
      BY <1>tmp, <3>2, <3>3, <3>4
  <2> QED
    BY <2>2, <2>3, <2>4
<1>2. ASSUME NEW s \in Send, sendDocument(s)
      PROVE  (Readable(r) /\ StoredAt(r) /\ ChosenAt(r))'
  <2>1. /\ pc[s] = "idle" /\ pc' = [pc EXCEPT ![s] = "queued"] /\ WriteTmp(s)
        /\ UNCHANGED <<handle, body, part, saved>>
    BY <1>2 DEF sendDocument
  <2>2. CASE r = s
    <3>1. pc'[r] = "queued" /\ (Src[r] \in Shared => tmp'[Src[r]] = r)
      BY <1>t, <2>1, <2>2 DEF WriteTmp
    <3>2. Readable(r)'
      BY <1>t, <3>1 DEF Readable
    <3>3. StoredAt(r)'
      BY <1>0, <1>t, <2>1, <2>2, <3>1 DEF StoredAt
    <3>4. \A p \in 0 .. MaxParts - 1 : saved'[r][p] = None
      BY <1>0, <2>1, <2>2 DEF StoredAt
    <3> QED
      BY <3>1, <3>2, <3>3, <3>4 DEF ChosenAt
  <2>3. CASE r # s
    <3>1. pc'[r] = pc[r]
      BY <1>t, <2>1, <2>3
    <3> QED
      BY <1>tmp, <2>1, <3>1
  <2> QED
    BY <2>2, <2>3
<1>3. ASSUME NEW s \in Send, SendHangs(s)
      PROVE  (Readable(r) /\ StoredAt(r) /\ ChosenAt(r))'
  <2>1. /\ pc[s] = "idle" /\ pc' = [pc EXCEPT ![s] = "hung"]
        /\ WriteTmp(s) \/ UNCHANGED <<tmp, rewritten>>
        /\ UNCHANGED <<handle, body, part, saved>>
    BY <1>3 DEF SendHangs
  <2>2. CASE r = s
    <3>1. \A p \in 0 .. MaxParts - 1 : saved'[r][p] = None
      BY <1>0, <2>1, <2>2 DEF StoredAt
    <3>2. pc'[r] = "hung"
      BY <1>t, <2>1, <2>2
    <3> QED
      BY <3>1, <3>2 DEF Readable, StoredAt, ChosenAt
  <2>3. CASE r # s
    <3>1. pc'[r] = pc[r]
      BY <1>t, <2>1, <2>3
    <3> QED
      BY <1>keep, <1>tmp, <2>1, <3>1
  <2> QED
    BY <2>2, <2>3
<1>4. ASSUME NEW s \in Send, s # r,
             \/ Start(s) \/ StartFails(s) \/ ReadPart(s) \/ EndOfFile(s)
             \/ SaveConfirmed(s) \/ SaveFails(s) \/ Progress(s) \/ SendMedia(s)
      PROVE  (Readable(r) /\ StoredAt(r) /\ ChosenAt(r))'
  BY <1>4, <1>keep, OthersKept
<1>5. CASE Start(r)
  <2>1. /\ pc[r] = "queued" /\ ~MainHung /\ pc'[r] = "read"
        /\ handle'[r] = IF Src[r] = "file" THEN r ELSE tmp[Src[r]]
        /\ UNCHANGED <<body, part, tmp, saved, rewritten>>
    BY <1>t, <1>5 DEF Start
  <2>2. part[r] = 0 /\ \A p \in 0 .. MaxParts - 1 : saved[r][p] = None
    BY <1>0, <2>1 DEF StoredAt
  <2>3. Readable(r)'
    BY <1>0, <1>t, <2>1, <2>2 DEF Readable, Shared
  <2>4. StoredAt(r)'
    BY <2>1, <2>2 DEF StoredAt
  <2>5. ~rewritten[r] => Content(r)' = r
    BY <1>0, <1>t, <2>1 DEF ChosenAt, Content, Shared
  <2>6. ChosenAt(r)'
    BY <1>t, <2>1, <2>2, <2>5 DEF ChosenAt
  <2> QED
    BY <2>3, <2>4, <2>6
<1>6. CASE StartFails(r)
  <2>1. /\ pc[r] = "queued" /\ pc'[r] = "failed"
        /\ UNCHANGED <<handle, body, part, tmp, saved, rewritten>>
    BY <1>t, <1>6 DEF StartFails
  <2> QED
    BY <1>0, <2>1 DEF Readable, StoredAt, ChosenAt
<1>7. CASE ReadPart(r)
  <2>1. /\ pc[r] = "read" /\ pc'[r] = "save" /\ part[r] < Parts[Content(r)]
        /\ body'[r] = Content(r)
        /\ UNCHANGED <<handle, part, tmp, saved, rewritten>>
    BY <1>t, <1>7 DEF ReadPart
  <2>2. Content(r) \in Send
    BY <1>0, <2>1, ContentType
  <2>3. Parts[Content(r)] \in Nat /\ Parts[Content(r)] <= MaxParts /\ part[r] \in Nat
    BY <1>t, <2>2, PartsType
  <2>4. part[r] < MaxParts
    BY <1>t, <2>1, <2>3
  <2>5. Readable(r)'
    BY <1>0, <1>t, <2>1, <2>2, <2>4 DEF Readable
  <2>6. StoredAt(r)'
    BY <1>0, <1>t, <2>1 DEF StoredAt
  <2>7. Content(r)' = Content(r)
    BY <2>1 DEF Content
  <2>8. ChosenAt(r)'
    BY <1>0, <1>t, <2>1, <2>7 DEF ChosenAt
  <2> QED
    BY <2>5, <2>6, <2>8
<1>8. CASE EndOfFile(r)
  <2>1. /\ pc[r] = "read" /\ pc'[r] = "media" /\ part[r] >= Parts[Content(r)]
        /\ UNCHANGED <<handle, body, part, tmp, saved, rewritten>>
    BY <1>t, <1>8 DEF EndOfFile, AtEnd
  <2>2. Readable(r)' /\ StoredAt(r)'
    BY <1>0, <2>1 DEF Readable, StoredAt
  <2>3. Content(r)' = Content(r)
    BY <2>1 DEF Content
  <2>4. ChosenAt(r)'
    BY <1>0, <1>t, <2>1, <2>3 DEF ChosenAt
  <2> QED
    BY <2>2, <2>4
<1>9. CASE SaveConfirmed(r) \/ SaveFails(r)
  <2>1. /\ pc[r] = "save" /\ pc'[r] \in {"save", "poll"}
        /\ UNCHANGED <<handle, body, part, tmp, rewritten>>
    BY <1>t, <1>9 DEF SaveConfirmed, SaveFails, AfterFailure
  <2>2. \/ Store(r)
        \/ saved' = saved /\ pc'[r] = "save"
    BY <1>t, <1>9 DEF SaveConfirmed, SaveFails, AfterFailure
  <2>3. Readable(r)'
    BY <1>0, <2>1 DEF Readable
  <2>4. Content(r)' = Content(r)
    BY <2>1 DEF Content
  <2>5. CASE Store(r)
    <3>0. /\ part[r] \in 0 .. MaxParts - 1 /\ body[r] \in Send
          /\ \E b \in Arrives(r) : \A p \in 0 .. MaxParts - 1 :
               saved'[r][p] = IF p = part[r] THEN b ELSE saved[r][p]
      BY <1>0, <2>1, <2>5, StoreType
    <3>1. PICK b \in Arrives(r) : \A p \in 0 .. MaxParts - 1 :
            saved'[r][p] = IF p = part[r] THEN b ELSE saved[r][p]
      BY <3>0
    <3>4. /\ part[r] \in 0 .. MaxParts - 1 /\ b # None
          /\ b \in {body[r]} \cup (IF r \in Big THEN {Garbled} ELSE {})
      BY <1>t, <3>0, <3>1, UploadAssumption DEF Arrives
    <3>2. StoredAt(r)'
      BY <1>0, <1>t, <2>1, <3>1, <3>4 DEF StoredAt
    <3>3. ChosenAt(r)'
      BY <1>0, <1>t, <2>1, <2>4, <3>1, <3>4 DEF ChosenAt
    <3> QED
      BY <2>3, <3>2, <3>3
  <2>6. CASE saved' = saved /\ pc'[r] = "save"
    BY <1>0, <2>1, <2>3, <2>4, <2>6 DEF StoredAt, ChosenAt
  <2> QED
    BY <2>2, <2>5, <2>6
<1>10. CASE Progress(r)
  <2>1. /\ pc[r] = "poll"
        /\ UNCHANGED <<handle, body, tmp, saved, rewritten>>
        /\ \/ pc'[r] = "failed" /\ part' = part
           \/ pc'[r] = "read" /\ part'[r] = part[r] + 1
    BY <1>t, <1>10 DEF Progress
  <2>2. part[r] \in Nat /\ part[r] < MaxParts
    BY <1>0, <1>t, <2>1 DEF Readable
  <2>3. Content(r)' = Content(r)
    BY <2>1 DEF Content
  <2>4. CASE pc'[r] = "failed" /\ part' = part
    BY <1>0, <2>1, <2>4 DEF Readable, StoredAt, ChosenAt
  <2>5. CASE pc'[r] = "read" /\ part'[r] = part[r] + 1
    <3>1. Readable(r)'
      BY <1>0, <1>t, <2>1, <2>2, <2>5 DEF Readable
    <3>2. StoredAt(r)'
      BY <1>0, <1>t, <2>1, <2>2, <2>5 DEF StoredAt
    <3>3. ChosenAt(r)'
      BY <1>0, <1>t, <2>1, <2>2, <2>3, <2>5 DEF ChosenAt
    <3> QED
      BY <3>1, <3>2, <3>3
  <2> QED
    BY <2>1, <2>4, <2>5
<1>11. CASE SendMedia(r)
  <2>1. /\ pc[r] = "media" /\ pc'[r] \in {"sent", "failed"}
        /\ UNCHANGED <<handle, body, part, tmp, saved, rewritten>>
    BY <1>t, <1>11 DEF SendMedia
  <2> QED
    BY <1>0, <2>1 DEF Readable, StoredAt, ChosenAt
<1>12. CASE UNCHANGED vars
  BY <1>12, <1>keep DEF vars
<1>13. ASSUME NEW s \in Send, UseAfterFree(s)
       PROVE  (Readable(r) /\ StoredAt(r) /\ ChosenAt(r))'
  <2>1. /\ pc'[r] \in {pc[r], "dead"}
        /\ UNCHANGED <<handle, body, part, tmp, saved, rewritten>>
    BY <1>t, <1>13 DEF UseAfterFree
  <2> QED
    BY <2>1, <1>keep
<1> QED
  BY <1>1, <1>2, <1>3, <1>4, <1>5, <1>6, <1>7, <1>8, <1>9, <1>10, <1>11, <1>12,
     <1>13, StepCases

\* A message is about the file as it was, and as it stays.
LEMMA MessageStep ==
  ASSUME Uploading, [Next]_vars, NEW m \in media'
  PROVE  (MessageAt(m) /\ (~rewritten[m.by] => m.parts = Parts[m.by]))'
<1>0. UploadType
  BY DEF Uploading
<1> USE DEF Goto, Active
<1>1. ASSUME m \in media
      PROVE  (MessageAt(m) /\ (~rewritten[m.by] => m.parts = Parts[m.by]))'
  <2>1. /\ MessageAt(m) /\ m.by \in Send /\ pc[m.by] \in {"sent", "failed"}
        /\ ~rewritten[m.by] => m.parts = Parts[m.by]
    BY <1>1 DEF Uploading, MessageAt
  <2>2. pc'[m.by] = pc[m.by] /\ saved'[m.by] = saved[m.by]
        /\ (rewritten[m.by] => rewritten'[m.by])
    <3>1. ASSUME NEW s \in Send,
                 \/ Start(s) \/ StartFails(s) \/ ReadPart(s) \/ EndOfFile(s)
                 \/ SaveConfirmed(s) \/ SaveFails(s) \/ Progress(s) \/ SendMedia(s)
          PROVE  /\ pc'[m.by] = pc[m.by] /\ saved'[m.by] = saved[m.by]
                 /\ rewritten' = rewritten
      <4>1. s # m.by
        BY <2>1, <3>1 DEF Start, StartFails, ReadPart, EndOfFile, SaveConfirmed,
                         SaveFails, Progress, SendMedia
      <4> QED
        BY <2>1, <3>1, <4>1, OthersKept
    <3>2. ASSUME NEW s \in Send, sendDocument(s)
          PROVE  /\ pc'[m.by] = pc[m.by] /\ saved'[m.by] = saved[m.by]
                 /\ rewritten[m.by] => rewritten'[m.by]
      BY <1>0, <2>1, <3>2 DEF sendDocument, WriteTmp, UploadType
    <3>3. ASSUME NEW s \in Send, SendHangs(s)
          PROVE  /\ pc'[m.by] = pc[m.by] /\ saved'[m.by] = saved[m.by]
                 /\ rewritten[m.by] => rewritten'[m.by]
      BY <1>0, <2>1, <3>3 DEF SendHangs, WriteTmp, UploadType
    <3>4. CASE cancelTransfer
      BY <1>0, <2>1, <3>4 DEF cancelTransfer, UploadType
    <3>5. CASE UNCHANGED vars
      BY <3>5 DEF vars
    <3>6. ASSUME NEW s \in Send, UseAfterFree(s)
          PROVE  /\ pc'[m.by] = pc[m.by] /\ saved'[m.by] = saved[m.by]
                 /\ rewritten' = rewritten
      BY <1>0, <2>1, <3>6 DEF UseAfterFree, UploadType
    <3> QED
      BY <3>1, <3>2, <3>3, <3>4, <3>5, <3>6, StepCases
  <2> QED
    BY <2>1, <2>2 DEF MessageAt
<1>2. ASSUME NEW s \in Send, SendMedia(s), m = Message(s)
      PROVE  (MessageAt(m) /\ (~rewritten[m.by] => m.parts = Parts[m.by]))'
  <2>1. /\ pc[s] = "media" /\ pc'[s] \in {"sent", "failed"}
        /\ UNCHANGED <<saved, rewritten>>
    BY <1>0, <1>2 DEF SendMedia, UploadType
  <2>2. m.by = s /\ m.parts = part[s]
    BY <1>2 DEF Message, PartsNamed
  <2>3. part[s] \in 0 .. MaxParts
    BY <1>0, <2>1, UploadAssumption DEF Uploading, UploadType, Readable
  <2>4. \A p \in 0 .. MaxParts - 1 : saved[s][p] # None <=> p < part[s]
    BY <2>1 DEF Uploading, StoredAt
  <2>5. ~rewritten[s] => part[s] = Parts[s]
    BY <2>1 DEF Uploading, ChosenAt
  <2> QED
    BY <1>2, <2>1, <2>2, <2>3, <2>4, <2>5 DEF MessageAt
<1>3. m \in media \/ \E s \in Send : SendMedia(s) /\ m = Message(s)
  BY StepCases
  DEF cancelTransfer, sendDocument, SendHangs, Start, StartFails, ReadPart,
      EndOfFile, SaveConfirmed, SaveFails, UseAfterFree, Progress, SendMedia, vars
<1> QED
  BY <1>1, <1>2, <1>3

\* The upload loops store the parts in order, for every content and size.
THEOREM UploadCorrect == Spec => []Uploading
<1>1. Uploading /\ [Next]_vars => Uploading'
  BY TypeStep, SendStep, MessageStep DEF Uploading
<1> QED
  BY <1>1, UploadInit, PTL DEF Spec

\* When a message is sent the server has every part it names and no other,
\* although tg_document_send repeats a part whose answer was lost, and the
\* file may change while it is read.
THEOREM MediaNamesItsParts == Spec => []MediaIsWhole
<1>1. Uploading => MediaIsWhole
  <2> SUFFICES ASSUME Uploading, NEW m \in media
               PROVE  m.parts = Cardinality({p \in 0 .. MaxParts - 1 : saved[m.by][p] # None})
    BY DEF MediaIsWhole
  <2>1. /\ m.parts \in 0 .. MaxParts /\ MaxParts \in Nat
        /\ \A p \in 0 .. MaxParts - 1 : saved[m.by][p] # None <=> p < m.parts
    BY UploadAssumption DEF Uploading, MessageAt
  <2>2. {p \in 0 .. MaxParts - 1 : saved[m.by][p] # None} = 0 .. m.parts - 1
    BY <2>1
  <2>3. Cardinality(0 .. m.parts - 1) = m.parts
    <3>1. 0 \in Int /\ m.parts - 1 \in Int
      BY <2>1
    <3>2. Cardinality(0 .. m.parts - 1)
            = IF 0 > m.parts - 1 THEN 0 ELSE (m.parts - 1) - 0 + 1
      BY <3>1, FS_Interval
    <3> QED
      BY <2>1, <3>2
  <2> QED
    BY <2>2, <2>3
<1> QED
  BY <1>1, UploadCorrect, PTL

\* What is sent is what the user chose, all of it and nothing else, unless a
\* later picture or voice message was written to the temporary file before it
\* was read; of a big file any part may be garbled, but none is left out, added
\* or another's.
THEOREM SendsTheChosen == Spec => []SentIsChosen
<1>1. Uploading => SentIsChosen
  <2> SUFFICES ASSUME Uploading, NEW m \in media, ~rewritten[m.by]
               PROVE  /\ m.parts = Parts[m.by]
                      /\ \A p \in 0 .. m.parts - 1 :
                           \/ saved[m.by][p] = m.by
                           \/ m.by \in Big /\ saved[m.by][p] = Garbled
    BY DEF SentIsChosen
  <2>1. /\ m.by \in Send /\ m.parts \in 0 .. MaxParts /\ MaxParts \in Nat
        /\ \A p \in 0 .. MaxParts - 1 : saved[m.by][p] # None <=> p < m.parts
        /\ m.parts = Parts[m.by]
    BY UploadAssumption DEF Uploading, MessageAt
  <2>2. \A p \in 0 .. MaxParts - 1 :
          saved[m.by][p] \in {m.by, None} \cup (IF m.by \in Big THEN {Garbled} ELSE {})
    BY <2>1 DEF Uploading, ChosenAt
  <2>3. ASSUME NEW p \in 0 .. m.parts - 1
        PROVE  \/ saved[m.by][p] = m.by
               \/ m.by \in Big /\ saved[m.by][p] = Garbled
    <3>1. p \in 0 .. MaxParts - 1 /\ p < m.parts
      BY <2>1
    <3> QED
      BY <2>1, <2>2, <3>1
  <2> QED
    BY <2>1, <2>3
<1> QED
  BY <1>1, UploadCorrect, PTL
=============================================================================
