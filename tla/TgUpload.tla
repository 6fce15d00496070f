------------------------------ MODULE TgUpload ------------------------------
(***************************************************************************)
(* Uploads: tg_document_send of files.c and the part of                    *)
(* ChatViewController.m that starts and stops it.                          *)
(*                                                                         *)
(* A picture or a voice message goes through a temporary file of a fixed   *)
(* name; the upload runs later, on a queue that runs any number of them.   *)
(* A file is sent part by part, a part again until the server has          *)
(* confirmed it, and then a message that names the number of parts.        *)
(***************************************************************************)
EXTENDS Naturals, FiniteSets

CONSTANTS
  Send,       \* what the user sends, one operation each
  Src,        \* per send: "photo", "voice" or "file"
  Parts,      \* per send: number of parts of the content
  Big,        \* sends of more than 10 MB
  Named,      \* sends with a file name
  MaxParts,   \* bound on the parts of a content
  Garbled,    \* a part read from memory that was freed
  None

ASSUME UploadAssumption ==
  /\ Src \in [Send -> {"photo", "voice", "file"}]
  /\ MaxParts \in Nat /\ Parts \in [Send -> 0 .. MaxParts]
  /\ Big \subseteq Send /\ Named \subseteq Send
  /\ None \notin Send /\ Garbled \notin Send /\ Garbled # None

VARIABLES
  pc,         \* per send: where it is
  handle,     \* per send: whose content the opened file has
  body,       \* per send: whose content the part in "bytes" is
  part,       \* per send: file_part
  tmp,        \* whose content tmp.png and tmp.ogg have
  stop,       \* self.stopTransfer
  saved,      \* the server: whose content each part of each file is
  media,      \* the server: the messages sent, with the parts they name
  rewritten   \* history: the temporary file was written again too early

vars == <<pc, handle, body, part, tmp, stop, saved, media, rewritten>>

Active == {"read", "save", "poll", "media"}
Shared == {"photo", "voice"}

Init ==
  /\ pc = [s \in Send |-> "idle"]
  /\ handle = [s \in Send |-> None] /\ body = [s \in Send |-> None]
  /\ part = [s \in Send |-> 0]
  /\ tmp = [f \in Shared |-> None]
  /\ stop = FALSE
  /\ saved = [s \in Send |-> [p \in 0 .. MaxParts - 1 |-> None]]
  /\ media = {}
  /\ rewritten = [s \in Send |-> FALSE]

Goto(s, l) == pc' = [pc EXCEPT ![s] = l]

\* The main thread waits for itself and runs no block of another thread.
MainHung == \E s \in Send : pc[s] = "hung"

-----------------------------------------------------------------------------
(* The chat screen.                                                        *)

\* Still to be read from the temporary file that is written again.
Unread(s) == pc[s] = "queued" \/ (Src[s] = "voice" /\ pc[s] \in Active)

\* The temporary file is written for s.
WriteTmp(s) ==
  /\ tmp' = [f \in Shared |-> IF f = Src[s] THEN s ELSE tmp[f]]
  /\ rewritten' = [r \in Send |-> rewritten[r]
                     \/ (Src[r] = Src[s] /\ Src[s] \in Shared /\ Unread(r))]

\* sendPhoto and sendVoiceMessage write the temporary file; sendDocument adds
\* the operation.
sendDocument(s) ==
  /\ pc[s] = "idle" /\ ~MainHung
  /\ WriteTmp(s)
  /\ Goto(s, "queued")
  /\ UNCHANGED <<handle, body, part, stop, saved, media>>

\* sendPhoto without a network, sendVoiceMessage without a recording or with
\* an encoder that fails, before or after it has opened the file: the message
\* is to be shown with dispatch_sync to the main queue, on which they run.
SendHangs(s) ==
  /\ pc[s] = "idle" /\ ~MainHung /\ Src[s] \in Shared
  /\ \/ WriteTmp(s)
     \/ Src[s] = "voice" /\ UNCHANGED <<tmp, rewritten>>
  /\ Goto(s, "hung")
  /\ UNCHANGED <<handle, body, part, stop, saved, media>>

\* cancelTransfer: operations that have not started are removed.
cancelTransfer ==
  /\ ~MainHung
  /\ \E s \in Send : pc[s] \in Active \cup {"queued"}
  /\ pc' = [s \in Send |-> IF pc[s] = "queued" THEN "cancelled" ELSE pc[s]]
  /\ stop' = TRUE
  /\ UNCHANGED <<handle, body, part, tmp, saved, media, rewritten>>

\* The operation starts: not online, no file, or a big file without a name.
StartFails(s) ==
  /\ pc[s] = "queued" /\ ~MainHung
  /\ \E reset \in BOOLEAN : stop' = (stop /\ ~reset)
  /\ Goto(s, "failed")
  /\ UNCHANGED <<handle, body, part, tmp, saved, media, rewritten>>

\* ... or the file is opened.  A picture is written to a new file of that
\* name, so that what is opened stays as it is; a voice message is written in
\* place.
Start(s) ==
  /\ pc[s] = "queued" /\ ~MainHung /\ (s \in Big => s \in Named)
  /\ stop' = FALSE
  /\ handle' = [handle EXCEPT ![s] =
                  IF Src[s] = "file" THEN s ELSE tmp[Src[s]]]
  /\ Goto(s, "read")
  /\ UNCHANGED <<body, part, tmp, saved, media, rewritten>>

-----------------------------------------------------------------------------
(* tg_document_send.                                                       *)

Content(s) == IF Src[s] = "voice" THEN tmp["voice"] ELSE handle[s]

\* fread returns the next part ...
ReadPart(s) ==
  /\ pc[s] = "read" /\ part[s] < Parts[Content(s)]
  /\ body' = [body EXCEPT ![s] = Content(s)]
  /\ Goto(s, "save")
  /\ UNCHANGED <<handle, part, tmp, stop, saved, media, rewritten>>

\* ... or nothing, also when the file has become shorter than what was read.
AtEnd_exact(s) == part[s] = Parts[Content(s)]
AtEnd(s) == part[s] >= Parts[Content(s)]

EndOfFile(s) ==
  /\ pc[s] = "read" /\ AtEnd(s)
  /\ Goto(s, "media")
  /\ UNCHANGED <<handle, body, part, tmp, stop, saved, media,
                 rewritten>>

\* What arrives at the server.  The buffer of a big part is used after
\* buf_free: its bytes are right or not.
Store(s) ==
  \E b \in {body[s]} \cup (IF s \in Big THEN {Garbled} ELSE {}) :
    saved' = [saved EXCEPT ![s][part[s]] = b]

\* saveFilePart, saveBigFilePart: the server confirms with boolTrue.
SaveConfirmed(s) ==
  /\ pc[s] = "save"
  /\ Store(s)
  /\ Goto(s, "poll")
  /\ UNCHANGED <<handle, body, part, tmp, stop, media, rewritten>>

\* Where an unconfirmed part leads: to the same part again, also after ten
\* failures, which are only reported.
AfterFailure_next == "poll"
AfterFailure == "save"

\* An error or no answer.  The part may have been stored nevertheless.  A big
\* part whose freed buffer was overwritten from its head on is no
\* saveBigFilePart any more and is refused.
SaveFails(s) ==
  /\ pc[s] = "save"
  /\ Store(s) \/ UNCHANGED saved
  /\ Goto(s, AfterFailure)
  /\ UNCHANGED <<handle, body, part, tmp, stop, media, rewritten>>

\* ... or the freed buffer is not mapped any more and the application ends.
UseAfterFree(s) ==
  /\ pc[s] = "save" /\ s \in Big
  /\ pc' = [r \in Send |-> IF pc[r] \in Active \cup {"queued", "hung"}
                            THEN "dead" ELSE pc[r]]
  /\ stop' = FALSE
  /\ UNCHANGED <<handle, body, part, tmp, saved, media, rewritten>>

\* upload_progress, after a block on the main thread, returns the flag; only
\* a big upload looks at it.
Heeds(s) == s \in Big

Progress(s) ==
  /\ pc[s] = "poll" /\ ~MainHung
  /\ IF Heeds(s) /\ stop
     THEN /\ Goto(s, "failed")
          /\ UNCHANGED part
     ELSE /\ part' = [part EXCEPT ![s] = @ + 1]
          /\ Goto(s, "read")
  /\ UNCHANGED <<handle, body, tmp, stop, saved, media, rewritten>>

\* The number of parts that inputFile names.
PartsNamed_last(s) == part[s] + 1
PartsNamed(s) == part[s]

Message(s) == [by |-> s, parts |-> PartsNamed(s)]

\* sendMedia: answered, or delivered without an answer, or neither.
SendMedia(s) ==
  /\ pc[s] = "media"
  /\ \/ media' = media \cup {Message(s)} /\ Goto(s, "sent")
     \/ media' = media \cup {Message(s)} /\ Goto(s, "failed")
     \/ media' = media /\ Goto(s, "failed")
  /\ UNCHANGED <<handle, body, part, tmp, stop, saved, rewritten>>

\* What the thread of an operation does by itself, and what its queries do,
\* which may also never return.
Thread(s) ==
  Start(s) \/ StartFails(s) \/ ReadPart(s) \/ EndOfFile(s) \/ Progress(s)
Query(s) ==
  SaveConfirmed(s) \/ SaveFails(s) \/ UseAfterFree(s) \/ SendMedia(s)

Next ==
  \/ \E s \in Send : sendDocument(s) \/ SendHangs(s) \/ Thread(s) \/ Query(s)
  \/ cancelTransfer

Spec == Init /\ [][Next]_vars
\* Operations are scheduled; nothing is assumed of the queries.
FairSpec == Spec /\ \A s \in Send : WF_vars(Thread(s))

-----------------------------------------------------------------------------
(* Properties.                                                             *)

\* When a message is sent the server has every part it names and no other,
\* whatever answers were lost ("After the entire file is successfully saved,
\* the final method may be called").
MediaIsWhole ==
  \A m \in media :
    m.parts = Cardinality({p \in 0 .. MaxParts - 1 : saved[m.by][p] # None})

\* What is sent is what the user chose, all of it, unless a later picture or
\* voice message was written to the temporary file before it was read.  The
\* parts of a big file are as many and in their places, but any of them may be
\* garbled: tg_document_send frees the query before it sends it.
SentIsChosen ==
  \A m \in media : ~rewritten[m.by] =>
    /\ m.parts = Parts[m.by]
    /\ \A p \in 0 .. m.parts - 1 :
         saved[m.by][p] = m.by \/ (m.by \in Big /\ saved[m.by][p] = Garbled)

\* An upload that has started comes to an end, whatever is written to its
\* temporary file, if no part is for ever without confirmation (it is sent
\* again without end, also after "retries > 10"; a silent server never
\* answers), sendMedia returns and the main thread does not hang.
UploadEndsIfConfirmed ==
  \A s \in Send :
    []<>(pc[s] # "save") /\ []<>(pc[s] # "media") =>
      (pc[s] \in Active ~> (pc[s] \notin Active \/ MainHung))

-----------------------------------------------------------------------------
(* What makes them inductive.                                              *)

UploadType ==
  /\ pc \in [Send -> Active \cup {"idle", "queued", "hung", "cancelled",
                                 "failed", "sent", "dead"}]
  /\ handle \in [Send -> Send \cup {None}] /\ body \in [Send -> Send \cup {None}]
  /\ part \in [Send -> Nat]
  /\ tmp \in [Shared -> Send \cup {None}]
  /\ saved \in [Send -> [0 .. MaxParts - 1 -> Send \cup {Garbled, None}]]
  /\ rewritten \in [Send -> BOOLEAN]

\* There is content to read.
Readable(s) ==
  /\ pc[s] \in Active \cup {"queued"} /\ Src[s] \in Shared => tmp[Src[s]] # None
  /\ pc[s] \in Active => handle[s] # None /\ part[s] <= MaxParts
  /\ pc[s] \in {"save", "poll"} => body[s] # None /\ part[s] < MaxParts

\* The parts that the server has are those before file_part, and perhaps the
\* one that is sent again.
StoredAt(s) ==
  /\ pc[s] \in {"idle", "queued"} => part[s] = 0
  /\ \A p \in 0 .. MaxParts - 1 :
       /\ pc[s] \in {"read", "media"} => (saved[s][p] # None <=> p < part[s])
       /\ pc[s] = "save" => /\ p < part[s] => saved[s][p] # None
                            /\ p > part[s] => saved[s][p] = None
       /\ pc[s] = "poll" => (saved[s][p] # None <=> p <= part[s])
       /\ pc[s] \in {"idle", "queued"} => saved[s][p] = None

\* A message names the parts that were there, and nothing is stored after it.
MessageAt(m) ==
  /\ m.by \in Send /\ m.parts \in 0 .. MaxParts /\ pc[m.by] \in {"sent", "failed"}
  /\ \A p \in 0 .. MaxParts - 1 : saved[m.by][p] # None <=> p < m.parts

\* What is read, sent and stored is what was chosen.
ChosenAt(s) ==
  ~rewritten[s] =>
    /\ pc[s] = "queued" /\ Src[s] \in Shared => tmp[Src[s]] = s
    /\ pc[s] \in Active => Content(s) = s /\ part[s] <= Parts[s]
    /\ pc[s] \in {"save", "poll"} => body[s] = s /\ part[s] < Parts[s]
    /\ pc[s] = "media" => part[s] = Parts[s]
    /\ \A p \in 0 .. MaxParts - 1 :
         saved[s][p] \in {s, None} \cup (IF s \in Big THEN {Garbled} ELSE {})

Uploading ==
  /\ UploadType
  /\ \A s \in Send : Readable(s) /\ StoredAt(s) /\ ChosenAt(s)
  /\ \A m \in media : MessageAt(m) /\ (~rewritten[m.by] => m.parts = Parts[m.by])
=============================================================================
