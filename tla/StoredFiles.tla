----------------------------- MODULE StoredFiles -----------------------------
(***************************************************************************)
(* The files of one class after it ended: the recording that the publisher *)
(* uploads in chunks, a PDF, the objects that hold them, and the ledger    *)
(* that removes objects whose rows were hidden.                            *)
(*                                                                         *)
(* The database and the storage cannot commit together.  A handler writes  *)
(* the object inside or before its transaction; if the transaction rolls   *)
(* back, StorageCompensation deletes the objects it tracked; if the server *)
(* dies, nobody does.  Handlers are steps of requests, which overlap: the  *)
(* browser may stop waiting and ask again.                                 *)
(*                                                                         *)
(* The handlers of an existing upload read its row and the recording's,    *)
(* then wait for the Session row, and decide on what they read before they *)
(* waited: the SELECT ... FOR UPDATE after it does not refresh the objects *)
(* (no populate_existing).  What they may not overwrite is refused by the  *)
(* constraints of the tables when the transaction is flushed.  Creating an *)
(* upload, the watchdog and the deletions lock the Session row first.      *)
(*                                                                         *)
(* A recording is Total chunks; an object is the number of chunks in it.   *)
(***************************************************************************)
EXTENDS Naturals, Sequences, FiniteSets

CONSTANTS
    Request,     \* requests the server can be handling at the same time
    Deleter,     \* running instances of the deletion worker
    Faults,      \* the kinds of faults that happen
    MaxFault,    \* bound: faults in one behaviour
    Total,       \* chunks of the recording
    MaxKey,      \* bound: storage keys in use at the same time
    MaxUpload    \* bound: rows of recording_uploads

ASSUME BoundsArePositive ==
    MaxFault \in Nat /\ Total \in Nat \ {0} /\ MaxKey \in Nat \ {0} /\ MaxUpload \in Nat \ {0}
ASSUME FaultsAreKnown ==
    Faults \subseteq {"restart", "rollback", "storage", "network"}

VARIABLES
    session,     \* LectureSession.status, DELETED when the row is gone
    course,      \* whether Course.deleted_at is set
    recording,   \* the SessionRecording row
    uploads,     \* rows of recording_uploads in order of creation
    transcripts, \* RECORDING_TRANSCRIPTION rows with their transcript version
    material,    \* a LectureMaterial row
    replies,     \* completed idempotency records: what a key replays
    store,       \* size of every object that exists, by key
    ledger,      \* rows of storage_deletion_ledgers, by key
    request,     \* where every handler is, and what it has read
    deleter,     \* where every run_once of the deletion worker is
    browser,     \* the uploader of the publisher's browser
    orphans,     \* history: keys a fault left without an owner
    faults       \* faults that may still happen

rows == <<session, course, recording, uploads, transcripts, material, replies>>
files == <<store, ledger>>
vars == <<rows, files, request, deleter, browser, orphans, faults>>

-----------------------------------------------------------------------------
(* Types *)

Key == 1 .. MaxKey
NoKey == 0
Offset == 0 .. Total
UploadId == 1 .. MaxUpload

RecordingStatus == {"UPLOAD_PENDING", "UPLOADING", "UPLOADED", "FAILED", "GONE"}
Recording == [status : RecordingStatus, key : Key \cup {NoKey},
              deleted : BOOLEAN,                        \* deleted_at is set
              retention : {"none", "running", "due"}]   \* retention_expires_at
UploadRow == [status : {"ACTIVE", "COMPLETED", "EXPIRED", "FAILED", "GONE"}, offset : Offset,
              key : Key \cup {NoKey},                   \* temporary_storage_key
              late : BOOLEAN]                           \* expires_at <= now
Material == [status : {"none", "attached", "detached", "gone"}, key : Key \cup {NoKey}]

LedgerRow == [state : {"PENDING", "RUNNING", "SUCCEEDED"}, lease : {"none", "live", "expired"}]

(* "error" stands for every failure to which the browser reacts alike.      *)
Code == {"ok", "404", "410", "error"}
Reply == [code : Code, upload : 0 .. MaxUpload, offset : Offset]
Failed(code) == [code |-> code, upload |-> 0, offset |-> 0]
Ok(u, offset) == [code |-> "ok", upload |-> u, offset |-> offset]

(* "complete" is the first transaction of complete_recording_upload and     *)
(* "finish" the second one.                                                 *)
Operation == {"none", "get", "create", "append", "complete", "finish", "material"}
Completing == {"complete", "finish"}
Place == {"idle", "received", "seen", "ready", "stored", "appended", "promoted", "discarding"}

(* The rows as they were read before the wait for the Session.              *)
Seen == [active : BOOLEAN, offset : Offset, uploading : BOOLEAN]
Unseen == [active |-> FALSE, offset |-> 0, uploading |-> FALSE]

(* due: the uploads whose 24 hours are over at the time the request came.   *)
Handler == [op : Operation, at : Place, upload : 0 .. MaxUpload, offset : Offset,
            round : UploadId, key : Key \cup {NoKey}, reply : Reply,
            due : SUBSET UploadId, seen : Seen]
Idle == [op |-> "none", at |-> "idle", upload |-> 0, offset |-> 0, round |-> 1,
         key |-> NoKey, reply |-> Failed("error"), due |-> {}, seen |-> Unseen]

Worker == [at : {"idle", "claimed", "deleted", "refused"}, key : Key \cup {NoKey}]
Resting == [at |-> "idle", key |-> NoKey]

(* round is which pair of idempotency keys the browser has stored.         *)
Browser == [at : {"off", "next", "waiting", "asking", "done", "expired"},
            upload : 0 .. MaxUpload, known : BOOLEAN, offset : Offset, round : UploadId,
            request : Request \cup {"none"}, cause : Code, again : BOOLEAN]

TypeOK ==
    /\ session \in {"PROCESSING", "COMPLETED", "DELETED"}
    /\ course \in {"active", "deleted"}
    /\ recording \in Recording
    /\ uploads \in Seq(UploadRow) /\ Len(uploads) <= MaxUpload
    /\ transcripts \in Nat
    /\ material \in Material
    /\ replies \in [UploadId -> [created : 0 .. MaxUpload, completed : BOOLEAN]]
    /\ DOMAIN store \subseteq Key /\ store \in [DOMAIN store -> Offset]
    /\ DOMAIN ledger \subseteq Key /\ ledger \in [DOMAIN ledger -> LedgerRow]
    /\ request \in [Request -> Handler]
    /\ deleter \in [Deleter -> Worker]
    /\ browser \in Browser
    /\ orphans \subseteq Key
    /\ faults \in 0 .. MaxFault

(* The class has ended.  The browser has finalized its local recording, or   *)
(* has none it would upload; a PDF will be added, or none will.             *)
Init ==
    /\ session = "PROCESSING" /\ course = "active"
    /\ recording = [status |-> "UPLOAD_PENDING", key |-> NoKey, deleted |-> FALSE,
                    retention |-> "none"]
    /\ uploads = <<>> /\ transcripts = 0
    /\ \E status \in {"none", "gone"} : material = [status |-> status, key |-> NoKey]
    /\ replies = [n \in UploadId |-> [created |-> 0, completed |-> FALSE]]
    /\ store = [k \in {} |-> 0] /\ ledger = [k \in {} |-> 0]
    /\ request = [r \in Request |-> Idle]
    /\ deleter = [d \in Deleter |-> Resting]
    /\ \E at \in {"off", "expired"} :
          browser = [at |-> at, upload |-> 0, known |-> FALSE, offset |-> 0,
                     round |-> 1, request |-> "none", cause |-> "ok", again |-> FALSE]
    /\ orphans = {}
    /\ faults = MaxFault

-----------------------------------------------------------------------------
(* Objects.  A missing object has no size.                                  *)

With(k, size) == [x \in DOMAIN store \cup {k} |-> IF x = k THEN size ELSE store[x]]
Without(keys) == [x \in DOMAIN store \ keys |-> store[x]]
Holds(k, size) == k \in DOMAIN store /\ store[k] = size

(* Keys are UUIDs: one that any row, object or handler still names is not  *)
(* drawn again.                                                            *)
Named ==
    DOMAIN store \cup DOMAIN ledger \cup {recording.key, material.key}
        \cup {uploads[u].key : u \in DOMAIN uploads}
        \cup {request[r].key : r \in Request} \cup {deleter[d].key : d \in Deleter}
Fresh == CHOOSE k \in Key : k \notin Named
HasFresh == Key \ Named # {}

Queued(keys) ==
    [k \in DOMAIN ledger \cup keys |->
        IF k \in DOMAIN ledger THEN ledger[k] ELSE [state |-> "PENDING", lease |-> "none"]]

Fault(kind) == kind \in Faults /\ faults > 0 /\ faults' = faults - 1
NoFault == UNCHANGED faults

-----------------------------------------------------------------------------
(* Replies.  The browser reacts to the reply it waits for and misses one it *)
(* no longer waits for.                                                     *)

Waits(r) == browser.at = "waiting" /\ browser.request = r

Stopped == [browser EXCEPT !.at = "off", !.request = "none", !.known = FALSE]

Reaction(op, reply) ==
    LET b == [browser EXCEPT !.request = "none"]
    IN  CASE reply.code = "ok" /\ op \in Completing -> [b EXCEPT !.at = "done"]
          [] reply.code = "ok" /\ op \notin Completing ->
                [b EXCEPT !.at = "next", !.known = TRUE, !.upload = reply.upload,
                          !.offset = reply.offset]
          [] reply.code # "ok" /\ (op \in Completing \/ reply.code \in {"404", "410"}) ->
                [b EXCEPT !.at = "asking", !.cause = reply.code]
          [] OTHER -> Stopped

Answer(r, reply) ==
    /\ request' = [request EXCEPT ![r] = Idle]
    /\ browser' = IF Waits(r) THEN Reaction(request[r].op, reply) ELSE browser

(* Bug: a refused create leaves without compensation. *)
AnswerOnly(r, key, reply) == Answer(r, reply)

(* The reply goes out after one best-effort deletion.                      *)
DiscardThen(r, key, reply) ==
    /\ request' = [request EXCEPT ![r].at = "discarding", ![r].key = key, ![r].reply = reply,
                                  ![r].due = {}, ![r].seen = Unseen]
    /\ UNCHANGED browser

Locked == \E r \in Request : request[r].at \in {"appended", "promoted"}
At(r, op, place) == request[r].op = op /\ request[r].at = place
Goes(r, place, key) ==
    request' = [request EXCEPT ![r].at = place, ![r].key = key,
                               ![r].due = {}, ![r].seen = Unseen]

Member == session # "DELETED" /\ course = "active"

-----------------------------------------------------------------------------
(* recording_uploads *)

Active(u) == u \in DOMAIN uploads /\ uploads[u].status = "ACTIVE"
ActiveUploads == {u \in DOMAIN uploads : uploads[u].status = "ACTIVE"}
InStatus(u, status) == [uploads EXCEPT ![u].status = status]

DueUploads == {u \in DOMAIN uploads : uploads[u].late}

Refuse(r, code) ==
    /\ Answer(r, Failed(code))
    /\ UNCHANGED <<rows, files>>

(* _lock_upload_context: the row of the upload is read, then the recording, *)
(* then the Session is waited for.  The second transaction of a completion  *)
(* takes its idempotency record before it reads, and waits for another that *)
(* has it.                                                                  *)
Acquirable(r) ==
    /\ ~replies[request[r].round].completed
    /\ \A x \in Request \ {r} :
          request[x].op = "finish" /\ request[x].round = request[r].round
              => request[x].at \notin {"seen", "ready", "promoted"}

ReadUpload(r) ==
    LET u == request[r].upload
    IN  /\ request[r].at = "received"
        /\ \/ request[r].op \in {"get", "append", "complete"}
           \/ request[r].op = "finish" /\ Acquirable(r)
        /\ request' =
              [request EXCEPT
                  ![r].at = "seen",
                  ![r].due = IF request[r].op = "finish" THEN {} ELSE DueUploads \cap {u},
                  ![r].seen = [Unseen EXCEPT !.active = Active(u),
                                             !.offset = IF Active(u) THEN uploads[u].offset
                                                        ELSE 0]]
        /\ UNCHANGED <<rows, files, deleter, browser, orphans, faults>>

ReadRecording(r) ==
    /\ request[r].at = "seen"
    /\ request' = [request EXCEPT ![r].at = "ready",
                                  ![r].seen.uploading = recording.status = "UPLOADING"]
    /\ UNCHANGED <<rows, files, deleter, browser, orphans, faults>>

(* Membership is read after the wait, the upload's status was read before   *)
(* it.  Whoever may not see the upload is told that there is none.          *)
Usable(r) == Member /\ request[r].seen.active
Expired(r) == Usable(r) /\ request[r].upload \in request[r].due
Open(r) == Usable(r) /\ request[r].upload \notin request[r].due

(* Of session_recordings: UPLOADED with a key and FAILED with failed_at, no *)
(* other status with either; the UPDATE writes only what the handler changed.*)
MayBecomePending == recording.status \notin {"UPLOADED", "FAILED"}

(* _require_upload_active of a row that was seen ACTIVE and whose 24 hours  *)
(* are over.  The commit is followed by the deletion of the temporary       *)
(* object and 410.                                                          *)
ExpireNow(r) ==
    LET u       == request[r].upload
        reopens == request[r].seen.uploading
    IN  \/ /\ reopens => MayBecomePending
           /\ uploads' = InStatus(u, "EXPIRED")
           /\ recording' = IF reopens THEN [recording EXCEPT !.status = "UPLOAD_PENDING"]
                           ELSE recording
           /\ DiscardThen(r, uploads[u].key, Failed("410"))
           /\ UNCHANGED <<session, course, transcripts, material, replies, files>>
        \/ /\ reopens /\ ~MayBecomePending
           /\ Refuse(r, "error")

GetUpload(r) ==
    /\ At(r, "get", "ready") /\ ~Locked
    /\ \/ ~Usable(r) /\ Refuse(r, "404")
       \/ Expired(r) /\ ExpireNow(r)
       \/ Open(r) /\ ~request[r].seen.uploading /\ Refuse(r, "error")
       \/ /\ Open(r) /\ request[r].seen.uploading
          /\ Answer(r, Ok(request[r].upload, request[r].seen.offset))
          /\ UNCHANGED <<rows, files>>
    /\ UNCHANGED <<deleter, orphans, faults>>

-----------------------------------------------------------------------------
(* create_recording_upload: the object first, then the transaction.         *)

(* Bound: HasFresh and MaxUpload.                                           *)
StoreTemporary(r) ==
    /\ At(r, "create", "received")
    /\ HasFresh
    /\ store' = With(Fresh, 0)
    /\ request' = [request EXCEPT ![r].at = "stored", ![r].key = Fresh, ![r].due = DueUploads]
    /\ UNCHANGED <<rows, ledger, browser, deleter, orphans, faults>>

(* The key of the round was answered less than 24 hours ago, which is as    *)
(* long as the manifest lives.                                              *)
CreatedBefore(r) ==
    LET id == replies[request[r].round].created IN id # 0 /\ id \notin request[r].due

(* Bug: a recording that was uploaded is not told from one that was not. *)
CreateAnyStatus(r) == Member /\ ActiveUploads \subseteq request[r].due

CreateAllowed(r) ==
    /\ Member
    /\ recording.status \in {"UPLOAD_PENDING", "UPLOADING", "FAILED"}
    /\ ActiveUploads \subseteq request[r].due

CreateUpload(r) ==
    LET round == request[r].round
        id    == Len(uploads) + 1
        row   == [status |-> "ACTIVE", offset |-> 0, key |-> request[r].key, late |-> FALSE]
        old   == [u \in DOMAIN uploads |->
                     IF Active(u) THEN [uploads[u] EXCEPT !.status = "EXPIRED"] ELSE uploads[u]]
    IN  /\ At(r, "create", "stored") /\ ~Locked
        /\ \/ /\ CreatedBefore(r)
              /\ DiscardThen(r, request[r].key, Ok(replies[round].created, 0))
              /\ UNCHANGED <<rows, files>> /\ NoFault
           \/ /\ ~CreatedBefore(r) /\ ~CreateAllowed(r)
              /\ DiscardThen(r, request[r].key,
                             Failed(IF session = "DELETED" THEN "404" ELSE "error"))
              /\ UNCHANGED <<rows, files>> /\ NoFault
           \/ /\ Fault("rollback")
              /\ DiscardThen(r, request[r].key, Failed("error"))
              /\ UNCHANGED <<rows, files>>
           \/ /\ ~CreatedBefore(r) /\ CreateAllowed(r) /\ id <= MaxUpload
              /\ uploads' = Append(old, row)
              /\ recording' = [recording EXCEPT !.status = "UPLOADING"]
              /\ replies' = [replies EXCEPT ![round].created = id]
              /\ IF ActiveUploads = {} THEN Answer(r, Ok(id, 0))
                 ELSE \E u \in ActiveUploads : DiscardThen(r, uploads[u].key, Ok(id, 0))
              /\ UNCHANGED <<session, course, transcripts, material, files>> /\ NoFault
    /\ UNCHANGED <<deleter, orphans>>

(* One best-effort deletion and the reply.  A failure is ignored; nobody    *)
(* tries again unless the ledger has the key.                               *)
Unowned(keys) == (keys \cap DOMAIN store) \ DOMAIN ledger

Discard(r) ==
    /\ request[r].at = "discarding"
    /\ \/ store' = Without({request[r].key}) /\ UNCHANGED orphans /\ NoFault
       \/ /\ Fault("storage")
          /\ orphans' = orphans \cup Unowned({request[r].key})
          /\ UNCHANGED store
    /\ Answer(r, request[r].reply)
    /\ UNCHANGED <<rows, ledger, deleter>>

(* A handler that fails before it has written anything.                     *)
FailEarly(r) ==
    /\ Fault("rollback")
    /\ request[r].at = "received"
    /\ Refuse(r, "error")
    /\ UNCHANGED <<deleter, orphans>>

-----------------------------------------------------------------------------
(* append_recording_upload_chunk: the bytes inside the transaction, the     *)
(* offset with its commit.                                                  *)

(* Bug: neither offset is compared, the chunk is written where it says. *)
AppendUnchecked(r) == ~request[r].seen.uploading

(* append_chunk also sets the offset to the size it found, but the error it *)
(* then raises rolls the transaction back.                                  *)
AppendRefused(r) ==
    LET n == request[r].offset
    IN  \/ ~request[r].seen.uploading
        \/ n # request[r].seen.offset
        \/ ~Holds(uploads[request[r].upload].key, n)

AppendBytes(r) ==
    LET u == request[r].upload
        n == request[r].offset
    IN  /\ At(r, "append", "ready") /\ ~Locked
        /\ \/ ~Usable(r) /\ Refuse(r, "404") /\ NoFault
           \/ Expired(r) /\ ExpireNow(r) /\ NoFault
           \/ Open(r) /\ AppendRefused(r) /\ Refuse(r, "error") /\ NoFault
           \/ /\ Open(r) /\ ~AppendRefused(r) /\ Fault("storage")
              /\ store' \in {store, With(uploads[u].key, n + 1)}
              /\ Answer(r, Failed("error"))
              /\ UNCHANGED <<rows, ledger>>
           \/ /\ Open(r) /\ ~AppendRefused(r)
              /\ store' = With(uploads[u].key, n + 1)
              /\ Goes(r, "appended", NoKey)
              /\ UNCHANGED <<rows, ledger, browser>> /\ NoFault
    /\ UNCHANGED <<deleter, orphans>>

AppendCommit(r) ==
    LET u == request[r].upload
        n == request[r].offset + 1
    IN  /\ At(r, "append", "appended")
        /\ uploads' = [uploads EXCEPT ![u].offset = n]
        /\ Answer(r, Ok(u, n))
        /\ UNCHANGED <<session, course, recording, transcripts, material, replies, files>>
        /\ UNCHANGED <<deleter, orphans, faults>>

AppendRollback(r) ==
    /\ At(r, "append", "appended") /\ Fault("rollback")
    /\ Refuse(r, "error")
    /\ UNCHANGED <<deleter, orphans>>

-----------------------------------------------------------------------------
(* complete_recording_upload: a transaction that expires a late manifest,   *)
(* then one that moves the object to its final key and commits the rows.    *)

ExpireIfDue(r) ==
    /\ At(r, "complete", "ready") /\ ~Locked
    /\ \/ ~Member /\ Refuse(r, "404")
       \/ Expired(r) /\ ExpireNow(r)
       \/ /\ Member /\ ~Expired(r)
          /\ request' = [request EXCEPT ![r].op = "finish", ![r].at = "received",
                                        ![r].due = {}, ![r].seen = Unseen]
          /\ UNCHANGED <<rows, files, browser>>
    /\ UNCHANGED <<deleter, orphans, faults>>

(* The key replays its answer before any guard.                             *)
Replay(r) ==
    /\ At(r, "finish", "received") /\ replies[request[r].round].completed
    /\ Answer(r, Ok(request[r].upload, Total))
    /\ UNCHANGED <<rows, files, deleter, orphans, faults>>

(* Lateness is judged by the clock of the first transaction, which passed.  *)
Refusal(r) ==
    IF ~Usable(r) THEN "404"
    ELSE IF \/ ~request[r].seen.uploading
            \/ request[r].seen.offset # Total
            \/ ~Holds(uploads[request[r].upload].key, Total)
         THEN "error" ELSE "ok"

Promote(r) ==
    LET u == request[r].upload
    IN  /\ At(r, "finish", "ready") /\ ~Locked
        /\ \/ Refusal(r) # "ok" /\ Refuse(r, Refusal(r)) /\ UNCHANGED orphans /\ NoFault
           \/ /\ Refusal(r) = "ok" /\ HasFresh
              /\ store' = [k \in (DOMAIN store \cup {Fresh}) \ {uploads[u].key} |->
                              IF k = Fresh THEN Total ELSE store[k]]
              /\ Goes(r, "promoted", Fresh)
              /\ UNCHANGED <<rows, ledger, browser, orphans>> /\ NoFault
           \/ \* The new link exists, the old one could not be removed.
              /\ Refusal(r) = "ok" /\ HasFresh /\ Fault("storage")
              /\ store' = With(Fresh, Total)
              /\ orphans' = orphans \cup {Fresh}
              /\ Answer(r, Failed("error"))
              /\ UNCHANGED <<rows, ledger>>
    /\ UNCHANGED deleter

(* Of session_recordings, as above, and of ai_jobs: a recording has one     *)
(* RECORDING_TRANSCRIPTION.                                                 *)
MayBecomeUploaded == recording.status \notin {"UPLOADED", "FAILED"}

(* Bug: compensation.commit() is forgotten. *)
CompleteUncommitted(r) ==
    LET u == request[r].upload
    IN  /\ At(r, "finish", "promoted") /\ MayBecomeUploaded
        /\ recording' = [recording EXCEPT !.status = "UPLOADED", !.key = request[r].key]
        /\ uploads' = InStatus(u, "COMPLETED")
        /\ transcripts' = transcripts + 1
        /\ replies' = [replies EXCEPT ![request[r].round].completed = TRUE]
        /\ DiscardThen(r, request[r].key, Ok(u, Total))
        /\ UNCHANGED <<session, course, material, files, deleter, orphans, faults>>

CompleteUpload(r) ==
    LET u == request[r].upload
    IN  /\ At(r, "finish", "promoted") /\ MayBecomeUploaded
        /\ recording' = [recording EXCEPT !.status = "UPLOADED", !.key = request[r].key,
                             !.retention = IF session = "COMPLETED" THEN "running" ELSE @]
        /\ uploads' = InStatus(u, "COMPLETED")
        /\ transcripts' = transcripts + 1
        /\ replies' = [replies EXCEPT ![request[r].round].completed = TRUE]
        /\ Answer(r, Ok(u, Total))
        /\ UNCHANGED <<session, course, material, files, deleter, orphans, faults>>

(* The rows that the handler did not see refuse the flush.                  *)
CompleteRefused(r) ==
    /\ At(r, "finish", "promoted") /\ ~MayBecomeUploaded
    /\ DiscardThen(r, request[r].key, Failed("error"))
    /\ UNCHANGED <<rows, files, deleter, orphans, faults>>

CompleteRollback(r) ==
    /\ At(r, "finish", "promoted") /\ Fault("rollback")
    /\ DiscardThen(r, request[r].key, Failed("error"))
    /\ UNCHANGED <<rows, files, deleter, orphans>>

-----------------------------------------------------------------------------
(* A PDF: stored first, attached by the transaction.                        *)

ReceivePdf(r) ==
    /\ request[r].at = "idle" /\ material.status = "none"
    /\ request' = [request EXCEPT ![r] = [Idle EXCEPT !.op = "material", !.at = "received"]]
    /\ UNCHANGED <<rows, files, deleter, browser, orphans, faults>>

StorePdf(r) ==
    /\ At(r, "material", "received") /\ HasFresh
    /\ store' = With(Fresh, Total)
    /\ Goes(r, "stored", Fresh)
    /\ UNCHANGED <<rows, ledger, deleter, browser, orphans, faults>>

AttachAllowed == Member /\ session = "COMPLETED" /\ material.status = "none"

AttachPdf(r) ==
    /\ At(r, "material", "stored") /\ ~Locked
    /\ \/ /\ AttachAllowed
          /\ material' = [status |-> "attached", key |-> request[r].key]
          /\ Answer(r, Ok(0, 0))
          /\ UNCHANGED <<session, course, recording, uploads, transcripts, replies>> /\ NoFault
       \/ /\ \/ ~AttachAllowed /\ NoFault
             \/ Fault("rollback")
          /\ DiscardThen(r, request[r].key, Failed("error"))
          /\ UNCHANGED rows
    /\ UNCHANGED <<files, deleter, orphans>>

(* The ledger has the key before the handler tries to delete the object.    *)
DetachPdf(r) ==
    /\ request[r].at = "idle" /\ ~Locked
    /\ Member /\ session = "COMPLETED" /\ material.status = "attached"
    /\ material' = [material EXCEPT !.status = "detached"]
    /\ ledger' = Queued({material.key})
    /\ request' = [request EXCEPT ![r] = [Idle EXCEPT !.op = "material", !.at = "discarding",
                                                     !.key = material.key]]
    /\ UNCHANGED <<session, course, recording, uploads, transcripts, replies>>
    /\ UNCHANGED <<store, deleter, browser, orphans, faults>>

-----------------------------------------------------------------------------
(* The class, its recording and the course.                                 *)

(* The watchdog, or the coordinator when no upload is left to wait for.     *)
CompleteSession ==
    /\ session = "PROCESSING" /\ ~Locked
    /\ session' = "COMPLETED"
    /\ recording' = IF recording.status = "UPLOADED"
                    THEN [recording EXCEPT !.retention = "running"]
                    ELSE [recording EXCEPT !.status = "FAILED"]
    /\ uploads' = [u \in DOMAIN uploads |->
                      IF Active(u) THEN [uploads[u] EXCEPT !.status = "FAILED"] ELSE uploads[u]]
    /\ UNCHANGED <<course, transcripts, material, replies>>
    /\ UNCHANGED <<files, request, deleter, browser, orphans, faults>>

AbandonUpload ==
    /\ Member /\ session = "PROCESSING" /\ ~Locked
    /\ recording.status = "UPLOAD_PENDING" /\ ActiveUploads = {}
    /\ recording' = [recording EXCEPT !.status = "FAILED"]
    /\ UNCHANGED <<session, course, uploads, transcripts, material, replies>>
    /\ UNCHANGED <<files, request, deleter, browser, orphans, faults>>

DeleteRecording ==
    /\ Member /\ session = "COMPLETED" /\ ~Locked
    /\ recording.status = "UPLOADED" /\ ~recording.deleted
    /\ recording' = [recording EXCEPT !.deleted = TRUE]
    /\ ledger' = Queued({recording.key})
    /\ UNCHANGED <<session, course, uploads, transcripts, material, replies>>
    /\ UNCHANGED <<store, request, deleter, browser, orphans, faults>>

(* The rows that the class owns go with it.  Nothing enters the ledger.     *)
DeleteSession ==
    /\ Member /\ session = "COMPLETED" /\ ~Locked
    /\ session' = "DELETED"
    /\ recording' = [recording EXCEPT !.status = "GONE", !.key = NoKey]
    /\ uploads' = [u \in DOMAIN uploads |->
                      [uploads[u] EXCEPT !.status = "GONE", !.key = NoKey]]
    /\ material' = [status |-> "gone", key |-> NoKey]
    /\ transcripts' = 0
    /\ UNCHANGED <<course, replies, files, request, deleter, browser, orphans, faults>>

(* The two queries lock what they return, the class's row with it: a class  *)
(* without files is not waited for, and a recording whose key another       *)
(* transaction is about to write is not seen.                               *)
DeleteCourse ==
    LET keys == {material.key, recording.key} \ {NoKey}
    IN  /\ course = "active" /\ session # "PROCESSING"
        /\ Locked => keys = {}
        /\ course' = "deleted"
        /\ recording' = [recording EXCEPT !.deleted = @ \/ recording.key # NoKey]
        /\ ledger' = Queued(keys)
        /\ UNCHANGED <<session, uploads, transcripts, material, replies>>
        /\ UNCHANGED <<store, request, deleter, browser, orphans, faults>>

(* 24 hours of a manifest, 30 days of a recording.                          *)
ManifestEnds ==
    /\ \E u \in ActiveUploads :
           ~uploads[u].late /\ uploads' = [uploads EXCEPT ![u].late = TRUE]
    /\ UNCHANGED <<session, course, recording, transcripts, material, replies>>
    /\ UNCHANGED <<files, request, deleter, browser, orphans, faults>>

RetentionEnds ==
    /\ recording.retention = "running"
    /\ recording' = [recording EXCEPT !.retention = "due"]
    /\ UNCHANGED <<session, course, uploads, transcripts, material, replies>>
    /\ UNCHANGED <<files, request, deleter, browser, orphans, faults>>

-----------------------------------------------------------------------------
(* StorageDeletionWorker                                                    *)

(* FOR UPDATE SKIP LOCKED. *)
RetentionDue ==
    /\ ~Locked /\ Member /\ recording.retention = "due"
    /\ recording.status = "UPLOADED" /\ ~recording.deleted

(* Bug: a RUNNING row is nobody's business but its worker's. *)
ClaimPending(d) ==
    LET scheduled == IF RetentionDue THEN Queued({recording.key}) ELSE ledger
    IN  /\ deleter[d].at = "idle"
        /\ recording' = [recording EXCEPT !.deleted = @ \/ RetentionDue]
        /\ \E k \in DOMAIN scheduled :
              /\ scheduled[k].state = "PENDING"
              /\ ledger' = [scheduled EXCEPT ![k] = [state |-> "RUNNING", lease |-> "live"]]
              /\ deleter' = [deleter EXCEPT ![d] = [at |-> "claimed", key |-> k]]
        /\ UNCHANGED <<session, course, uploads, transcripts, material, replies>>
        /\ UNCHANGED <<store, request, browser, orphans, faults>>

(* schedule_due_recording_deletions and _claim in one transaction.          *)
Claim(d) ==
    LET scheduled == IF RetentionDue THEN Queued({recording.key}) ELSE ledger
    IN  /\ deleter[d].at = "idle"
        /\ recording' = [recording EXCEPT !.deleted = @ \/ RetentionDue]
        /\ \E k \in DOMAIN scheduled :
              /\ \/ scheduled[k].state = "PENDING"
                 \/ scheduled[k].state = "RUNNING" /\ scheduled[k].lease = "expired"
              /\ ledger' = [scheduled EXCEPT ![k] = [state |-> "RUNNING", lease |-> "live"]]
              /\ deleter' = [deleter EXCEPT ![d] = [at |-> "claimed", key |-> k]]
        /\ UNCHANGED <<session, course, uploads, transcripts, material, replies>>
        /\ UNCHANGED <<store, request, browser, orphans, faults>>

DeleteObject(d) ==
    /\ deleter[d].at = "claimed"
    /\ \/ /\ store' = Without({deleter[d].key})
          /\ deleter' = [deleter EXCEPT ![d].at = "deleted"]
          /\ NoFault
       \/ /\ Fault("storage")
          /\ deleter' = [deleter EXCEPT ![d].at = "refused"]
          /\ UNCHANGED store
    /\ UNCHANGED <<rows, ledger, request, browser, orphans>>

(* Bug: whoever returns closes the row. *)
MarkAnyway(d) ==
    LET k == deleter[d].key
    IN  /\ deleter[d].at \in {"deleted", "refused"}
        /\ ledger' = [ledger EXCEPT ![k] = [state |-> "SUCCEEDED", lease |-> "none"]]
        /\ deleter' = [deleter EXCEPT ![d] = Resting]
        /\ UNCHANGED <<rows, store, request, browser, orphans, faults>>

(* _mark_succeeded and _release_after_failure find the row by its id.       *)
Mark(d) ==
    LET k == deleter[d].key
    IN  /\ deleter[d].at \in {"deleted", "refused"}
        /\ ledger' = IF ledger[k].state # "RUNNING" THEN ledger
                     ELSE [ledger EXCEPT ![k] =
                              [state |-> IF deleter[d].at = "deleted" THEN "SUCCEEDED"
                                         ELSE "PENDING",
                               lease |-> "none"]]
        /\ deleter' = [deleter EXCEPT ![d] = Resting]
        /\ UNCHANGED <<rows, store, request, browser, orphans, faults>>

(* 60 seconds, also while the worker is still deleting.                     *)
LeaseEnds(k) ==
    /\ k \in DOMAIN ledger /\ ledger[k].lease = "live"
    /\ ledger' = [ledger EXCEPT ![k].lease = "expired"]
    /\ UNCHANGED <<rows, store, request, deleter, browser, orphans, faults>>

WorkerCrash(d) ==
    /\ Fault("restart") /\ deleter[d].at # "idle"
    /\ deleter' = [deleter EXCEPT ![d] = Resting]
    /\ UNCHANGED <<rows, files, request, browser, orphans>>

-----------------------------------------------------------------------------
(* The server restarts: transactions roll back, nothing is compensated.     *)

InHand == {request[r].key : r \in {x \in Request :
                             request[x].at \in {"stored", "promoted", "discarding"}}}

Crash ==
    /\ Fault("restart") /\ \E r \in Request : request[r].at # "idle"
    /\ request' = [r \in Request |-> Idle]
    /\ orphans' = orphans \cup Unowned(InHand)
    /\ browser' = IF browser.at # "waiting" THEN browser
                  ELSE Reaction(request[browser.request].op, Failed("error"))
    /\ UNCHANGED <<rows, files, deleter>>

-----------------------------------------------------------------------------
(* uploadLocalRecording in the browser, which holds a lock of its own: one  *)
(* uploader at a time.  Chunks below the acknowledged offset are deleted.   *)

Start ==
    /\ browser.at = "off"
    /\ browser' = [browser EXCEPT !.at = "next", !.known = FALSE, !.again = FALSE]
    /\ UNCHANGED <<rows, files, request, deleter, orphans, faults>>

NextOperation ==
    IF browser.upload = 0 THEN "create"
    ELSE IF ~browser.known THEN "get"
    ELSE IF browser.offset < Total THEN "append" ELSE "complete"

Send(r) ==
    /\ browser.at = "next" /\ request[r].at = "idle"
    /\ request' = [request EXCEPT ![r] =
                      [Idle EXCEPT !.op = NextOperation, !.at = "received",
                                   !.upload = browser.upload, !.offset = browser.offset,
                                   !.round = browser.round]]
    /\ browser' = [browser EXCEPT !.at = "waiting", !.request = r]
    /\ UNCHANGED <<rows, files, deleter, orphans, faults>>

(* The connection is lost; the handler is not.                              *)
Drop ==
    /\ Fault("network") /\ browser.at = "waiting"
    /\ browser' = Reaction(request[browser.request].op, Failed("error"))
    /\ UNCHANGED <<rows, files, request, deleter, orphans>>

(* canonicalRecordingStatus, null when the request fails.                   *)
CanonicalStatus ==
    IF Member /\ ~recording.deleted THEN recording.status ELSE "null"

Ask ==
    LET status     == CanonicalStatus
        canRestart == status \in {"UPLOAD_PENDING", "FAILED"}
        reset      == [browser EXCEPT !.upload = 0, !.round = @ + 1, !.again = TRUE,
                                      !.known = FALSE]
        lost       == browser.cause \in {"404", "410"}
    IN  /\ browser.at = "asking"
        /\ browser' =
              CASE status = "UPLOADED" -> [browser EXCEPT !.at = "done"]
                [] lost /\ canRestart /\ browser.offset = 0 /\ browser.round < MaxUpload ->
                      [reset EXCEPT !.at = IF browser.again THEN "off" ELSE "next"]
                [] lost /\ browser.offset > 0 /\ status # "UPLOADED"
                      /\ (browser.cause = "410" \/ canRestart) ->
                      [browser EXCEPT !.at = "expired"]
                [] OTHER -> Stopped
        /\ UNCHANGED <<rows, files, request, deleter, orphans, faults>>

-----------------------------------------------------------------------------
(* The endpoints of one request.                                            *)
CreateRecordingUpload(r) == StoreTemporary(r) \/ CreateUpload(r)
AppendChunk(r) == AppendBytes(r) \/ AppendCommit(r)
CompleteRecordingUpload(r) ==
    ExpireIfDue(r) \/ Replay(r) \/ Promote(r) \/ CompleteUpload(r) \/ CompleteRefused(r)
UploadMaterial(r) == StorePdf(r) \/ AttachPdf(r)

Handle(r) ==
    \/ ReadUpload(r) \/ ReadRecording(r)
    \/ GetUpload(r) \/ CreateRecordingUpload(r) \/ AppendChunk(r)
    \/ CompleteRecordingUpload(r) \/ UploadMaterial(r) \/ Discard(r)

Work(d) == Claim(d) \/ DeleteObject(d) \/ Mark(d)

Next ==
    \/ \E r \in Request :
          Handle(r) \/ FailEarly(r) \/ AppendRollback(r) \/ CompleteRollback(r)
             \/ ReceivePdf(r) \/ DetachPdf(r) \/ Send(r)
    \/ \E d \in Deleter : Work(d) \/ WorkerCrash(d)
    \/ \E k \in Key : LeaseEnds(k)
    \/ CompleteSession \/ AbandonUpload \/ DeleteRecording \/ DeleteSession \/ DeleteCourse
    \/ ManifestEnds \/ RetentionEnds
    \/ Start \/ Drop \/ Ask \/ Crash

Spec == Init /\ [][Next]_vars

(* Handlers and the worker's loop run until they return; a lease ends; the  *)
(* user presses upload again.  Deleting, and time, owe nobody anything.     *)
Fairness ==
    /\ \A r \in Request : WF_vars(Handle(r)) /\ WF_vars(Send(r))
    /\ \A d \in Deleter : WF_vars(Work(d))
    /\ \A k \in Key : WF_vars(LeaseEnds(k))
    /\ WF_vars(Start) /\ WF_vars(Ask)

FairSpec == Spec /\ Fairness


-----------------------------------------------------------------------------
(* Properties                                                               *)

(* What a member can open has its bytes: a recording that is UPLOADED and   *)
(* not deleted, and an attached PDF, have a complete object, whatever       *)
(* compensations, expiries and deletions were under way.                    *)
ServedObjectsExist ==
    /\ recording.status = "UPLOADED" /\ ~recording.deleted => Holds(recording.key, Total)
    /\ material.status = "attached" /\ course = "active" => Holds(material.key, Total)

(* What was hidden is on its way out: a deleted recording, a detached PDF   *)
(* and the PDFs of a deleted course have a row in the ledger, so a crash    *)
(* after the commit loses no deletion.                                      *)
HiddenObjectsQueued ==
    /\ recording.status = "UPLOADED" /\ recording.deleted => recording.key \in DOMAIN ledger
    /\ material.status = "detached" => material.key \in DOMAIN ledger
    /\ material.status = "attached" /\ course = "deleted" => material.key \in DOMAIN ledger

(* A SUCCEEDED row tells the truth: the object is gone, also when a worker  *)
(* that lost its lease and the one that took over finish in any order.      *)
SucceededMeansGone ==
    \A k \in DOMAIN ledger : ledger[k].state = "SUCCEEDED" => k \notin DOMAIN store

(* Without a fault no object is left behind while its class exists: each is *)
(* named by a manifest, a recording, a PDF or the ledger, or a handler has  *)
(* it in its hands.  The faults that do strand one are counted in orphans.  *)
EveryObjectOwned ==
    session # "DELETED" =>
        \A k \in DOMAIN store :
            \/ k \in {recording.key, material.key} \cup DOMAIN ledger \cup InHand \cup orphans
            \/ \E u \in DOMAIN uploads :
                  uploads[u].key = k /\ uploads[u].status \in {"ACTIVE", "FAILED"}

(* The browser deletes a chunk once it is acknowledged: the server holds    *)
(* every byte the manifest or the browser counts, whichever chunk requests  *)
(* were repeated, lost, rolled back or decided on stale rows.  Once all are *)
(* there a completion may move them; as long as nothing failed and no other *)
(* upload was completed, they are in its hands or still in place.           *)
BytesOf(u) == uploads[u].key \in DOMAIN store /\ uploads[u].offset <= store[uploads[u].key]

AcknowledgedBytesHeld ==
    \A u \in ActiveUploads :
        /\ browser.upload = u => browser.offset <= uploads[u].offset
        /\ \/ BytesOf(u)
           \/ \E r \in Request : At(r, "finish", "promoted") /\ request[r].upload = u
           \/ uploads[u].offset = Total /\ (faults < MaxFault \/ recording.status = "UPLOADED")

(* One recording is transcribed once, however often its completion is sent  *)
(* and whatever the handlers had seen; no two uploads are completed; and    *)
(* the browser forgets its copy only when the server has a recording.       *)
UploadedOnce ==
    session # "DELETED" =>
        /\ transcripts = IF recording.status = "UPLOADED" THEN 1 ELSE 0
        /\ Cardinality({u \in DOMAIN uploads : uploads[u].status = "COMPLETED"}) <= transcripts
        /\ Cardinality(ActiveUploads) <= 1
        /\ browser.at = "done" => transcripts = 1

(* Every queued deletion is carried out in the end, through failures of the *)
(* storage, lost leases and crashes of the worker: rows stay and a class has *)
(* few objects, so that again and again none is left to delete.             *)
DeletionsFinish ==
    []<>(\A k \in DOMAIN ledger : ledger[k].state = "SUCCEEDED")

(* The offset of the manifest is where an upload goes on after a restart    *)
(* (API_명세서 and DB_스키마 say so): once faults stop, an upload whose user *)
(* keeps pressing upload gets out of UPLOADING unless its 24 hours pass.    *)
UploadFinishes ==
    (Member /\ recording.status = "UPLOADING")
        ~> \/ ~Member \/ recording.status # "UPLOADING"
           \/ \E u \in ActiveUploads : uploads[u].late

(* A chunk is appended to, and a completion ends, an upload that is ACTIVE  *)
(* (DB_스키마: "status = 'ACTIVE' AND offset_bytes = :expected_offset", and   *)
(* finalize checks ACTIVE after its locks): whatever ended the upload while *)
(* a handler waited for the Session row keeps its last word.                *)
OnlyActiveUploadsMove ==
    [][\A u \in DOMAIN uploads :
          \/ uploads'[u].offset > uploads[u].offset
          \/ uploads'[u].status = "COMPLETED" /\ uploads[u].status # "COMPLETED"
          => uploads[u].status = "ACTIVE"]_vars

(* Deleting a class queues every object that belonged to it (DB_스키마).    *)
DeletedClassQueued ==
    (session = "DELETED" \/ course = "deleted") /\ (\A r \in Request : request[r] = Idle)
        => DOMAIN store \subseteq DOMAIN ledger
=============================================================================
