------------------------- MODULE StoredFiles_proofs -------------------------
(***************************************************************************)
(* FilesInv is an inductive invariant of StoredFiles, for any number of    *)
(* handlers and deletion workers, any length of a recording and any kinds  *)
(* and number of faults: from it follow that what is served has its bytes, *)
(* that what is stored has an owner, that acknowledged bytes are kept, and *)
(* that one recording is transcribed once.                                 *)
(***************************************************************************)
EXTENDS StoredFiles, SequenceTheorems, FiniteSetTheorems, TLAPS

-----------------------------------------------------------------------------
(* TypeOK in the parts that an action can leave alone. *)
RowsTyped ==
    /\ session \in {"PROCESSING", "COMPLETED", "DELETED"} /\ course \in {"active", "deleted"}
    /\ recording \in Recording
    /\ uploads \in Seq(UploadRow) /\ Len(uploads) <= MaxUpload
    /\ transcripts \in Nat /\ material \in Material
    /\ replies \in [UploadId -> [created : 0 .. MaxUpload, completed : BOOLEAN]]

FilesTyped ==
    /\ DOMAIN store \subseteq Key /\ store \in [DOMAIN store -> Offset]
    /\ DOMAIN ledger \subseteq Key /\ ledger \in [DOMAIN ledger -> LedgerRow]

ActorsTyped ==
    request \in [Request -> Handler] /\ deleter \in [Deleter -> Worker] /\ browser \in Browser

HistoryTyped == orphans \subseteq Key /\ faults \in 0 .. MaxFault

(* One upload is ACTIVE at a time, and none once the recording is FAILED.   *)
(* A stale expiry may leave one ACTIVE whose recording is not UPLOADING.    *)
UploadsFit ==
    /\ \A u, v \in ActiveUploads : u = v
    /\ recording.status = "FAILED" => ActiveUploads = {}
    /\ \A u \in DOMAIN uploads : uploads[u].key = NoKey <=> session = "DELETED"
    /\ session = "DELETED" => \A u \in DOMAIN uploads : uploads[u].status = "GONE"

(* The recording has a key and one transcript exactly when it is UPLOADED,  *)
(* and at most one upload was completed.                                    *)
Completed == {u \in DOMAIN uploads : uploads[u].status = "COMPLETED"}

RecordingFits ==
    /\ session = "DELETED" <=> recording.status = "GONE"
    /\ recording.key # NoKey <=> recording.status = "UPLOADED"
    /\ recording.deleted => recording.status \in {"UPLOADED", "GONE"}
    /\ recording.status = "UPLOADED" => transcripts = 1
    /\ \A u, v \in Completed : u = v
    /\ recording.status \notin {"UPLOADED", "GONE"} => transcripts = 0 /\ Completed = {}

RepliesFit ==
    \A n \in UploadId :
        /\ replies[n].created <= Len(uploads)
        /\ replies[n].completed => recording.status \in {"UPLOADED", "GONE"}

MaterialFits == material.key # NoKey <=> material.status \in {"attached", "detached"}

(* No two rows name one object. *)
RowKeysApart ==
    /\ recording.key # NoKey => recording.key # material.key
    /\ \A u \in DOMAIN uploads :
          uploads[u].key # NoKey => uploads[u].key # recording.key /\ uploads[u].key # material.key
    /\ \A u, v \in DOMAIN uploads :
          uploads[u].key # NoKey /\ uploads[u].key = uploads[v].key => u = v

RowsInv ==
    RowsTyped /\ UploadsFit /\ RecordingFits /\ RepliesFit /\ MaterialFits /\ RowKeysApart

(* Where a handler is tells what it has and what it may still do. *)
PlaceFits(r) ==
    /\ request[r].upload <= Len(uploads)
    /\ request[r].op = "none" <=> request[r].at = "idle"
    /\ request[r].op = "append" => request[r].offset < Total
    /\ request[r].key # NoKey <=> request[r].at \in {"stored", "promoted", "discarding"}

(* A handler that holds an object no row has yet is alone with it. *)
Holding(r) == request[r].at \in {"stored", "promoted"}
HeldFits(r) ==
    Holding(r) =>
        /\ request[r].key \in DOMAIN store /\ request[r].key \notin DOMAIN ledger
        /\ request[r].key # recording.key /\ request[r].key # material.key
        /\ \A u \in DOMAIN uploads : request[r].key # uploads[u].key
        /\ request[r].at = "stored" => request[r].op \in {"create", "material"}
        /\ request[r].op # "create" => store[request[r].key] = Total

(* What a handler saw before it waited counts no more than the row does. *)
Reading(r) == request[r].at \in {"seen", "ready"}
SeenFits(r) ==
    Reading(r) /\ request[r].seen.active =>
        /\ request[r].upload \in DOMAIN uploads
        /\ request[r].seen.offset <= uploads[request[r].upload].offset

(* Between its write and its commit a handler finds the upload and its      *)
(* object as it left them, but for an object that is being discarded.       *)
AppendedFits(r) ==
    request[r].at = "appended" =>
        LET u == request[r].upload
        IN  /\ request[r].op = "append" /\ u \in DOMAIN uploads
            /\ uploads[u].offset <= request[r].offset
            /\ uploads[u].key \in DOMAIN store => store[uploads[u].key] = request[r].offset + 1
            /\ uploads[u].status = "ACTIVE" => uploads[u].key \in DOMAIN store
PromotedFits(r) ==
    request[r].at = "promoted" =>
        /\ request[r].op = "finish" /\ request[r].upload \in DOMAIN uploads
        /\ session # "DELETED"
        /\ uploads[request[r].upload].offset = Total
        /\ uploads[request[r].upload].key \notin DOMAIN store

(* What is being discarded is of no row that still serves it. *)
DiscardingFits(r) ==
    request[r].at = "discarding" =>
        /\ request[r].key # recording.key
        /\ request[r].key = material.key => material.status = "detached"
        /\ \A u \in ActiveUploads : request[r].key # uploads[u].key
        /\ request[r].reply.upload <= Len(uploads)
        /\ request[r].reply.code = "ok" => request[r].op \notin Completing /\ request[r].reply.offset = 0

HandFits(r) ==
    /\ PlaceFits(r) /\ HeldFits(r) /\ SeenFits(r)
    /\ AppendedFits(r) /\ PromotedFits(r) /\ DiscardingFits(r)

HandsApart(r, q) ==
    /\ request[r].at \in {"appended", "promoted"} /\ request[q].at \in {"appended", "promoted"} => r = q
    /\ Holding(r) /\ request[r].key = request[q].key => r = q

HandsInv == \A r \in Request : HandFits(r) /\ \A q \in Request : HandsApart(r, q)

(* The browser never counts more than the manifest, and knows of a          *)
(* recording only when there is one.                                        *)
BrowserFits ==
    /\ browser.at = "waiting" =>
          /\ browser.request \in Request
          /\ request[browser.request].op \in {"get", "create", "append", "complete", "finish"}
    /\ browser.upload <= Len(uploads)
    /\ \A u \in DOMAIN uploads : browser.upload = u => browser.offset <= uploads[u].offset
    /\ browser.at = "done" => recording.status \in {"UPLOADED", "GONE"}

(* What is in the ledger is hidden. *)
LedgerFits ==
    /\ recording.key \in DOMAIN ledger => recording.deleted
    /\ material.key \in DOMAIN ledger => material.status = "detached" \/ course = "deleted"
    /\ \A u \in DOMAIN uploads : uploads[u].key \notin DOMAIN ledger

DeletersFit ==
    \A d \in Deleter :
        /\ deleter[d].at # "idle" => deleter[d].key \in DOMAIN ledger
        /\ deleter[d].at = "deleted" => deleter[d].key \notin DOMAIN store

(* No manifest counts more bytes than its object has, and an ACTIVE upload  *)
(* has its object until its completion is tried.                            *)
BytesHeld ==
    \A u \in DOMAIN uploads :
        /\ uploads[u].key \in DOMAIN store => uploads[u].offset <= store[uploads[u].key]
        /\ uploads[u].status = "ACTIVE" /\ uploads[u].offset < Total
              => uploads[u].key \in DOMAIN store

(* What EveryObjectOwned says of one object. *)
Owned(k) ==
    \/ k \in {recording.key, material.key} \cup DOMAIN ledger \cup InHand \cup orphans
    \/ \E u \in DOMAIN uploads : uploads[u].key = k /\ uploads[u].status \in {"ACTIVE", "FAILED"}
ObjectsOwned == session # "DELETED" => \A k \in DOMAIN store : Owned(k)

ObjectsFit ==
    BytesHeld /\ ServedObjectsExist /\ HiddenObjectsQueued /\ LedgerFits /\ SucceededMeansGone

FilesInv ==
    /\ FilesTyped /\ ActorsTyped /\ HistoryTyped
    /\ RowsInv /\ HandsInv /\ BrowserFits /\ ObjectsFit /\ DeletersFit /\ ObjectsOwned

-----------------------------------------------------------------------------
(* Operators *)

LEMMA TypeParts == TypeOK <=> RowsTyped /\ FilesTyped /\ ActorsTyped /\ HistoryTyped
BY DEF TypeOK, RowsTyped, FilesTyped, ActorsTyped, HistoryTyped

LEMMA KeyFacts == NoKey \notin Key /\ Total \in Offset /\ 0 \in Offset /\ 1 \in UploadId /\ 0 < Total
BY BoundsArePositive DEF NoKey, Key, Offset, UploadId

LEMMA UnseenTyped == Unseen \in Seen
BY KeyFacts DEF Unseen, Seen

LEMMA IdleTyped ==
    /\ Idle \in Handler /\ Idle.op = "none" /\ Idle.at = "idle" /\ Idle.upload = 0
    /\ Idle.offset = 0 /\ Idle.key = NoKey
<1>1. Failed("error") \in Reply
  BY BoundsArePositive DEF Failed, Reply, Code, Offset
<1> HIDE DEF Failed, Reply
<1> QED
  BY <1>1, UnseenTyped, KeyFacts, BoundsArePositive DEF Idle, Handler, Operation, Place

LEMMA RestingTyped == Resting \in Worker /\ Resting.at = "idle"
BY DEF Resting, Worker

LEMMA FailedTyped ==
    ASSUME NEW code \in Code
    PROVE  Failed(code) \in Reply /\ Failed(code).code = code /\ Failed(code).upload = 0
BY BoundsArePositive DEF Failed, Reply, Offset

LEMMA OkTyped ==
    ASSUME NEW u \in 0 .. MaxUpload, NEW n \in Offset
    PROVE  /\ Ok(u, n) \in Reply
           /\ Ok(u, n).code = "ok" /\ Ok(u, n).upload = u /\ Ok(u, n).offset = n
BY DEF Ok, Reply, Code

(* A fresh key is nobody's. *)
LEMMA FreshIsNew ==
    ASSUME HasFresh
    PROVE  /\ Fresh \in Key /\ Fresh # NoKey
           /\ Fresh \notin DOMAIN store /\ Fresh \notin DOMAIN ledger
           /\ Fresh # recording.key /\ Fresh # material.key
           /\ \A u \in DOMAIN uploads : uploads[u].key # Fresh
           /\ \A r \in Request : request[r].key # Fresh
           /\ \A d \in Deleter : deleter[d].key # Fresh
<1>1. Fresh \in Key /\ Fresh \notin Named
  BY DEF HasFresh, Fresh
<1>2. Fresh # NoKey
  BY <1>1, KeyFacts
<1> QED
  BY <1>1, <1>2 DEF Named

LEMMA UploadFacts ==
    ASSUME RowsTyped
    PROVE  /\ Len(uploads) \in Nat /\ DOMAIN uploads = 1 .. Len(uploads)
           /\ \A u \in DOMAIN uploads : uploads[u] \in UploadRow
BY LenProperties, ElementOfSeq DEF RowsTyped

LEMMA UploadSequence ==
    ASSUME NEW s \in Seq(UploadRow)
    PROVE  /\ Len(s) \in Nat /\ DOMAIN s = 1 .. Len(s)
           /\ \A u \in DOMAIN s : s[u].offset \in Nat /\ s[u].offset <= Total
<1>1. Len(s) \in Nat /\ DOMAIN s = 1 .. Len(s) /\ \A u \in DOMAIN s : s[u] \in UploadRow
  BY LenProperties, ElementOfSeq
<1>2. \A row \in UploadRow : row.offset \in Nat /\ row.offset <= Total
  BY BoundsArePositive DEF UploadRow, Offset
<1> QED
  BY <1>1, <1>2

(* Rows that are rewritten in place are as many as before. *)
LEMMA UploadsRewritten ==
    ASSUME RowsTyped, uploads' = [u \in DOMAIN uploads |-> uploads'[u]],
           \A u \in DOMAIN uploads : uploads'[u] \in UploadRow
    PROVE  /\ uploads' \in Seq(UploadRow) /\ Len(uploads') = Len(uploads)
           /\ DOMAIN uploads' = DOMAIN uploads
<1>1. Len(uploads) \in Nat /\ DOMAIN uploads = 1 .. Len(uploads)
  BY UploadFacts
<1>2. uploads' \in [1 .. Len(uploads) -> UploadRow]
  BY <1>1
<1>3. uploads' \in Seq(UploadRow)
  BY <1>1, <1>2, SeqDef
<1>4. DOMAIN uploads' = 1 .. Len(uploads) /\ DOMAIN uploads' = 1 .. Len(uploads')
  BY <1>2, <1>3, LenProperties
<1>5. Len(uploads') \in Nat
  BY <1>3, LenProperties
<1> QED
  BY <1>1, <1>3, <1>4, <1>5

LEMMA UploadReplaced ==
    ASSUME RowsTyped, NEW u \in DOMAIN uploads, NEW row \in UploadRow,
           uploads' = [uploads EXCEPT ![u] = row]
    PROVE  /\ uploads' \in Seq(UploadRow) /\ Len(uploads') = Len(uploads)
           /\ DOMAIN uploads' = DOMAIN uploads
           /\ uploads'[u] = row /\ \A v \in DOMAIN uploads \ {u} : uploads'[v] = uploads[v]
<1>1. /\ uploads'[u] = row /\ \A v \in DOMAIN uploads \ {u} : uploads'[v] = uploads[v]
      /\ uploads' = [v \in DOMAIN uploads |-> uploads'[v]]
  OBVIOUS
<1>2. \A v \in DOMAIN uploads : uploads'[v] \in UploadRow
  BY <1>1, UploadFacts
<1> QED
  BY <1>1, <1>2, UploadsRewritten

(* An object that is written, one that is removed, rows that are queued. *)
LEMMA WithTyped ==
    ASSUME FilesTyped, NEW k \in Key, NEW n \in Offset, store' = With(k, n)
    PROVE  /\ DOMAIN store' = DOMAIN store \cup {k} /\ store'[k] = n
           /\ \A x \in DOMAIN store \ {k} : store'[x] = store[x]
           /\ DOMAIN store' \subseteq Key /\ store' \in [DOMAIN store' -> Offset]
BY DEF FilesTyped, With

LEMMA WithoutTyped ==
    ASSUME FilesTyped, NEW K, store' = Without(K)
    PROVE  /\ DOMAIN store' = DOMAIN store \ K
           /\ \A x \in DOMAIN store \ K : store'[x] = store[x]
           /\ DOMAIN store' \subseteq Key /\ store' \in [DOMAIN store' -> Offset]
BY DEF FilesTyped, Without

LEMMA QueuedTyped ==
    ASSUME FilesTyped, NEW K \in SUBSET Key
    PROVE  /\ DOMAIN Queued(K) = DOMAIN ledger \cup K
           /\ \A k \in DOMAIN ledger : Queued(K)[k] = ledger[k]
           /\ \A k \in K \ DOMAIN ledger : Queued(K)[k].state = "PENDING"
           /\ DOMAIN Queued(K) \subseteq Key /\ Queued(K) \in [DOMAIN Queued(K) -> LedgerRow]
BY DEF FilesTyped, Queued, LedgerRow

LEMMA EveryObjectOwnedParts == EveryObjectOwned <=> ObjectsOwned
BY DEF EveryObjectOwned, ObjectsOwned, Owned

-----------------------------------------------------------------------------
(* What an action that concerns one handler leaves to the others. *)

RowsSpare(q) ==
    /\ Len(uploads) <= Len(uploads')
    /\ request[q].key # NoKey =>
          /\ recording'.key = request[q].key => recording.key = request[q].key
          /\ material'.key = request[q].key =>
                material.key = request[q].key
                    /\ (material.status = "detached" => material'.status = "detached")
          /\ \A u \in DOMAIN uploads' : uploads'[u].key = request[q].key =>
                /\ u \in DOMAIN uploads /\ uploads[u].key = request[q].key
                /\ uploads'[u].status = "ACTIVE" => uploads[u].status = "ACTIVE"
    /\ Reading(q) /\ request[q].seen.active =>
          /\ request[q].upload \in DOMAIN uploads'
          /\ uploads[request[q].upload].offset <= uploads'[request[q].upload].offset
    /\ request[q].at \in {"appended", "promoted"} =>
          /\ request[q].upload \in DOMAIN uploads'
          /\ uploads'[request[q].upload].status = uploads[request[q].upload].status
          /\ uploads'[request[q].upload].offset = uploads[request[q].upload].offset
          /\ uploads'[request[q].upload].key = uploads[request[q].upload].key
    /\ request[q].at = "promoted" => UNCHANGED session

StoreSpares(q) ==
    /\ Holding(q) => /\ request[q].key \in DOMAIN store'
                     /\ store'[request[q].key] = store[request[q].key]
    /\ request[q].at = "appended" =>
          LET u == request[q].upload
              k == uploads[u].key
          IN  /\ k \in DOMAIN store' => k \in DOMAIN store /\ store'[k] = store[k]
              /\ uploads[u].status = "ACTIVE" => k \in DOMAIN store'
    /\ request[q].at = "promoted" => uploads[request[q].upload].key \notin DOMAIN store'

LedgerSpares(q) == Holding(q) => request[q].key \notin DOMAIN ledger'

Spared(q) == RowsSpare(q) /\ StoreSpares(q) /\ LedgerSpares(q)

LEMMA RowsUnchangedSpare ==
    ASSUME NEW q \in Request, RowsTyped, HandFits(q), UNCHANGED uploads, UNCHANGED recording,
           UNCHANGED material, request[q].at = "promoted" => UNCHANGED session
    PROVE  RowsSpare(q)
<1>1. ASSUME NEW u \in DOMAIN uploads PROVE uploads[u].offset \in Nat
  BY UploadSequence DEF RowsTyped
<1>2. Len(uploads) \in Nat
  BY UploadFacts
<1> QED
  BY <1>1, <1>2 DEF RowsSpare, HandFits, SeenFits, AppendedFits, PromotedFits

LEMMA StoreUnchangedSpares ==
    ASSUME NEW q \in Request, HandFits(q), UNCHANGED store
    PROVE  StoreSpares(q)
BY DEF StoreSpares, HandFits, HeldFits, AppendedFits, PromotedFits, Holds

LEMMA LedgerUnchangedSpares ==
    ASSUME NEW q \in Request, HandFits(q), UNCHANGED ledger
    PROVE  LedgerSpares(q)
BY DEF LedgerSpares, HandFits, HeldFits

LEMMA NothingChangedSpares ==
    ASSUME NEW q \in Request, RowsTyped, HandFits(q), UNCHANGED <<rows, files>>
    PROVE  Spared(q)
BY RowsUnchangedSpare, StoreUnchangedSpares, LedgerUnchangedSpares DEF Spared, rows, files

LEMMA HandKept ==
    ASSUME NEW q \in Request, RowsTyped, RowsTyped', ActorsTyped, HandFits(q), Spared(q),
           request'[q] = request[q]
    PROVE  HandFits(q)'
<1> USE DEF Spared, HandFits
<1>1. PlaceFits(q)'
  <2>1. request[q].upload \in Nat /\ Len(uploads) \in Nat /\ Len(uploads') \in Nat
    BY UploadFacts, LenProperties DEF ActorsTyped, Handler, RowsTyped
  <2> QED
    BY <2>1 DEF PlaceFits, RowsSpare
<1>2. HeldFits(q)'
  BY DEF HeldFits, Holding, PlaceFits, RowsSpare, StoreSpares, LedgerSpares
<1>3. AppendedFits(q)'
  BY DEF AppendedFits, RowsSpare, StoreSpares
<1>4. PromotedFits(q)'
  BY DEF PromotedFits, RowsSpare, StoreSpares
<1>6. SeenFits(q)'
  <2> SUFFICES ASSUME Reading(q), request[q].seen.active
               PROVE  /\ request[q].upload \in DOMAIN uploads'
                      /\ request[q].seen.offset <= uploads'[request[q].upload].offset
    BY DEF SeenFits, Reading
  <2>1. /\ request[q].upload \in DOMAIN uploads /\ request[q].upload \in DOMAIN uploads'
        /\ request[q].seen.offset <= uploads[request[q].upload].offset
        /\ uploads[request[q].upload].offset <= uploads'[request[q].upload].offset
    BY DEF SeenFits, RowsSpare
  <2>2. request[q].seen.offset \in Nat
    BY BoundsArePositive DEF ActorsTyped, Handler, Seen, Offset
  <2>3. uploads[request[q].upload].offset \in Nat /\ uploads'[request[q].upload].offset \in Nat
    BY <2>1, UploadSequence DEF RowsTyped
  <2> QED
    BY <2>1, <2>2, <2>3
<1>5. DiscardingFits(q)'
  <2>1. request[q].reply.upload \in Nat /\ Len(uploads) \in Nat /\ Len(uploads') \in Nat
    BY UploadFacts, LenProperties DEF ActorsTyped, Handler, Reply, RowsTyped
  <2> QED
    BY <2>1 DEF DiscardingFits, PlaceFits, ActiveUploads, RowsSpare
<1> QED
  BY <1>1, <1>2, <1>3, <1>4, <1>5, <1>6

LEMMA HandsKept ==
    ASSUME RowsTyped, RowsTyped', ActorsTyped, HandsInv, UNCHANGED request,
           \A q \in Request : Spared(q)
    PROVE  HandsInv'
<1>1. \A q \in Request : HandFits(q)'
  BY HandKept DEF HandsInv
<1>2. \A q, r \in Request : HandsApart(r, q)'
  BY DEF HandsInv, HandsApart, Holding
<1> QED
  BY <1>1, <1>2 DEF HandsInv

(* One handler moves; the others are spared. *)
LEMMA HandsMoved ==
    ASSUME RowsTyped, RowsTyped', ActorsTyped, HandsInv, NEW r \in Request,
           \A q \in Request \ {r} : request'[q] = request[q] /\ Spared(q),
           HandFits(r)', \A q \in Request \ {r} : HandsApart(r, q)' /\ HandsApart(q, r)'
    PROVE  HandsInv'
<1>1. \A q \in Request : HandFits(q)'
  BY HandKept DEF HandsInv
<1>2. ASSUME NEW p \in Request, NEW q \in Request PROVE HandsApart(p, q)'
  <2>1. CASE p = r /\ q = r
    BY <2>1 DEF HandsApart
  <2>2. CASE p = r /\ q # r
    BY <2>2
  <2>3. CASE p # r /\ q = r
    BY <2>3
  <2>4. CASE p # r /\ q # r
    BY <2>4 DEF HandsInv, HandsApart, Holding
  <2> QED
    BY <2>1, <2>2, <2>3, <2>4
<1> QED
  BY <1>1, <1>2 DEF HandsInv

LEMMA HandsAnswered ==
    ASSUME RowsTyped, RowsTyped', ActorsTyped, HandsInv, NEW r \in Request, request'[r] = Idle,
           \A q \in Request \ {r} : request'[q] = request[q] /\ Spared(q)
    PROVE  HandsInv'
<1>1. HandFits(r)'
  <2>1. 0 <= Len(uploads')
    BY LenProperties DEF RowsTyped
  <2> QED
    BY <2>1, IdleTyped
    DEF HandFits, PlaceFits, HeldFits, Holding, SeenFits, Reading, AppendedFits, PromotedFits,
        DiscardingFits
<1>2. ASSUME NEW q \in Request \ {r} PROVE HandsApart(r, q)' /\ HandsApart(q, r)'
  BY IdleTyped DEF HandsApart, Holding, HandsInv, HandFits, PlaceFits
<1> QED
  BY <1>1, <1>2, HandsMoved

LEMMA HandsDiscarding ==
    ASSUME RowsTyped, RowsTyped', ActorsTyped, HandsInv, NEW r \in Request,
           NEW k \in Key, NEW reply \in Reply, DiscardThen(r, k, reply),
           request[r].op # "none", request[r].op = "append" => request[r].offset < Total,
           request[r].upload <= Len(uploads'), reply.upload <= Len(uploads'),
           reply.code = "ok" => request[r].op \notin Completing /\ reply.offset = 0,
           k # recording'.key, k = material'.key => material'.status = "detached",
           \A u \in ActiveUploads' : k # uploads'[u].key,
           \A q \in Request \ {r} : (Holding(q) => request[q].key # k) /\ Spared(q)
    PROVE  HandsInv'
<1>1. /\ request'[r].at = "discarding" /\ request'[r].key = k /\ request'[r].reply = reply
      /\ request'[r].op = request[r].op /\ request'[r].offset = request[r].offset
      /\ request'[r].upload = request[r].upload
      /\ \A q \in Request \ {r} : request'[q] = request[q]
  BY DEF DiscardThen, ActorsTyped, Handler
<1>2. k # NoKey
  BY KeyFacts
<1>3. HandFits(r)'
  BY <1>1, <1>2
  DEF HandFits, PlaceFits, HeldFits, Holding, SeenFits, Reading, AppendedFits, PromotedFits,
      DiscardingFits
<1>4. ASSUME NEW q \in Request \ {r} PROVE HandsApart(r, q)' /\ HandsApart(q, r)'
  BY <1>1 DEF HandsApart, Holding
<1> QED
  BY <1>1, <1>3, <1>4, HandsMoved

LEMMA DiscardTyped ==
    ASSUME ActorsTyped, NEW r \in Request, NEW k \in Key, NEW reply \in Reply,
           DiscardThen(r, k, reply), UNCHANGED deleter
    PROVE  /\ ActorsTyped' /\ UNCHANGED browser
           /\ \A q \in Request : request'[q].op = request[q].op
           /\ request'[r].at = "discarding" /\ request'[r].key = k
           /\ \A q \in Request \ {r} : request'[q] = request[q]
<1> DEFINE hand == [request[r] EXCEPT !.at = "discarding", !.key = k, !.reply = reply,
                                     !.due = {}, !.seen = Unseen]
<1>1. request[r] \in Handler
  BY DEF ActorsTyped
<1>2. hand \in Handler /\ hand.op = request[r].op /\ hand.at = "discarding" /\ hand.key = k
  <2> HIDE DEF Key, Reply
  <2> QED BY <1>1, UnseenTyped DEF Handler, Place
<1>3. request' = [request EXCEPT ![r] = hand] /\ UNCHANGED browser
  BY DEF DiscardThen
<1> HIDE DEF hand
<1> QED
  BY <1>2, <1>3 DEF ActorsTyped

LEMMA GoesTyped ==
    ASSUME ActorsTyped, NEW r \in Request, NEW place \in Place, NEW k \in Key \cup {NoKey},
           Goes(r, place, k)
    PROVE  /\ request' \in [Request -> Handler]
           /\ request'[r].at = place /\ request'[r].key = k
           /\ request'[r].op = request[r].op /\ request'[r].upload = request[r].upload
           /\ request'[r].offset = request[r].offset
           /\ \A q \in Request \ {r} : request'[q] = request[q]
<1>1. request[r] \in Handler
  BY DEF ActorsTyped
<1> DEFINE hand == [request[r] EXCEPT !.at = place, !.key = k, !.due = {}, !.seen = Unseen]
<1>2. /\ hand \in Handler /\ hand.at = place /\ hand.key = k /\ hand.op = request[r].op
      /\ hand.upload = request[r].upload /\ hand.offset = request[r].offset
  <2> HIDE DEF Key, Place
  <2> QED BY <1>1, UnseenTyped DEF Handler
<1>3. request' = [request EXCEPT ![r] = hand]
  BY DEF Goes
<1> HIDE DEF hand
<1> QED
  BY <1>1, <1>2, <1>3 DEF ActorsTyped

-----------------------------------------------------------------------------
(* What the browser makes of an answer. *)

BrowserSpared ==
    /\ Len(uploads) <= Len(uploads')
    /\ \A u \in DOMAIN uploads : uploads[u].offset <= uploads'[u].offset
    /\ recording.status \in {"UPLOADED", "GONE"} => recording'.status \in {"UPLOADED", "GONE"}

LEMMA ReactionTyped ==
    ASSUME browser \in Browser, NEW op, NEW reply \in Reply
    PROVE  /\ Reaction(op, reply) \in Browser /\ Reaction(op, reply).at # "waiting"
           /\ Reaction(op, reply).at = "done" => op \in Completing /\ reply.code = "ok"
           /\ \/ /\ Reaction(op, reply).upload = browser.upload
                 /\ Reaction(op, reply).offset = browser.offset
              \/ /\ reply.code = "ok" /\ op \notin Completing
                 /\ Reaction(op, reply).upload = reply.upload
                 /\ Reaction(op, reply).offset = reply.offset
<1> DEFINE b == [browser EXCEPT !.request = "none"]
           done == [b EXCEPT !.at = "done"]
           next == [b EXCEPT !.at = "next", !.known = TRUE, !.upload = reply.upload,
                             !.offset = reply.offset]
           asking == [b EXCEPT !.at = "asking", !.cause = reply.code]
<1>1. /\ b \in Browser /\ b.upload = browser.upload /\ b.offset = browser.offset
  BY DEF Browser
<1>2. /\ done \in Browser /\ done.at = "done"
      /\ done.upload = browser.upload /\ done.offset = browser.offset
  <2> HIDE DEF b
  <2> QED BY <1>1 DEF Browser
<1>3. /\ next \in Browser /\ next.at = "next"
      /\ next.upload = reply.upload /\ next.offset = reply.offset
  <2>1. reply.upload \in 0 .. MaxUpload /\ reply.offset \in Offset
    BY DEF Reply
  <2> HIDE DEF b, Offset
  <2> QED BY <1>1, <2>1 DEF Browser
<1>4. /\ asking \in Browser /\ asking.at = "asking"
      /\ asking.upload = browser.upload /\ asking.offset = browser.offset
  <2>1. reply.code \in Code
    BY DEF Reply
  <2> HIDE DEF b, Code
  <2> QED BY <1>1, <2>1 DEF Browser
<1>5. /\ Stopped \in Browser /\ Stopped.at = "off"
      /\ Stopped.upload = browser.upload /\ Stopped.offset = browser.offset
  BY DEF Stopped, Browser
<1> HIDE DEF done, next, asking, b
<1>6. Reaction(op, reply) =
        CASE reply.code = "ok" /\ op \in Completing -> done
          [] reply.code = "ok" /\ op \notin Completing -> next
          [] reply.code # "ok" /\ (op \in Completing \/ reply.code \in {"404", "410"}) -> asking
          [] OTHER -> Stopped
  BY DEF Reaction, done, next, asking, b
<1> QED
  BY <1>2, <1>3, <1>4, <1>5, <1>6

LEMMA AnswerTyped ==
    ASSUME ActorsTyped, NEW r \in Request, NEW reply \in Reply, Answer(r, reply),
           UNCHANGED deleter
    PROVE  /\ ActorsTyped'
           /\ request'[r] = Idle /\ \A q \in Request \ {r} : request'[q] = request[q]
<1>1. browser' \in Browser
  BY ReactionTyped DEF ActorsTyped, Answer
<1> QED
  BY <1>1, IdleTyped DEF ActorsTyped, Answer

LEMMA BrowserUnmoved ==
    ASSUME RowsTyped, RowsTyped', ActorsTyped, BrowserFits, BrowserSpared, UNCHANGED browser,
           browser.at = "waiting" => request'[browser.request].op = request[browser.request].op
    PROVE  BrowserFits'
<1>1. /\ browser.upload \in Nat /\ Len(uploads) \in Nat /\ Len(uploads') \in Nat
      /\ DOMAIN uploads = 1 .. Len(uploads) /\ DOMAIN uploads' = 1 .. Len(uploads')
  BY LenProperties DEF RowsTyped, ActorsTyped, Browser
<1>2. ASSUME NEW u \in DOMAIN uploads', browser.upload = u
      PROVE  browser.offset <= uploads'[u].offset
  <2>1. u \in DOMAIN uploads
    BY <1>1, <1>2 DEF BrowserFits
  <2>2. /\ browser.offset <= uploads[u].offset /\ uploads[u].offset <= uploads'[u].offset
        /\ browser.offset \in Nat /\ uploads[u].offset \in Nat /\ uploads'[u].offset \in Nat
    BY <1>1, <1>2, <2>1, UploadSequence, BoundsArePositive
    DEF BrowserFits, BrowserSpared, RowsTyped, ActorsTyped, Browser, Offset
  <2> QED BY <2>2
<1> QED
  BY <1>1, <1>2 DEF BrowserFits, BrowserSpared

(* An answer tells the browser of an upload no more than its row says. *)
LEMMA BrowserAnswered ==
    ASSUME RowsTyped, RowsTyped', ActorsTyped, BrowserFits, BrowserSpared,
           NEW r \in Request, NEW reply \in Reply, Answer(r, reply),
           reply.code = "ok" /\ request[r].op \notin Completing =>
              /\ reply.upload <= Len(uploads')
              /\ reply.upload \in DOMAIN uploads' =>
                    reply.offset <= uploads'[reply.upload].offset,
           reply.code = "ok" /\ request[r].op \in Completing =>
              recording'.status \in {"UPLOADED", "GONE"}
    PROVE  BrowserFits'
<1>1. CASE ~ Waits(r)
  <2>1. browser.at = "waiting" => request'[browser.request] = request[browser.request]
    BY <1>1 DEF Answer, Waits, ActorsTyped, BrowserFits
  <2> QED
    BY <1>1, <2>1, BrowserUnmoved DEF Answer
<1>2. CASE Waits(r)
  <2>1. browser' = Reaction(request[r].op, reply)
    BY <1>2 DEF Answer
  <2>2. /\ browser'.at # "waiting"
        /\ browser'.at = "done" => request[r].op \in Completing /\ reply.code = "ok"
        /\ \/ browser'.upload = browser.upload /\ browser'.offset = browser.offset
           \/ /\ reply.code = "ok" /\ request[r].op \notin Completing
              /\ browser'.upload = reply.upload /\ browser'.offset = reply.offset
    BY <2>1, ReactionTyped DEF ActorsTyped
  <2>3. /\ browser.upload \in Nat /\ Len(uploads) \in Nat /\ Len(uploads') \in Nat
        /\ DOMAIN uploads = 1 .. Len(uploads) /\ DOMAIN uploads' = 1 .. Len(uploads')
    BY LenProperties DEF RowsTyped, ActorsTyped, Browser
  <2>4. browser.upload <= Len(uploads')
    BY <2>3 DEF BrowserFits, BrowserSpared
  <2>5. ASSUME NEW u \in DOMAIN uploads', browser.upload = u
        PROVE  browser.offset <= uploads'[u].offset
    <3>1. u \in DOMAIN uploads
      BY <2>3, <2>5 DEF BrowserFits
    <3>2. /\ browser.offset <= uploads[u].offset /\ uploads[u].offset <= uploads'[u].offset
          /\ browser.offset \in Nat /\ uploads[u].offset \in Nat /\ uploads'[u].offset \in Nat
      BY <2>3, <2>5, <3>1, UploadSequence, BoundsArePositive
      DEF BrowserFits, BrowserSpared, RowsTyped, ActorsTyped, Browser, Offset
    <3> QED BY <3>2
  <2> QED
    BY <2>2, <2>3, <2>4, <2>5 DEF BrowserFits
<1> QED
  BY <1>1, <1>2

-----------------------------------------------------------------------------
(* Actions that leave the rows, or the objects, alone. *)

LEMMA RowsFrame ==
    ASSUME RowsInv, UNCHANGED rows
    PROVE  RowsInv' /\ BrowserSpared
<1>1. RowsInv'
  BY DEF rows, RowsInv, RowsTyped, UploadsFit, RecordingFits, RepliesFit, MaterialFits, RowKeysApart,
         Completed, ActiveUploads
<1>2. BrowserSpared
  <2>1. Len(uploads) \in Nat /\ \A u \in DOMAIN uploads : uploads[u].offset \in Nat
    BY UploadFacts, BoundsArePositive DEF RowsInv, UploadRow, Offset
  <2> QED
    BY <2>1 DEF rows, BrowserSpared
<1> QED
  BY <1>1, <1>2

LEMMA KeysStayApart ==
    ASSUME RowKeysApart, recording'.key = recording.key, material'.key = material.key,
           DOMAIN uploads' = DOMAIN uploads, \A u \in DOMAIN uploads : uploads'[u].key = uploads[u].key
    PROVE  RowKeysApart'
BY DEF RowKeysApart

LEMMA ObjectsFrame ==
    ASSUME FilesTyped, ObjectsFit, UNCHANGED <<rows, files>>
    PROVE  FilesTyped' /\ ObjectsFit'
BY DEF rows, files, FilesTyped, ObjectsFit, BytesHeld, ActiveUploads, ServedObjectsExist,
       HiddenObjectsQueued, LedgerFits, SucceededMeansGone, Holds

LEMMA DeletersFrame ==
    ASSUME DeletersFit, UNCHANGED <<files, deleter>>
    PROVE  DeletersFit'
BY DEF files, DeletersFit

(* An object stays owned while rows, ledger and orphans stay and the        *)
(* handlers keep what they have in hand.                                    *)
LEMMA OwnersFrame ==
    ASSUME ObjectsOwned, UNCHANGED rows, UNCHANGED ledger, orphans \subseteq orphans',
           \A k \in DOMAIN store' :
              /\ k \in DOMAIN store \cup InHand' \cup orphans'
              /\ k \in InHand => k \in InHand' \cup orphans'
    PROVE  ObjectsOwned'
BY DEF rows, ObjectsOwned, Owned

LEMMA FaultTyped ==
    ASSUME faults \in 0 .. MaxFault, NoFault \/ \E kind : Fault(kind)
    PROVE  faults' \in 0 .. MaxFault
BY BoundsArePositive DEF NoFault, Fault

LEMMA InStatusFacts ==
    ASSUME RowsTyped, NEW u \in DOMAIN uploads,
           NEW status \in {"ACTIVE", "COMPLETED", "EXPIRED", "FAILED", "GONE"},
           uploads' = InStatus(u, status)
    PROVE  /\ uploads' \in Seq(UploadRow) /\ Len(uploads') = Len(uploads)
           /\ DOMAIN uploads' = DOMAIN uploads
           /\ uploads'[u].status = status /\ uploads'[u].key = uploads[u].key
           /\ uploads'[u].offset = uploads[u].offset
           /\ \A v \in DOMAIN uploads \ {u} : uploads'[v] = uploads[v]
<1> DEFINE row == [uploads[u] EXCEPT !.status = status]
<1>1. uploads[u] \in UploadRow
  BY UploadFacts
<1>2. row \in UploadRow /\ row.status = status /\ row.key = uploads[u].key /\ row.offset = uploads[u].offset
  <2> HIDE DEF Key, Offset
  <2> QED BY <1>1 DEF UploadRow
<1>3. uploads' = [uploads EXCEPT ![u] = row]
  BY DEF InStatus
<1> HIDE DEF row
<1> QED
  BY <1>2, <1>3, UploadReplaced

(* The reply goes out and nothing else happens; the handler held nothing. *)
LEMMA Replied ==
    ASSUME FilesInv, NEW r \in Request, NEW reply \in Reply, Answer(r, reply),
           request[r].key = NoKey,
           reply.code = "ok" /\ request[r].op \notin Completing =>
              /\ reply.upload <= Len(uploads)
              /\ reply.upload \in DOMAIN uploads => reply.offset <= uploads[reply.upload].offset,
           reply.code = "ok" /\ request[r].op \in Completing =>
              recording.status \in {"UPLOADED", "GONE"},
           UNCHANGED <<rows, files, deleter, orphans>>, faults' \in 0 .. MaxFault
    PROVE  FilesInv'
<1> USE DEF FilesInv
<1>1. FilesTyped' /\ ObjectsFit' /\ HistoryTyped'
  BY ObjectsFrame DEF HistoryTyped
<1>2. /\ ActorsTyped'
      /\ request'[r] = Idle /\ \A q \in Request \ {r} : request'[q] = request[q]
  BY AnswerTyped
<1>3. RowsInv' /\ BrowserSpared
  BY RowsFrame
<1>4. HandsInv'
  BY <1>2, <1>3, NothingChangedSpares, HandsAnswered DEF HandsInv, RowsInv
<1>5. BrowserFits'
  BY <1>3, BrowserAnswered DEF RowsInv, rows
<1>6. DeletersFit'
  BY DeletersFrame
<1>7. ObjectsOwned'
  <2>1. \A q \in Request : request[q].at \in {"stored", "promoted", "discarding"} => q # r
    BY DEF HandsInv, HandFits, PlaceFits
  <2>2. InHand \subseteq InHand'
    BY <1>2, <2>1 DEF InHand
  <2> QED
    BY <2>2, OwnersFrame DEF files
<1> QED
  BY <1>1, <1>2, <1>3, <1>4, <1>5, <1>6, <1>7

LEMMA Refused ==
    ASSUME FilesInv, NEW r \in Request, NEW code \in Code \ {"ok"}, Refuse(r, code),
           request[r].key = NoKey, UNCHANGED <<deleter, orphans>>, faults' \in 0 .. MaxFault
    PROVE  FilesInv'
BY FailedTyped, Replied DEF Refuse

(* A handler turns to discarding the object that it held. *)
LEMMA DiscardsHeld ==
    ASSUME FilesInv, NEW r \in Request, NEW reply \in Reply, Holding(r),
           DiscardThen(r, request[r].key, reply), reply.upload <= Len(uploads),
           reply.code = "ok" => request[r].op \notin Completing /\ reply.offset = 0,
           UNCHANGED <<rows, files, deleter, orphans>>, faults' \in 0 .. MaxFault
    PROVE  FilesInv'
<1> USE DEF FilesInv
<1>1. FilesTyped' /\ ObjectsFit' /\ HistoryTyped'
  BY ObjectsFrame DEF HistoryTyped
<1>2. HandFits(r) /\ request[r] \in Handler
  BY DEF HandsInv, ActorsTyped
<1>3. request[r].key \in Key /\ request[r].op # "none"
  BY <1>2 DEF HandFits, PlaceFits, Holding, Handler
<1>4. /\ ActorsTyped' /\ UNCHANGED browser
      /\ \A q \in Request : request'[q].op = request[q].op
      /\ request'[r].at = "discarding" /\ request'[r].key = request[r].key
      /\ \A q \in Request \ {r} : request'[q] = request[q]
  BY <1>3, DiscardTyped
<1>5. RowsInv' /\ BrowserSpared
  BY RowsFrame
<1>6. HandsInv'
  <2>1. \A q \in Request \ {r} : (Holding(q) => request[q].key # request[r].key) /\ Spared(q)
    BY NothingChangedSpares DEF HandsInv, HandsApart, RowsInv
  <2>2. /\ request[r].op = "append" => request[r].offset < Total
        /\ request[r].upload <= Len(uploads)
        /\ request[r].key # recording.key /\ request[r].key # material.key
        /\ \A u \in DOMAIN uploads : request[r].key # uploads[u].key
    BY <1>2 DEF HandFits, PlaceFits, HeldFits
  <2> HIDE DEF FilesInv
  <2>3. RowsTyped /\ RowsTyped' /\ ActorsTyped /\ HandsInv
    BY <1>5 DEF FilesInv, RowsInv
  <2>4. \A u \in ActiveUploads' : request[r].key # uploads'[u].key
    BY <2>2 DEF ActiveUploads, rows
  <2>5. /\ UNCHANGED uploads /\ UNCHANGED recording /\ UNCHANGED material
    BY DEF rows
  <2> QED
    BY <1>3, <2>1, <2>2, <2>3, <2>4, <2>5, HandsDiscarding
<1>7. BrowserFits'
  BY <1>4, <1>5, BrowserUnmoved DEF RowsInv, BrowserFits
<1>8. DeletersFit'
  BY DeletersFrame
<1>9. ObjectsOwned'
  <2>1. InHand \subseteq InHand'
    BY <1>4 DEF InHand
  <2> QED
    BY <2>1, OwnersFrame DEF files
<1> QED
  BY <1>1, <1>4, <1>5, <1>6, <1>7, <1>8, <1>9

-----------------------------------------------------------------------------
(* recording_uploads *)

LEMMA EmptyHanded ==
    ASSUME FilesInv, NEW r \in Request,
           request[r].at \in {"idle", "received", "seen", "ready", "appended"}
    PROVE  request[r].key = NoKey
BY DEF FilesInv, HandsInv, HandFits, PlaceFits

(* What a handler that saw an ACTIVE upload knows of it: that it exists. *)
LEMMA UsableFacts ==
    ASSUME FilesInv, NEW r \in Request, Usable(r), request[r].at = "ready"
    PROVE  LET u == request[r].upload
           IN  /\ u \in DOMAIN uploads /\ u \in 1 .. Len(uploads) /\ u \in 0 .. MaxUpload
               /\ uploads[u] \in UploadRow /\ uploads[u].key \in Key /\ uploads[u].key # NoKey
               /\ uploads[u].offset \in Offset /\ uploads[u].offset \in Nat
               /\ request[r].seen.offset \in Offset /\ request[r].seen.offset \in Nat
               /\ request[r].seen.offset <= uploads[u].offset
               /\ session # "DELETED" /\ recording.status # "GONE"
<1> DEFINE u == request[r].upload
<1>1. u \in DOMAIN uploads /\ session # "DELETED" /\ request[r].seen.offset <= uploads[u].offset
  BY DEF Usable, Member, FilesInv, HandsInv, HandFits, SeenFits, Reading
<1>2. uploads[u] \in UploadRow /\ DOMAIN uploads = 1 .. Len(uploads) /\ Len(uploads) \in Nat
  BY <1>1, UploadFacts DEF FilesInv, RowsInv
<1>3. Len(uploads) <= MaxUpload
  BY DEF FilesInv, RowsInv, RowsTyped
<1>4. uploads[u].key # NoKey /\ recording.status # "GONE"
  BY <1>1 DEF FilesInv, RowsInv, UploadsFit, RecordingFits
<1>5. u \in 1 .. Len(uploads) /\ u \in 0 .. MaxUpload
  BY <1>1, <1>2, <1>3, BoundsArePositive
<1>6. uploads[u].offset \in Offset /\ uploads[u].key \in Key \cup {NoKey}
  BY <1>2 DEF UploadRow
<1>7. request[r].seen.offset \in Offset
  BY DEF FilesInv, ActorsTyped, Handler, Seen
<1>8. \A n \in Offset : n \in Nat
  BY BoundsArePositive DEF Offset
<1> QED
  BY <1>1, <1>2, <1>4, <1>5, <1>6, <1>7, <1>8

(* The rows of an upload that expires, and its object in a handler's hands. *)
LEMMA ExpiryCommits ==
    ASSUME FilesInv, NEW r \in Request, Usable(r), ~Locked, request[r].at = "ready",
           request[r].op # "none",
           request[r].seen.uploading => MayBecomePending,
           uploads' = InStatus(request[r].upload, "EXPIRED"),
           recording' = IF request[r].seen.uploading
                        THEN [recording EXCEPT !.status = "UPLOAD_PENDING"] ELSE recording,
           DiscardThen(r, uploads[request[r].upload].key, Failed("410")),
           UNCHANGED <<session, course, transcripts, material, replies, files>>,
           UNCHANGED <<deleter, orphans>>, faults' \in 0 .. MaxFault
    PROVE  FilesInv'
<1> USE DEF FilesInv
<1> DEFINE u == request[r].upload
<1>1. /\ u \in DOMAIN uploads /\ uploads[u].key \in Key /\ uploads[u].key # NoKey
      /\ session # "DELETED" /\ recording.status # "GONE"
  BY UsableFacts
<1>2. /\ uploads' \in Seq(UploadRow) /\ Len(uploads') = Len(uploads)
      /\ DOMAIN uploads' = DOMAIN uploads
      /\ uploads'[u].status = "EXPIRED" /\ uploads'[u].key = uploads[u].key
      /\ uploads'[u].offset = uploads[u].offset
      /\ \A v \in DOMAIN uploads \ {u} : uploads'[v] = uploads[v]
  <2> HIDE DEF u
  <2> QED BY <1>1, InStatusFacts DEF RowsInv, u
<1>3. /\ recording' \in Recording
      /\ recording'.key = recording.key /\ recording'.deleted = recording.deleted
      /\ \/ recording'.status = recording.status
         \/ recording.status \notin {"UPLOADED", "FAILED"} /\ recording'.status = "UPLOAD_PENDING"
  <2>1. recording \in Recording
    BY DEF RowsInv, RowsTyped
  <2>2. CASE request[r].seen.uploading
    BY <2>1, <2>2 DEF MayBecomePending, Recording, RecordingStatus
  <2>3. CASE ~request[r].seen.uploading
    BY <2>1, <2>3
  <2> QED BY <2>2, <2>3
<1>4. /\ UNCHANGED <<session, course, transcripts, material, replies, store, ledger>>
      /\ DiscardThen(r, uploads[u].key, Failed("410"))
  BY DEF files
<1> HIDE DEF u
<1>5. /\ ActiveUploads' = ActiveUploads \ {u} /\ Completed' = Completed \ {u}
      /\ \A v \in DOMAIN uploads : uploads'[v].key = uploads[v].key /\ uploads'[v].offset = uploads[v].offset
  BY <1>1, <1>2 DEF ActiveUploads, Completed
<1>6. RowsInv'
  <2>1. RowsTyped'
    BY <1>2, <1>3, <1>4 DEF RowsInv, RowsTyped
  <2>2. UploadsFit'
    BY <1>1, <1>2, <1>3, <1>4, <1>5 DEF RowsInv, UploadsFit
  <2>3. RecordingFits'
    BY <1>1, <1>3, <1>4, <1>5 DEF RowsInv, RecordingFits
  <2>4. RepliesFit' /\ MaterialFits'
    BY <1>1, <1>2, <1>3, <1>4 DEF RowsInv, RepliesFit, MaterialFits
  <2>5. RowKeysApart'
    <3>1. RowKeysApart
      BY DEF RowsInv
    <3> HIDE DEF FilesInv
    <3> QED
      BY <1>2, <1>3, <1>4, <1>5, <3>1, KeysStayApart
  <2> QED
    BY <2>1, <2>2, <2>3, <2>4, <2>5 DEF RowsInv
<1>7. Failed("410") \in Reply /\ Failed("410").code # "ok" /\ Failed("410").upload = 0
  BY FailedTyped DEF Code
<1>8. /\ ActorsTyped' /\ UNCHANGED browser
      /\ \A q \in Request : request'[q].op = request[q].op
      /\ request'[r].at = "discarding" /\ request'[r].key = uploads[u].key
      /\ \A q \in Request \ {r} : request'[q] = request[q]
  BY <1>1, <1>4, <1>7, DiscardTyped
<1>9. FilesTyped' /\ HistoryTyped' /\ DeletersFit'
  BY <1>4, DeletersFrame DEF FilesTyped, HistoryTyped, files
<1>10. HandsInv'
  <2>1. ASSUME NEW q \in Request \ {r}
        PROVE  (Holding(q) => request[q].key # uploads[u].key) /\ Spared(q)
    <3>1. HandFits(q) /\ request[q].at \notin {"appended", "promoted"}
      BY DEF HandsInv, Locked
    <3>2. Len(uploads) <= Len(uploads') /\ \A v \in DOMAIN uploads : uploads[v].offset \in Nat
      BY <1>2, UploadSequence DEF RowsInv, RowsTyped
    <3>3. RowsSpare(q)
      BY <1>1, <1>2, <1>3, <1>4, <1>5, <3>1, <3>2 DEF RowsSpare, HandFits, SeenFits
    <3> QED
      BY <1>1, <1>4, <3>1, <3>3, StoreUnchangedSpares, LedgerUnchangedSpares
      DEF Spared, HandFits, HeldFits
  <2>2. /\ request[r].op = "append" => request[r].offset < Total
        /\ request[r].upload <= Len(uploads')
    BY <1>2 DEF HandsInv, HandFits, PlaceFits
  <2>3. /\ uploads[u].key # recording'.key /\ uploads[u].key # material'.key
    BY <1>1, <1>3, <1>4 DEF RowsInv, RowKeysApart
  <2>4. 0 <= Len(uploads')
    BY <1>2, LenProperties
  <2>5. \A v \in ActiveUploads' : uploads[u].key # uploads'[v].key
    BY <1>1, <1>5 DEF RowsInv, RowKeysApart, ActiveUploads
  <2> QED
    BY <1>1, <1>4, <1>6, <1>7, <2>1, <2>2, <2>3, <2>4, <2>5, HandsDiscarding DEF RowsInv
<1>11. BrowserFits'
  <2>1. BrowserSpared
    <3>1. Len(uploads) \in Nat /\ \A v \in DOMAIN uploads : uploads[v].offset \in Nat
      BY UploadSequence DEF RowsInv, RowsTyped
    <3> QED
      BY <1>1, <1>2, <1>3, <1>5, <3>1 DEF BrowserSpared
  <2> QED
    BY <1>6, <1>8, <2>1, BrowserUnmoved DEF RowsInv, BrowserFits
<1>12. ObjectsFit'
  <2>1. BytesHeld'
    BY <1>2, <1>4, <1>5 DEF ObjectsFit, BytesHeld
  <2>2. ServedObjectsExist' /\ SucceededMeansGone'
    BY <1>3, <1>4 DEF ObjectsFit, ServedObjectsExist, SucceededMeansGone, Holds
  <2>3. HiddenObjectsQueued' /\ LedgerFits'
    BY <1>2, <1>3, <1>4, <1>5 DEF ObjectsFit, HiddenObjectsQueued, LedgerFits
  <2> QED BY <2>1, <2>2, <2>3 DEF ObjectsFit
<1>13. ObjectsOwned'
  <2>1. uploads[u].key \in InHand' /\ InHand \subseteq InHand'
    BY <1>4, <1>8 DEF InHand
  <2>2. ASSUME NEW k \in DOMAIN store', Owned(k) PROVE Owned(k)'
    BY <1>1, <1>2, <1>3, <1>4, <2>1, <2>2 DEF Owned
  <2> QED
    BY <1>1, <1>4, <2>2 DEF ObjectsOwned
<1> QED
  BY <1>6, <1>8, <1>9, <1>10, <1>11, <1>12, <1>13

LEMMA Expires ==
    ASSUME FilesInv, NEW r \in Request, Usable(r), ~Locked, request[r].at = "ready",
           request[r].op # "none", ExpireNow(r), UNCHANGED <<deleter, orphans>>,
           faults' \in 0 .. MaxFault
    PROVE  FilesInv'
<1>1. CASE Refuse(r, "error")
  BY <1>1, EmptyHanded, Refused DEF Code
<1>2. CASE ~Refuse(r, "error")
  BY <1>2, ExpiryCommits DEF ExpireNow
<1> QED
  BY <1>1, <1>2

(* A handler goes on to read, or to its second transaction. *)
LEMMA Reads ==
    ASSUME FilesInv, NEW r \in Request, NEW hand \in Handler,
           request' = [request EXCEPT ![r] = hand],
           request[r].at \in {"received", "seen", "ready"},
           hand.at \in {"received", "seen", "ready"},
           hand.op = request[r].op \/ hand.op = "finish",
           hand.upload = request[r].upload, hand.offset = request[r].offset,
           hand.key = request[r].key,
           hand.at # "received" /\ hand.seen.active =>
              /\ hand.upload \in DOMAIN uploads
              /\ hand.seen.offset <= uploads[hand.upload].offset,
           UNCHANGED <<rows, files, deleter, browser, orphans, faults>>
    PROVE  FilesInv'
<1> USE DEF FilesInv
<1>1. FilesTyped' /\ ObjectsFit' /\ HistoryTyped'
  BY ObjectsFrame DEF HistoryTyped
<1>2. /\ ActorsTyped' /\ request'[r] = hand
      /\ \A q \in Request \ {r} : request'[q] = request[q]
  BY DEF ActorsTyped
<1>3. RowsInv' /\ BrowserSpared
  BY RowsFrame
<1>4. HandsInv'
  <2>1. PlaceFits(r) /\ request[r].key = NoKey
    BY EmptyHanded DEF HandsInv, HandFits
  <2>2. HandFits(r)'
    BY <1>2, <2>1 DEF HandFits, PlaceFits, HeldFits, Holding, SeenFits, Reading, AppendedFits,
                      PromotedFits, DiscardingFits, rows
  <2>3. ASSUME NEW q \in Request \ {r} PROVE HandsApart(r, q)' /\ HandsApart(q, r)'
    BY <1>2, <2>1, KeyFacts DEF HandsApart, Holding, HandsInv, HandFits, PlaceFits
  <2> QED
    BY <1>2, <1>3, <2>2, <2>3, NothingChangedSpares, HandsMoved DEF HandsInv, RowsInv
<1>5. BrowserFits'
  <2>1. \A q \in Request : request'[q].op = request[q].op \/ request'[q].op = "finish"
    BY <1>2
  <2>2. UNCHANGED <<uploads, recording, browser>>
    BY DEF rows
  <2> QED BY <2>1, <2>2 DEF BrowserFits
<1>6. DeletersFit'
  BY DeletersFrame
<1>7. ObjectsOwned'
  <2>1. InHand \subseteq InHand'
    BY <1>2 DEF InHand
  <2> QED
    BY <2>1, OwnersFrame DEF files
<1> QED
  BY <1>1, <1>2, <1>3, <1>4, <1>5, <1>6, <1>7

LEMMA DueTyped ==
    ASSUME FilesInv
    PROVE  DueUploads \in SUBSET UploadId
<1>1. DueUploads \subseteq 1 .. Len(uploads) /\ Len(uploads) \in Nat /\ Len(uploads) <= MaxUpload
  BY UploadFacts DEF DueUploads, FilesInv, RowsInv, RowsTyped
<1> QED
  BY <1>1, BoundsArePositive DEF UploadId

LEMMA SeenTyped ==
    ASSUME NEW b \in BOOLEAN, NEW n \in Offset
    PROVE  [Unseen EXCEPT !.active = b, !.offset = n] \in Seen
BY DEF Unseen, Seen

Sees(h, place, due, seen) == [h EXCEPT !.at = place, !.due = due, !.seen = seen]

LEMMA SeesTyped ==
    ASSUME NEW h \in Handler, NEW place \in Place, NEW due \in SUBSET UploadId, NEW seen \in Seen
    PROVE  LET hand == Sees(h, place, due, seen)
           IN  /\ hand \in Handler /\ hand.at = place /\ hand.seen = seen /\ hand.op = h.op
               /\ hand.upload = h.upload /\ hand.offset = h.offset /\ hand.key = h.key
<1> HIDE DEF Place, Key, Seen, UploadId, Reply, Offset
<1> QED BY DEF Handler, Sees

LEMMA ReadUploadKeeps ==
    ASSUME FilesInv, NEW r \in Request, ReadUpload(r)
    PROVE  FilesInv'
<1> DEFINE u == request[r].upload
           seen == [Unseen EXCEPT !.active = Active(u),
                                  !.offset = IF Active(u) THEN uploads[u].offset ELSE 0]
           due == IF request[r].op = "finish" THEN {} ELSE DueUploads \cap {u}
           hand == Sees(request[r], "seen", due, seen)
<1>1. request[r] \in Handler /\ request[r].at = "received"
  BY DEF FilesInv, ActorsTyped, ReadUpload
<1>2. /\ seen \in Seen /\ seen.active = Active(u)
      /\ Active(u) => seen.offset = uploads[u].offset
  <2>1. Active(u) => uploads[u] \in UploadRow
    BY UploadFacts DEF FilesInv, RowsInv, Active
  <2>2. Active(u) \in BOOLEAN
    BY DEF Active
  <2>3. (IF Active(u) THEN uploads[u].offset ELSE 0) \in Offset
    BY <2>1, KeyFacts DEF UploadRow
  <2> QED
    BY <2>2, <2>3, SeenTyped DEF Unseen
<1>3. due \in SUBSET UploadId
  BY DueTyped
<1> HIDE DEF seen, due
<1>4. /\ hand \in Handler /\ hand.at = "seen" /\ hand.op = request[r].op
      /\ hand.upload = u /\ hand.offset = request[r].offset /\ hand.key = request[r].key
      /\ hand.seen = seen
  <2>1. "seen" \in Place
    BY DEF Place
  <2> QED BY <1>1, <1>2, <1>3, <2>1, SeesTyped
<1>5. request' = [request EXCEPT ![r] = hand]
  BY DEF ReadUpload, Sees, seen, due
<1>6. UNCHANGED <<rows, files, deleter, browser, orphans, faults>>
  BY DEF ReadUpload
<1>7. seen.active => u \in DOMAIN uploads /\ seen.offset <= uploads[u].offset
  <2>1. Active(u) => u \in DOMAIN uploads /\ uploads[u].offset \in Nat
    BY UploadSequence DEF Active, FilesInv, RowsInv, RowsTyped
  <2> QED BY <1>2, <2>1
<1> HIDE DEF hand
<1> QED
  BY <1>1, <1>4, <1>5, <1>6, <1>7, Reads

LEMMA ReadRecordingKeeps ==
    ASSUME FilesInv, NEW r \in Request, ReadRecording(r)
    PROVE  FilesInv'
<1> DEFINE uploading == recording.status = "UPLOADING"
           seen == [request[r].seen EXCEPT !.uploading = uploading]
           hand == [request[r] EXCEPT !.at = "ready", !.seen = seen]
<1>1. request[r] \in Handler /\ request[r].at = "seen"
  BY DEF FilesInv, ActorsTyped, ReadRecording
<1>2. /\ seen \in Seen /\ seen.active = request[r].seen.active
      /\ seen.offset = request[r].seen.offset
  <2>1. request[r].seen \in Seen
    BY <1>1 DEF Handler
  <2>2. uploading \in BOOLEAN
    OBVIOUS
  <2> HIDE DEF uploading
  <2> QED BY <2>1, <2>2 DEF Seen
<1> HIDE DEF seen
<1>3. /\ hand \in Handler /\ hand.at = "ready" /\ hand.op = request[r].op
      /\ hand.upload = request[r].upload /\ hand.offset = request[r].offset
      /\ hand.key = request[r].key /\ hand.seen = seen
  <2> HIDE DEF Key, Reply, Offset, Seen, UploadId, Operation
  <2> QED BY <1>1, <1>2 DEF Handler, Place
<1>4. request' = [request EXCEPT ![r] = hand]
  BY DEF ReadRecording, seen
<1>5. UNCHANGED <<rows, files, deleter, browser, orphans, faults>>
  BY DEF ReadRecording
<1>6. request[r].seen.active => /\ request[r].upload \in DOMAIN uploads
                                /\ request[r].seen.offset <= uploads[request[r].upload].offset
  BY <1>1 DEF FilesInv, HandsInv, HandFits, SeenFits, Reading
<1> HIDE DEF hand
<1> QED
  BY <1>1, <1>2, <1>3, <1>4, <1>5, <1>6, Reads

LEMMA GetUploadKeeps ==
    ASSUME FilesInv, NEW r \in Request, GetUpload(r)
    PROVE  FilesInv'
<1> DEFINE u == request[r].upload
           n == request[r].seen.offset
<1>1. /\ request[r].op = "get" /\ request[r].at = "ready" /\ ~Locked
      /\ UNCHANGED <<deleter, orphans>> /\ faults' \in 0 .. MaxFault
  BY DEF GetUpload, At, FilesInv, HistoryTyped
<1>2. request[r].key = NoKey
  BY <1>1, EmptyHanded
<1>3. ASSUME NEW code \in {"404", "error"}, Refuse(r, code) PROVE FilesInv'
  BY <1>1, <1>2, <1>3, Refused DEF Code
<1>4. CASE Expired(r) /\ ExpireNow(r)
  BY <1>1, <1>4, Expires DEF Expired
<1>5. CASE Open(r) /\ Answer(r, Ok(u, n)) /\ UNCHANGED <<rows, files>>
  <2>1. /\ u \in 0 .. MaxUpload /\ n \in Offset /\ u <= Len(uploads) /\ n <= uploads[u].offset
    BY <1>1, <1>5, UsableFacts DEF FilesInv, HandsInv, HandFits, PlaceFits, Open
  <2> HIDE DEF u, n
  <2>2. Ok(u, n) \in Reply /\ Ok(u, n).upload = u /\ Ok(u, n).offset = n
    BY <2>1, OkTyped
  <2> QED
    BY <1>1, <1>2, <1>5, <2>1, <2>2, Replied DEF Completing
<1> QED
  BY <1>3, <1>4, <1>5 DEF GetUpload

(* An object with a fresh key disturbs nobody. *)
LEMMA FreshStored ==
    ASSUME FilesInv, HasFresh, UNCHANGED rows, UNCHANGED ledger, UNCHANGED deleter,
           DOMAIN store' = DOMAIN store \cup {Fresh}, store'[Fresh] \in Offset,
           store' = [k \in DOMAIN store' |-> store'[k]],
           \A k \in DOMAIN store \ {Fresh} : store'[k] = store[k]
    PROVE  /\ FilesTyped' /\ ObjectsFit' /\ DeletersFit'
           /\ \A q \in Request : Spared(q)
<1> USE DEF FilesInv
<1>1. /\ Fresh \in Key /\ Fresh \notin DOMAIN store /\ Fresh \notin DOMAIN ledger
      /\ \A q \in Request : request[q].key # Fresh
      /\ \A d \in Deleter : deleter[d].key # Fresh
      /\ \A u \in DOMAIN uploads : uploads[u].key # Fresh
  BY FreshIsNew
<1>2. \A k \in DOMAIN store : k \in DOMAIN store' /\ store'[k] = store[k]
  BY <1>1
<1>3. FilesTyped'
  BY <1>1, <1>2 DEF FilesTyped
<1>4. ObjectsFit'
  <2>1. BytesHeld'
    BY <1>1, <1>2 DEF ObjectsFit, BytesHeld, rows
  <2>2. ServedObjectsExist'
    BY <1>2 DEF ObjectsFit, ServedObjectsExist, Holds, rows
  <2>3. HiddenObjectsQueued' /\ LedgerFits'
    BY DEF ObjectsFit, HiddenObjectsQueued, LedgerFits, rows
  <2>4. SucceededMeansGone'
    BY <1>1 DEF ObjectsFit, SucceededMeansGone
  <2> QED
    BY <2>1, <2>2, <2>3, <2>4 DEF ObjectsFit
<1>5. DeletersFit'
  BY <1>1 DEF DeletersFit
<1>6. ASSUME NEW q \in Request PROVE Spared(q)
  <2>1. HandFits(q)
    BY DEF HandsInv
  <2>2. RowsSpare(q) /\ LedgerSpares(q)
    BY <2>1, RowsUnchangedSpare, LedgerUnchangedSpares DEF rows, RowsInv
  <2>3. StoreSpares(q)
    BY <1>1, <1>2, <2>1 DEF StoreSpares, HandFits, HeldFits, AppendedFits, PromotedFits
  <2> QED
    BY <2>2, <2>3 DEF Spared
<1> QED
  BY <1>3, <1>4, <1>5, <1>6

LEMMA StoresFresh ==
    ASSUME FilesInv, NEW r \in Request, NEW n \in Offset, HasFresh, request[r].at = "received",
           request[r].op \in {"create", "material"}, request[r].op = "material" => n = Total,
           store' = With(Fresh, n), request' \in [Request -> Handler],
           request'[r].at = "stored", request'[r].key = Fresh,
           request'[r].op = request[r].op, request'[r].upload = request[r].upload,
           request'[r].offset = request[r].offset,
           \A q \in Request \ {r} : request'[q] = request[q],
           UNCHANGED <<rows, ledger, deleter, browser, orphans, faults>>
    PROVE  FilesInv'
<1> USE DEF FilesInv
<1>1. /\ Fresh \in Key /\ Fresh # NoKey /\ Fresh \notin DOMAIN store /\ Fresh \notin DOMAIN ledger
      /\ Fresh # recording.key /\ Fresh # material.key
      /\ \A u \in DOMAIN uploads : uploads[u].key # Fresh
      /\ \A q \in Request : request[q].key # Fresh
  BY FreshIsNew
<1>2. /\ DOMAIN store' = DOMAIN store \cup {Fresh} /\ store'[Fresh] = n
      /\ store' = [k \in DOMAIN store' |-> store'[k]]
      /\ \A k \in DOMAIN store \ {Fresh} : store'[k] = store[k]
  BY <1>1, WithTyped
<1>3. FilesTyped' /\ ObjectsFit' /\ DeletersFit' /\ \A q \in Request : Spared(q)
  BY <1>2, FreshStored
<1>4. /\ request' \in [Request -> Handler]
      /\ request'[r].at = "stored" /\ request'[r].key = Fresh
      /\ request'[r].op = request[r].op /\ request'[r].upload = request[r].upload
      /\ request'[r].offset = request[r].offset
      /\ \A q \in Request \ {r} : request'[q] = request[q]
  OBVIOUS
<1>5. ActorsTyped' /\ HistoryTyped' /\ RowsInv' /\ BrowserSpared
  BY <1>4, RowsFrame DEF ActorsTyped, HistoryTyped
<1>6. HandsInv'
  <2>1. HandFits(r) /\ UNCHANGED <<recording, material, uploads>>
    BY DEF HandsInv, rows
  <2>2. HandFits(r)'
    <3>1. PlaceFits(r)'
      BY <1>1, <1>4, <2>1 DEF HandFits, PlaceFits
    <3>2. HeldFits(r)'
      BY <1>1, <1>2, <1>4, <2>1 DEF HeldFits, Holding
    <3> QED
      BY <1>4, <3>1, <3>2
      DEF HandFits, SeenFits, Reading, AppendedFits, PromotedFits, DiscardingFits
  <2>3. \A q \in Request \ {r} : HandsApart(r, q)' /\ HandsApart(q, r)'
    BY <1>1, <1>4 DEF HandsApart, Holding
  <2> QED
    BY <1>3, <1>4, <1>5, <2>2, <2>3, HandsMoved DEF RowsInv
<1>7. BrowserFits'
  BY <1>4, <1>5, BrowserUnmoved DEF RowsInv, BrowserFits
<1>8. ObjectsOwned'
  <2>1. Fresh \in InHand' /\ InHand \subseteq InHand'
    BY <1>4 DEF InHand
  <2> QED
    BY <1>2, <2>1, OwnersFrame
<1> QED
  BY <1>3, <1>5, <1>6, <1>7, <1>8

LEMMA StoreTemporaryKeeps ==
    ASSUME FilesInv, NEW r \in Request, StoreTemporary(r)
    PROVE  FilesInv'
<1> DEFINE hand == [request[r] EXCEPT !.at = "stored", !.key = Fresh, !.due = DueUploads]
<1>1. request[r] \in Handler /\ request[r].op = "create" /\ request[r].at = "received"
  BY DEF FilesInv, ActorsTyped, StoreTemporary, At
<1>2. DueUploads \in SUBSET UploadId
  BY DueTyped
<1>3. Fresh \in Key
  BY FreshIsNew DEF StoreTemporary
<1>4. /\ hand \in Handler /\ hand.at = "stored" /\ hand.key = Fresh /\ hand.op = request[r].op
      /\ hand.upload = request[r].upload /\ hand.offset = request[r].offset
  <2> HIDE DEF Key, Reply, Offset, Seen, UploadId, Operation, DueUploads, Fresh
  <2> QED BY <1>1, <1>2, <1>3 DEF Handler, Place
<1>5. request' = [request EXCEPT ![r] = hand]
  BY DEF StoreTemporary
<1> HIDE DEF hand
<1>6. /\ request' \in [Request -> Handler] /\ request'[r] = hand
      /\ \A q \in Request \ {r} : request'[q] = request[q]
  BY <1>4, <1>5 DEF FilesInv, ActorsTyped
<1>7. /\ HasFresh /\ store' = With(Fresh, 0)
      /\ UNCHANGED <<rows, ledger, deleter, browser, orphans, faults>>
  BY DEF StoreTemporary
<1> QED
  BY <1>1, <1>4, <1>6, <1>7, KeyFacts, StoresFresh

LEMMA FailEarlyKeeps ==
    ASSUME FilesInv, NEW r \in Request, FailEarly(r)
    PROVE  FilesInv'
<1>1. faults' \in 0 .. MaxFault
  BY FaultTyped DEF FailEarly, FilesInv, HistoryTyped
<1> QED
  BY <1>1, EmptyHanded, Refused DEF FailEarly, Code

(* An object that no row serves and no other handler holds may go. *)
LEMMA DiscardKeeps ==
    ASSUME FilesInv, NEW r \in Request, Discard(r)
    PROVE  FilesInv'
<1> USE DEF FilesInv
<1> DEFINE k == request[r].key
           reply == request[r].reply
<1>1. /\ request[r].at = "discarding" /\ Answer(r, reply)
      /\ UNCHANGED <<rows, ledger, deleter>>
      /\ orphans \subseteq orphans' /\ orphans' \subseteq orphans \cup {k}
      /\ \/ store' = Without({k})
         \/ UNCHANGED store /\ (k \in DOMAIN store' => k \in DOMAIN ledger \cup orphans')
  BY DEF Discard, Unowned
<1>2. HandFits(r) /\ request[r] \in Handler
  BY DEF HandsInv, ActorsTyped
<1>3. /\ k \in Key /\ reply \in Reply /\ reply.upload <= Len(uploads)
      /\ reply.code = "ok" => request[r].op \notin Completing /\ reply.offset = 0
      /\ k # recording.key /\ (k = material.key => material.status = "detached")
      /\ \A u \in ActiveUploads : k # uploads[u].key
  BY <1>1, <1>2 DEF HandFits, PlaceFits, DiscardingFits, Handler
<1>4. HistoryTyped'
  <2>1. faults' \in 0 .. MaxFault
    BY FaultTyped DEF Discard, HistoryTyped
  <2> QED BY <1>1, <1>3, <2>1 DEF HistoryTyped
<1> HIDE DEF k, reply
<1>5. /\ FilesTyped' /\ DOMAIN store \ {k} \subseteq DOMAIN store' /\ DOMAIN store' \subseteq DOMAIN store
      /\ \A x \in DOMAIN store \ {k} : store'[x] = store[x]
      /\ \A x \in DOMAIN store' : store'[x] = store[x]
      /\ k \in DOMAIN store' => k \in DOMAIN ledger \cup orphans'
  <2>1. CASE store' = Without({k})
    <3>1. /\ DOMAIN store' = DOMAIN store \ {k}
          /\ \A x \in DOMAIN store \ {k} : store'[x] = store[x]
          /\ DOMAIN store' \subseteq Key /\ store' \in [DOMAIN store' -> Offset]
      BY <2>1, WithoutTyped
    <3>2. FilesTyped'
      BY <1>1, <3>1 DEF FilesTyped
    <3> QED BY <3>1, <3>2
  <2>2. CASE UNCHANGED store /\ (k \in DOMAIN store' => k \in DOMAIN ledger \cup orphans')
    BY <1>1, <2>2 DEF FilesTyped
  <2> QED
    BY <1>1, <2>1, <2>2
<1>6. /\ ActorsTyped'
      /\ request'[r] = Idle /\ \A q \in Request \ {r} : request'[q] = request[q]
  BY <1>1, <1>3, AnswerTyped
<1>7. RowsInv' /\ BrowserSpared
  BY <1>1, RowsFrame
<1>8. HandsInv'
  <2>1. ASSUME NEW q \in Request \ {r} PROVE Spared(q)
    <3>1. HandFits(q) /\ (Holding(q) => request[q].key # k)
      BY DEF HandsInv, HandsApart, k
    <3>2. RowsSpare(q) /\ LedgerSpares(q)
      BY <1>1, <3>1, RowsUnchangedSpare, LedgerUnchangedSpares DEF rows, RowsInv
    <3>3. StoreSpares(q)
      BY <1>3, <1>5, <3>1
      DEF StoreSpares, HandFits, HeldFits, AppendedFits, PromotedFits, ActiveUploads
    <3> QED
      BY <3>2, <3>3 DEF Spared
  <2> QED
    BY <1>6, <1>7, <2>1, HandsAnswered DEF RowsInv
<1>9. BrowserFits'
  <2>1. reply.code = "ok" /\ request[r].op \notin Completing =>
              /\ reply.upload <= Len(uploads')
              /\ reply.upload \in DOMAIN uploads' =>
                    reply.offset <= uploads'[reply.upload].offset
    <3>1. \A u \in DOMAIN uploads : 0 <= uploads[u].offset
      BY UploadSequence DEF RowsInv, RowsTyped
    <3> QED
      BY <1>1, <1>3, <3>1 DEF rows
  <2> QED
    BY <1>1, <1>3, <1>7, <2>1, BrowserAnswered DEF RowsInv
<1>10. DeletersFit'
  BY <1>1, <1>5 DEF DeletersFit
<1>11. ObjectsFit'
  <2>1. BytesHeld'
    <3>1. UNCHANGED uploads /\ BytesHeld
      BY <1>1 DEF rows, ObjectsFit
    <3> HIDE DEF FilesInv
    <3> QED
      BY <1>3, <1>5, <3>1 DEF BytesHeld, ActiveUploads
  <2>2. ServedObjectsExist'
    BY <1>1, <1>3, <1>5 DEF ObjectsFit, ServedObjectsExist, Holds, rows
  <2>3. HiddenObjectsQueued' /\ LedgerFits'
    BY <1>1 DEF ObjectsFit, HiddenObjectsQueued, LedgerFits, rows
  <2>4. SucceededMeansGone'
    BY <1>1, <1>5 DEF ObjectsFit, SucceededMeansGone
  <2> QED
    BY <2>1, <2>2, <2>3, <2>4 DEF ObjectsFit
<1>12. ObjectsOwned'
  <2>1. \A x \in InHand : x = k \/ x \in InHand'
    BY <1>6 DEF InHand, k
  <2>2. ASSUME NEW x \in DOMAIN store', Owned(x) PROVE Owned(x)'
    BY <1>1, <1>5, <2>1, <2>2 DEF Owned, rows
  <2> QED
    BY <1>1, <1>5, <2>2 DEF ObjectsOwned, rows
<1> QED
  BY <1>4, <1>5, <1>6, <1>7, <1>8, <1>9, <1>10, <1>11, <1>12

(* The rows of create_recording_upload: a new ACTIVE upload, and the late   *)
(* one before it EXPIRED.                                                   *)
CreatedRows(r) ==
    LET id  == Len(uploads) + 1
        row == [status |-> "ACTIVE", offset |-> 0, key |-> request[r].key, late |-> FALSE]
        old == [u \in DOMAIN uploads |->
                   IF Active(u) THEN [uploads[u] EXCEPT !.status = "EXPIRED"] ELSE uploads[u]]
    IN  /\ id <= MaxUpload
        /\ uploads' = Append(old, row)
        /\ recording' = [recording EXCEPT !.status = "UPLOADING"]
        /\ replies' = [replies EXCEPT ![request[r].round].created = id]

LEMMA CreatedUploads ==
    ASSUME RowsTyped, NEW r \in Request, request[r].key \in Key, CreatedRows(r)
    PROVE  /\ uploads' \in Seq(UploadRow) /\ Len(uploads') = Len(uploads) + 1
           /\ DOMAIN uploads' = DOMAIN uploads \cup {Len(uploads) + 1}
           /\ Len(uploads) + 1 \notin DOMAIN uploads
           /\ uploads'[Len(uploads) + 1] =
                 [status |-> "ACTIVE", offset |-> 0, key |-> request[r].key, late |-> FALSE]
           /\ \A u \in DOMAIN uploads :
                 /\ uploads'[u].key = uploads[u].key /\ uploads'[u].offset = uploads[u].offset
                 /\ uploads'[u].status =
                       IF uploads[u].status = "ACTIVE" THEN "EXPIRED" ELSE uploads[u].status
<1> DEFINE n == Len(uploads)
           row == [status |-> "ACTIVE", offset |-> 0, key |-> request[r].key, late |-> FALSE]
           old == [u \in DOMAIN uploads |->
                      IF Active(u) THEN [uploads[u] EXCEPT !.status = "EXPIRED"] ELSE uploads[u]]
<1>1. n \in Nat /\ DOMAIN uploads = 1 .. n /\ \A u \in DOMAIN uploads : uploads[u] \in UploadRow
  BY UploadFacts
<1>2. row \in UploadRow
  BY KeyFacts DEF UploadRow
<1>3. ASSUME NEW w \in UploadRow
      PROVE  /\ [w EXCEPT !.status = "EXPIRED"] \in UploadRow
             /\ [w EXCEPT !.status = "EXPIRED"].status = "EXPIRED"
             /\ [w EXCEPT !.status = "EXPIRED"].key = w.key
             /\ [w EXCEPT !.status = "EXPIRED"].offset = w.offset
  <2> HIDE DEF Key, Offset
  <2> QED BY DEF UploadRow
<1>4. ASSUME NEW u \in DOMAIN uploads
      PROVE  /\ old[u] \in UploadRow /\ old[u].key = uploads[u].key
             /\ old[u].offset = uploads[u].offset
             /\ old[u].status =
                   IF uploads[u].status = "ACTIVE" THEN "EXPIRED" ELSE uploads[u].status
  <2>1. CASE uploads[u].status = "ACTIVE"
    <3>1. old[u] = [uploads[u] EXCEPT !.status = "EXPIRED"]
      BY <2>1 DEF Active
    <3> HIDE DEF old
    <3> QED BY <1>1, <1>3, <2>1, <3>1
  <2>2. CASE uploads[u].status # "ACTIVE"
    <3>1. old[u] = uploads[u]
      BY <2>2 DEF Active
    <3> HIDE DEF old
    <3> QED BY <1>1, <2>2, <3>1
  <2> QED BY <2>1, <2>2
<1>5. DOMAIN old = 1 .. n /\ uploads' = Append(old, row)
  BY <1>1 DEF CreatedRows
<1>6. old = [u \in 1 .. n |-> old[u]]
  BY <1>1
<1> HIDE DEF old, row
<1>7. old \in [1 .. n -> UploadRow]
  BY <1>1, <1>4, <1>6
<1>8. old \in Seq(UploadRow)
  BY <1>1, <1>7, SeqDef
<1>9. Len(old) = n
  <2>1. Len(old) \in Nat /\ DOMAIN old = 1 .. Len(old)
    BY <1>8, LenProperties
  <2> QED BY <1>1, <1>5, <2>1
<1>10. /\ uploads' \in Seq(UploadRow) /\ Len(uploads') = n + 1
       /\ uploads'[n + 1] = row /\ \A u \in 1 .. n : uploads'[u] = old[u]
  BY <1>1, <1>2, <1>5, <1>8, <1>9, AppendProperties
<1>11. DOMAIN uploads' = 1 .. n + 1
  BY <1>10, LenProperties
<1>12. DOMAIN uploads' = DOMAIN uploads \cup {n + 1} /\ n + 1 \notin DOMAIN uploads
  BY <1>1, <1>11
<1> QED
  BY <1>1, <1>4, <1>10, <1>12 DEF row

LEMMA CreateCommits ==
    ASSUME FilesInv, NEW r \in Request, At(r, "create", "stored"), ~Locked, CreateAllowed(r),
           CreatedRows(r), UNCHANGED <<session, course, transcripts, material, files>>,
           UNCHANGED <<deleter, orphans, faults>>,
           \/ ActiveUploads = {} /\ Answer(r, Ok(Len(uploads) + 1, 0))
           \/ \E u \in ActiveUploads : DiscardThen(r, uploads[u].key, Ok(Len(uploads) + 1, 0))
    PROVE  FilesInv'
<1> USE DEF FilesInv
<1> DEFINE id == Len(uploads) + 1
<1>1. /\ request[r].op = "create" /\ request[r].at = "stored" /\ HandFits(r) /\ Holding(r)
      /\ request[r] \in Handler
  BY DEF At, HandsInv, Holding, ActorsTyped
<1>2. /\ request[r].key \in Key /\ request[r].key # NoKey /\ request[r].key \in DOMAIN store
      /\ request[r].key \notin DOMAIN ledger /\ request[r].key # recording.key
      /\ request[r].key # material.key /\ \A u \in DOMAIN uploads : request[r].key # uploads[u].key
  BY <1>1 DEF HandFits, PlaceFits, HeldFits, Handler
<1>3. /\ uploads' \in Seq(UploadRow) /\ Len(uploads') = id
      /\ DOMAIN uploads' = DOMAIN uploads \cup {id} /\ id \notin DOMAIN uploads
      /\ uploads'[id].status = "ACTIVE" /\ uploads'[id].offset = 0 /\ uploads'[id].key = request[r].key
      /\ \A u \in DOMAIN uploads :
            /\ uploads'[u].key = uploads[u].key /\ uploads'[u].offset = uploads[u].offset
            /\ uploads'[u].status =
                  IF uploads[u].status = "ACTIVE" THEN "EXPIRED" ELSE uploads[u].status
  <2> HIDE DEF FilesInv
  <2>1. RowsTyped
    BY DEF FilesInv, RowsInv
  <2>2. /\ uploads' \in Seq(UploadRow) /\ Len(uploads') = Len(uploads) + 1
        /\ DOMAIN uploads' = DOMAIN uploads \cup {Len(uploads) + 1}
        /\ Len(uploads) + 1 \notin DOMAIN uploads
        /\ uploads'[Len(uploads) + 1] =
              [status |-> "ACTIVE", offset |-> 0, key |-> request[r].key, late |-> FALSE]
        /\ \A u \in DOMAIN uploads :
              /\ uploads'[u].key = uploads[u].key /\ uploads'[u].offset = uploads[u].offset
              /\ uploads'[u].status =
                    IF uploads[u].status = "ACTIVE" THEN "EXPIRED" ELSE uploads[u].status
    BY <1>2, <2>1, CreatedUploads
  <2> QED BY <2>2
<1>4. /\ Len(uploads) \in Nat /\ DOMAIN uploads = 1 .. Len(uploads) /\ id <= MaxUpload
      /\ id \in 0 .. MaxUpload
  <2>1. Len(uploads) \in Nat /\ DOMAIN uploads = 1 .. Len(uploads) /\ id <= MaxUpload
    BY UploadFacts DEF RowsInv, CreatedRows
  <2> QED BY <2>1, BoundsArePositive
<1>5. /\ session # "DELETED" /\ recording.status \in {"UPLOAD_PENDING", "UPLOADING", "FAILED"}
      /\ recording.key = NoKey /\ ~recording.deleted
  BY DEF CreateAllowed, Member, RowsInv, RecordingFits
<1>6. /\ recording' \in Recording /\ recording'.status = "UPLOADING"
      /\ recording'.key = NoKey /\ ~recording'.deleted
  <2>1. recording' = [recording EXCEPT !.status = "UPLOADING"] /\ recording \in Recording
    BY DEF CreatedRows, RowsInv, RowsTyped
  <2> QED
    BY <1>5, <2>1 DEF Recording, RecordingStatus
<1>7. /\ replies' \in [UploadId -> [created : 0 .. MaxUpload, completed : BOOLEAN]]
      /\ \A m \in UploadId : /\ replies'[m].created \in {replies[m].created, id}
                             /\ replies'[m].completed = replies[m].completed
  <2> DEFINE m == request[r].round
  <2>1. m \in UploadId /\ replies \in [UploadId -> [created : 0 .. MaxUpload, completed : BOOLEAN]]
    BY <1>1 DEF Handler, RowsInv, RowsTyped
  <2>2. replies' = [replies EXCEPT ![m] = [replies[m] EXCEPT !.created = id]]
    BY DEF CreatedRows
  <2>3. /\ [replies[m] EXCEPT !.created = id] \in [created : 0 .. MaxUpload, completed : BOOLEAN]
        /\ [replies[m] EXCEPT !.created = id].created = id
        /\ [replies[m] EXCEPT !.created = id].completed = replies[m].completed
    <3> HIDE DEF id, m, UploadId
    <3> QED BY <1>4, <2>1
  <2> HIDE DEF id, m, UploadId
  <2> QED BY <2>1, <2>2, <2>3
<1>8. UNCHANGED <<session, course, transcripts, material, store, ledger>>
  BY DEF files
<1> HIDE DEF id
<1>9. ActiveUploads' = {id} /\ Completed' = Completed
  BY <1>3 DEF ActiveUploads, Completed
<1>10. RowsInv'
  <2>1. RowsTyped'
    BY <1>3, <1>4, <1>6, <1>7, <1>8 DEF RowsInv, RowsTyped
  <2>2. UploadsFit'
    BY <1>2, <1>3, <1>5, <1>6, <1>8, <1>9 DEF RowsInv, UploadsFit
  <2>3. RecordingFits'
    BY <1>5, <1>6, <1>8, <1>9 DEF RowsInv, RecordingFits
  <2>4. RepliesFit'
    <3>1. ASSUME NEW m \in UploadId PROVE replies[m].created \in Nat /\ replies[m].created <= Len(uploads)
      BY BoundsArePositive DEF RowsInv, RowsTyped, RepliesFit
    <3>2. \A m \in UploadId : replies[m].created <= id
      BY <1>4, <3>1 DEF id
    <3> QED
      BY <1>3, <1>4, <1>5, <1>6, <1>7, <3>2 DEF RowsInv, RepliesFit
  <2>5. MaterialFits' /\ RowKeysApart'
    BY <1>2, <1>3, <1>6, <1>8 DEF RowsInv, MaterialFits, RowKeysApart
  <2> QED
    BY <2>1, <2>2, <2>3, <2>4, <2>5 DEF RowsInv
<1>11. FilesTyped' /\ HistoryTyped' /\ DeletersFit'
  BY <1>8, DeletersFrame DEF FilesTyped, HistoryTyped, files
<1>12. /\ Ok(id, 0) \in Reply /\ Ok(id, 0).code = "ok"
       /\ Ok(id, 0).upload = id /\ Ok(id, 0).offset = 0
  BY <1>4, KeyFacts, OkTyped
<1>13. ASSUME NEW q \in Request \ {r} PROVE Spared(q)
  <2>1. /\ HandFits(q) /\ request[q].at \notin {"appended", "promoted"}
        /\ request[q].key # request[r].key
    BY <1>1 DEF HandsInv, HandsApart, Locked
  <2>2. Len(uploads) <= Len(uploads') /\ \A u \in DOMAIN uploads : uploads[u].offset \in Nat
    BY <1>3, <1>4, UploadSequence DEF id, RowsInv, RowsTyped
  <2>3. RowsSpare(q)
    BY <1>3, <1>6, <1>8, <2>1, <2>2 DEF RowsSpare, HandFits, SeenFits
  <2> QED
    BY <1>8, <2>1, <2>3, StoreUnchangedSpares, LedgerUnchangedSpares DEF Spared
<1>14. BrowserSpared
  <2>1. \A u \in DOMAIN uploads : uploads[u].offset \in Nat
    BY UploadSequence DEF RowsInv, RowsTyped
  <2> QED
    BY <1>3, <1>4, <1>5, <2>1 DEF BrowserSpared, id
<1>15. ObjectsFit'
  <2>1. BytesHeld'
    <3>1. store[request[r].key] \in Nat
      BY <1>2, BoundsArePositive DEF FilesTyped, Offset
    <3> QED
      BY <1>2, <1>3, <1>8, <3>1 DEF ObjectsFit, BytesHeld
  <2>2. ServedObjectsExist' /\ SucceededMeansGone' /\ HiddenObjectsQueued'
    BY <1>5, <1>6, <1>8
    DEF ObjectsFit, ServedObjectsExist, SucceededMeansGone, HiddenObjectsQueued, Holds
  <2>3. LedgerFits'
    <3>1. NoKey \notin DOMAIN ledger
      BY KeyFacts DEF FilesTyped
    <3> QED
      BY <1>2, <1>3, <1>5, <1>6, <1>8, <3>1 DEF ObjectsFit, LedgerFits
  <2> QED BY <2>1, <2>2, <2>3 DEF ObjectsFit
<1>16. ASSUME \A k \in InHand : k \in InHand' \/ k = request[r].key,
              \A u \in ActiveUploads : uploads[u].key \in InHand'
       PROVE  ObjectsOwned'
  <2>1. ASSUME NEW k \in DOMAIN store', Owned(k) PROVE Owned(k)'
    <3>1. CASE k \in InHand
      BY <1>3, <1>16, <3>1 DEF Owned
    <3>2. CASE k \in {recording.key, material.key} \cup DOMAIN ledger \cup orphans
      <4>1. k # NoKey
        BY <1>8, KeyFacts DEF FilesTyped
      <4> QED BY <1>5, <1>8, <3>2, <4>1 DEF Owned
    <3>3. CASE \E u \in DOMAIN uploads :
                  uploads[u].key = k /\ uploads[u].status \in {"ACTIVE", "FAILED"}
      BY <1>3, <1>16, <3>3 DEF Owned, ActiveUploads
    <3> QED BY <2>1, <3>1, <3>2, <3>3 DEF Owned
  <2> QED
    BY <1>5, <1>8, <2>1 DEF ObjectsOwned
<1>17. CASE ActiveUploads = {} /\ Answer(r, Ok(id, 0))
  <2>1. /\ ActorsTyped'
        /\ request'[r] = Idle /\ \A q \in Request \ {r} : request'[q] = request[q]
    BY <1>12, <1>17, AnswerTyped
  <2>2. HandsInv'
    BY <1>10, <1>13, <2>1, HandsAnswered DEF RowsInv
  <2>3. BrowserFits'
    <3>1. id <= Len(uploads')
      BY <1>3, <1>4 DEF id
    <3>2. 0 <= uploads'[id].offset
      BY <1>3
    <3> QED
      BY <1>1, <1>10, <1>12, <1>14, <1>17, <3>1, <3>2, BrowserAnswered DEF RowsInv, Completing
  <2>4. ObjectsOwned'
    <3>1. \A k \in InHand : k \in InHand' \/ k = request[r].key
      BY <2>1 DEF InHand
    <3> QED BY <1>16, <1>17, <3>1
  <2> QED
    BY <1>10, <1>11, <1>15, <2>1, <2>2, <2>3, <2>4
<1>18. CASE \E u \in ActiveUploads : DiscardThen(r, uploads[u].key, Ok(id, 0))
  <2>1. PICK u \in ActiveUploads : DiscardThen(r, uploads[u].key, Ok(id, 0))
    BY <1>18
  <2>2. u \in DOMAIN uploads /\ uploads[u].status = "ACTIVE" /\ ActiveUploads = {u}
    BY DEF ActiveUploads, RowsInv, UploadsFit
  <2>3. uploads[u].key \in Key /\ uploads[u].key # NoKey
    <3>1. uploads[u] \in UploadRow
      BY <2>2, UploadFacts DEF RowsInv
    <3> QED BY <1>5, <2>2, <3>1 DEF UploadRow, RowsInv, UploadsFit
  <2>4. /\ ActorsTyped' /\ UNCHANGED browser
        /\ \A q \in Request : request'[q].op = request[q].op
        /\ request'[r].at = "discarding" /\ request'[r].key = uploads[u].key
        /\ \A q \in Request \ {r} : request'[q] = request[q]
    BY <1>12, <2>1, <2>3, DiscardTyped
  <2>5. HandsInv'
    <3>1. \A q \in Request \ {r} : (Holding(q) => request[q].key # uploads[u].key) /\ Spared(q)
      BY <1>13, <2>2 DEF HandsInv, HandFits, HeldFits
    <3>2. request[r].upload <= Len(uploads') /\ id <= Len(uploads')
      <4>1. request[r].upload \in Nat /\ request[r].upload <= Len(uploads)
        BY <1>1, BoundsArePositive DEF HandFits, PlaceFits, Handler
      <4> QED BY <1>3, <1>4, <4>1 DEF id
    <3>3. /\ uploads[u].key # recording'.key /\ uploads[u].key # material'.key
          /\ \A v \in ActiveUploads' : uploads[u].key # uploads'[v].key
      BY <1>2, <1>3, <1>6, <1>8, <1>9, <2>2, <2>3 DEF RowsInv, RowKeysApart
    <3> QED
      BY <1>1, <1>10, <1>12, <2>1, <2>3, <3>1, <3>2, <3>3, HandsDiscarding DEF RowsInv, Completing
  <2>6. BrowserFits'
    BY <1>10, <1>14, <2>4, BrowserUnmoved DEF RowsInv, BrowserFits
  <2>7. ObjectsOwned'
    <3>1. uploads[u].key \in InHand'
      BY <2>4 DEF InHand
    <3>2. \A k \in InHand : k \in InHand' \/ k = request[r].key
      BY <2>4 DEF InHand
    <3> QED BY <1>16, <2>2, <3>1, <3>2
  <2> QED
    BY <1>10, <1>11, <1>15, <2>4, <2>5, <2>6, <2>7
<1> QED
  BY <1>17, <1>18 DEF id

LEMMA CreateUploadKeeps ==
    ASSUME FilesInv, NEW r \in Request, CreateUpload(r)
    PROVE  FilesInv'
<1>1. /\ At(r, "create", "stored") /\ ~Locked /\ Holding(r)
      /\ UNCHANGED <<deleter, orphans>> /\ 0 <= Len(uploads)
  BY UploadFacts DEF CreateUpload, At, Holding, FilesInv, RowsInv
<1>2. faults \in 0 .. MaxFault
  BY DEF FilesInv, HistoryTyped
<1>3. CASE /\ CreatedBefore(r)
           /\ DiscardThen(r, request[r].key, Ok(replies[request[r].round].created, 0))
           /\ UNCHANGED <<rows, files>> /\ NoFault
  <2> DEFINE n == replies[request[r].round].created
  <2>1. n \in 0 .. MaxUpload /\ n <= Len(uploads)
    BY DEF FilesInv, ActorsTyped, Handler, RowsInv, RowsTyped, RepliesFit
  <2> HIDE DEF n
  <2>2. Ok(n, 0) \in Reply /\ Ok(n, 0).upload = n /\ Ok(n, 0).offset = 0
    BY <2>1, KeyFacts, OkTyped
  <2>3. faults' \in 0 .. MaxFault
    BY <1>2, <1>3, FaultTyped
  <2> QED
    BY <1>1, <1>3, <2>1, <2>2, <2>3, DiscardsHeld DEF At, n, Completing
<1>4. ASSUME NEW code \in {"404", "error"}, DiscardThen(r, request[r].key, Failed(code)),
             UNCHANGED <<rows, files>>, NoFault \/ Fault("rollback")
      PROVE  FilesInv'
  <2>1. faults' \in 0 .. MaxFault
    BY <1>2, <1>4, FaultTyped
  <2> QED
    BY <1>1, <1>4, <2>1, FailedTyped, DiscardsHeld DEF Code
<1>5. CASE /\ CreateAllowed(r) /\ CreatedRows(r)
           /\ UNCHANGED <<session, course, transcripts, material, files>> /\ NoFault
           /\ \/ ActiveUploads = {} /\ Answer(r, Ok(Len(uploads) + 1, 0))
              \/ \E u \in ActiveUploads :
                    DiscardThen(r, uploads[u].key, Ok(Len(uploads) + 1, 0))
  BY <1>1, <1>5, CreateCommits DEF NoFault
<1> QED
  BY <1>3, <1>4, <1>5 DEF CreateUpload, CreatedRows

-----------------------------------------------------------------------------
(* append_recording_upload_chunk *)

(* The next chunk is written: only the object of its upload grows. *)
LEMMA ChunkStored ==
    ASSUME FilesInv, NEW u \in DOMAIN uploads, uploads[u].key \in Key, uploads[u].key # NoKey,
           uploads[u].offset \in Nat, ~Locked, uploads[u].offset < Total,
           Holds(uploads[u].key, uploads[u].offset),
           store' = With(uploads[u].key, uploads[u].offset + 1),
           UNCHANGED rows, UNCHANGED ledger, UNCHANGED deleter
    PROVE  /\ FilesTyped' /\ ObjectsFit' /\ DeletersFit'
           /\ \A q \in Request : Spared(q)
           /\ DOMAIN store' = DOMAIN store /\ store'[uploads[u].key] = uploads[u].offset + 1
<1> DEFINE k == uploads[u].key
           n == uploads[u].offset + 1
<1>1. u \in DOMAIN uploads /\ k \in Key /\ k # NoKey /\ uploads[u].offset \in Nat
  OBVIOUS
<1>2. n \in Offset /\ n \in Nat /\ uploads[u].offset <= n /\ k \in DOMAIN store
  BY <1>1, BoundsArePositive DEF Offset, Holds
<1>3. FilesTyped /\ store' = With(k, n)
  BY DEF FilesInv
<1> HIDE DEF n, k
<1>4. /\ DOMAIN store' = DOMAIN store /\ store'[k] = n
      /\ \A x \in DOMAIN store \ {k} : store'[x] = store[x]
      /\ DOMAIN store' \subseteq Key /\ store' \in [DOMAIN store' -> Offset]
  BY <1>1, <1>2, <1>3, WithTyped
<1> USE DEF FilesInv
<1>5. FilesTyped' /\ DeletersFit'
  BY <1>4 DEF FilesTyped, DeletersFit
<1>6. ObjectsFit'
  <2>1. BytesHeld'
    <3>1. UNCHANGED uploads
      BY DEF rows
    <3>2. ASSUME NEW v \in DOMAIN uploads, v # u PROVE uploads[v].key # k
      BY <1>1, <3>2 DEF RowsInv, RowKeysApart, k
    <3>3. store'[uploads[u].key] = n /\ uploads[u].offset <= n
      BY <1>2, <1>4 DEF k
    <3> QED
      BY <1>1, <1>4, <3>1, <3>2, <3>3 DEF ObjectsFit, BytesHeld
  <2>2. ServedObjectsExist'
    BY <1>1, <1>4 DEF ObjectsFit, ServedObjectsExist, Holds, rows, k, RowsInv, RowKeysApart
  <2>3. HiddenObjectsQueued' /\ LedgerFits' /\ SucceededMeansGone'
    BY <1>4 DEF ObjectsFit, HiddenObjectsQueued, LedgerFits, SucceededMeansGone, rows
  <2> QED
    BY <2>1, <2>2, <2>3 DEF ObjectsFit
<1>7. ASSUME NEW q \in Request PROVE Spared(q)
  <2>1. HandFits(q) /\ request[q].at \notin {"appended", "promoted"}
    BY DEF HandsInv, Locked
  <2>2. RowsSpare(q) /\ LedgerSpares(q)
    BY <2>1, RowsUnchangedSpare, LedgerUnchangedSpares DEF rows, RowsInv
  <2>3. StoreSpares(q)
    BY <1>1, <1>4, <2>1 DEF StoreSpares, HandFits, HeldFits, k
  <2> QED
    BY <2>2, <2>3 DEF Spared
<1> QED
  BY <1>4, <1>5, <1>6, <1>7 DEF n, k

LEMMA AppendBytesKeeps ==
    ASSUME FilesInv, NEW r \in Request, AppendBytes(r)
    PROVE  FilesInv'
<1> DEFINE u == request[r].upload
           n == request[r].offset
<1>1. /\ request[r].op = "append" /\ request[r].at = "ready" /\ ~Locked
      /\ UNCHANGED <<deleter, orphans>> /\ faults \in 0 .. MaxFault
  BY DEF AppendBytes, At, FilesInv, HistoryTyped
<1>2. request[r].key = NoKey
  BY <1>1, EmptyHanded
<1>3. ASSUME NEW code \in {"404", "error"}, Refuse(r, code), NoFault PROVE FilesInv'
  BY <1>1, <1>2, <1>3, FaultTyped, Refused DEF Code
<1>4. CASE Expired(r) /\ ExpireNow(r) /\ NoFault
  BY <1>1, <1>4, FaultTyped, Expires DEF Expired
<1>5. ASSUME Open(r), ~AppendRefused(r), store' = With(uploads[u].key, n + 1),
             UNCHANGED <<rows, ledger>>
      PROVE  /\ FilesTyped' /\ ObjectsFit' /\ DeletersFit'
             /\ \A q \in Request : Spared(q)
             /\ DOMAIN store' = DOMAIN store
             /\ uploads[u].key \in DOMAIN store' /\ store'[uploads[u].key] = n + 1
             /\ u \in DOMAIN uploads /\ uploads[u].offset = n
  <2>1. n < Total
    BY <1>1 DEF FilesInv, HandsInv, HandFits, PlaceFits
  <2>2. request[r].seen.offset = n /\ Holds(uploads[u].key, n)
    BY <1>5 DEF AppendRefused
  <2>3. /\ u \in DOMAIN uploads /\ uploads[u].key \in Key /\ uploads[u].key # NoKey
        /\ uploads[u].offset \in Nat /\ n \in Nat /\ n <= uploads[u].offset
    BY <1>1, <1>5, <2>2, UsableFacts DEF Open
  <2>4. uploads[u].offset <= n
    BY <2>2, <2>3 DEF FilesInv, ObjectsFit, BytesHeld, Holds
  <2>5. uploads[u].offset = n
    BY <2>3, <2>4
  <2>6. /\ UNCHANGED rows /\ UNCHANGED ledger /\ UNCHANGED deleter
    BY <1>1, <1>5
  <2> HIDE DEF u, n
  <2>7. /\ FilesTyped' /\ ObjectsFit' /\ DeletersFit'
        /\ \A q \in Request : Spared(q)
        /\ DOMAIN store' = DOMAIN store /\ store'[uploads[u].key] = n + 1
    BY <1>1, <1>5, <2>1, <2>2, <2>3, <2>5, <2>6, ChunkStored
  <2>8. uploads[u].key \in DOMAIN store'
    BY <2>2, <2>7 DEF Holds
  <2> QED
    BY <2>3, <2>5, <2>7, <2>8 DEF u, n
<1>6. RowsInv /\ RowsTyped /\ ActorsTyped /\ HandsInv /\ BrowserFits /\ ObjectsOwned /\ HistoryTyped
  BY DEF FilesInv, RowsInv
<1>7. CASE /\ Open(r) /\ ~AppendRefused(r) /\ Fault("storage")
           /\ store' \in {store, With(uploads[u].key, n + 1)}
           /\ Answer(r, Failed("error"))
           /\ UNCHANGED <<rows, ledger>>
  <2>1. faults' \in 0 .. MaxFault
    BY <1>1, <1>7, FaultTyped
  <2>2. CASE UNCHANGED store
    BY <1>1, <1>2, <1>7, <2>1, <2>2, Refused DEF Refuse, files, Code
  <2>3. CASE store' = With(uploads[u].key, n + 1)
    <3>1. /\ FilesTyped' /\ ObjectsFit' /\ DeletersFit'
          /\ \A q \in Request : Spared(q)
          /\ DOMAIN store' = DOMAIN store
      BY <1>5, <1>7, <2>3
    <3>2. Failed("error") \in Reply /\ Failed("error").code # "ok"
      BY FailedTyped DEF Code
    <3>3. /\ ActorsTyped'
          /\ request'[r] = Idle /\ \A q \in Request \ {r} : request'[q] = request[q]
      BY <1>1, <1>6, <1>7, <3>2, AnswerTyped
    <3>4. RowsInv' /\ BrowserSpared /\ RowsTyped'
      BY <1>6, <1>7, RowsFrame DEF RowsInv
    <3>5. HandsInv'
      BY <1>6, <3>1, <3>3, <3>4, HandsAnswered
    <3>6. BrowserFits'
      BY <1>6, <1>7, <3>2, <3>4, BrowserAnswered
    <3>7. ObjectsOwned'
      <4>1. InHand \subseteq InHand'
        BY <1>1, <3>3 DEF InHand
      <4> QED BY <1>1, <1>6, <1>7, <3>1, <4>1, OwnersFrame
    <3> QED
      BY <1>1, <1>6, <2>1, <3>1, <3>3, <3>4, <3>5, <3>6, <3>7 DEF FilesInv, HistoryTyped
  <2> QED
    BY <1>7, <2>2, <2>3
<1>8. CASE /\ Open(r) /\ ~AppendRefused(r)
           /\ store' = With(uploads[u].key, n + 1)
           /\ Goes(r, "appended", NoKey)
           /\ UNCHANGED <<rows, ledger, browser>> /\ NoFault
  <2>1. /\ FilesTyped' /\ ObjectsFit' /\ DeletersFit'
        /\ \A q \in Request : Spared(q)
        /\ DOMAIN store' = DOMAIN store
        /\ uploads[u].key \in DOMAIN store' /\ store'[uploads[u].key] = n + 1
        /\ u \in DOMAIN uploads /\ uploads[u].offset = n
    BY <1>5, <1>8
  <2>2. /\ request' \in [Request -> Handler]
        /\ request'[r].at = "appended" /\ request'[r].key = NoKey
        /\ request'[r].op = "append" /\ request'[r].upload = u
        /\ request'[r].offset = n
        /\ \A q \in Request \ {r} : request'[q] = request[q]
    BY <1>1, <1>6, <1>8, GoesTyped DEF Place
  <2>3. RowsInv' /\ BrowserSpared /\ RowsTyped' /\ UNCHANGED uploads
    BY <1>6, <1>8, RowsFrame DEF RowsInv, rows
  <2>4. HandsInv'
    <3>1. HandFits(r)
      BY <1>6 DEF HandsInv
    <3>3. AppendedFits(r)'
      <4>1. uploads[u].offset \in Nat
        BY <1>6, <2>1, UploadSequence DEF RowsTyped
      <4> QED
        BY <2>1, <2>2, <2>3, <4>1 DEF AppendedFits
    <3>4. HandFits(r)'
      <4>1. PlaceFits(r)'
        BY <1>1, <2>2, <2>3, <3>1 DEF HandFits, PlaceFits
      <4> QED
        BY <2>2, <3>3, <4>1
        DEF HandFits, HeldFits, Holding, SeenFits, Reading, PromotedFits, DiscardingFits
    <3>5. \A q \in Request \ {r} : HandsApart(r, q)' /\ HandsApart(q, r)'
      BY <1>1, <1>6, <2>2 DEF Locked, HandsApart, Holding, HandsInv, HandFits, PlaceFits
    <3> QED
      BY <1>6, <2>1, <2>2, <2>3, <3>4, <3>5, HandsMoved
  <2>5. BrowserFits'
    BY <1>6, <1>8, <2>2, <2>3, <1>1, BrowserUnmoved DEF BrowserFits
  <2>6. ObjectsOwned'
    <3>1. InHand \subseteq InHand'
      BY <1>1, <2>2 DEF InHand
    <3> QED BY <1>1, <1>6, <1>8, <2>1, <3>1, OwnersFrame
  <2>7. ActorsTyped' /\ HistoryTyped'
    BY <1>1, <1>6, <1>8, <2>2 DEF ActorsTyped, HistoryTyped, NoFault
  <2> QED
    BY <2>1, <2>3, <2>4, <2>5, <2>6, <2>7 DEF FilesInv
<1> QED
  BY <1>3, <1>4, <1>7, <1>8 DEF AppendBytes

(* A handler between its write and its commit is alone there. *)
LEMMA LockedFacts ==
    ASSUME FilesInv, NEW r \in Request, request[r].at \in {"appended", "promoted"}
    PROVE  /\ \A q \in Request \ {r} : request[q].at \notin {"appended", "promoted"}
           /\ request[r].upload \in DOMAIN uploads /\ request[r].upload \in 0 .. MaxUpload
           /\ request[r].upload \in 1 .. Len(uploads)
           /\ uploads[request[r].upload] \in UploadRow
<1> USE DEF FilesInv
<1> DEFINE u == request[r].upload
<1>1. u \in DOMAIN uploads /\ \A q \in Request \ {r} : request[q].at \notin {"appended", "promoted"}
  BY DEF HandsInv, HandsApart, HandFits, AppendedFits, PromotedFits
<1> HIDE DEF u
<1>2. /\ DOMAIN uploads = 1 .. Len(uploads) /\ Len(uploads) \in Nat /\ Len(uploads) <= MaxUpload
      /\ uploads[u] \in UploadRow
  BY <1>1, UploadFacts DEF RowsInv, RowsTyped
<1>3. u \in 1 .. Len(uploads) /\ u \in 0 .. MaxUpload
  BY <1>1, <1>2, BoundsArePositive
<1> QED
  BY <1>1, <1>2, <1>3 DEF u

LEMMA AppendCommitKeeps ==
    ASSUME FilesInv, NEW r \in Request, AppendCommit(r)
    PROVE  FilesInv'
<1> USE DEF FilesInv
<1> DEFINE u == request[r].upload
           n == request[r].offset + 1
           row == [uploads[u] EXCEPT !.offset = n]
<1>1. /\ request[r].op = "append" /\ request[r].at = "appended"
      /\ uploads' = [uploads EXCEPT ![u] = row] /\ Answer(r, Ok(u, n))
      /\ UNCHANGED <<session, course, recording, transcripts, material, replies, store, ledger>>
      /\ UNCHANGED <<deleter, orphans, faults>>
  BY DEF AppendCommit, At, files
<1>2. /\ \A q \in Request \ {r} : request[q].at \notin {"appended", "promoted"}
      /\ u \in DOMAIN uploads /\ u \in 0 .. MaxUpload /\ u \in 1 .. Len(uploads)
      /\ uploads[u] \in UploadRow
  BY <1>1, LockedFacts
<1>3. /\ uploads[u].offset <= request[r].offset /\ request[r].offset < Total
      /\ uploads[u].key \in DOMAIN store => store[uploads[u].key] = n
      /\ uploads[u].status = "ACTIVE" => uploads[u].key \in DOMAIN store
  BY <1>1 DEF HandsInv, HandFits, AppendedFits, PlaceFits
<1>4. n \in Offset /\ n \in Nat /\ uploads[u].offset \in Nat /\ uploads[u].offset <= n
  <2>1. request[r].offset \in Nat
    BY BoundsArePositive DEF ActorsTyped, Handler, Offset
  <2> QED
    BY <1>2, <1>3, <2>1, BoundsArePositive DEF UploadRow, Offset
<1> HIDE DEF u, n
<1>5. /\ row \in UploadRow /\ row.status = uploads[u].status /\ row.key = uploads[u].key
      /\ row.offset = n
  <2> HIDE DEF Offset, Key
  <2> QED BY <1>2, <1>4 DEF UploadRow
<1> HIDE DEF row
<1>6. /\ uploads' \in Seq(UploadRow) /\ Len(uploads') = Len(uploads)
      /\ DOMAIN uploads' = DOMAIN uploads
      /\ uploads'[u] = row /\ \A v \in DOMAIN uploads \ {u} : uploads'[v] = uploads[v]
  <2> HIDE DEF FilesInv
  <2>1. RowsTyped
    BY DEF FilesInv, RowsInv
  <2> QED BY <1>1, <1>2, <1>5, <2>1, UploadReplaced
<1>7. /\ ActiveUploads' = ActiveUploads /\ Completed' = Completed
      /\ \A v \in DOMAIN uploads :
            uploads'[v].key = uploads[v].key /\ uploads'[v].status = uploads[v].status
      /\ uploads'[u].offset = n
  BY <1>5, <1>6 DEF ActiveUploads, Completed
<1>8. RowsInv'
  <2>1. RowsTyped'
    BY <1>1, <1>6 DEF RowsInv, RowsTyped
  <2>2. UploadsFit' /\ RepliesFit' /\ MaterialFits'
    BY <1>1, <1>6, <1>7 DEF RowsInv, UploadsFit, RepliesFit, MaterialFits
  <2>3. RecordingFits'
    BY <1>1, <1>7 DEF RowsInv, RecordingFits
  <2>4. RowKeysApart'
    BY <1>1, <1>6, <1>7 DEF RowsInv, RowKeysApart
  <2> QED BY <2>1, <2>2, <2>3, <2>4 DEF RowsInv
<1>9. Ok(u, n) \in Reply /\ Ok(u, n).upload = u /\ Ok(u, n).offset = n
  BY <1>2, <1>4, OkTyped
<1>10. /\ ActorsTyped'
       /\ request'[r] = Idle /\ \A q \in Request \ {r} : request'[q] = request[q]
  BY <1>1, <1>9, AnswerTyped
<1>11. HandsInv'
  <2>1. ASSUME NEW q \in Request \ {r} PROVE Spared(q)
    <3>1. /\ HandFits(q) /\ Len(uploads) <= Len(uploads')
          /\ \A v \in DOMAIN uploads : uploads[v].offset \in Nat
      BY <1>6, UploadFacts, UploadSequence DEF HandsInv, RowsInv, RowsTyped
    <3>2. RowsSpare(q)
      BY <1>1, <1>2, <1>4, <1>6, <1>7, <3>1 DEF RowsSpare, HandFits, SeenFits
    <3> QED
      BY <1>1, <3>1, <3>2, StoreUnchangedSpares, LedgerUnchangedSpares DEF Spared
  <2> QED
    BY <1>8, <1>10, <2>1, HandsAnswered DEF RowsInv
<1>12. BrowserFits'
  <2>1. BrowserSpared
    <3>1. Len(uploads) \in Nat /\ \A v \in DOMAIN uploads : uploads[v].offset \in Nat
      BY UploadSequence DEF RowsInv, RowsTyped
    <3>2. \A v \in DOMAIN uploads : uploads[v].offset <= uploads'[v].offset
      BY <1>2, <1>3, <1>4, <1>6, <1>7, <3>1
    <3> QED
      BY <1>1, <1>6, <3>1, <3>2 DEF BrowserSpared
  <2>2. u <= Len(uploads') /\ n <= uploads'[u].offset
    BY <1>2, <1>4, <1>6, <1>7
  <2> QED
    BY <1>1, <1>8, <1>9, <2>1, <2>2, BrowserAnswered DEF RowsInv, Completing
<1>13. FilesTyped' /\ HistoryTyped' /\ DeletersFit'
  BY <1>1, DeletersFrame DEF FilesTyped, HistoryTyped, files
<1>14. ObjectsFit'
  <2>1. BytesHeld'
    BY <1>1, <1>2, <1>3, <1>4, <1>6, <1>7 DEF ObjectsFit, BytesHeld
  <2>2. ServedObjectsExist' /\ SucceededMeansGone' /\ HiddenObjectsQueued'
    BY <1>1 DEF ObjectsFit, ServedObjectsExist, SucceededMeansGone, HiddenObjectsQueued, Holds
  <2>3. LedgerFits'
    BY <1>1, <1>6, <1>7 DEF ObjectsFit, LedgerFits
  <2> QED BY <2>1, <2>2, <2>3 DEF ObjectsFit
<1>15. ObjectsOwned'
  <2>1. InHand \subseteq InHand'
    BY <1>1, <1>10 DEF InHand
  <2>2. \A k \in DOMAIN store' : Owned(k) => Owned(k)'
    BY <1>1, <1>6, <1>7, <2>1 DEF Owned
  <2> QED
    BY <1>1, <2>2 DEF ObjectsOwned
<1> QED
  BY <1>8, <1>10, <1>11, <1>12, <1>13, <1>14, <1>15

LEMMA AppendRollbackKeeps ==
    ASSUME FilesInv, NEW r \in Request, AppendRollback(r)
    PROVE  FilesInv'
<1>1. faults' \in 0 .. MaxFault
  BY FaultTyped DEF AppendRollback, FilesInv, HistoryTyped
<1> QED
  BY <1>1, EmptyHanded, Refused DEF AppendRollback, At, Code

-----------------------------------------------------------------------------
(* complete_recording_upload *)

LEMMA ExpireIfDueKeeps ==
    ASSUME FilesInv, NEW r \in Request, ExpireIfDue(r)
    PROVE  FilesInv'
<1> DEFINE hand == [request[r] EXCEPT !.op = "finish", !.at = "received", !.due = {},
                                     !.seen = Unseen]
<1>1. /\ request[r].op = "complete" /\ request[r].at = "ready" /\ ~Locked
      /\ UNCHANGED <<deleter, orphans, faults>> /\ faults' \in 0 .. MaxFault
  BY DEF ExpireIfDue, At, FilesInv, HistoryTyped
<1>2. CASE Refuse(r, "404")
  BY <1>1, <1>2, EmptyHanded, Refused DEF Code
<1>3. CASE Expired(r) /\ ExpireNow(r)
  BY <1>1, <1>3, Expires DEF Expired
<1>4. CASE request' = [request EXCEPT ![r] = hand] /\ UNCHANGED <<rows, files, browser>>
  <2>1. request[r] \in Handler
    BY DEF FilesInv, ActorsTyped
  <2>2. /\ hand \in Handler /\ hand.at = "received" /\ hand.op = "finish"
        /\ hand.upload = request[r].upload /\ hand.offset = request[r].offset
        /\ hand.key = request[r].key
    <3> HIDE DEF Key, Reply, Offset, UploadId
    <3> QED BY <2>1, UnseenTyped DEF Handler, Place, Operation
  <2> HIDE DEF hand
  <2> QED
    BY <1>1, <1>4, <2>2, Reads
<1> QED
  BY <1>2, <1>3, <1>4 DEF ExpireIfDue

(* An answer that is replayed was given when the recording was UPLOADED. *)
LEMMA ReplayKeeps ==
    ASSUME FilesInv, NEW r \in Request, Replay(r)
    PROVE  FilesInv'
<1> DEFINE u == request[r].upload
<1>1. /\ request[r].op = "finish" /\ request[r].at = "received" /\ Answer(r, Ok(u, Total))
      /\ UNCHANGED <<rows, files, deleter, orphans, faults>> /\ faults \in 0 .. MaxFault
  BY DEF Replay, At, FilesInv, HistoryTyped
<1>2. u \in 0 .. MaxUpload /\ recording.status \in {"UPLOADED", "GONE"}
  BY DEF Replay, FilesInv, ActorsTyped, Handler, RowsInv, RepliesFit
<1>3. Ok(u, Total) \in Reply
  BY <1>2, KeyFacts, OkTyped
<1> HIDE DEF u
<1> QED
  BY <1>1, <1>2, <1>3, EmptyHanded, Replied DEF Completing

(* The object is moved to its final key.  Its manifest counts Total chunks, *)
(* so nobody counts on the temporary key any more.                          *)
LEMMA PromoteMoves ==
    ASSUME FilesInv, NEW r \in Request, At(r, "finish", "ready"), ~Locked,
           Refusal(r) = "ok", HasFresh,
           store' = [k \in (DOMAIN store \cup {Fresh}) \ {uploads[request[r].upload].key} |->
                        IF k = Fresh THEN Total ELSE store[k]],
           Goes(r, "promoted", Fresh),
           UNCHANGED <<rows, ledger, browser, orphans, deleter, faults>>
    PROVE  FilesInv'
<1> USE DEF FilesInv
<1> DEFINE u == request[r].upload
           k == uploads[u].key
<1>1. /\ request[r].op = "finish" /\ request[r].at = "ready"
      /\ Usable(r) /\ request[r].seen.offset = Total /\ Holds(k, Total)
  BY DEF At, Refusal
<1>2. u \in DOMAIN uploads /\ k # NoKey /\ uploads[u].offset = Total /\ session # "DELETED"
  <2>1. /\ u \in DOMAIN uploads /\ k # NoKey /\ session # "DELETED"
        /\ uploads[u].offset \in Offset /\ request[r].seen.offset <= uploads[u].offset
    BY <1>1, UsableFacts
  <2> QED
    BY <1>1, <2>1, BoundsArePositive DEF Offset
<1>3. /\ Fresh \in Key /\ Fresh # NoKey /\ Fresh \notin DOMAIN store /\ Fresh \notin DOMAIN ledger
      /\ Fresh # recording.key /\ Fresh # material.key
      /\ \A v \in DOMAIN uploads : uploads[v].key # Fresh
      /\ \A q \in Request : request[q].key # Fresh
      /\ \A d \in Deleter : deleter[d].key # Fresh
  BY FreshIsNew
<1>4. /\ DOMAIN store' = (DOMAIN store \cup {Fresh}) \ {k} /\ store'[Fresh] = Total /\ Fresh # k
      /\ \A x \in DOMAIN store \ {k} : x \in DOMAIN store' /\ store'[x] = store[x]
  BY <1>2, <1>3
<1>5. FilesTyped'
  <2> HIDE DEF u, k
  <2>1. \A x \in DOMAIN store' : x \in Key /\ store'[x] \in Offset
    BY <1>3, <1>4, KeyFacts DEF FilesTyped
  <2>2. store' = [x \in DOMAIN store' |-> store'[x]]
    BY DEF u, k
  <2> QED BY <2>1, <2>2 DEF FilesTyped
<1>6. /\ request' \in [Request -> Handler]
      /\ request'[r].at = "promoted" /\ request'[r].key = Fresh
      /\ request'[r].op = request[r].op /\ request'[r].upload = u
      /\ request'[r].offset = request[r].offset
      /\ \A q \in Request \ {r} : request'[q] = request[q]
  BY <1>3, GoesTyped DEF Place
<1> HIDE DEF u, k
<1>7. RowsInv' /\ BrowserSpared /\ ActorsTyped' /\ HistoryTyped'
  BY <1>6, RowsFrame DEF ActorsTyped, HistoryTyped
<1>8. UNCHANGED <<session, course, recording, uploads, material>>
  BY DEF rows
<1>9. DeletersFit'
  BY <1>3, <1>4 DEF DeletersFit
<1>10. ObjectsFit'
  <2>1. BytesHeld'
    <3>1. ASSUME NEW v \in DOMAIN uploads, v # u
          PROVE  uploads[v].key # Fresh /\ uploads[v].key # k
      BY <1>2, <1>3, <3>1 DEF RowsInv, RowKeysApart, k
    <3>2. uploads[u].key \notin DOMAIN store' /\ ~(uploads[u].offset < Total)
      BY <1>2, <1>4, BoundsArePositive DEF k
    <3> QED
      BY <1>4, <1>8, <3>1, <3>2 DEF ObjectsFit, BytesHeld
  <2>2. ServedObjectsExist'
    BY <1>2, <1>4, <1>8 DEF ObjectsFit, ServedObjectsExist, Holds, RowsInv, RowKeysApart, k
  <2>3. HiddenObjectsQueued' /\ LedgerFits' /\ SucceededMeansGone'
    BY <1>3, <1>4, <1>8 DEF ObjectsFit, HiddenObjectsQueued, LedgerFits, SucceededMeansGone
  <2> QED BY <2>1, <2>2, <2>3 DEF ObjectsFit
<1>11. HandsInv'
  <2>1. ASSUME NEW q \in Request \ {r} PROVE Spared(q)
    <3>1. HandFits(q) /\ request[q].at \notin {"appended", "promoted"}
      BY DEF HandsInv, Locked
    <3>2. RowsSpare(q) /\ LedgerSpares(q)
      BY <1>8, <3>1, RowsUnchangedSpare, LedgerUnchangedSpares DEF RowsInv
    <3>3. StoreSpares(q)
      BY <1>2, <1>4, <3>1 DEF StoreSpares, HandFits, HeldFits, k
    <3> QED BY <3>2, <3>3 DEF Spared
  <2>2. HandFits(r)'
    <3>1. PlaceFits(r)'
      BY <1>1, <1>3, <1>6, <1>8 DEF HandsInv, HandFits, PlaceFits, u
    <3>2. HeldFits(r)'
      BY <1>1, <1>3, <1>4, <1>6, <1>8 DEF HeldFits, Holding
    <3>3. PromotedFits(r)'
      BY <1>1, <1>2, <1>4, <1>6, <1>8 DEF PromotedFits, k
    <3> QED
      BY <1>6, <3>1, <3>2, <3>3 DEF HandFits, SeenFits, Reading, AppendedFits, DiscardingFits
  <2>3. \A q \in Request \ {r} : HandsApart(r, q)' /\ HandsApart(q, r)'
    BY <1>3, <1>6 DEF HandsApart, Holding, Locked
  <2> QED
    BY <1>6, <1>7, <2>1, <2>2, <2>3, HandsMoved DEF RowsInv
<1>12. BrowserFits'
  BY <1>6, <1>7, BrowserUnmoved DEF BrowserFits, RowsInv
<1>13. ObjectsOwned'
  <2>1. InHand \subseteq InHand' /\ Fresh \in InHand'
    BY <1>1, <1>6 DEF InHand
  <2> QED BY <1>4, <2>1, OwnersFrame
<1> QED
  BY <1>5, <1>7, <1>9, <1>10, <1>11, <1>12, <1>13

(* The old link stayed: the new one is nobody's, and counted as such. *)
LEMMA PromoteFails ==
    ASSUME FilesInv, NEW r \in Request, At(r, "finish", "ready"), HasFresh,
           store' = With(Fresh, Total), orphans' = orphans \cup {Fresh},
           Answer(r, Failed("error")), UNCHANGED <<rows, ledger, deleter>>,
           faults' \in 0 .. MaxFault
    PROVE  FilesInv'
<1> USE DEF FilesInv
<1>1. Fresh \in Key /\ Fresh \notin DOMAIN store
  BY FreshIsNew
<1>2. /\ DOMAIN store' = DOMAIN store \cup {Fresh} /\ store'[Fresh] = Total
      /\ store' = [k \in DOMAIN store' |-> store'[k]]
      /\ \A k \in DOMAIN store \ {Fresh} : store'[k] = store[k]
  BY <1>1, KeyFacts, WithTyped
<1>3. FilesTyped' /\ ObjectsFit' /\ DeletersFit' /\ \A q \in Request : Spared(q)
  BY <1>2, KeyFacts, FreshStored
<1>4. Failed("error") \in Reply /\ Failed("error").code # "ok"
  BY FailedTyped DEF Code
<1>5. /\ ActorsTyped' /\ HistoryTyped'
      /\ request'[r] = Idle /\ \A q \in Request \ {r} : request'[q] = request[q]
  BY <1>1, <1>4, AnswerTyped DEF HistoryTyped
<1>6. RowsInv' /\ BrowserSpared
  BY RowsFrame
<1>7. HandsInv'
  BY <1>3, <1>5, <1>6, HandsAnswered DEF RowsInv
<1>8. BrowserFits'
  BY <1>4, <1>6, BrowserAnswered DEF RowsInv
<1>9. ObjectsOwned'
  <2>1. InHand \subseteq InHand'
    BY <1>5 DEF InHand, At
  <2> QED BY <1>2, <2>1, OwnersFrame
<1> QED
  BY <1>3, <1>5, <1>6, <1>7, <1>8, <1>9

LEMMA PromoteKeeps ==
    ASSUME FilesInv, NEW r \in Request, Promote(r)
    PROVE  FilesInv'
<1> DEFINE u == request[r].upload
<1>1. /\ At(r, "finish", "ready") /\ ~Locked /\ UNCHANGED deleter
      /\ request[r].key = NoKey /\ faults \in 0 .. MaxFault
  BY EmptyHanded DEF Promote, At, FilesInv, HistoryTyped
<1>2. CASE Refusal(r) # "ok" /\ Refuse(r, Refusal(r)) /\ UNCHANGED orphans /\ NoFault
  <2>1. Refusal(r) \in {"404", "error"}
    BY <1>2 DEF Refusal
  <2> QED
    BY <1>1, <1>2, <2>1, FaultTyped, Refused DEF Code
<1>3. CASE /\ Refusal(r) = "ok" /\ HasFresh
           /\ store' = [k \in (DOMAIN store \cup {Fresh}) \ {uploads[u].key} |->
                           IF k = Fresh THEN Total ELSE store[k]]
           /\ Goes(r, "promoted", Fresh)
           /\ UNCHANGED <<rows, ledger, browser, orphans>> /\ NoFault
  BY <1>1, <1>3, PromoteMoves DEF NoFault
<1>4. CASE /\ HasFresh /\ Fault("storage") /\ store' = With(Fresh, Total)
           /\ orphans' = orphans \cup {Fresh} /\ Answer(r, Failed("error"))
           /\ UNCHANGED <<rows, ledger>>
  BY <1>1, <1>4, FaultTyped, PromoteFails
<1> QED
  BY <1>2, <1>3, <1>4 DEF Promote

LEMMA CompleteUploadKeeps ==
    ASSUME FilesInv, NEW r \in Request, CompleteUpload(r)
    PROVE  FilesInv'
<1> USE DEF FilesInv
<1> DEFINE u == request[r].upload
           key == request[r].key
           retention == IF session = "COMPLETED" THEN "running" ELSE recording.retention
<1>1. /\ request[r].op = "finish" /\ request[r].at = "promoted" /\ MayBecomeUploaded
      /\ recording' = [recording EXCEPT !.status = "UPLOADED", !.key = key, !.retention = retention]
      /\ uploads' = InStatus(u, "COMPLETED") /\ transcripts' = transcripts + 1
      /\ replies' = [replies EXCEPT ![request[r].round].completed = TRUE]
      /\ Answer(r, Ok(u, Total))
      /\ UNCHANGED <<session, course, material, store, ledger, deleter, orphans, faults>>
  BY DEF CompleteUpload, At, files
<1>2. /\ \A q \in Request \ {r} : request[q].at \notin {"appended", "promoted"}
      /\ u \in DOMAIN uploads /\ u \in 0 .. MaxUpload
      /\ recording.status \notin {"UPLOADED", "FAILED", "GONE"} /\ session # "DELETED"
      /\ recording.key = NoKey /\ ~recording.deleted
  BY <1>1, LockedFacts
  DEF HandsInv, HandFits, PromotedFits, MayBecomeUploaded, RowsInv, RecordingFits
<1>3. HandFits(r) /\ Holding(r) /\ request[r] \in Handler
  BY <1>1 DEF HandsInv, Holding, ActorsTyped
<1>4. /\ key \in Key /\ key # NoKey /\ Holds(key, Total) /\ key \notin DOMAIN ledger
      /\ key # material.key /\ \A v \in DOMAIN uploads : key # uploads[v].key
      /\ uploads[u].key \notin DOMAIN store
  BY <1>1, <1>3 DEF HandFits, PlaceFits, HeldFits, PromotedFits, Handler, Holds, Holding
<1>5. transcripts = 0 /\ Completed = {}
  BY <1>2 DEF RowsInv, RecordingFits
<1>6. /\ recording' \in Recording /\ recording'.status = "UPLOADED" /\ recording'.key = key
      /\ recording'.deleted = recording.deleted
  <2>1. recording \in Recording /\ retention \in {"none", "running", "due"}
    BY DEF RowsInv, RowsTyped, Recording
  <2> HIDE DEF retention, key
  <2> QED BY <1>1, <1>4, <2>1 DEF Recording, RecordingStatus
<1>7. /\ replies' \in [UploadId -> [created : 0 .. MaxUpload, completed : BOOLEAN]]
      /\ \A m \in UploadId : replies'[m].created = replies[m].created
  <2>1. replies \in [UploadId -> [created : 0 .. MaxUpload, completed : BOOLEAN]]
    BY DEF RowsInv, RowsTyped
  <2> QED BY <1>1, <2>1
<1> HIDE DEF u, key
<1>8. /\ uploads' \in Seq(UploadRow) /\ Len(uploads') = Len(uploads)
      /\ DOMAIN uploads' = DOMAIN uploads
      /\ uploads'[u].status = "COMPLETED" /\ uploads'[u].key = uploads[u].key
      /\ uploads'[u].offset = uploads[u].offset
      /\ \A v \in DOMAIN uploads \ {u} : uploads'[v] = uploads[v]
  <2> HIDE DEF FilesInv
  <2>1. RowsTyped
    BY DEF FilesInv, RowsInv
  <2> QED BY <1>1, <1>2, <2>1, InStatusFacts
<1>9. /\ ActiveUploads' = ActiveUploads \ {u} /\ Completed' = {u}
      /\ \A v \in DOMAIN uploads :
            uploads'[v].key = uploads[v].key /\ uploads'[v].offset = uploads[v].offset
  BY <1>2, <1>5, <1>8 DEF ActiveUploads, Completed
<1>10. RowsInv'
  <2>1. RowsTyped'
    BY <1>1, <1>5, <1>6, <1>7, <1>8 DEF RowsInv, RowsTyped
  <2>2. UploadsFit' /\ MaterialFits'
    BY <1>1, <1>2, <1>8, <1>9 DEF RowsInv, UploadsFit, MaterialFits
  <2>3. RecordingFits'
    BY <1>1, <1>2, <1>4, <1>5, <1>6, <1>9 DEF RowsInv, RecordingFits
  <2>4. RepliesFit'
    BY <1>6, <1>7, <1>8 DEF RowsInv, RepliesFit
  <2>5. RowKeysApart'
    <3>1. RowKeysApart /\ UNCHANGED material
      BY <1>1 DEF RowsInv
    <3> HIDE DEF FilesInv
    <3> QED
      BY <1>4, <1>6, <1>8, <1>9, <3>1 DEF RowKeysApart
  <2> QED BY <2>1, <2>2, <2>3, <2>4, <2>5 DEF RowsInv
<1>11. Ok(u, Total) \in Reply
  BY <1>2, KeyFacts, OkTyped
<1>12. /\ ActorsTyped'
       /\ request'[r] = Idle /\ \A q \in Request \ {r} : request'[q] = request[q]
  BY <1>1, <1>11, AnswerTyped
<1>13. HandsInv'
  <2>1. ASSUME NEW q \in Request \ {r} PROVE Spared(q)
    <3>1. /\ HandFits(q) /\ request[q].key # key /\ Len(uploads) <= Len(uploads')
          /\ \A v \in DOMAIN uploads : uploads[v].offset \in Nat
      BY <1>3, <1>8, UploadFacts, UploadSequence DEF HandsInv, HandsApart, RowsInv, RowsTyped, key
    <3>2. RowsSpare(q)
      BY <1>1, <1>2, <1>6, <1>8, <1>9, <3>1 DEF RowsSpare, HandFits, SeenFits
    <3> QED
      BY <1>1, <3>1, <3>2, StoreUnchangedSpares, LedgerUnchangedSpares DEF Spared
  <2> QED
    BY <1>10, <1>12, <2>1, HandsAnswered DEF RowsInv
<1>14. BrowserFits'
  <2>1. BrowserSpared
    <3>1. Len(uploads) \in Nat /\ \A v \in DOMAIN uploads : uploads[v].offset \in Nat
      BY UploadSequence DEF RowsInv, RowsTyped
    <3> QED
      BY <1>6, <1>8, <1>9, <3>1 DEF BrowserSpared
  <2> QED
    BY <1>1, <1>6, <1>10, <1>11, <2>1, BrowserAnswered DEF RowsInv, Completing
<1>15. FilesTyped' /\ HistoryTyped' /\ DeletersFit'
  BY <1>1, DeletersFrame DEF FilesTyped, HistoryTyped, files
<1>16. ObjectsFit'
  <2>1. BytesHeld' /\ SucceededMeansGone'
    BY <1>1, <1>8, <1>9 DEF ObjectsFit, BytesHeld, SucceededMeansGone
  <2>2. ServedObjectsExist' /\ HiddenObjectsQueued'
    BY <1>1, <1>2, <1>4, <1>6 DEF ObjectsFit, ServedObjectsExist, HiddenObjectsQueued, Holds
  <2>3. LedgerFits'
    BY <1>1, <1>4, <1>6, <1>8, <1>9 DEF ObjectsFit, LedgerFits
  <2> QED BY <2>1, <2>2, <2>3 DEF ObjectsFit
<1>17. ObjectsOwned'
  <2>1. \A k \in InHand : k \in InHand' \/ k = key
    BY <1>12 DEF InHand, key
  <2>2. ASSUME NEW k \in DOMAIN store', Owned(k) PROVE Owned(k)'
    <3>1. k # NoKey
      BY <1>1, KeyFacts DEF FilesTyped
    <3> QED
      BY <1>1, <1>2, <1>4, <1>6, <1>8, <2>1, <2>2, <3>1 DEF Owned
  <2> QED
    BY <1>1, <1>2, <2>2 DEF ObjectsOwned
<1> QED
  BY <1>10, <1>12, <1>13, <1>14, <1>15, <1>16, <1>17

(* The rows refuse the flush: the moved object goes. *)
LEMMA CompleteRefusedKeeps ==
    ASSUME FilesInv, NEW r \in Request, CompleteRefused(r)
    PROVE  FilesInv'
<1>1. faults' \in 0 .. MaxFault
  BY DEF CompleteRefused, FilesInv, HistoryTyped
<1>2. /\ Failed("error") \in Reply /\ Failed("error").code # "ok" /\ Failed("error").upload = 0
      /\ 0 <= Len(uploads)
  BY FailedTyped, UploadFacts DEF Code, FilesInv, RowsInv
<1> QED
  BY <1>1, <1>2, DiscardsHeld DEF CompleteRefused, At, Holding

LEMMA CompleteRollbackKeeps ==
    ASSUME FilesInv, NEW r \in Request, CompleteRollback(r)
    PROVE  FilesInv'
<1>1. faults' \in 0 .. MaxFault
  BY FaultTyped DEF CompleteRollback, FilesInv, HistoryTyped
<1>2. /\ Failed("error") \in Reply /\ Failed("error").code # "ok" /\ Failed("error").upload = 0
      /\ 0 <= Len(uploads)
  BY FailedTyped, UploadFacts DEF Code, FilesInv, RowsInv
<1> QED
  BY <1>1, <1>2, DiscardsHeld DEF CompleteRollback, At, Holding

-----------------------------------------------------------------------------
(* A PDF *)

(* An idle handler takes up a request; what the others have stays theirs. *)
LEMMA Received ==
    ASSUME FilesInv, NEW r \in Request, request[r].at = "idle", NEW h \in Handler,
           h.at = "received", h.op # "none", h.key = NoKey, h.upload <= Len(uploads),
           h.op = "append" => h.offset < Total,
           request' = [request EXCEPT ![r] = h],
           UNCHANGED <<rows, files, deleter, orphans>>
    PROVE  /\ request' \in [Request -> Handler] /\ request'[r] = h
           /\ \A q \in Request \ {r} : request'[q] = request[q]
           /\ FilesTyped' /\ ObjectsFit' /\ DeletersFit' /\ RowsInv' /\ BrowserSpared
           /\ HandsInv' /\ ObjectsOwned'
<1> USE DEF FilesInv
<1>1. /\ request' \in [Request -> Handler] /\ request'[r] = h
      /\ \A q \in Request \ {r} : request'[q] = request[q]
  BY DEF ActorsTyped
<1>2. FilesTyped' /\ ObjectsFit' /\ DeletersFit' /\ RowsInv' /\ BrowserSpared
  BY ObjectsFrame, DeletersFrame, RowsFrame
<1>3. HandsInv'
  <2>1. HandFits(r)'
    BY <1>1 DEF rows, HandFits, PlaceFits, HeldFits, Holding, SeenFits, Reading, AppendedFits,
                PromotedFits, DiscardingFits
  <2>2. \A q \in Request \ {r} : HandsApart(r, q)' /\ HandsApart(q, r)'
    BY <1>1 DEF HandsApart, Holding, HandsInv, HandFits, PlaceFits
  <2> QED
    BY <1>1, <1>2, <2>1, <2>2, NothingChangedSpares, HandsMoved DEF HandsInv, RowsInv
<1>4. ObjectsOwned'
  <2>1. InHand \subseteq InHand'
    BY <1>1 DEF InHand
  <2> QED BY <2>1, OwnersFrame DEF files
<1> QED
  BY <1>1, <1>2, <1>3, <1>4

LEMMA ReceivePdfKeeps ==
    ASSUME FilesInv, NEW r \in Request, ReceivePdf(r)
    PROVE  FilesInv'
<1> DEFINE h == [Idle EXCEPT !.op = "material", !.at = "received"]
<1>1. /\ h \in Handler /\ h.op = "material" /\ h.at = "received" /\ h.key = NoKey
      /\ h.upload = 0
  BY IdleTyped DEF Handler, Operation, Place
<1>2. 0 <= Len(uploads)
  BY UploadFacts DEF FilesInv, RowsInv
<1>3. /\ request' = [request EXCEPT ![r] = h] /\ request[r].at = "idle"
      /\ UNCHANGED <<rows, files, deleter, browser, orphans, faults>>
  BY DEF ReceivePdf
<1> HIDE DEF h
<1>4. /\ request' \in [Request -> Handler] /\ request'[r] = h
      /\ \A q \in Request \ {r} : request'[q] = request[q]
      /\ FilesTyped' /\ ObjectsFit' /\ DeletersFit' /\ RowsInv' /\ BrowserSpared
      /\ HandsInv' /\ ObjectsOwned'
  BY <1>1, <1>2, <1>3, Received
<1>5. ActorsTyped' /\ HistoryTyped'
  BY <1>3, <1>4 DEF FilesInv, ActorsTyped, HistoryTyped
<1>6. BrowserFits'
  <2>1. browser.at = "waiting" => browser.request # r
    BY <1>3 DEF FilesInv, BrowserFits, HandsInv, HandFits, PlaceFits
  <2> QED
    BY <1>3, <1>4, <2>1, BrowserUnmoved DEF FilesInv, BrowserFits, RowsInv
<1> QED
  BY <1>4, <1>5, <1>6 DEF FilesInv

LEMMA StorePdfKeeps ==
    ASSUME FilesInv, NEW r \in Request, StorePdf(r)
    PROVE  FilesInv'
<1>1. /\ request[r].op = "material" /\ request[r].at = "received" /\ HasFresh
      /\ store' = With(Fresh, Total) /\ Goes(r, "stored", Fresh)
      /\ UNCHANGED <<rows, ledger, deleter, browser, orphans, faults>>
  BY DEF StorePdf, At
<1>2. Fresh \in Key /\ "stored" \in Place /\ ActorsTyped
  BY <1>1, FreshIsNew DEF Place, FilesInv
<1>3. /\ request' \in [Request -> Handler]
      /\ request'[r].at = "stored" /\ request'[r].key = Fresh
      /\ request'[r].op = request[r].op /\ request'[r].upload = request[r].upload
      /\ request'[r].offset = request[r].offset
      /\ \A q \in Request \ {r} : request'[q] = request[q]
  BY <1>1, <1>2, GoesTyped
<1> QED
  BY <1>1, <1>3, KeyFacts, StoresFresh

LEMMA PdfAttached ==
    ASSUME FilesInv, NEW r \in Request, At(r, "material", "stored"), ~Locked, AttachAllowed,
           material' = [status |-> "attached", key |-> request[r].key], Answer(r, Ok(0, 0)),
           UNCHANGED <<session, course, recording, uploads, transcripts, replies>>,
           UNCHANGED <<files, deleter, orphans, faults>>
    PROVE  FilesInv'
<1> USE DEF FilesInv
<1> DEFINE key == request[r].key
<1>1. HandFits(r) /\ Holding(r) /\ request[r] \in Handler /\ request[r].op = "material"
  BY DEF HandsInv, Holding, ActorsTyped, At
<1>2. /\ key \in Key /\ key # NoKey /\ Holds(key, Total) /\ key \notin DOMAIN ledger
      /\ key # recording.key /\ \A v \in DOMAIN uploads : key # uploads[v].key
  BY <1>1 DEF HandFits, PlaceFits, HeldFits, Handler, Holds, Holding
<1>3. /\ material.status = "none" /\ material.key = NoKey /\ session = "COMPLETED" /\ course = "active"
  BY DEF AttachAllowed, Member, RowsInv, MaterialFits
<1>4. /\ material' \in Material /\ material'.status = "attached" /\ material'.key = key
      /\ UNCHANGED <<session, course, recording, uploads, transcripts, replies, store, ledger>>
  BY <1>2 DEF Material, files
<1> HIDE DEF key
<1>5. RowsInv' /\ BrowserSpared
  <2>1. RowsTyped' /\ UploadsFit' /\ RecordingFits' /\ RepliesFit' /\ MaterialFits'
    BY <1>2, <1>4
    DEF RowsInv, RowsTyped, UploadsFit, RecordingFits, RepliesFit, MaterialFits, ActiveUploads, Completed
  <2>2. RowKeysApart'
    BY <1>2, <1>4 DEF RowsInv, RowKeysApart
  <2>3. BrowserSpared
    <3>1. Len(uploads) \in Nat /\ \A v \in DOMAIN uploads : uploads[v].offset \in Nat
      BY UploadSequence DEF RowsInv, RowsTyped
    <3> QED BY <1>4, <3>1 DEF BrowserSpared
  <2> QED BY <2>1, <2>2, <2>3 DEF RowsInv
<1>6. /\ Ok(0, 0) \in Reply /\ Ok(0, 0).upload = 0 /\ Ok(0, 0).offset = 0
      /\ 0 \notin DOMAIN uploads /\ 0 <= Len(uploads)
  BY UploadFacts, KeyFacts, OkTyped, BoundsArePositive DEF RowsInv
<1>7. /\ ActorsTyped'
      /\ request'[r] = Idle /\ \A q \in Request \ {r} : request'[q] = request[q]
  BY <1>6, AnswerTyped
<1>8. HandsInv'
  <2>1. ASSUME NEW q \in Request \ {r} PROVE Spared(q)
    <3>1. /\ HandFits(q) /\ request[q].key # key /\ request[q].at \notin {"appended", "promoted"}
          /\ Len(uploads) <= Len(uploads') /\ \A v \in DOMAIN uploads : uploads[v].offset \in Nat
      BY <1>1, <1>4, UploadFacts, UploadSequence
      DEF HandsInv, HandsApart, Locked, RowsInv, RowsTyped, key
    <3>2. RowsSpare(q)
      BY <1>4, <3>1 DEF RowsSpare, HandFits, SeenFits
    <3> QED
      BY <1>4, <3>1, <3>2, StoreUnchangedSpares, LedgerUnchangedSpares DEF Spared
  <2> QED BY <1>5, <1>7, <2>1, HandsAnswered DEF RowsInv
<1>9. BrowserFits'
  BY <1>1, <1>4, <1>5, <1>6, BrowserAnswered DEF RowsInv, Completing
<1>10. FilesTyped' /\ HistoryTyped' /\ DeletersFit'
  BY <1>4, DeletersFrame DEF FilesTyped, HistoryTyped
<1>11. ObjectsFit'
  <2>1. BytesHeld' /\ SucceededMeansGone'
    BY <1>4 DEF ObjectsFit, BytesHeld, SucceededMeansGone
  <2>2. ServedObjectsExist' /\ HiddenObjectsQueued' /\ LedgerFits'
    BY <1>2, <1>3, <1>4
    DEF ObjectsFit, ServedObjectsExist, HiddenObjectsQueued, LedgerFits, Holds
  <2> QED BY <2>1, <2>2 DEF ObjectsFit
<1>12. ObjectsOwned'
  <2>1. \A k \in InHand : k \in InHand' \/ k = key
    BY <1>7 DEF InHand, key
  <2>2. ASSUME NEW k \in DOMAIN store', Owned(k) PROVE Owned(k)'
    <3>1. k # NoKey
      BY <1>4, KeyFacts DEF FilesTyped
    <3> QED BY <1>3, <1>4, <2>1, <2>2, <3>1 DEF Owned
  <2> QED BY <1>3, <1>4, <2>2 DEF ObjectsOwned
<1> QED
  BY <1>5, <1>7, <1>8, <1>9, <1>10, <1>11, <1>12

LEMMA AttachPdfKeeps ==
    ASSUME FilesInv, NEW r \in Request, AttachPdf(r)
    PROVE  FilesInv'
<1>1. /\ At(r, "material", "stored") /\ ~Locked /\ Holding(r)
      /\ UNCHANGED <<files, deleter, orphans>> /\ faults \in 0 .. MaxFault
  BY DEF AttachPdf, At, Holding, FilesInv, HistoryTyped
<1>2. CASE /\ AttachAllowed
           /\ material' = [status |-> "attached", key |-> request[r].key]
           /\ Answer(r, Ok(0, 0))
           /\ UNCHANGED <<session, course, recording, uploads, transcripts, replies>> /\ NoFault
  BY <1>1, <1>2, PdfAttached DEF NoFault
<1>3. CASE /\ NoFault \/ Fault("rollback")
           /\ DiscardThen(r, request[r].key, Failed("error"))
           /\ UNCHANGED rows
  <2>1. faults' \in 0 .. MaxFault
    BY <1>1, <1>3, FaultTyped
  <2>2. /\ Failed("error") \in Reply /\ Failed("error").code # "ok" /\ Failed("error").upload = 0
        /\ 0 <= Len(uploads)
    BY FailedTyped, UploadFacts DEF Code, FilesInv, RowsInv
  <2> QED
    BY <1>1, <1>3, <2>1, <2>2, DiscardsHeld
<1> QED
  BY <1>2, <1>3 DEF AttachPdf

(* Rows enter the ledger: none of them is held, and none is of an upload. *)
LEMMA QueuedSpares ==
    ASSUME FilesInv, NEW K \in SUBSET Key, K \subseteq {recording.key, material.key},
           ledger' = Queued(K), UNCHANGED store
    PROVE  /\ FilesTyped' /\ SucceededMeansGone'
           /\ DOMAIN ledger' = DOMAIN ledger \cup K
           /\ \A q \in Request : LedgerSpares(q) /\ StoreSpares(q)
           /\ \A u \in DOMAIN uploads : uploads[u].key # NoKey => uploads[u].key \notin DOMAIN ledger'
<1>1. /\ DOMAIN ledger' = DOMAIN ledger \cup K
      /\ \A k \in DOMAIN ledger : ledger'[k] = ledger[k]
      /\ \A k \in K \ DOMAIN ledger : ledger'[k].state = "PENDING"
      /\ DOMAIN ledger' \subseteq Key /\ ledger' \in [DOMAIN ledger' -> LedgerRow]
  BY QueuedTyped DEF FilesInv
<1> USE DEF FilesInv
<1>2. FilesTyped' /\ SucceededMeansGone'
  BY <1>1 DEF FilesTyped, ObjectsFit, SucceededMeansGone
<1>3. \A q \in Request : LedgerSpares(q) /\ StoreSpares(q)
  BY <1>1, StoreUnchangedSpares DEF LedgerSpares, HandsInv, HandFits, HeldFits
<1>4. \A u \in DOMAIN uploads : uploads[u].key # NoKey => uploads[u].key \notin DOMAIN ledger'
  BY <1>1 DEF ObjectsFit, LedgerFits, RowsInv, RowKeysApart
<1> QED
  BY <1>1, <1>2, <1>3, <1>4

LEMMA DetachPdfKeeps ==
    ASSUME FilesInv, NEW r \in Request, DetachPdf(r)
    PROVE  FilesInv'
<1> USE DEF FilesInv
<1> DEFINE key == material.key
           h == [Idle EXCEPT !.op = "material", !.at = "discarding", !.key = key]
<1>1. /\ request[r].at = "idle" /\ ~Locked /\ session = "COMPLETED" /\ material.status = "attached"
      /\ course = "active"
      /\ material' = [material EXCEPT !.status = "detached"] /\ ledger' = Queued({key})
      /\ request' = [request EXCEPT ![r] = h]
      /\ UNCHANGED <<session, course, recording, uploads, transcripts, replies, store>>
      /\ UNCHANGED <<deleter, browser, orphans, faults>>
  BY DEF DetachPdf, Member
<1>2. key \in Key /\ key # NoKey /\ material \in Material
  BY <1>1 DEF RowsInv, RowsTyped, MaterialFits, Material
<1>3. /\ h \in Handler /\ h.op = "material" /\ h.at = "discarding" /\ h.key = key
      /\ h.upload = 0 /\ h.reply = Idle.reply
  <2> HIDE DEF key, Key
  <2> QED BY <1>2, IdleTyped DEF Handler, Operation, Place
<1>4. Idle.reply.code = "error" /\ Idle.reply.upload = 0
  BY DEF Idle, Failed
<1> HIDE DEF h, key
<1>5. /\ material' \in Material /\ material'.status = "detached" /\ material'.key = key
  BY <1>1, <1>2 DEF Material, key
<1>6. /\ request' \in [Request -> Handler] /\ request'[r] = h
      /\ \A q \in Request \ {r} : request'[q] = request[q]
  BY <1>1, <1>3 DEF ActorsTyped
<1>7. /\ key # recording.key /\ \A u \in DOMAIN uploads : key # uploads[u].key
  BY <1>1, <1>2 DEF RowsInv, RowKeysApart, UploadsFit, key
<1>8. /\ FilesTyped' /\ SucceededMeansGone'
      /\ DOMAIN ledger' = DOMAIN ledger \cup {key}
      /\ \A q \in Request : LedgerSpares(q) /\ StoreSpares(q)
  <2> HIDE DEF FilesInv
  <2>1. {key} \in SUBSET Key /\ {key} \subseteq {recording.key, material.key}
    BY <1>2 DEF key
  <2> QED BY <1>1, <2>1, QueuedSpares
<1>9. RowsInv' /\ BrowserSpared
  <2>1. RowsTyped' /\ UploadsFit' /\ RecordingFits' /\ RepliesFit' /\ MaterialFits'
    BY <1>1, <1>2, <1>5
    DEF RowsInv, RowsTyped, UploadsFit, RecordingFits, RepliesFit, MaterialFits, ActiveUploads, Completed
  <2>2. RowKeysApart'
    BY <1>1, <1>5, <1>7 DEF RowsInv, RowKeysApart
  <2>3. BrowserSpared
    <3>1. Len(uploads) \in Nat /\ \A v \in DOMAIN uploads : uploads[v].offset \in Nat
      BY UploadSequence DEF RowsInv, RowsTyped
    <3> QED BY <1>1, <3>1 DEF BrowserSpared
  <2> QED BY <2>1, <2>2, <2>3 DEF RowsInv
<1>10. HandsInv'
  <2>1. ASSUME NEW q \in Request \ {r} PROVE Spared(q)
    <3>1. /\ HandFits(q) /\ request[q].at \notin {"appended", "promoted"}
          /\ Len(uploads) <= Len(uploads') /\ \A v \in DOMAIN uploads : uploads[v].offset \in Nat
      BY <1>1, UploadFacts, UploadSequence DEF HandsInv, Locked, RowsInv, RowsTyped
    <3>2. RowsSpare(q)
      BY <1>1, <1>5, <3>1 DEF RowsSpare, HandFits, SeenFits, key
    <3> QED BY <1>8, <3>2 DEF Spared
  <2>2. HandFits(r)'
    <3>1. 0 <= Len(uploads)
      BY UploadFacts DEF RowsInv
    <3>2. PlaceFits(r)'
      BY <1>1, <1>2, <1>3, <1>6, <3>1 DEF PlaceFits
    <3>3. DiscardingFits(r)'
      BY <1>1, <1>3, <1>4, <1>5, <1>6, <1>7, <3>1 DEF DiscardingFits, ActiveUploads
    <3> QED
      BY <1>3, <1>6, <3>2, <3>3
      DEF HandFits, HeldFits, Holding, SeenFits, Reading, AppendedFits, PromotedFits
  <2>3. ASSUME NEW q \in Request \ {r} PROVE HandsApart(r, q)' /\ HandsApart(q, r)'
    <3>1. Holding(q) => request[q].key # key
      BY DEF HandsInv, HandFits, HeldFits, key
    <3> QED BY <1>3, <1>6, <3>1 DEF HandsApart, Holding
  <2> QED
    BY <1>6, <1>9, <2>1, <2>2, <2>3, HandsMoved DEF RowsInv
<1>11. BrowserFits'
  <2>1. browser.at = "waiting" => browser.request # r
    BY <1>1 DEF BrowserFits, HandsInv, HandFits, PlaceFits
  <2> QED
    BY <1>1, <1>6, <1>9, <2>1, BrowserUnmoved DEF BrowserFits, RowsInv
<1>12. ActorsTyped' /\ HistoryTyped' /\ DeletersFit'
  BY <1>1, <1>6, <1>8 DEF ActorsTyped, HistoryTyped, DeletersFit
<1>13. ObjectsFit'
  <2>1. BytesHeld'
    BY <1>1 DEF ObjectsFit, BytesHeld
  <2>2. ServedObjectsExist' /\ HiddenObjectsQueued'
    BY <1>1, <1>5, <1>8 DEF ObjectsFit, ServedObjectsExist, HiddenObjectsQueued, Holds
  <2>3. LedgerFits'
    BY <1>1, <1>5, <1>7, <1>8 DEF ObjectsFit, LedgerFits
  <2> QED BY <1>8, <2>1, <2>2, <2>3 DEF ObjectsFit
<1>14. ObjectsOwned'
  <2>1. InHand \subseteq InHand'
    BY <1>1, <1>6 DEF InHand
  <2>2. \A k \in DOMAIN store' : Owned(k) => Owned(k)'
    BY <1>1, <1>5, <1>8, <2>1 DEF Owned, key
  <2> QED BY <1>1, <2>2 DEF ObjectsOwned
<1> QED
  BY <1>8, <1>9, <1>10, <1>11, <1>12, <1>13, <1>14

-----------------------------------------------------------------------------
(* The class, its recording and the course.  No handler and no browser      *)
(* moves.                                                                   *)

LEMMA ActorsUnmoved ==
    ASSUME FilesInv, RowsTyped', UNCHANGED <<request, browser, orphans, faults>>,
           BrowserSpared, \A q \in Request : Spared(q)
    PROVE  HandsInv' /\ BrowserFits' /\ HistoryTyped' /\ InHand' = InHand
<1> USE DEF FilesInv
<1>1. HandsInv'
  BY HandsKept DEF RowsInv
<1>2. BrowserFits'
  BY BrowserUnmoved DEF RowsInv
<1> QED
  BY <1>1, <1>2 DEF HistoryTyped, InHand

LEMMA SpareUploads ==
    ASSUME RowsTyped, uploads' = [u \in DOMAIN uploads |-> uploads'[u]],
           \A u \in DOMAIN uploads :
              uploads'[u] \in UploadRow /\ uploads'[u].offset = uploads[u].offset
    PROVE  /\ uploads' \in Seq(UploadRow) /\ Len(uploads') = Len(uploads)
           /\ DOMAIN uploads' = DOMAIN uploads /\ Len(uploads) <= Len(uploads')
           /\ \A u \in DOMAIN uploads : uploads[u].offset <= uploads'[u].offset
<1>1. /\ uploads' \in Seq(UploadRow) /\ Len(uploads') = Len(uploads)
      /\ DOMAIN uploads' = DOMAIN uploads
  BY UploadsRewritten
<1>2. Len(uploads) \in Nat /\ \A u \in DOMAIN uploads : uploads[u].offset \in Nat
  BY UploadSequence DEF RowsTyped
<1> QED
  BY <1>1, <1>2

(* The status of the recording ends with the class, or with the user giving *)
(* up; an ACTIVE upload FAILED then, and keeps its object.                  *)
LEMMA RecordingEnds ==
    ASSUME FilesInv, ~Locked, session # "DELETED", session' \in {session, "COMPLETED"},
           recording' \in Recording, recording'.key = recording.key,
           recording'.deleted = recording.deleted,
           recording'.status = IF recording.status = "UPLOADED" THEN "UPLOADED" ELSE "FAILED",
           uploads' = [u \in DOMAIN uploads |->
                         IF Active(u) THEN [uploads[u] EXCEPT !.status = "FAILED"]
                         ELSE uploads[u]],
           UNCHANGED <<course, transcripts, material, replies>>,
           UNCHANGED <<files, request, deleter, browser, orphans, faults>>
    PROVE  FilesInv'
<1> USE DEF FilesInv
<1>1. ASSUME NEW u \in DOMAIN uploads
      PROVE  /\ uploads'[u] \in UploadRow /\ uploads'[u].key = uploads[u].key
             /\ uploads'[u].offset = uploads[u].offset
             /\ uploads'[u].status = IF uploads[u].status = "ACTIVE" THEN "FAILED" ELSE uploads[u].status
  <2>1. uploads[u] \in UploadRow
    BY UploadFacts DEF RowsInv
  <2>2. CASE Active(u)
    <3>1. uploads'[u] = [uploads[u] EXCEPT !.status = "FAILED"]
      BY <2>2
    <3> HIDE DEF Key, Offset
    <3> QED BY <2>1, <2>2, <3>1 DEF UploadRow, Active
  <2>3. CASE ~Active(u)
    BY <2>1, <2>3 DEF Active
  <2> QED BY <2>2, <2>3
<1>2. /\ uploads' \in Seq(UploadRow) /\ Len(uploads') = Len(uploads)
      /\ DOMAIN uploads' = DOMAIN uploads /\ Len(uploads) <= Len(uploads')
      /\ \A u \in DOMAIN uploads : uploads[u].offset <= uploads'[u].offset
  <2>1. uploads' = [u \in DOMAIN uploads |-> uploads'[u]]
    OBVIOUS
  <2>2. RowsTyped
    BY DEF RowsInv
  <2> HIDE DEF FilesInv
  <2> QED BY <1>1, <2>1, <2>2, SpareUploads
<1>3. ActiveUploads' = {} /\ Completed' = Completed
  <2> HIDE DEF FilesInv
  <2>1. ASSUME NEW u \in DOMAIN uploads
        PROVE  /\ uploads'[u].status # "ACTIVE"
               /\ uploads'[u].status = "COMPLETED" <=> uploads[u].status = "COMPLETED"
    <3>1. uploads'[u].status = IF uploads[u].status = "ACTIVE" THEN "FAILED" ELSE uploads[u].status
      BY <1>1
    <3> QED BY ONLY <3>1
  <2>2. ActiveUploads' = {}
    BY <1>2, <2>1 DEF ActiveUploads
  <2>3. Completed' = Completed
    BY <1>2, <2>1 DEF Completed
  <2> QED BY <2>2, <2>3
<1>4. session' # "DELETED" /\ recording.status # "GONE" /\ UNCHANGED <<store, ledger>>
  BY DEF RowsInv, RecordingFits, files
<1>5. RowsInv'
  <2>1. RowsTyped'
    BY <1>2 DEF RowsInv, RowsTyped
  <2>2. UploadsFit' /\ MaterialFits'
    BY <1>1, <1>2, <1>3, <1>4 DEF RowsInv, UploadsFit, MaterialFits
  <2>3. RecordingFits'
    BY <1>3, <1>4 DEF RowsInv, RecordingFits
  <2>4. RepliesFit'
    BY <1>2, <1>4 DEF RowsInv, RepliesFit
  <2>5. RowKeysApart'
    BY <1>1, <1>2 DEF RowsInv, RowKeysApart
  <2> QED BY <2>1, <2>2, <2>3, <2>4, <2>5 DEF RowsInv
<1>6. ASSUME NEW q \in Request PROVE Spared(q)
  <2>1. HandFits(q) /\ request[q].at \notin {"appended", "promoted"}
    BY DEF HandsInv, Locked
  <2>2. RowsSpare(q)
    BY <1>1, <1>2, <2>1 DEF RowsSpare, HandFits, SeenFits
  <2> QED
    BY <1>4, <2>1, <2>2, StoreUnchangedSpares, LedgerUnchangedSpares DEF Spared
<1>7. HandsInv' /\ BrowserFits' /\ HistoryTyped' /\ InHand' = InHand
  <2>1. BrowserSpared
    BY <1>2, <1>4 DEF BrowserSpared
  <2>2. RowsTyped'
    BY <1>5 DEF RowsInv
  <2> HIDE DEF FilesInv
  <2> QED BY <1>6, <2>1, <2>2, ActorsUnmoved
<1>8. FilesTyped' /\ ActorsTyped' /\ DeletersFit'
  BY <1>4, DeletersFrame DEF FilesTyped, ActorsTyped, files
<1>9. ObjectsFit'
  <2>1. BytesHeld' /\ SucceededMeansGone'
    BY <1>1, <1>2, <1>4 DEF ObjectsFit, BytesHeld, SucceededMeansGone
  <2>2. ServedObjectsExist' /\ HiddenObjectsQueued'
    BY <1>4 DEF ObjectsFit, ServedObjectsExist, HiddenObjectsQueued, Holds
  <2>3. LedgerFits'
    BY <1>1, <1>2, <1>4 DEF ObjectsFit, LedgerFits
  <2> QED BY <2>1, <2>2, <2>3 DEF ObjectsFit
<1>10. ObjectsOwned'
  <2>1. \A k \in DOMAIN store' : Owned(k) => Owned(k)'
    BY <1>1, <1>2, <1>4, <1>7 DEF Owned
  <2> QED BY <1>4, <2>1 DEF ObjectsOwned
<1> QED
  BY <1>5, <1>7, <1>8, <1>9, <1>10

LEMMA CompleteSessionKeeps ==
    ASSUME FilesInv, CompleteSession
    PROVE  FilesInv'
<1>1. recording \in Recording
  BY DEF FilesInv, RowsInv, RowsTyped
<1>2. /\ recording' \in Recording /\ recording'.key = recording.key
      /\ recording'.deleted = recording.deleted
      /\ recording'.status = IF recording.status = "UPLOADED" THEN "UPLOADED" ELSE "FAILED"
  BY <1>1 DEF CompleteSession, Recording, RecordingStatus
<1> QED
  BY <1>2, RecordingEnds DEF CompleteSession

LEMMA AbandonUploadKeeps ==
    ASSUME FilesInv, AbandonUpload
    PROVE  FilesInv'
<1>1. recording \in Recording
  BY DEF FilesInv, RowsInv, RowsTyped
<1>2. /\ recording' \in Recording /\ recording'.key = recording.key
      /\ recording'.deleted = recording.deleted /\ recording'.status = "FAILED"
  BY <1>1 DEF AbandonUpload, Recording, RecordingStatus
<1>3. uploads' = [u \in DOMAIN uploads |->
                     IF Active(u) THEN [uploads[u] EXCEPT !.status = "FAILED"] ELSE uploads[u]]
  <2>1. \A u \in DOMAIN uploads : ~Active(u)
    BY DEF AbandonUpload, ActiveUploads, Active
  <2>2. uploads = [u \in DOMAIN uploads |-> uploads[u]]
    BY LenProperties DEF FilesInv, RowsInv, RowsTyped
  <2> QED BY <2>1, <2>2 DEF AbandonUpload
<1> QED
  BY <1>2, <1>3, RecordingEnds DEF AbandonUpload, Member

(* Objects are hidden and enter the ledger in one transaction; the rows     *)
(* keep their keys.                                                         *)
LEMMA Hides ==
    ASSUME FilesInv, NEW K \in SUBSET Key, K \subseteq {recording.key, material.key},
           ledger' = Queued(K), recording' \in Recording,
           recording'.status = recording.status, recording'.key = recording.key,
           recording.deleted => recording'.deleted,
           recording'.deleted /\ ~recording.deleted =>
              recording.status = "UPLOADED" /\ recording.key \in K,
           recording.key \in K => recording'.deleted,
           course' \in {course, "deleted"},
           material.key \in K => material.status = "detached" \/ course' = "deleted",
           course' # course /\ material.status = "attached" => material.key \in K,
           UNCHANGED <<session, uploads, transcripts, material, replies>>,
           UNCHANGED <<store, request, browser, orphans, faults>>
    PROVE  /\ FilesTyped' /\ RowsInv' /\ HandsInv' /\ BrowserFits' /\ HistoryTyped' /\ ObjectsFit'
           /\ ObjectsOwned' /\ DOMAIN ledger' = DOMAIN ledger \cup K
<1> USE DEF FilesInv
<1>1. /\ FilesTyped' /\ SucceededMeansGone'
      /\ DOMAIN ledger' = DOMAIN ledger \cup K
      /\ \A q \in Request : LedgerSpares(q) /\ StoreSpares(q)
      /\ \A u \in DOMAIN uploads : uploads[u].key # NoKey => uploads[u].key \notin DOMAIN ledger'
  <2> HIDE DEF FilesInv
  <2> QED BY QueuedSpares
<1>2. Len(uploads) \in Nat /\ \A u \in DOMAIN uploads : uploads[u].offset \in Nat
  BY UploadSequence DEF RowsInv, RowsTyped
<1>3. RowsInv' /\ BrowserSpared
  <2>1. RowsTyped' /\ UploadsFit' /\ RepliesFit' /\ MaterialFits' /\ RowKeysApart'
    BY DEF RowsInv, RowsTyped, UploadsFit, RepliesFit, MaterialFits, RowKeysApart, ActiveUploads
  <2>2. RecordingFits'
    BY DEF RowsInv, RecordingFits, Completed
  <2> QED BY <1>2, <2>1, <2>2 DEF RowsInv, BrowserSpared
<1>4. \A q \in Request : Spared(q)
  <2>1. ASSUME NEW q \in Request PROVE RowsSpare(q)
    <3>1. HandFits(q)
      BY DEF HandsInv
    <3> QED
      BY <1>2, <3>1 DEF RowsSpare, HandFits, SeenFits, AppendedFits, PromotedFits
  <2> QED BY <1>1, <2>1 DEF Spared
<1>5. HandsInv' /\ BrowserFits' /\ HistoryTyped' /\ InHand' = InHand
  <2>1. RowsTyped'
    BY <1>3 DEF RowsInv
  <2> HIDE DEF FilesInv
  <2> QED BY <1>3, <1>4, <2>1, ActorsUnmoved
<1>6. ObjectsFit'
  <2>1. BytesHeld'
    BY DEF ObjectsFit, BytesHeld
  <2>2. ServedObjectsExist' /\ HiddenObjectsQueued'
    BY <1>1 DEF ObjectsFit, ServedObjectsExist, HiddenObjectsQueued, Holds
  <2>3. LedgerFits'
    <3>1. NoKey \notin DOMAIN ledger'
      BY <1>1, KeyFacts DEF FilesTyped
    <3>2. \A u \in DOMAIN uploads : uploads[u].key \notin DOMAIN ledger'
      BY <1>1, <3>1
    <3> QED
      BY <1>1, <3>1, <3>2 DEF ObjectsFit, LedgerFits, RowsInv, RowKeysApart
  <2> QED BY <1>1, <2>1, <2>2, <2>3 DEF ObjectsFit
<1>7. ObjectsOwned'
  <2>1. \A k \in DOMAIN store' : Owned(k) => Owned(k)'
    BY <1>1, <1>5 DEF Owned
  <2> QED BY <2>1 DEF ObjectsOwned
<1> QED
  BY <1>1, <1>3, <1>5, <1>6, <1>7

LEMMA DeleteRecordingKeeps ==
    ASSUME FilesInv, DeleteRecording
    PROVE  FilesInv'
<1>1. /\ recording \in Recording /\ recording.status = "UPLOADED"
      /\ {recording.key} \in SUBSET Key /\ {recording.key} \subseteq {recording.key, material.key}
      /\ recording.key # material.key
  BY DEF FilesInv, RowsInv, RowsTyped, RecordingFits, RowKeysApart, Recording, DeleteRecording
<1>2. /\ recording' \in Recording /\ recording'.deleted
      /\ recording'.status = recording.status /\ recording'.key = recording.key
  BY <1>1 DEF DeleteRecording, Recording
<1>3. /\ FilesTyped' /\ RowsInv' /\ HandsInv' /\ BrowserFits' /\ HistoryTyped' /\ ObjectsFit'
      /\ ObjectsOwned' /\ DOMAIN ledger' = DOMAIN ledger \cup {recording.key}
  BY <1>1, <1>2, Hides DEF DeleteRecording
<1> QED
  BY <1>3 DEF DeleteRecording, FilesInv, ActorsTyped, DeletersFit

LEMMA DeleteCourseKeeps ==
    ASSUME FilesInv, DeleteCourse
    PROVE  FilesInv'
<1> DEFINE K == {material.key, recording.key} \ {NoKey}
<1>1. recording \in Recording /\ material \in Material
  BY DEF FilesInv, RowsInv, RowsTyped
<1>2. K \in SUBSET Key /\ K \subseteq {recording.key, material.key}
  <2> HIDE DEF Key
  <2> QED BY <1>1 DEF Recording, Material
<1>3. /\ recording' \in Recording
      /\ recording'.deleted = (recording.deleted \/ recording.key # NoKey)
      /\ recording'.status = recording.status /\ recording'.key = recording.key
  BY <1>1 DEF DeleteCourse, Recording
<1>4. /\ recording.key # NoKey => recording.status = "UPLOADED" /\ recording.key # material.key
      /\ material.key # NoKey <=> material.status \in {"attached", "detached"}
  BY DEF FilesInv, RowsInv, RecordingFits, RowKeysApart, MaterialFits
<1>5. /\ ledger' = Queued(K) /\ course' = "deleted"
      /\ UNCHANGED <<session, uploads, transcripts, material, replies>>
      /\ UNCHANGED <<store, request, deleter, browser, orphans, faults>>
  BY DEF DeleteCourse
<1>6. /\ recording'.deleted /\ ~recording.deleted =>
            recording.status = "UPLOADED" /\ recording.key \in K
      /\ recording.key \in K => recording'.deleted
      /\ material.status = "attached" => material.key \in K
  BY <1>3, <1>4
<1> HIDE DEF K
<1>7. /\ FilesTyped' /\ RowsInv' /\ HandsInv' /\ BrowserFits' /\ HistoryTyped' /\ ObjectsFit'
      /\ ObjectsOwned' /\ DOMAIN ledger' = DOMAIN ledger \cup K
  BY <1>2, <1>3, <1>5, <1>6, Hides
<1> QED
  BY <1>5, <1>7 DEF FilesInv, ActorsTyped, DeletersFit

LEMMA DeleteSessionKeeps ==
    ASSUME FilesInv, DeleteSession
    PROVE  FilesInv'
<1> USE DEF FilesInv
<1>1. /\ session' = "DELETED" /\ material' = [status |-> "gone", key |-> NoKey]
      /\ recording' = [recording EXCEPT !.status = "GONE", !.key = NoKey]
      /\ uploads' = [u \in DOMAIN uploads |-> [uploads[u] EXCEPT !.status = "GONE", !.key = NoKey]]
      /\ transcripts' = 0 /\ ~Locked
      /\ UNCHANGED <<course, replies, store, ledger, request, deleter, browser, orphans, faults>>
  BY DEF DeleteSession, files
<1>2. ASSUME NEW u \in DOMAIN uploads
      PROVE  /\ uploads'[u] \in UploadRow /\ uploads'[u].key = NoKey
             /\ uploads'[u].offset = uploads[u].offset /\ uploads'[u].status = "GONE"
  <2>1. uploads[u] \in UploadRow
    BY UploadFacts DEF RowsInv
  <2>2. uploads'[u] = [uploads[u] EXCEPT !.status = "GONE", !.key = NoKey]
    BY <1>1
  <2> HIDE DEF Key, Offset, NoKey
  <2> QED BY <2>1, <2>2 DEF UploadRow
<1>3. /\ uploads' \in Seq(UploadRow) /\ Len(uploads') = Len(uploads)
      /\ DOMAIN uploads' = DOMAIN uploads /\ Len(uploads) <= Len(uploads')
      /\ \A u \in DOMAIN uploads : uploads[u].offset <= uploads'[u].offset
  <2>1. uploads' = [u \in DOMAIN uploads |-> uploads'[u]] /\ RowsTyped
    BY <1>1 DEF RowsInv
  <2> HIDE DEF FilesInv
  <2> QED BY <1>2, <2>1, SpareUploads
<1>4. /\ recording' \in Recording /\ recording'.status = "GONE" /\ recording'.key = NoKey
      /\ material' \in Material /\ material'.status = "gone" /\ material'.key = NoKey
  <2>1. recording \in Recording
    BY DEF RowsInv, RowsTyped
  <2> QED BY <1>1, <2>1 DEF Recording, RecordingStatus, Material
<1>5. RowsInv'
  <2>1. RowsTyped' /\ UploadsFit' /\ MaterialFits' /\ RowKeysApart'
    BY <1>1, <1>2, <1>3, <1>4
    DEF RowsInv, RowsTyped, UploadsFit, MaterialFits, RowKeysApart, ActiveUploads
  <2>2. RecordingFits' /\ RepliesFit'
    BY <1>1, <1>2, <1>3, <1>4 DEF RowsInv, RecordingFits, RepliesFit, Completed
  <2> QED BY <2>1, <2>2 DEF RowsInv
<1>6. \A q \in Request : Spared(q)
  <2>1. ASSUME NEW q \in Request PROVE Spared(q)
    <3>1. HandFits(q) /\ request[q].at \notin {"appended", "promoted"}
      BY <1>1 DEF HandsInv, Locked
    <3>2. RowsSpare(q)
      BY <1>2, <1>3, <1>4, <3>1 DEF RowsSpare, HandFits, SeenFits
    <3> QED
      BY <1>1, <3>1, <3>2, StoreUnchangedSpares, LedgerUnchangedSpares DEF Spared
  <2> QED BY <2>1
<1>7. HandsInv' /\ BrowserFits' /\ HistoryTyped'
  <2>1. BrowserSpared /\ RowsTyped'
    BY <1>3, <1>4, <1>5 DEF BrowserSpared, RowsInv
  <2> HIDE DEF FilesInv
  <2> QED BY <1>1, <1>6, <2>1, ActorsUnmoved
<1>8. FilesTyped' /\ ActorsTyped' /\ DeletersFit'
  BY <1>1, DeletersFrame DEF FilesTyped, ActorsTyped, files
<1>9. ObjectsFit'
  <2>1. NoKey \notin DOMAIN ledger /\ NoKey \notin DOMAIN store
    BY KeyFacts DEF FilesTyped
  <2> QED
    BY <1>1, <1>2, <1>3, <1>4, <2>1
    DEF ObjectsFit, BytesHeld, ServedObjectsExist, HiddenObjectsQueued, LedgerFits,
        SucceededMeansGone
<1>10. ObjectsOwned'
  BY <1>1 DEF ObjectsOwned
<1> QED
  BY <1>5, <1>7, <1>8, <1>9, <1>10

LEMMA ManifestEndsKeeps ==
    ASSUME FilesInv, ManifestEnds
    PROVE  FilesInv'
<1> USE DEF FilesInv
<1>1. PICK u \in ActiveUploads : uploads' = [uploads EXCEPT ![u].late = TRUE]
  BY DEF ManifestEnds
<1> DEFINE row == [uploads[u] EXCEPT !.late = TRUE]
<1>2. u \in DOMAIN uploads /\ uploads[u] \in UploadRow /\ Len(uploads) \in Nat
  BY UploadFacts DEF ActiveUploads, RowsInv
<1>3. /\ row \in UploadRow /\ row.status = uploads[u].status /\ row.key = uploads[u].key
      /\ row.offset = uploads[u].offset
  <2> HIDE DEF Key, Offset
  <2> QED BY <1>2 DEF UploadRow
<1> HIDE DEF row
<1>4. /\ uploads' \in Seq(UploadRow) /\ Len(uploads') = Len(uploads)
      /\ DOMAIN uploads' = DOMAIN uploads
      /\ uploads'[u] = row /\ \A v \in DOMAIN uploads \ {u} : uploads'[v] = uploads[v]
  <2>1. RowsTyped
    BY DEF RowsInv
  <2>2. uploads' = [uploads EXCEPT ![u] = row]
    BY <1>1 DEF row
  <2> HIDE DEF FilesInv
  <2> QED BY <1>2, <1>3, <2>1, <2>2, UploadReplaced
<1>5. \A v \in DOMAIN uploads :
         /\ uploads'[v].key = uploads[v].key /\ uploads'[v].status = uploads[v].status
         /\ uploads'[v].offset = uploads[v].offset
  BY <1>3, <1>4
<1>6. ActiveUploads' = ActiveUploads /\ Completed' = Completed
  BY <1>4, <1>5 DEF ActiveUploads, Completed
<1>7. /\ UNCHANGED <<session, course, recording, transcripts, material, replies, store, ledger>>
      /\ UNCHANGED <<request, deleter, browser, orphans, faults>>
  BY DEF ManifestEnds, files
<1>8. RowsInv'
  <2>1. RowsTyped' /\ MaterialFits' /\ RepliesFit'
    BY <1>4, <1>7 DEF RowsInv, RowsTyped, MaterialFits, RepliesFit
  <2>2. UploadsFit' /\ RecordingFits'
    BY <1>4, <1>5, <1>6, <1>7 DEF RowsInv, UploadsFit, RecordingFits
  <2>3. RowKeysApart'
    BY <1>4, <1>5, <1>7 DEF RowsInv, RowKeysApart
  <2> QED BY <2>1, <2>2, <2>3 DEF RowsInv
<1>9. \A q \in Request : Spared(q)
  <2>1. ASSUME NEW q \in Request PROVE Spared(q)
    <3>1. HandFits(q) /\ \A v \in DOMAIN uploads : uploads[v].offset \in Nat
      BY UploadSequence DEF HandsInv, RowsInv, RowsTyped
    <3>2. RowsSpare(q)
      BY <1>2, <1>4, <1>5, <1>7, <3>1 DEF RowsSpare, HandFits, SeenFits, AppendedFits, PromotedFits
    <3> QED
      BY <1>7, <3>1, <3>2, StoreUnchangedSpares, LedgerUnchangedSpares DEF Spared
  <2> QED BY <2>1
<1>10. HandsInv' /\ BrowserFits' /\ HistoryTyped' /\ InHand' = InHand
  <2>1. \A v \in DOMAIN uploads : uploads[v].offset \in Nat
    BY UploadSequence DEF RowsInv, RowsTyped
  <2>2. BrowserSpared /\ RowsTyped'
    BY <1>2, <1>4, <1>5, <1>7, <1>8, <2>1 DEF BrowserSpared, RowsInv
  <2> HIDE DEF FilesInv
  <2> QED BY <1>7, <1>9, <2>2, ActorsUnmoved
<1>11. FilesTyped' /\ ActorsTyped' /\ DeletersFit'
  BY <1>7, DeletersFrame DEF FilesTyped, ActorsTyped, files
<1>12. ObjectsFit'
  <2>1. BytesHeld'
    BY <1>4, <1>5, <1>7 DEF ObjectsFit, BytesHeld
  <2>2. ServedObjectsExist' /\ HiddenObjectsQueued' /\ SucceededMeansGone'
    BY <1>7 DEF ObjectsFit, ServedObjectsExist, HiddenObjectsQueued, SucceededMeansGone, Holds
  <2>3. LedgerFits'
    BY <1>4, <1>5, <1>7 DEF ObjectsFit, LedgerFits
  <2> QED BY <2>1, <2>2, <2>3 DEF ObjectsFit
<1>13. ObjectsOwned'
  <2>1. \A k \in DOMAIN store' : Owned(k) => Owned(k)'
    BY <1>4, <1>5, <1>7, <1>10 DEF Owned
  <2> QED BY <1>7, <2>1 DEF ObjectsOwned
<1> QED
  BY <1>8, <1>10, <1>11, <1>12, <1>13

LEMMA RetentionEndsKeeps ==
    ASSUME FilesInv, RetentionEnds
    PROVE  FilesInv'
<1> USE DEF FilesInv
<1>1. /\ UNCHANGED <<session, course, uploads, transcripts, material, replies, store, ledger>>
      /\ UNCHANGED <<request, deleter, browser, orphans, faults>>
  BY DEF RetentionEnds, files
<1>2. /\ recording' \in Recording /\ recording'.status = recording.status
      /\ recording'.key = recording.key /\ recording'.deleted = recording.deleted
  BY DEF RetentionEnds, RowsInv, RowsTyped, Recording
<1>3. Len(uploads) \in Nat /\ \A u \in DOMAIN uploads : uploads[u].offset \in Nat
  BY UploadSequence DEF RowsInv, RowsTyped
<1>4. RowsInv' /\ BrowserSpared
  BY <1>1, <1>2, <1>3
  DEF RowsInv, RowsTyped, UploadsFit, RecordingFits, RepliesFit, MaterialFits, RowKeysApart,
      Completed, ActiveUploads, BrowserSpared
<1>5. \A q \in Request : Spared(q)
  <2>1. ASSUME NEW q \in Request PROVE Spared(q)
    <3>1. HandFits(q)
      BY DEF HandsInv
    <3>2. RowsSpare(q)
      BY <1>1, <1>2, <1>3, <3>1 DEF RowsSpare, HandFits, SeenFits, AppendedFits, PromotedFits
    <3> QED
      BY <1>1, <3>1, <3>2, StoreUnchangedSpares, LedgerUnchangedSpares DEF Spared
  <2> QED BY <2>1
<1>6. HandsInv' /\ BrowserFits' /\ HistoryTyped' /\ InHand' = InHand
  <2>1. RowsTyped'
    BY <1>4 DEF RowsInv
  <2> HIDE DEF FilesInv
  <2> QED BY <1>1, <1>4, <1>5, <2>1, ActorsUnmoved
<1>7. FilesTyped' /\ ActorsTyped' /\ DeletersFit'
  BY <1>1, DeletersFrame DEF FilesTyped, ActorsTyped, files
<1>8. ObjectsFit'
  BY <1>1, <1>2
  DEF ObjectsFit, BytesHeld, ServedObjectsExist, HiddenObjectsQueued, LedgerFits,
      SucceededMeansGone, Holds
<1>9. ObjectsOwned'
  BY <1>1, <1>2, <1>6 DEF ObjectsOwned, Owned
<1> QED
  BY <1>4, <1>6, <1>7, <1>8, <1>9

-----------------------------------------------------------------------------
(* StorageDeletionWorker *)

LEMMA ClaimKeeps ==
    ASSUME FilesInv, NEW d \in Deleter, Claim(d)
    PROVE  FilesInv'
<1> USE DEF FilesInv
<1> DEFINE K == IF RetentionDue THEN {recording.key} ELSE {}
           scheduled == IF RetentionDue THEN Queued({recording.key}) ELSE ledger
           running == [state |-> "RUNNING", lease |-> "live"]
<1>1. PICK k \in DOMAIN scheduled :
         /\ ledger' = [scheduled EXCEPT ![k] = running]
         /\ deleter' = [deleter EXCEPT ![d] = [at |-> "claimed", key |-> k]]
  BY DEF Claim
<1>2. /\ UNCHANGED <<session, course, uploads, transcripts, material, replies>>
      /\ UNCHANGED <<store, request, browser, orphans, faults>>
  BY DEF Claim
<1>3. /\ recording \in Recording
      /\ RetentionDue => recording.status = "UPLOADED" /\ ~recording.deleted /\ recording.key # NoKey
  BY DEF RetentionDue, RowsInv, RowsTyped, RecordingFits
<1>4. K \in SUBSET Key /\ K \subseteq {recording.key, material.key}
  BY <1>3 DEF Recording
<1>5. /\ recording' \in Recording
      /\ recording'.deleted = (recording.deleted \/ RetentionDue)
      /\ recording'.status = recording.status /\ recording'.key = recording.key
  <2>1. RetentionDue \in BOOLEAN
    BY DEF RetentionDue
  <2>2. recording' = [recording EXCEPT !.deleted = recording.deleted \/ RetentionDue]
    BY DEF Claim
  <2> QED BY <1>3, <2>1, <2>2 DEF Recording
<1>6. /\ DOMAIN scheduled = DOMAIN ledger \cup K
      /\ \A x \in DOMAIN ledger : scheduled[x] = ledger[x]
      /\ \A x \in K \ DOMAIN ledger : scheduled[x].state = "PENDING"
      /\ DOMAIN scheduled \subseteq Key /\ scheduled \in [DOMAIN scheduled -> LedgerRow]
  <2>1. CASE RetentionDue
    <3>1. scheduled = Queued(K)
      BY <2>1
    <3> HIDE DEF scheduled, K, FilesInv
    <3>2. FilesTyped
      BY DEF FilesInv
    <3> QED BY <1>4, <3>1, <3>2, QueuedTyped
  <2>2. CASE ~RetentionDue
    BY <2>2 DEF FilesTyped
  <2> QED BY <2>1, <2>2
<1> HIDE DEF scheduled
<1>7. running \in LedgerRow /\ running.state = "RUNNING"
  BY DEF LedgerRow
<1> HIDE DEF running
<1>8. /\ DOMAIN ledger' = DOMAIN ledger \cup K /\ k \in DOMAIN ledger' /\ k \in Key
      /\ \A x \in DOMAIN ledger' : ledger'[x].state = "SUCCEEDED" =>
            x \in DOMAIN ledger /\ ledger[x].state = "SUCCEEDED"
      /\ ledger' \in [DOMAIN ledger' -> LedgerRow] /\ DOMAIN ledger' \subseteq Key
  BY <1>1, <1>6, <1>7
<1>9. FilesTyped' /\ SucceededMeansGone'
  BY <1>2, <1>8 DEF FilesTyped, ObjectsFit, SucceededMeansGone
<1>10. Len(uploads) \in Nat /\ \A u \in DOMAIN uploads : uploads[u].offset \in Nat
  BY UploadSequence DEF RowsInv, RowsTyped
<1>11. RowsInv' /\ BrowserSpared
  <2>1. RowsTyped' /\ UploadsFit' /\ RepliesFit' /\ MaterialFits'
    BY <1>2, <1>5
    DEF RowsInv, RowsTyped, UploadsFit, RepliesFit, MaterialFits, ActiveUploads
  <2>2. RecordingFits'
    <3>1. RecordingFits /\ (recording'.deleted => recording.deleted \/ RetentionDue)
      BY <1>5 DEF RowsInv
    <3> HIDE DEF FilesInv
    <3> QED
      BY <1>2, <1>3, <1>5, <3>1 DEF RecordingFits, Completed
  <2>3. RowKeysApart'
    BY <1>2, <1>5, KeysStayApart DEF RowsInv
  <2> QED BY <1>2, <1>5, <1>10, <2>1, <2>2, <2>3 DEF RowsInv, BrowserSpared
<1>12. \A q \in Request : Spared(q)
  <2>1. ASSUME NEW q \in Request PROVE Spared(q)
    <3>1. HandFits(q)
      BY DEF HandsInv
    <3>2. RowsSpare(q)
      BY <1>2, <1>5, <1>10, <3>1 DEF RowsSpare, HandFits, SeenFits, AppendedFits, PromotedFits
    <3>3. LedgerSpares(q)
      BY <1>4, <1>8, <3>1 DEF LedgerSpares, HandFits, HeldFits
    <3> QED
      BY <1>2, <3>1, <3>2, <3>3, StoreUnchangedSpares DEF Spared
  <2> QED BY <2>1
<1>13. HandsInv' /\ BrowserFits' /\ HistoryTyped' /\ InHand' = InHand
  <2>1. RowsTyped'
    BY <1>11 DEF RowsInv
  <2> HIDE DEF FilesInv
  <2> QED BY <1>2, <1>11, <1>12, <2>1, ActorsUnmoved
<1>14. ActorsTyped' /\ DeletersFit'
  <2>1. [at |-> "claimed", key |-> k] \in Worker
    BY <1>8 DEF Worker
  <2>2. ActorsTyped'
    BY <1>1, <1>2, <2>1 DEF ActorsTyped
  <2>3. DeletersFit'
    BY <1>1, <1>2, <1>8 DEF DeletersFit, ActorsTyped
  <2> QED BY <2>2, <2>3
<1>15. ObjectsFit'
  <2>1. BytesHeld' /\ ServedObjectsExist'
    BY <1>2, <1>3, <1>5 DEF ObjectsFit, BytesHeld, ServedObjectsExist, Holds
  <2>2. HiddenObjectsQueued'
    BY <1>2, <1>3, <1>5, <1>8 DEF ObjectsFit, HiddenObjectsQueued
  <2>3. LedgerFits'
    BY <1>2, <1>3, <1>5, <1>8 DEF ObjectsFit, LedgerFits, RowsInv, RowKeysApart
  <2> QED BY <1>9, <2>1, <2>2, <2>3 DEF ObjectsFit
<1>16. ObjectsOwned'
  <2>1. \A x \in DOMAIN store' : Owned(x) => Owned(x)'
    BY <1>2, <1>5, <1>8, <1>13 DEF Owned
  <2> QED BY <1>2, <2>1 DEF ObjectsOwned
<1> QED
  BY <1>9, <1>11, <1>13, <1>14, <1>15, <1>16

(* Rows, handlers and browser stay as they are; the ledger keeps its keys. *)
LEMMA WorkerStep ==
    ASSUME FilesInv, UNCHANGED <<rows, request, browser, orphans>>, faults' \in 0 .. MaxFault,
           FilesTyped', ActorsTyped', DeletersFit', SucceededMeansGone',
           DOMAIN ledger' = DOMAIN ledger, DOMAIN store' \subseteq DOMAIN store,
           \A k \in DOMAIN store' : store'[k] = store[k],
           \A k \in DOMAIN store : k \in DOMAIN store' \cup DOMAIN ledger
    PROVE  FilesInv'
<1> USE DEF FilesInv
<1>1. RowsInv' /\ BrowserSpared
  BY RowsFrame
<1>2. \A q \in Request : Spared(q)
  <2>1. ASSUME NEW q \in Request PROVE Spared(q)
    <3>1. HandFits(q)
      BY DEF HandsInv
    <3>2. RowsSpare(q)
      BY <3>1, RowsUnchangedSpare DEF rows, RowsInv
    <3>3. LedgerSpares(q)
      BY <3>1 DEF LedgerSpares, HandFits, HeldFits
    <3>4. StoreSpares(q)
      BY <3>1
      DEF StoreSpares, HandFits, HeldFits, AppendedFits, PromotedFits, ObjectsFit, LedgerFits
    <3> QED BY <3>2, <3>3, <3>4 DEF Spared
  <2> QED BY <2>1
<1>3. HandsInv'
  BY <1>1, <1>2, HandsKept DEF RowsInv
<1>4. BrowserFits'
  BY <1>1, BrowserUnmoved DEF RowsInv
<1>5. ObjectsFit'
  <2>1. BytesHeld'
    BY DEF ObjectsFit, BytesHeld, LedgerFits, rows
  <2>2. ServedObjectsExist'
    BY DEF ObjectsFit, ServedObjectsExist, LedgerFits, Holds, rows
  <2>3. HiddenObjectsQueued' /\ LedgerFits'
    BY DEF ObjectsFit, HiddenObjectsQueued, LedgerFits, rows
  <2> QED BY <2>1, <2>2, <2>3 DEF ObjectsFit
<1>6. ObjectsOwned'
  BY DEF ObjectsOwned, Owned, InHand, rows
<1>7. HistoryTyped'
  BY DEF HistoryTyped
<1> QED
  BY <1>1, <1>3, <1>4, <1>5, <1>6, <1>7

LEMMA DeleteObjectKeeps ==
    ASSUME FilesInv, NEW d \in Deleter, DeleteObject(d)
    PROVE  FilesInv'
<1> DEFINE k == deleter[d].key
<1>1. FilesTyped /\ ActorsTyped /\ DeletersFit /\ SucceededMeansGone /\ faults \in 0 .. MaxFault
  BY DEF FilesInv, ObjectsFit, HistoryTyped
<1>2. /\ deleter[d].at = "claimed" /\ UNCHANGED <<rows, ledger, request, browser, orphans>>
      /\ faults' \in 0 .. MaxFault
  BY <1>1, FaultTyped DEF DeleteObject
<1>3. k \in DOMAIN ledger /\ deleter[d] \in Worker
  BY <1>1, <1>2 DEF DeletersFit, ActorsTyped
<1>4. ASSUME NEW at \in {"deleted", "refused"}, deleter' = [deleter EXCEPT ![d].at = at]
      PROVE  /\ ActorsTyped' /\ deleter'[d].at = at /\ deleter'[d].key = k
             /\ \A e \in Deleter \ {d} : deleter'[e] = deleter[e]
  <2>1. [deleter[d] EXCEPT !.at = at] \in Worker
    <3> HIDE DEF Key
    <3> QED BY <1>3 DEF Worker
  <2>2. deleter' = [deleter EXCEPT ![d] = [deleter[d] EXCEPT !.at = at]]
    BY <1>4
  <2> QED BY <1>1, <1>2, <1>3, <2>1, <2>2 DEF ActorsTyped, Worker
<1>5. CASE store' = Without({k}) /\ deleter' = [deleter EXCEPT ![d].at = "deleted"]
  <2>1. /\ ActorsTyped' /\ deleter'[d].at = "deleted" /\ deleter'[d].key = k
        /\ \A e \in Deleter \ {d} : deleter'[e] = deleter[e]
    BY <1>4, <1>5
  <2> HIDE DEF k
  <2>2. /\ DOMAIN store' = DOMAIN store \ {k}
        /\ \A x \in DOMAIN store \ {k} : store'[x] = store[x]
        /\ DOMAIN store' \subseteq Key /\ store' \in [DOMAIN store' -> Offset]
    BY <1>1, <1>5, WithoutTyped
  <2>3. FilesTyped' /\ DeletersFit' /\ SucceededMeansGone'
    BY <1>1, <1>2, <1>3, <2>1, <2>2 DEF FilesTyped, DeletersFit, SucceededMeansGone
  <2> QED
    BY <1>2, <1>3, <2>1, <2>2, <2>3, WorkerStep
<1>6. CASE UNCHANGED store /\ deleter' = [deleter EXCEPT ![d].at = "refused"]
  <2>1. /\ ActorsTyped' /\ deleter'[d].at = "refused" /\ deleter'[d].key = k
        /\ \A e \in Deleter \ {d} : deleter'[e] = deleter[e]
    BY <1>4, <1>6
  <2>2. FilesTyped' /\ DeletersFit' /\ SucceededMeansGone'
    BY <1>1, <1>2, <1>3, <1>6, <2>1 DEF FilesTyped, DeletersFit, SucceededMeansGone
  <2> QED
    BY <1>2, <1>6, <2>1, <2>2, WorkerStep
<1> QED
  BY <1>5, <1>6 DEF DeleteObject

LEMMA MarkKeeps ==
    ASSUME FilesInv, NEW d \in Deleter, Mark(d)
    PROVE  FilesInv'
<1> DEFINE k == deleter[d].key
           row == [state |-> IF deleter[d].at = "deleted" THEN "SUCCEEDED" ELSE "PENDING",
                   lease |-> "none"]
<1>1. FilesTyped /\ ActorsTyped /\ DeletersFit /\ SucceededMeansGone /\ faults \in 0 .. MaxFault
  BY DEF FilesInv, ObjectsFit, HistoryTyped
<1>2. /\ deleter[d].at \in {"deleted", "refused"} /\ deleter' = [deleter EXCEPT ![d] = Resting]
      /\ ledger' = ledger \/ ledger' = [ledger EXCEPT ![k] = row]
      /\ UNCHANGED <<rows, store, request, browser, orphans, faults>>
  BY DEF Mark
<1>3. /\ k \in DOMAIN ledger /\ row \in LedgerRow
      /\ row.state = "SUCCEEDED" => k \notin DOMAIN store
  BY <1>1, <1>2 DEF DeletersFit, LedgerRow
<1> HIDE DEF k, row
<1>4. DOMAIN ledger' = DOMAIN ledger /\ FilesTyped' /\ SucceededMeansGone'
  BY <1>1, <1>2, <1>3 DEF FilesTyped, SucceededMeansGone
<1>5. ActorsTyped' /\ DeletersFit'
  BY <1>1, <1>2, <1>4, RestingTyped DEF ActorsTyped, DeletersFit
<1> QED
  BY <1>1, <1>2, <1>4, <1>5, WorkerStep

LEMMA LeaseEndsKeeps ==
    ASSUME FilesInv, NEW k \in Key, LeaseEnds(k)
    PROVE  FilesInv'
<1>1. FilesTyped /\ ActorsTyped /\ DeletersFit /\ SucceededMeansGone /\ faults \in 0 .. MaxFault
  BY DEF FilesInv, ObjectsFit, HistoryTyped
<1> DEFINE row == [ledger[k] EXCEPT !.lease = "expired"]
<1>2. /\ k \in DOMAIN ledger /\ ledger' = [ledger EXCEPT ![k] = row]
      /\ UNCHANGED <<rows, store, request, deleter, browser, orphans, faults>>
  BY DEF LeaseEnds
<1>3. row \in LedgerRow /\ row.state = ledger[k].state
  BY <1>1, <1>2 DEF FilesTyped, LedgerRow
<1> HIDE DEF row
<1>4. DOMAIN ledger' = DOMAIN ledger /\ FilesTyped' /\ SucceededMeansGone'
  BY <1>1, <1>2, <1>3 DEF FilesTyped, SucceededMeansGone
<1>5. ActorsTyped' /\ DeletersFit'
  BY <1>1, <1>2, <1>4 DEF ActorsTyped, DeletersFit
<1> QED
  BY <1>1, <1>2, <1>4, <1>5, WorkerStep

LEMMA WorkerCrashKeeps ==
    ASSUME FilesInv, NEW d \in Deleter, WorkerCrash(d)
    PROVE  FilesInv'
<1>1. FilesTyped /\ ActorsTyped /\ DeletersFit /\ SucceededMeansGone /\ faults \in 0 .. MaxFault
  BY DEF FilesInv, ObjectsFit, HistoryTyped
<1>2. /\ deleter' = [deleter EXCEPT ![d] = Resting] /\ faults' \in 0 .. MaxFault
      /\ UNCHANGED <<rows, store, ledger, request, browser, orphans>>
  BY <1>1, FaultTyped DEF WorkerCrash, files
<1>3. FilesTyped' /\ SucceededMeansGone' /\ ActorsTyped' /\ DeletersFit'
  BY <1>1, <1>2, RestingTyped DEF FilesTyped, SucceededMeansGone, ActorsTyped, DeletersFit
<1> QED
  BY <1>2, <1>3, WorkerStep

-----------------------------------------------------------------------------
(* Server and browser *)

LEMMA CrashKeeps ==
    ASSUME FilesInv, Crash
    PROVE  FilesInv'
<1> USE DEF FilesInv
<1>1. /\ request' = [r \in Request |-> Idle] /\ orphans' = orphans \cup Unowned(InHand)
      /\ UNCHANGED <<rows, files, deleter>>
      /\ browser' = IF browser.at # "waiting" THEN browser
                    ELSE Reaction(request[browser.request].op, Failed("error"))
      /\ faults' \in 0 .. MaxFault
  BY FaultTyped DEF Crash, HistoryTyped
<1>2. FilesTyped' /\ ObjectsFit' /\ DeletersFit'
  BY <1>1, ObjectsFrame, DeletersFrame
<1>3. RowsInv' /\ BrowserSpared
  BY <1>1, RowsFrame
<1>4. Failed("error") \in Reply /\ Failed("error").code # "ok"
  BY FailedTyped DEF Code
<1>5. /\ browser' \in Browser /\ browser'.at # "waiting"
      /\ browser'.upload = browser.upload /\ browser'.offset = browser.offset
      /\ browser'.at = "done" => browser.at = "done"
  BY <1>1, <1>4, ReactionTyped DEF ActorsTyped
<1>6. ActorsTyped' /\ HistoryTyped'
  <2>1. Unowned(InHand) \subseteq Key
    BY DEF Unowned, FilesTyped
  <2> QED
    BY <1>1, <1>5, <2>1, IdleTyped DEF ActorsTyped, HistoryTyped
<1>7. HandsInv'
  <2>1. 0 <= Len(uploads')
    BY <1>3, LenProperties DEF RowsInv, RowsTyped
  <2> QED
    BY <1>1, <2>1, IdleTyped
    DEF HandsInv, HandFits, HandsApart, PlaceFits, HeldFits, Holding, SeenFits, Reading, AppendedFits,
        PromotedFits, DiscardingFits
<1>8. BrowserFits'
  BY <1>1, <1>5 DEF BrowserFits, rows
<1>9. ObjectsOwned'
  BY <1>1 DEF ObjectsOwned, Owned, Unowned, rows, files
<1> QED
  BY <1>2, <1>3, <1>6, <1>7, <1>8, <1>9

(* The browser alone moves, and comes to know no more than it may. *)
LEMMA BrowserMoves ==
    ASSUME FilesInv, UNCHANGED <<rows, files, request, deleter, orphans>>,
           faults' \in 0 .. MaxFault, browser' \in Browser, browser'.at # "waiting",
           \/ browser'.upload = browser.upload /\ browser'.offset = browser.offset
           \/ browser'.upload = 0,
           browser'.at = "done" => browser.at = "done" \/ recording.status = "UPLOADED"
    PROVE  FilesInv'
<1> USE DEF FilesInv
<1>1. FilesTyped' /\ ObjectsFit' /\ DeletersFit'
  BY ObjectsFrame, DeletersFrame
<1>2. RowsInv' /\ BrowserSpared /\ ActorsTyped' /\ HistoryTyped'
  BY RowsFrame DEF ActorsTyped, HistoryTyped
<1>3. HandsInv'
  BY <1>2, NothingChangedSpares, HandsKept DEF HandsInv, RowsInv
<1>4. BrowserFits'
  <2>1. 0 <= Len(uploads) /\ 0 \notin DOMAIN uploads
    BY UploadFacts DEF RowsInv
  <2> QED BY <2>1 DEF BrowserFits, rows
<1>5. ObjectsOwned'
  BY DEF ObjectsOwned, Owned, InHand, rows, files
<1> QED
  BY <1>1, <1>2, <1>3, <1>4, <1>5

LEMMA StartKeeps ==
    ASSUME FilesInv, Start
    PROVE  FilesInv'
<1>1. browser \in Browser /\ faults \in 0 .. MaxFault
  BY DEF FilesInv, ActorsTyped, HistoryTyped
<1>2. /\ browser' \in Browser /\ browser'.at = "next"
      /\ browser'.upload = browser.upload /\ browser'.offset = browser.offset
  BY <1>1 DEF Start, Browser
<1> QED
  BY <1>1, <1>2, BrowserMoves DEF Start

LEMMA DropKeeps ==
    ASSUME FilesInv, Drop
    PROVE  FilesInv'
<1>1. browser \in Browser /\ faults' \in 0 .. MaxFault
  BY FaultTyped DEF FilesInv, ActorsTyped, HistoryTyped, Drop
<1>2. Failed("error") \in Reply /\ Failed("error").code # "ok"
  BY FailedTyped DEF Code
<1>3. /\ browser' \in Browser /\ browser'.at # "waiting" /\ browser'.at # "done"
      /\ browser'.upload = browser.upload /\ browser'.offset = browser.offset
  BY <1>1, <1>2, ReactionTyped DEF Drop
<1> QED
  BY <1>1, <1>3, BrowserMoves DEF Drop

LEMMA AskKeeps ==
    ASSUME FilesInv, Ask
    PROVE  FilesInv'
<1> DEFINE reset == [browser EXCEPT !.upload = 0, !.round = browser.round + 1, !.again = TRUE,
                                    !.known = FALSE]
<1>1. browser \in Browser /\ faults \in 0 .. MaxFault
  BY DEF FilesInv, ActorsTyped, HistoryTyped
<1>2. ASSUME NEW at \in {"done", "expired", "off"}, NEW b, b = [browser EXCEPT !.at = at]
      PROVE  b \in Browser /\ b.at = at /\ b.upload = browser.upload /\ b.offset = browser.offset
  BY <1>1, <1>2 DEF Browser
<1>3. /\ Stopped \in Browser /\ Stopped.at = "off"
      /\ Stopped.upload = browser.upload /\ Stopped.offset = browser.offset
  BY <1>1 DEF Stopped, Browser
<1>4. ASSUME browser.round < MaxUpload, NEW at \in {"off", "next"}, NEW b, b = [reset EXCEPT !.at = at]
      PROVE  b \in Browser /\ b.at = at /\ b.upload = 0
  <2>1. browser.round + 1 \in UploadId /\ 0 \in 0 .. MaxUpload
    BY <1>1, <1>4, BoundsArePositive DEF Browser, UploadId
  <2> HIDE DEF UploadId
  <2> QED BY <1>1, <1>4, <2>1 DEF Browser
<1>5. \/ browser' = [browser EXCEPT !.at = "done"] /\ CanonicalStatus = "UPLOADED"
      \/ /\ browser.round < MaxUpload
         /\ browser' = [reset EXCEPT !.at = IF browser.again THEN "off" ELSE "next"]
      \/ browser' = [browser EXCEPT !.at = "expired"]
      \/ browser' = Stopped
  BY DEF Ask
<1>6. CanonicalStatus = "UPLOADED" => recording.status = "UPLOADED"
  BY DEF CanonicalStatus
<1>7. UNCHANGED <<rows, files, request, deleter, orphans, faults>>
  BY DEF Ask
<1> HIDE DEF reset
<1>8. CASE browser' = [browser EXCEPT !.at = "done"] /\ CanonicalStatus = "UPLOADED"
  BY <1>1, <1>2, <1>6, <1>7, <1>8, BrowserMoves
<1>9. CASE /\ browser.round < MaxUpload
           /\ browser' = [reset EXCEPT !.at = IF browser.again THEN "off" ELSE "next"]
  <2>1. (IF browser.again THEN "off" ELSE "next") \in {"off", "next"}
    OBVIOUS
  <2>2. browser' \in Browser /\ browser'.at \in {"off", "next"} /\ browser'.upload = 0
    BY <1>4, <1>9, <2>1
  <2> QED
    BY <1>1, <1>7, <2>2, BrowserMoves
<1>10. CASE browser' = [browser EXCEPT !.at = "expired"]
  BY <1>1, <1>2, <1>7, <1>10, BrowserMoves
<1>11. CASE browser' = Stopped
  BY <1>1, <1>3, <1>7, <1>11, BrowserMoves
<1> QED
  BY <1>5, <1>8, <1>9, <1>10, <1>11

LEMMA SendKeeps ==
    ASSUME FilesInv, NEW r \in Request, Send(r)
    PROVE  FilesInv'
<1> DEFINE h == [Idle EXCEPT !.op = NextOperation, !.at = "received", !.upload = browser.upload,
                             !.offset = browser.offset, !.round = browser.round]
<1>1. browser \in Browser /\ browser.upload <= Len(uploads)
  BY DEF FilesInv, ActorsTyped, BrowserFits
<1>2. /\ NextOperation \in {"get", "create", "append", "complete"}
      /\ NextOperation = "append" => browser.offset < Total
  BY DEF NextOperation
<1>3. /\ h \in Handler /\ h.at = "received" /\ h.op = NextOperation /\ h.key = NoKey
      /\ h.upload = browser.upload /\ h.offset = browser.offset
  <2>1. /\ browser.upload \in 0 .. MaxUpload /\ browser.offset \in Offset
        /\ browser.round \in UploadId
    BY <1>1 DEF Browser
  <2>2. NextOperation \in Operation /\ "received" \in Place
    BY <1>2 DEF Operation, Place
  <2> HIDE DEF UploadId, Offset, NextOperation, Operation, Place
  <2> QED BY <2>1, <2>2, IdleTyped DEF Handler
<1>4. /\ request' = [request EXCEPT ![r] = h] /\ request[r].at = "idle"
      /\ browser' = [browser EXCEPT !.at = "waiting", !.request = r]
      /\ UNCHANGED <<rows, files, deleter, orphans, faults>>
  BY DEF Send
<1> HIDE DEF h
<1>5. /\ request' \in [Request -> Handler] /\ request'[r] = h
      /\ \A q \in Request \ {r} : request'[q] = request[q]
      /\ FilesTyped' /\ ObjectsFit' /\ DeletersFit' /\ RowsInv' /\ BrowserSpared
      /\ HandsInv' /\ ObjectsOwned'
  BY <1>1, <1>2, <1>3, <1>4, Received
<1>6. /\ browser' \in Browser /\ browser'.at = "waiting" /\ browser'.request = r
      /\ browser'.upload = browser.upload /\ browser'.offset = browser.offset
  BY <1>1, <1>4 DEF Browser
<1>7. ActorsTyped' /\ HistoryTyped'
  BY <1>4, <1>5, <1>6 DEF FilesInv, ActorsTyped, HistoryTyped
<1>8. BrowserFits'
  BY <1>2, <1>3, <1>4, <1>5, <1>6 DEF FilesInv, BrowserFits, rows
<1> QED
  BY <1>5, <1>7, <1>8 DEF FilesInv

-----------------------------------------------------------------------------
(* The invariant *)

LEMMA NothingKeeps ==
    ASSUME FilesInv, UNCHANGED vars
    PROVE  FilesInv'
<1> USE DEF FilesInv
<1>1. UNCHANGED <<rows, files, request, deleter, browser, orphans, faults>>
  BY DEF vars
<1>2. FilesTyped' /\ ObjectsFit' /\ DeletersFit'
  BY <1>1, ObjectsFrame, DeletersFrame
<1>3. RowsInv' /\ ActorsTyped' /\ HistoryTyped'
  BY <1>1, RowsFrame DEF ActorsTyped, HistoryTyped
<1>4. HandsInv'
  BY <1>1, <1>3, NothingChangedSpares, HandsKept DEF HandsInv, RowsInv
<1>5. BrowserFits'
  BY <1>1 DEF BrowserFits, rows
<1>6. ObjectsOwned'
  BY <1>1 DEF ObjectsOwned, Owned, InHand, rows, files
<1> QED
  BY <1>2, <1>3, <1>4, <1>5, <1>6

LEMMA InitHolds == Init => FilesInv
<1> SUFFICES ASSUME Init PROVE FilesInv
  OBVIOUS
<1>1. /\ uploads = <<>> /\ uploads \in Seq(UploadRow) /\ Len(uploads) = 0 /\ DOMAIN uploads = {}
      /\ ActiveUploads = {} /\ Completed = {}
  BY EmptySeq DEF Init, ActiveUploads, Completed
<1>2. /\ session = "PROCESSING" /\ course = "active" /\ transcripts = 0
      /\ recording = [status |-> "UPLOAD_PENDING", key |-> NoKey, deleted |-> FALSE,
                      retention |-> "none"]
      /\ material.status \in {"none", "gone"} /\ material.key = NoKey /\ material \in Material
  BY DEF Init, Material
<1>3. DOMAIN store = {} /\ DOMAIN ledger = {} /\ orphans = {} /\ faults = MaxFault
  BY DEF Init
<1>4. /\ request \in [Request -> Handler] /\ deleter \in [Deleter -> Worker]
      /\ \A r \in Request : request[r] = Idle
      /\ \A d \in Deleter : deleter[d].at = "idle"
  BY IdleTyped, RestingTyped DEF Init
<1>5. replies = [n \in UploadId |-> [created |-> 0, completed |-> FALSE]]
  BY DEF Init
<1>6. /\ browser \in Browser /\ browser.at \in {"off", "expired"}
      /\ browser.upload = 0 /\ browser.offset = 0
  BY KeyFacts, BoundsArePositive DEF Init, Browser, Code
<1>7. FilesTyped /\ ActorsTyped /\ HistoryTyped
  <2>1. store \in [DOMAIN store -> Offset] /\ ledger \in [DOMAIN ledger -> LedgerRow]
    BY DEF Init
  <2> QED
    BY <1>3, <1>4, <1>6, <2>1, BoundsArePositive DEF FilesTyped, ActorsTyped, HistoryTyped
<1>8. RowsInv
  <2>1. RowsTyped
    <3>1. recording \in Recording
      BY <1>2 DEF Recording, RecordingStatus
    <3>2. replies \in [UploadId -> [created : 0 .. MaxUpload, completed : BOOLEAN]]
      BY <1>5, BoundsArePositive
    <3> QED
      BY <1>1, <1>2, <3>1, <3>2, BoundsArePositive DEF RowsTyped
  <2>2. UploadsFit /\ RecordingFits /\ MaterialFits /\ RowKeysApart
    BY <1>1, <1>2 DEF UploadsFit, RecordingFits, MaterialFits, RowKeysApart
  <2>3. RepliesFit
    BY <1>1, <1>5 DEF RepliesFit
  <2> QED
    BY <2>1, <2>2, <2>3 DEF RowsInv
<1>9. HandsInv
  BY <1>1, <1>4, IdleTyped
  DEF HandsInv, HandFits, HandsApart, PlaceFits, HeldFits, Holding, SeenFits, Reading, AppendedFits,
      PromotedFits, DiscardingFits
<1>10. BrowserFits /\ DeletersFit /\ ObjectsOwned
  BY <1>1, <1>3, <1>4, <1>6 DEF BrowserFits, DeletersFit, ObjectsOwned
<1>11. ObjectsFit
  BY <1>1, <1>2, <1>3
  DEF ObjectsFit, BytesHeld, ServedObjectsExist, HiddenObjectsQueued, LedgerFits, SucceededMeansGone
<1> QED
  BY <1>7, <1>8, <1>9, <1>10, <1>11 DEF FilesInv

LEMMA HandleKeeps ==
    ASSUME FilesInv, NEW r \in Request, Handle(r)
    PROVE  FilesInv'
<1>1. CASE ReadUpload(r) \/ ReadRecording(r) \/ GetUpload(r) \/ Discard(r)
  BY <1>1, ReadUploadKeeps, ReadRecordingKeeps, GetUploadKeeps, DiscardKeeps
<1>2. CASE CreateRecordingUpload(r)
  BY <1>2, StoreTemporaryKeeps, CreateUploadKeeps DEF CreateRecordingUpload
<1>3. CASE AppendChunk(r)
  BY <1>3, AppendBytesKeeps, AppendCommitKeeps DEF AppendChunk
<1>4. CASE CompleteRecordingUpload(r)
  BY <1>4, ExpireIfDueKeeps, ReplayKeeps, PromoteKeeps, CompleteUploadKeeps, CompleteRefusedKeeps
  DEF CompleteRecordingUpload
<1>5. CASE UploadMaterial(r)
  BY <1>5, StorePdfKeeps, AttachPdfKeeps DEF UploadMaterial
<1> QED
  BY <1>1, <1>2, <1>3, <1>4, <1>5 DEF Handle

LEMMA NextHolds == FilesInv /\ [Next]_vars => FilesInv'
<1> SUFFICES ASSUME FilesInv, [Next]_vars PROVE FilesInv'
  OBVIOUS
<1>1. CASE UNCHANGED vars
  BY <1>1, NothingKeeps
<1>2. ASSUME NEW r \in Request,
             Handle(r) \/ FailEarly(r) \/ AppendRollback(r) \/ CompleteRollback(r)
                \/ ReceivePdf(r) \/ DetachPdf(r) \/ Send(r)
      PROVE  FilesInv'
  BY <1>2, HandleKeeps, FailEarlyKeeps, AppendRollbackKeeps, CompleteRollbackKeeps,
     ReceivePdfKeeps, DetachPdfKeeps, SendKeeps
<1>3. ASSUME NEW d \in Deleter, Work(d) \/ WorkerCrash(d)
      PROVE  FilesInv'
  BY <1>3, ClaimKeeps, DeleteObjectKeeps, MarkKeeps, WorkerCrashKeeps DEF Work
<1>4. ASSUME NEW k \in Key, LeaseEnds(k)
      PROVE  FilesInv'
  BY <1>4, LeaseEndsKeeps
<1>5. CASE CompleteSession \/ AbandonUpload \/ DeleteRecording \/ DeleteSession \/ DeleteCourse
  BY <1>5, CompleteSessionKeeps, AbandonUploadKeeps, DeleteRecordingKeeps, DeleteSessionKeeps,
     DeleteCourseKeeps
<1>6. CASE ManifestEnds \/ RetentionEnds
  BY <1>6, ManifestEndsKeeps, RetentionEndsKeeps
<1>7. CASE Start \/ Drop \/ Ask \/ Crash
  BY <1>7, StartKeeps, DropKeeps, AskKeeps, CrashKeeps
<1> QED
  BY <1>1, <1>2, <1>3, <1>4, <1>5, <1>6, <1>7 DEF Next

LEMMA FilesInvariant == Spec => []FilesInv
<1> QED BY InitHolds, NextHolds, PTL DEF Spec

-----------------------------------------------------------------------------
(* Rows, objects, handlers and workers keep their types, and the bounds are *)
(* never passed (models/materials.py, models/consistency.py).             *)
THEOREM TypeCorrect == Spec => []TypeOK
<1>1. FilesInv => TypeOK
  BY TypeParts DEF FilesInv, RowsInv
<1> QED BY <1>1, FilesInvariant, PTL

(* Whatever faults and deletions meet, an UPLOADED recording and an         *)
(* attached PDF have all their bytes (services/recordings.py,               *)
(* services/materials.py, services/storage.py).                             *)
THEOREM ServedIsStored == Spec => []ServedObjectsExist
<1>1. FilesInv => ServedObjectsExist
  BY DEF FilesInv, ObjectsFit
<1> QED BY <1>1, FilesInvariant, PTL

(* What a deletion hid has a row in the ledger.                             *)
THEOREM HiddenIsQueued == Spec => []HiddenObjectsQueued
<1>1. FilesInv => HiddenObjectsQueued
  BY DEF FilesInv, ObjectsFit
<1> QED BY <1>1, FilesInvariant, PTL

(* However many workers lose their leases to one another, a row of the      *)
(* ledger that SUCCEEDED has no object (StorageDeletionWorker).             *)
THEOREM LedgerTellsTheTruth == Spec => []SucceededMeansGone
<1>1. FilesInv => SucceededMeansGone
  BY DEF FilesInv, ObjectsFit
<1> QED BY <1>1, FilesInvariant, PTL

(* An object without an owner was left by a fault that orphans counts       *)
(* (StorageCompensation).                                                   *)
THEOREM ObjectsHaveOwners == Spec => []EveryObjectOwned
<1>1. FilesInv => EveryObjectOwned
  BY EveryObjectOwnedParts DEF FilesInv
<1> QED BY <1>1, FilesInvariant, PTL

LEMMA AtMostOne ==
    ASSUME NEW S, \A u, v \in S : u = v
    PROVE  Cardinality(S) \in {0, 1} /\ (S # {} => Cardinality(S) = 1)
<1>1. CASE S = {}
  BY <1>1, FS_EmptySet
<1>2. CASE S # {}
  <2>1. PICK u \in S : S = {u}
    BY <1>2
  <2> QED BY <2>1, FS_Singleton
<1> QED BY <1>1, <1>2

(* Whatever the handlers of several completions had seen before they        *)
(* waited, a recording has one transcript and no two completed uploads, at  *)
(* most one upload is ACTIVE, and the browser that is done has a recording  *)
(* on the server (complete_upload and the constraints that stop it).        *)
THEOREM OneRecording == Spec => []UploadedOnce
<1>1. FilesInv => UploadedOnce
  <2> SUFFICES ASSUME FilesInv, session # "DELETED" PROVE UploadedOnce
    BY DEF UploadedOnce
  <2>1. RecordingFits /\ UploadsFit /\ recording.status # "GONE" /\ BrowserFits
    BY DEF FilesInv, RowsInv, RecordingFits
  <2>2. Cardinality(ActiveUploads) <= 1
    <3>1. Cardinality(ActiveUploads) \in {0, 1}
      BY <2>1, AtMostOne DEF UploadsFit
    <3> QED BY <3>1
  <2>3. Cardinality(Completed) \in {0, 1}
    BY <2>1, AtMostOne DEF RecordingFits
  <2>4. CASE recording.status = "UPLOADED"
    <3>1. transcripts = 1 /\ Cardinality(Completed) <= 1
      BY <2>1, <2>3, <2>4 DEF RecordingFits
    <3> QED
      BY <2>2, <2>4, <3>1 DEF UploadedOnce, Completed
  <2>5. CASE recording.status # "UPLOADED"
    <3>1. transcripts = 0 /\ Completed = {} /\ browser.at # "done"
      BY <2>1, <2>5 DEF RecordingFits, BrowserFits
    <3>2. Cardinality(Completed) = 0
      BY <3>1, FS_EmptySet
    <3> QED
      BY <2>2, <2>5, <3>1, <3>2 DEF UploadedOnce, Completed
  <2> QED
    BY <2>4, <2>5
<1> QED BY <1>1, FilesInvariant, PTL

-----------------------------------------------------------------------------
(* What only a fault can do. *)

LEMMA StepsCountFaults ==
    ASSUME [Next]_vars
    PROVE  \/ UNCHANGED <<orphans, faults>>
           \/ faults > 0 /\ faults' = faults - 1
<1> USE DEF NoFault, Fault
<1>1. ASSUME NEW r \in Request,
             ReadUpload(r) \/ ReadRecording(r) \/ GetUpload(r) \/ CreateRecordingUpload(r)
                \/ AppendChunk(r) \/ CompleteRecordingUpload(r) \/ UploadMaterial(r)
      PROVE  UNCHANGED <<orphans, faults>> \/ (faults > 0 /\ faults' = faults - 1)
  BY <1>1 DEF ReadUpload, ReadRecording, GetUpload, CreateRecordingUpload, StoreTemporary,
     CreateUpload, AppendChunk, AppendBytes, AppendCommit, CompleteRecordingUpload, ExpireIfDue,
     Replay, Promote, CompleteUpload, CompleteRefused, UploadMaterial, StorePdf, AttachPdf
<1>2. ASSUME NEW r \in Request,
             Discard(r) \/ FailEarly(r) \/ AppendRollback(r) \/ CompleteRollback(r)
                \/ ReceivePdf(r) \/ DetachPdf(r) \/ Send(r)
      PROVE  UNCHANGED <<orphans, faults>> \/ (faults > 0 /\ faults' = faults - 1)
  BY <1>2 DEF Discard, FailEarly, AppendRollback, CompleteRollback, ReceivePdf, DetachPdf, Send
<1>3. ASSUME NEW d \in Deleter, Work(d) \/ WorkerCrash(d)
      PROVE  UNCHANGED <<orphans, faults>> \/ (faults > 0 /\ faults' = faults - 1)
  BY <1>3 DEF Work, Claim, DeleteObject, Mark, WorkerCrash
<1>4. CASE (\E k \in Key : LeaseEnds(k)) \/ UNCHANGED vars
  BY <1>4 DEF LeaseEnds, vars
<1>5. CASE CompleteSession \/ AbandonUpload \/ DeleteRecording \/ DeleteSession \/ DeleteCourse
           \/ ManifestEnds \/ RetentionEnds
  BY <1>5 DEF CompleteSession, AbandonUpload, DeleteRecording, DeleteSession, DeleteCourse,
     ManifestEnds, RetentionEnds
<1>6. CASE Start \/ Drop \/ Ask \/ Crash
  BY <1>6 DEF Start, Drop, Ask, Crash
<1> QED
  BY <1>1, <1>2, <1>3, <1>4, <1>5, <1>6 DEF Next, Handle

(* While nothing failed, every object of a class that exists is named by a  *)
(* manifest, a recording, a PDF, the ledger or a handler.                   *)
NothingLeftWithoutFault ==
    faults = MaxFault /\ session # "DELETED" =>
        \A k \in DOMAIN store :
            \/ k \in {recording.key, material.key} \cup DOMAIN ledger \cup InHand
            \/ \E u \in DOMAIN uploads :
                  uploads[u].key = k /\ uploads[u].status \in {"ACTIVE", "FAILED"}

(* Handlers that overlap, expire, refuse and hide leave no object behind;   *)
(* only a fault can (StorageCompensation, enqueue_storage_deletion).        *)
THEOREM OnlyFaultsStrand == Spec => []NothingLeftWithoutFault
<1> DEFINE Clean == faults = MaxFault => orphans = {}
<1>1. Init => Clean
  BY DEF Init
<1>2. FilesInv /\ Clean /\ [Next]_vars => Clean'
  <2> SUFFICES ASSUME FilesInv, Clean, [Next]_vars PROVE Clean'
    OBVIOUS
  <2>1. faults \in 0 .. MaxFault
    BY DEF FilesInv, HistoryTyped
  <2> QED
    BY <2>1, StepsCountFaults, BoundsArePositive
<1>3. FilesInv /\ Clean => NothingLeftWithoutFault
  BY DEF FilesInv, ObjectsOwned, Owned, NothingLeftWithoutFault
<1> QED BY <1>1, <1>2, <1>3, FilesInvariant, PTL DEF Spec

-----------------------------------------------------------------------------
(* The bytes of a manifest that counts Total chunks.  Its completion takes  *)
(* them away; what may bring them to nothing is a fault, or that another    *)
(* upload was completed before.                                             *)

PromotedOf(u) == \E r \in Request : At(r, "finish", "promoted") /\ request[r].upload = u
BytesPlaced(u) ==
    \/ uploads[u].key \in DOMAIN store \/ PromotedOf(u)
    \/ faults < MaxFault \/ recording.status = "UPLOADED"
LastBytesHeld == \A u \in ActiveUploads : BytesPlaced(u)

(* Handlers that are between the move and the commit stay there.            *)
PromotedStay ==
    \A r \in Request : At(r, "finish", "promoted") =>
        At(r, "finish", "promoted")' /\ request'[r].upload = request[r].upload

LEMMA LastBytesFrame ==
    ASSUME LastBytesHeld, UNCHANGED faults,
           PromotedStay \/ recording'.status = "UPLOADED" \/ ActiveUploads' = {},
           \A u \in ActiveUploads' :
              \/ uploads'[u].key \in DOMAIN store'
              \/ /\ u \in ActiveUploads
                 /\ uploads[u].key \in DOMAIN store => uploads'[u].key \in DOMAIN store',
           recording.status = "UPLOADED" => recording'.status = "UPLOADED" \/ ActiveUploads' = {}
    PROVE  LastBytesHeld'
BY DEF LastBytesHeld, BytesPlaced, PromotedOf, PromotedStay

LEMMA AnswerStays ==
    ASSUME FilesInv, NEW r \in Request, request[r].at # "promoted",
           \A q \in Request \ {r} : request'[q] = request[q]
    PROVE  PromotedStay
BY DEF PromotedStay, At

LEMMA OthersKept ==
    ASSUME FilesInv, NEW r \in Request, NEW f,
           request' = [request EXCEPT ![r] = f]
    PROVE  \A q \in Request \ {r} : request'[q] = request[q]
BY DEF FilesInv, ActorsTyped

(* An upload whose row is rewritten is not ACTIVE again by that. *)
ActiveKept ==
    \A u \in ActiveUploads' :
        u \in ActiveUploads /\ (uploads[u].key \in DOMAIN store => uploads'[u].key \in DOMAIN store')
UploadedKept == recording.status = "UPLOADED" => recording'.status = "UPLOADED"

LEMMA ActiveUnlessEnded ==
    ASSUME FilesInv, NEW u, NEW status, status # "ACTIVE", UNCHANGED store,
           uploads' = uploads \/ uploads' = InStatus(u, status)
    PROVE  ActiveKept
<1>1. CASE uploads' = uploads
  BY <1>1 DEF ActiveKept, ActiveUploads
<1>2. CASE uploads' = InStatus(u, status)
  <2>1. \A v \in DOMAIN uploads : uploads[v] \in UploadRow
    BY UploadFacts DEF FilesInv, RowsInv
  <2>2. \A v \in DOMAIN uploads' : /\ v \in DOMAIN uploads /\ uploads'[v].key = uploads[v].key
                                  /\ uploads'[v].status \in {uploads[v].status, status}
    BY <1>2, <2>1 DEF InStatus, UploadRow
  <2> QED
    BY <2>2 DEF ActiveKept, ActiveUploads
<1> QED
  BY <1>1, <1>2

LEMMA AnswerOthers ==
    ASSUME FilesInv, NEW r \in Request, NEW reply, Answer(r, reply)
    PROVE  \A q \in Request \ {r} : request'[q] = request[q]
BY OthersKept DEF Answer

LEMMA DiscardOthers ==
    ASSUME FilesInv, NEW r \in Request, NEW key, NEW reply, DiscardThen(r, key, reply)
    PROVE  \A q \in Request \ {r} : request'[q] = request[q]
BY DEF FilesInv, ActorsTyped, DiscardThen

LEMMA ExpireNowQuiet ==
    ASSUME FilesInv, NEW r \in Request, ExpireNow(r)
    PROVE  /\ ActiveKept /\ UploadedKept
           /\ \A q \in Request \ {r} : request'[q] = request[q]
<1>1. UNCHANGED store /\ (uploads' = uploads \/ uploads' = InStatus(request[r].upload, "EXPIRED"))
  BY DEF ExpireNow, Refuse, files, rows
<1>2. ActiveKept
  BY <1>1, ActiveUnlessEnded
<1>3. UploadedKept
  BY DEF ExpireNow, Refuse, rows, MayBecomePending, UploadedKept
<1>4. \A q \in Request \ {r} : request'[q] = request[q]
  BY AnswerOthers, DiscardOthers DEF ExpireNow, Refuse
<1> QED
  BY <1>2, <1>3, <1>4

LEMMA QuietFrame ==
    ASSUME LastBytesHeld, UNCHANGED faults, PromotedStay, ActiveKept, UploadedKept
    PROVE  LastBytesHeld'
BY LastBytesFrame DEF ActiveKept, UploadedKept

(* A handler that is not between the move and the commit. *)
LEMMA HandlerKeepsBytes ==
    ASSUME FilesInv, LastBytesHeld, UNCHANGED faults, NEW r \in Request,
           request[r].at # "promoted", \A q \in Request \ {r} : request'[q] = request[q],
           ActiveKept, UploadedKept
    PROVE  LastBytesHeld'
BY QuietFrame, AnswerStays

LEMMA RefuseKeepsBytes ==
    ASSUME FilesInv, LastBytesHeld, UNCHANGED faults, NEW r \in Request, NEW reply,
           request[r].at # "promoted", Answer(r, reply), UNCHANGED <<uploads, recording, store>>
    PROVE  LastBytesHeld'
<1>1. ActiveKept /\ UploadedKept
  BY DEF ActiveKept, ActiveUploads, UploadedKept
<1> QED
  BY <1>1, HandlerKeepsBytes, AnswerOthers

LEMMA ExpireNowKeepsBytes ==
    ASSUME FilesInv, LastBytesHeld, UNCHANGED faults, NEW r \in Request,
           request[r].at # "promoted", ExpireNow(r)
    PROVE  LastBytesHeld'
BY ExpireNowQuiet, HandlerKeepsBytes

LEMMA CreateKeepsBytes ==
    ASSUME FilesInv, LastBytesHeld, UNCHANGED faults, NEW r \in Request, CreateUpload(r)
    PROVE  LastBytesHeld'
<1>1. request[r].at = "stored" /\ request[r].at # "promoted" /\ UNCHANGED store
  BY DEF CreateUpload, At, files
<1>2. \A q \in Request \ {r} : request'[q] = request[q]
  BY AnswerOthers, DiscardOthers DEF CreateUpload
<1>3. CASE UNCHANGED rows
  <2>1. ActiveKept /\ UploadedKept
    BY <1>1, <1>3 DEF ActiveKept, ActiveUploads, UploadedKept, rows
  <2> QED
    BY <1>1, <1>2, <2>1, HandlerKeepsBytes
<1>4. CASE CreatedRows(r) /\ CreateAllowed(r)
  <2>1. request[r].key \in DOMAIN store' /\ request[r].key \in Key /\ RowsTyped
    BY <1>1 DEF FilesInv, HandsInv, HandFits, HeldFits, Holding, FilesTyped, RowsInv
  <2>2. /\ DOMAIN uploads' = DOMAIN uploads \cup {Len(uploads) + 1}
        /\ uploads'[Len(uploads) + 1].key = request[r].key
        /\ \A u \in DOMAIN uploads : uploads'[u].status # "ACTIVE"
    <3>1. /\ DOMAIN uploads' = DOMAIN uploads \cup {Len(uploads) + 1}
          /\ uploads'[Len(uploads) + 1] =
                [status |-> "ACTIVE", offset |-> 0, key |-> request[r].key, late |-> FALSE]
          /\ \A u \in DOMAIN uploads :
                uploads'[u].status =
                   IF uploads[u].status = "ACTIVE" THEN "EXPIRED" ELSE uploads[u].status
      BY <1>4, <2>1, CreatedUploads
    <3> QED
      BY <3>1
  <2>3. \A u \in ActiveUploads' : uploads'[u].key \in DOMAIN store'
    BY <2>1, <2>2 DEF ActiveUploads
  <2>4. PromotedStay
    BY <1>1, <1>2, AnswerStays
  <2>5. recording.status # "UPLOADED"
    BY <1>4 DEF CreateAllowed
  <2> QED
    BY <2>3, <2>4, <2>5, LastBytesFrame
<1> QED
  BY <1>3, <1>4 DEF CreateUpload, CreatedRows

(* The bytes of the upload that is moved are in the handler's hands.        *)
LEMMA PromoteKeepsBytes ==
    ASSUME FilesInv, LastBytesHeld, UNCHANGED <<orphans, faults>>, NEW r \in Request, Promote(r)
    PROVE  LastBytesHeld'
<1> DEFINE u == request[r].upload
<1>1. request[r].at = "ready" /\ request[r].at # "promoted" /\ request[r].op = "finish"
  BY DEF Promote, At
<1>2. CASE Refuse(r, Refusal(r))
  BY <1>1, <1>2, RefuseKeepsBytes DEF Refuse, rows, files
<1>3. CASE /\ Refusal(r) = "ok" /\ HasFresh
           /\ store' = [k \in (DOMAIN store \cup {Fresh}) \ {uploads[u].key} |->
                           IF k = Fresh THEN Total ELSE store[k]]
           /\ Goes(r, "promoted", Fresh) /\ UNCHANGED rows
  <2>1. /\ request'[r].op = "finish" /\ request'[r].at = "promoted" /\ request'[r].upload = u
        /\ \A q \in Request \ {r} : request'[q] = request[q]
    BY <1>1, <1>3, GoesTyped, FreshIsNew DEF FilesInv, ActorsTyped, Place
  <2>2. PromotedStay
    BY <1>1, <2>1, AnswerStays
  <2>3. UNCHANGED <<uploads, recording>>
    BY <1>3 DEF rows
  <2>4. ASSUME NEW v \in ActiveUploads', v # u PROVE BytesPlaced(v)'
    <3>1. v \in ActiveUploads /\ v \in DOMAIN uploads /\ uploads[v].status = "ACTIVE"
      BY <2>3 DEF ActiveUploads
    <3>2. u \in DOMAIN uploads /\ uploads[v].key # uploads[u].key
      <4>1. Usable(r)
        BY <1>3 DEF Refusal
      <4>2. u \in DOMAIN uploads /\ uploads[u].key # NoKey
        BY <1>1, <4>1, UsableFacts
      <4> QED
        BY <2>4, <3>1, <4>2 DEF FilesInv, RowsInv, RowKeysApart
    <3>3. uploads[v].key \in DOMAIN store => uploads'[v].key \in DOMAIN store'
      BY <1>3, <2>3, <3>2
    <3> QED
      BY <2>2, <2>3, <3>1, <3>3 DEF LastBytesHeld, BytesPlaced, PromotedOf, PromotedStay
  <2>5. ASSUME NEW v, v = u PROVE BytesPlaced(v)'
    BY <2>1, <2>5 DEF BytesPlaced, PromotedOf, At
  <2> QED
    BY <2>4, <2>5 DEF LastBytesHeld
<1>4. CASE Fault("storage")
  BY <1>4 DEF Fault, FilesInv, HistoryTyped
<1> QED
  BY <1>2, <1>3, <1>4 DEF Promote

(* After it the recording is UPLOADED; a completion that is refused found   *)
(* it UPLOADED, or FAILED with no upload ACTIVE.                            *)
LEMMA CompletingKeepsBytes ==
    ASSUME FilesInv, FilesInv', LastBytesHeld, UNCHANGED faults, NEW r \in Request,
           CompleteUpload(r) \/ CompleteRefused(r)
    PROVE  LastBytesHeld'
<1>1. CASE CompleteUpload(r)
  <2>1. recording' = [recording EXCEPT !.status = "UPLOADED", !.key = request[r].key,
                         !.retention = IF session = "COMPLETED" THEN "running" ELSE @]
    BY <1>1 DEF CompleteUpload
  <2>2. recording'.status = "UPLOADED"
    BY <2>1 DEF FilesInv, RowsInv, RowsTyped, Recording
  <2> QED
    BY <2>2 DEF LastBytesHeld, BytesPlaced
<1>2. CASE CompleteRefused(r)
  <2>1. UNCHANGED <<recording, uploads>> /\ recording.status \in {"UPLOADED", "FAILED"}
    BY <1>2 DEF CompleteRefused, MayBecomeUploaded, rows
  <2>2. recording.status = "FAILED" => ActiveUploads' = {}
    BY <2>1 DEF FilesInv, RowsInv, UploadsFit, ActiveUploads
  <2> QED
    BY <2>1, <2>2 DEF LastBytesHeld, BytesPlaced
<1> QED
  BY <1>1, <1>2

LEMMA AppendKeepsBytes ==
    ASSUME FilesInv, LastBytesHeld, UNCHANGED faults, NEW r \in Request, AppendChunk(r)
    PROVE  LastBytesHeld'
<1> DEFINE u == request[r].upload
           n == request[r].offset + 1
<1>1. request[r].at # "promoted"
  BY DEF AppendChunk, AppendBytes, AppendCommit, At
<1>2. CASE AppendBytes(r)
  <2>1. CASE Refuse(r, "404") \/ Refuse(r, "error")
    BY <1>1, <2>1, RefuseKeepsBytes DEF Refuse, rows, files
  <2>2. CASE ExpireNow(r)
    BY <1>1, <2>2, ExpireNowKeepsBytes
  <2>3. CASE Fault("storage")
    BY <2>3 DEF Fault, FilesInv, HistoryTyped
  <2>4. CASE store' = With(uploads[u].key, n) /\ Goes(r, "appended", NoKey) /\ UNCHANGED rows
    <3>1. UNCHANGED <<uploads, recording>> /\ DOMAIN store \subseteq DOMAIN store'
      BY <2>4 DEF rows, With
    <3>2. ActiveKept /\ UploadedKept
      BY <3>1 DEF ActiveKept, ActiveUploads, UploadedKept
    <3>3. \A q \in Request \ {r} : request'[q] = request[q]
      BY <2>4 DEF Goes, FilesInv, ActorsTyped
    <3> QED
      BY <1>1, <3>2, <3>3, HandlerKeepsBytes
  <2> QED
    BY <1>2, <2>1, <2>2, <2>3, <2>4 DEF AppendBytes
<1>3. CASE AppendCommit(r)
  <2>1. /\ uploads' = [uploads EXCEPT ![u].offset = n] /\ UNCHANGED <<recording, store>>
        /\ Answer(r, Ok(u, n))
    BY <1>3 DEF AppendCommit, files
  <2>2. \A v \in DOMAIN uploads' : v \in DOMAIN uploads
      /\ uploads'[v].status = uploads[v].status /\ uploads'[v].key = uploads[v].key
    <3> HIDE DEF n
    <3>1. \A v \in DOMAIN uploads : uploads[v] \in UploadRow
      BY UploadFacts DEF FilesInv, RowsInv
    <3> QED
      BY <2>1, <3>1 DEF UploadRow
  <2>3. ActiveKept /\ UploadedKept
    BY <2>1, <2>2 DEF ActiveKept, ActiveUploads, UploadedKept
  <2> QED
    BY <1>1, <2>1, <2>3, AnswerOthers, HandlerKeepsBytes
<1> QED
  BY <1>2, <1>3 DEF AppendChunk

LEMMA DiscardKeepsBytes ==
    ASSUME FilesInv, LastBytesHeld, UNCHANGED faults, NEW r \in Request, Discard(r)
    PROVE  LastBytesHeld'
<1>1. request[r].at = "discarding" /\ request[r].at # "promoted" /\ Answer(r, request[r].reply)
  BY DEF Discard
<1>2. UNCHANGED <<uploads, recording>>
  BY DEF Discard, rows
<1>3. store' = Without({request[r].key}) \/ UNCHANGED store
  BY DEF Discard
<1>4. \A u \in ActiveUploads : request[r].key # uploads[u].key
  BY <1>1 DEF FilesInv, HandsInv, HandFits, DiscardingFits
<1>5. ActiveKept /\ UploadedKept
  BY <1>2, <1>3, <1>4 DEF ActiveKept, ActiveUploads, UploadedKept, Without
<1> QED
  BY <1>1, <1>5, AnswerOthers, HandlerKeepsBytes

(* Handlers that neither write rows nor remove an object. *)
LEMMA OthersKeepBytes ==
    ASSUME FilesInv, LastBytesHeld, UNCHANGED faults, NEW r \in Request,
           \/ ReadUpload(r) \/ ReadRecording(r) \/ StoreTemporary(r) \/ StorePdf(r)
           \/ AttachPdf(r) \/ ReceivePdf(r) \/ DetachPdf(r) \/ Send(r) \/ Replay(r)
           \/ (ExpireIfDue(r) /\ UNCHANGED rows)
    PROVE  LastBytesHeld'
<1>1. request[r].at # "promoted"
  BY DEF ReadUpload, ReadRecording, StoreTemporary, StorePdf, AttachPdf, ReceivePdf, DetachPdf,
     Send, Replay, ExpireIfDue, At
<1>2. \A q \in Request \ {r} : request'[q] = request[q]
  <2>1. CASE Replay(r) \/ AttachPdf(r) \/ ExpireIfDue(r)
    BY <2>1, AnswerOthers, DiscardOthers, OthersKept
    DEF Replay, AttachPdf, ExpireIfDue, ExpireNow, Refuse, FilesInv, ActorsTyped
  <2>2. CASE ReadUpload(r) \/ ReadRecording(r) \/ StoreTemporary(r) \/ StorePdf(r)
             \/ ReceivePdf(r) \/ DetachPdf(r) \/ Send(r)
    BY <2>2 DEF ReadUpload, ReadRecording, StoreTemporary, StorePdf, ReceivePdf, DetachPdf, Send,
       Goes, FilesInv, ActorsTyped
  <2> QED
    BY <2>1, <2>2
<1>3. UNCHANGED <<uploads, recording>> /\ DOMAIN store \subseteq DOMAIN store'
  BY DEF ReadUpload, ReadRecording, StoreTemporary, StorePdf, AttachPdf, ReceivePdf, DetachPdf,
     Send, Replay, ExpireIfDue, ExpireNow, Refuse, rows, files, With
<1>4. ActiveKept /\ UploadedKept
  BY <1>3 DEF ActiveKept, ActiveUploads, UploadedKept
<1> QED
  BY <1>1, <1>2, <1>4, HandlerKeepsBytes

LEMMA HandleKeepsBytes ==
    ASSUME FilesInv, FilesInv', LastBytesHeld, UNCHANGED <<orphans, faults>>, NEW r \in Request,
           Handle(r)
    PROVE  LastBytesHeld'
<1>1. CASE GetUpload(r)
  <2>1. request[r].at # "promoted"
    BY <1>1 DEF GetUpload, At
  <2>2. CASE ExpireNow(r)
    BY <2>1, <2>2, ExpireNowKeepsBytes
  <2>3. CASE (\E reply : Answer(r, reply)) /\ UNCHANGED <<rows, files>>
    BY <2>1, <2>3, RefuseKeepsBytes DEF rows, files
  <2> QED
    BY <1>1, <2>2, <2>3 DEF GetUpload, Refuse
<1>2. CASE ExpireIfDue(r)
  <2>1. request[r].at # "promoted"
    BY <1>2 DEF ExpireIfDue, At
  <2>2. CASE ExpireNow(r)
    BY <2>1, <2>2, ExpireNowKeepsBytes
  <2>3. CASE UNCHANGED rows
    BY <1>2, <2>3, OthersKeepBytes
  <2> QED
    BY <1>2, <2>2, <2>3 DEF ExpireIfDue, Refuse
<1>3. CASE ReadUpload(r) \/ ReadRecording(r) \/ StoreTemporary(r) \/ Replay(r) \/ UploadMaterial(r)
  BY <1>3, OthersKeepBytes DEF UploadMaterial
<1>4. CASE CreateUpload(r) \/ AppendChunk(r) \/ Promote(r) \/ CompleteUpload(r)
           \/ CompleteRefused(r) \/ Discard(r)
  BY <1>4, CreateKeepsBytes, AppendKeepsBytes, PromoteKeepsBytes, CompletingKeepsBytes,
     DiscardKeepsBytes
<1> QED
  BY <1>1, <1>2, <1>3, <1>4 DEF Handle, CreateRecordingUpload, CompleteRecordingUpload

(* The class, its deadlines, the worker and the browser.                    *)
LEMMA LastBytesKept ==
    ASSUME FilesInv, FilesInv', LastBytesHeld, [Next]_vars
    PROVE  LastBytesHeld'
<1>0. faults \in Nat /\ faults <= MaxFault
  BY BoundsArePositive DEF FilesInv, HistoryTyped
<1>1. CASE faults > 0 /\ faults' = faults - 1
  <2>1. faults' < MaxFault
    BY <1>0, <1>1, BoundsArePositive
  <2> QED
    BY <2>1 DEF LastBytesHeld, BytesPlaced
<1>2. CASE UNCHANGED <<orphans, faults>>
  <2>1. ~Fault("rollback") /\ ~Fault("restart") /\ ~Fault("network")
    BY <1>0, <1>2 DEF Fault
  <2>2. ASSUME NEW r \in Request,
               Handle(r) \/ FailEarly(r) \/ AppendRollback(r) \/ CompleteRollback(r)
                  \/ ReceivePdf(r) \/ DetachPdf(r) \/ Send(r)
        PROVE  LastBytesHeld'
    BY <1>2, <2>1, <2>2, HandleKeepsBytes, OthersKeepBytes
    DEF FailEarly, AppendRollback, CompleteRollback
  <2>3. CASE UNCHANGED request /\ UNCHANGED <<uploads, store>> /\ UploadedKept
    <3>1. PromotedStay /\ ActiveKept
      BY <2>3 DEF PromotedStay, At, ActiveKept, ActiveUploads
    <3> QED
      BY <1>2, <2>3, <3>1, QuietFrame
  <2>4. CASE (\E k \in Key : LeaseEnds(k)) \/ UNCHANGED vars
    BY <2>3, <2>4 DEF LeaseEnds, vars, rows, files, UploadedKept
  <2>5. ASSUME NEW d \in Deleter, Work(d) \/ WorkerCrash(d)
        PROVE  LastBytesHeld'
    <3>1. CASE Claim(d)
      <4>1. recording' = [recording EXCEPT !.deleted = @ \/ RetentionDue]
        BY <3>1 DEF Claim
      <4>2. UploadedKept
        BY <4>1 DEF UploadedKept, FilesInv, RowsInv, RowsTyped, Recording
      <4> QED
        BY <2>3, <3>1, <4>2 DEF Claim
    <3>2. CASE Mark(d)
      BY <2>3, <3>2 DEF Mark, rows, UploadedKept
    <3>3. CASE DeleteObject(d)
      <4>1. UNCHANGED <<uploads, recording, request>>
        BY <3>3 DEF DeleteObject, rows
      <4>2. deleter[d].key \in DOMAIN ledger
        BY <3>3 DEF DeleteObject, FilesInv, DeletersFit
      <4>3. \A u \in DOMAIN uploads : uploads[u].key # deleter[d].key
        BY <4>2 DEF FilesInv, ObjectsFit, LedgerFits
      <4>4. UNCHANGED store \/ DOMAIN store' = DOMAIN store \ {deleter[d].key}
        BY <3>3 DEF DeleteObject, Without
      <4>5. PromotedStay /\ ActiveKept /\ UploadedKept
        BY <4>1, <4>3, <4>4 DEF PromotedStay, At, ActiveKept, ActiveUploads, UploadedKept
      <4> QED
        BY <1>2, <4>5, QuietFrame
    <3> QED
      BY <2>1, <2>5, <3>1, <3>2, <3>3 DEF Work, WorkerCrash
  <2>6. CASE CompleteSession \/ DeleteSession
    <3>1. \A u \in DOMAIN uploads : uploads[u] \in UploadRow
      BY UploadFacts DEF FilesInv, RowsInv
    <3>2. CASE CompleteSession
      <4>1. uploads' = [v \in DOMAIN uploads |->
                           IF Active(v) THEN [uploads[v] EXCEPT !.status = "FAILED"] ELSE uploads[v]]
        BY <3>2 DEF CompleteSession
      <4>2. \A v \in DOMAIN uploads' : uploads'[v].status # "ACTIVE"
        BY <3>1, <4>1 DEF Active, UploadRow
      <4> QED
        BY <4>2 DEF LastBytesHeld, ActiveUploads
    <3>3. CASE DeleteSession
      <4>1. uploads' = [v \in DOMAIN uploads |->
                           [uploads[v] EXCEPT !.status = "GONE", !.key = NoKey]]
        BY <3>3 DEF DeleteSession
      <4>2. \A v \in DOMAIN uploads' : uploads'[v].status # "ACTIVE"
        BY <3>1, <4>1 DEF UploadRow
      <4> QED
        BY <4>2 DEF LastBytesHeld, ActiveUploads
    <3> QED
      BY <2>6, <3>2, <3>3
  <2>7. CASE AbandonUpload \/ DeleteRecording \/ DeleteCourse \/ RetentionEnds
    <3>1. UploadedKept
      BY <2>7 DEF AbandonUpload, DeleteRecording, DeleteCourse, RetentionEnds, UploadedKept,
         FilesInv, RowsInv, RowsTyped, Recording
    <3> QED
      BY <2>3, <2>7, <3>1 DEF AbandonUpload, DeleteRecording, DeleteCourse, RetentionEnds, files
  <2>8. CASE ManifestEnds
    <3>1. UNCHANGED <<recording, store, request>>
      BY <2>8 DEF ManifestEnds, files
    <3>2. \A v \in DOMAIN uploads' : /\ v \in DOMAIN uploads
                                    /\ uploads'[v].status = uploads[v].status
                                    /\ uploads'[v].key = uploads[v].key
      <4>1. \A v \in DOMAIN uploads : uploads[v] \in UploadRow
        BY UploadFacts DEF FilesInv, RowsInv
      <4>2. PICK u \in ActiveUploads : uploads' = [uploads EXCEPT ![u].late = TRUE]
        BY <2>8 DEF ManifestEnds
      <4> QED
        BY <4>1, <4>2 DEF UploadRow
    <3>3. PromotedStay /\ ActiveKept /\ UploadedKept
      BY <3>1, <3>2 DEF PromotedStay, At, ActiveKept, ActiveUploads, UploadedKept
    <3> QED
      BY <1>2, <3>3, QuietFrame
  <2>9. CASE Start \/ Drop \/ Ask \/ Crash
    BY <2>1, <2>3, <2>9 DEF Start, Drop, Ask, Crash, rows, files, UploadedKept
  <2> QED
    BY <2>2, <2>4, <2>5, <2>6, <2>7, <2>8, <2>9 DEF Next
<1> QED
  BY <1>1, <1>2, StepsCountFaults

(* What the browser may forget, the server has: the bytes a manifest counts *)
(* are in its object, whatever was repeated, rolled back or decided on rows *)
(* read too early; once all are there, a completion has them in hand, or a  *)
(* fault or another upload's completion came between                        *)
(* (append_chunk, prepare_completion, StorageCompensation).                 *)
THEOREM AcknowledgedIsHeld == Spec => []AcknowledgedBytesHeld
<1>1. Init => LastBytesHeld
  BY DEF Init, LastBytesHeld, ActiveUploads
<1>2. FilesInv /\ FilesInv' /\ LastBytesHeld /\ [Next]_vars => LastBytesHeld'
  BY LastBytesKept
<1>3. FilesInv /\ LastBytesHeld => AcknowledgedBytesHeld
  <2> SUFFICES ASSUME FilesInv, LastBytesHeld, NEW u \in ActiveUploads
               PROVE  /\ browser.upload = u => browser.offset <= uploads[u].offset
                      /\ \/ BytesOf(u)
                         \/ PromotedOf(u)
                         \/ /\ uploads[u].offset = Total
                            /\ faults < MaxFault \/ recording.status = "UPLOADED"
    BY DEF AcknowledgedBytesHeld, PromotedOf
  <2>1. u \in DOMAIN uploads /\ uploads[u].status = "ACTIVE"
    BY DEF ActiveUploads
  <2>2. browser.upload = u => browser.offset <= uploads[u].offset
    BY <2>1 DEF FilesInv, BrowserFits
  <2>3. CASE uploads[u].key \in DOMAIN store
    BY <2>1, <2>2, <2>3 DEF FilesInv, ObjectsFit, BytesHeld, BytesOf
  <2>4. CASE uploads[u].key \notin DOMAIN store
    <3>1. ~(uploads[u].offset < Total)
      BY <2>1, <2>4 DEF FilesInv, ObjectsFit, BytesHeld
    <3>2. uploads[u].offset \in Nat /\ uploads[u].offset <= Total
      BY <2>1, UploadSequence DEF FilesInv, RowsInv, RowsTyped
    <3>3. uploads[u].offset = Total
      BY <3>1, <3>2, BoundsArePositive
    <3> QED
      BY <2>2, <2>4, <3>3 DEF LastBytesHeld, BytesPlaced
  <2> QED
    BY <2>3, <2>4
<1> QED BY <1>1, <1>2, <1>3, FilesInvariant, PTL DEF Spec
=============================================================================
