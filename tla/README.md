# GOAL: TLA+ models of the lecture assistant's backend

GOAL records a class, transcribes it, clusters the students' questions and writes
summaries.  A FastAPI process serves the browsers; seven polling workers
(`src/backend/src/tbd/jobs/*_worker.py`) do the slow work.  They share nothing but
PostgreSQL and a storage directory: a row of `ai_jobs` is the only thing that passes
work from one process to another, and a transaction is the only thing that is atomic.
What is hard in this system is therefore what happens *between* the transactions of a
job: the worker computes for minutes while professors end classes, retry jobs, upload
recordings and a watchdog gives up on the Session.

## Inventory

| Component | State | Operations | Interacts with |
|---|---|---|---|
| AIJob ledger (`repositories/jobs.py`, `jobs/kernel.py`) | `ai_jobs`: status, attempt, version, run token, lease, retryable | enqueue, claim, heartbeat, succeed, fail, cancel, supersede, retry, requeue, purge, expiry sweeps | every worker and service; writes `job.updated` to the outbox |
| Session post-processing (`services/postprocessing.py`) | blocking rows of a Session, `lecture_sessions.status` | claim and finish the coordinator, organize answers, summarize, backfill, watchdog | ledger, transcripts, answers |
| HQ transcription (`services/recording_transcription.py`) | `transcript_versions` of source RECORDING, canonical pointer | claim, succeed, fail, cancel | ledger, upload, coordinator |
| Session lifecycle (`services/sessions.py`) | `lecture_sessions` | create, start, end, delete | enqueues coordinator and FINAL clustering, purges private AI |
| Recording upload (`services/recordings.py`) | `session_recordings`, `recording_uploads`, a temporary and a final object | create, append chunk, expire, complete, abandon | storage, HQ row |
| Live audio and LIVE STT (`services/live_audio.py`) | publisher lease, frame sequence, LIVE version, segments, gaps | claim, accept frame, persist final, drain | browser socket, STT provider |
| Answers (`services/answers.py`) | `answers`, mappings, organizations | start, complete, cancel, text edit, project | LIVE version, coordinator |
| Question clustering (`services/clustering.py`, `services/questions.py`) | watermarks, revision, generation, reserved retry | ask, claim, succeed, fail, requeue, freeze at the end | ledger, Session |
| Personal AI (`services/personal_ai.py`) | REQUESTER_ONLY rows, summaries, chats | request, claim, persist, purge at the end of class | ledger, idempotency |
| Materials, knowledge index (`services/materials.py`, `services/knowledge.py`) | material rows, `knowledge_chunks` | upload, process, detach; request, index, retrieve | ledger, storage, answers, chats |
| Outbox and fan-out (`repositories/outbox.py`, `realtime/`) | `outbox_events`, a hub in memory | enqueue, claim, fan out, replay after a cursor | browsers |
| Idempotency (`repositories/idempotency.py`) | `idempotency_records` | acquire, complete, replay, purge | every mutating request |
| Storage deletion ledger (`services/lifecycle.py`, `jobs/lifecycle_worker.py`) | `storage_deletion_ledgers` | enqueue, claim, delete, mark | storage |
| Course and membership (`services/courses.py`, `repositories/courses.py`) | `courses`, `course_members`, the open class | create, join, rotate, delete | accounts, classes |
| Authentication (`services/auth_sessions.py`, `services/oauth.py`) | `users`, `auth_sessions`, `oauth_transactions` | register, log in, log out, withdraw | every request |
| Archive pages, providers, pages of the frontend | | | one query each, or outside this backend |

Correctness, per component: a job's attempt settles once and a late answer of an earlier
attempt changes nothing; a Session that ends its class reaches COMPLETED whatever fails,
and completes with everything it should have had; an HQ version and its job agree; no
committed question is forgotten by clustering; an upload's offset never runs ahead of
its object and no object is left without an owner; a browser that listens hears what
commits; sound is taken once or marked as missing; nothing private of a class survives
its end; the index and the citations hold what their sources say; a deleted Course is
closed for whoever was on the way into it.

`PROJECT.json` lists the hazards with the line where each bites, and the property that
covers it or why none does.

## Modules

### AttemptOutcome
The abstract promise of the ledger: numbered attempts, one open at a time, each settled
once, results that stay, an attempt that has published a result reopened only for a row
that may be rebuilt (the coordinator), and jobs that are withdrawn for good.

### JobLedger
One row of `ai_jobs` per member of `Job`, one `ClaimedJob` per worker, the last
`job.updated` event per row and the set of runs whose result was committed. Each action
is one transaction of the code: `Claim` is `_claim_locked` under its three entry points,
`Succeed`/`Fail`/`DiscardLate` are the guarded updates of `_run_conditions` and what the
worker does when they change no row, `FinishById` is `cancel` and `supersede`,
`ForceTimeout` is the part of the Session watchdog that writes rows.  Run tokens are
numbers drawn in order (`uuid4` in the code): only their being fresh matters.
`DetachFailed`, `Heartbeat` and `ExtendPending` write a row and its version without an
outbox event, as the code does.  Two operations exist that no process calls
(`heartbeat`, `fail_expired_shared`); `Wired` says whether an instance has them.

`Claim` reads the row it locks.  That is `claim_next_shared`; a worker that reads a
candidate first and locks it later keeps the candidate's attempt and version in the
ORM's identity map: `QuestionClustering` models that for its worker.

### SessionPostprocessing
One Session from LIVE to COMPLETED.  `session`, `recording`, `live`, `hq`, `canonical`
and `answer` are the columns of the same meaning; `job` holds the Session's blocking
rows, the FINAL_SUMMARY rows told apart by their dedupe key (one per source version).
`run` is the set of claims that have not reported: computing takes no action, a worker
that dies is a run that never reports, and any run may report after its row was failed,
retried or finished.  `late` in a run is the deadline the HQ worker computes at its
claim.  `hq[a]` is the status of the version of HQ attempt `a`; the code makes one
version per attempt, with the row in `complete_upload` and in `JobService.retry`.
`EvaluateCompletion` is the last conjunct of the actions whose transactions end with
`evaluate_session_completion`; it reads the primed variables, as the code reads its own
writes.

Abstractions: one voice answer; a FINAL clustering row exists when a question was asked;
an answer that cannot be mapped to the HQ version is organized from the LIVE range,
which is a free choice in `FinishCoordinator`; provider outcomes are a free choice of
success, retryable failure, failure or silence; segments are counted only as "some or
none".

### QuestionClustering
One Session's `question_clustering_states` row, its QUESTION_CLUSTERING rows in order of
creation, the members of its two generations and the one clustering worker.  `asked` is
the latest `clustering_sequence`; `requested`, `applied`, `revision`, `current`,
`final`, `retry` and `lastJob` are columns of the state; `rows[i].through` and `.base`
are `input_through_sequence` and `base_revision`.  A question is the number of its
`clustering_sequence`.

`QuestionService.create` is four actions, one per branch: the question extends the
PENDING row, waits for a RUNNING or reserved one, brings a row, or comes after class.
`run_once` is split where the code ends a transaction or reads without a lock:
`Requeue`, `Look` (the candidate), `Claim` (under the locks, on the watermark and
attempt of the candidate, which the ORM does not read again), then `Succeed`, `Fail` or
`LateReport`.  API calls and the watchdog run in between. `run_once` reads the clock
once, so `available_at <= now` is a flag `due` of the row that only `Tick` sets, and
`Tick` happens while the worker is idle or computes, not between `Look` and `Claim`.
That is what keeps a FINAL row that is retried between the two from being claimed under
its old attempt (`available_at` is later than the clock of the poll): the fence is a
comparison of clocks, not a lock.

`live` and `closing` count how often a question is a member of the current LIVE and of
the FINAL generation: counts, not sets, because a copy of the previous generation plus a
run's input is where a question could appear twice.

Abstractions: representatives, texts and the partition into clusters; the FINAL input of
answered representatives (they exist only where a question was clustered, so they never
decide whether there is a FINAL row); the rest of the Session's blocking work is
`Complete`; the reports of a dead worker are not seen. One worker process, as
`deploy/systemd/goal-worker@.service` runs it.

### StoredFiles
The recording and one PDF of a class that ended, with the objects in storage.  The
database and the storage cannot commit together, so every handler that writes both is
several steps: the object, then the transaction, then, when it rolls back,
`StorageCompensation`.  `request` says where each handler of the server is and what it
has read; `browser` is the uploader of the page (`features/recordings/uploader.ts`),
which may stop waiting and ask again while the old handler goes on.  Faults are a server
that restarts, a transaction that rolls back, a storage call that fails and a reply that
is lost.  `ledger` and `deleter` are `storage_deletion_ledgers` and the worker that
claims a row, deletes the object outside a transaction and marks the row.

The handlers of an existing upload (`get`, `append`, both transactions of `complete`)
read its row (`ReadUpload`), then the recording's (`ReadRecording`), then wait for the
Session row, and decide on what they read *before* they waited: `_lock_upload_context`
selects both rows again `FOR UPDATE`, but without `populate_existing`, so the ORM's
identity map keeps the old columns.  `seen` and `due` of a handler are those columns;
`Usable`, `Expired`, `Open`, `AppendRefused` and `Refusal` look at them and not at the
rows.  What such a handler may not overwrite is refused when its transaction is flushed:
`MayBecomePending` and `MayBecomeUploaded` are `session_recordings_uploaded_key_ck`,
`session_recordings_failed_at_ck` and the unique index of `ai_jobs` on the recording.  A
completion that is refused there has moved the object already, and its compensation
deletes it (`CompleteRefused`).  Creating an upload, the watchdog and the deletions read
under the Session row.

Abstractions: an object is the number of chunks it holds; size, hash and codec checks
are a free choice of refusal; storage keys are reused when nothing names them any more;
retention and the 24 hours of a manifest are flags that may be set at any time, and a
request judges by the clock at its arrival (`due`).  `version` columns are left out, with
the increments that two handlers of stale rows lose, and so is the replay of a completion
after the 24 hours of its record.

### RealtimeEvents
The events of one class from the transaction that writes them to the page of a member.
`Begin`, `Enqueue`, `Commit` are a writing transaction (its `created_at` is the time it
began, as `now()` is in PostgreSQL, its `available_at` the time of writing), `Claim` and
`FanOut` the publisher task, `IssueTicket`, `Accept`, `Register`, `Send` the socket
handler in the order of `routers/realtime.py` (ticket, replay, `hub.add`, queue).  Event
ids are random UUIDs: an event *is* its id, and which event draws which id is arbitrary.

Beside the events the page reads by REST, and an answer carries what was committed when
the server read it, not when it arrives.  Three kinds of answers are under way in a page:

- `get`, the Session query.  It is asked for by `Poll` (`refetchInterval`), and by the
  invalidation that follows an update event or a resync, which first cancels the read
  that is under way: `Received` and `SendResync` replace it.
- `reading`, the timeline.  It is asked for when the page opens and after a resync; an
  answer is merged with the segments that are there (`ArriveTimeline`).
- `late`, what no event cancels: the answer to a change of the page's own (rename, start,
  end: `SessionDetailPage.tsx`, `ReadyClassView.tsx`) and the first record manifest, which
  holds the Session as well (`SessionRecordPage.tsx`).

All of them are put in the cache without comparing versions (`Arrive`, `ArriveLate`);
only events are compared (`NewerView`).

Abstractions: one class, one API process; pages hold a set of events and one version of
the Session; the first read of the Session ends before the page shows anything (`Load`);
reads that fail are left out; the page's bound on remembered ids (200) is not reached.

### LiveAudio
The tabs of the professor, the WebSocket handlers that take their frames, the recording
row and the LIVE transcript.  A frame passes through several transactions (`Accept`, the
provider's answer, `Persist` per utterance, `MarkProcessed`) and a socket that broke
leaves its handler running while the tab connects again, so two handlers of one tab can
be at different points of the same frame.  `Connect`, `Capture`, `SendFrame`, `Break`,
`Reload`, `Stop` are `features/live/audio-publisher.ts`: the window of unacknowledged
frames and what survives in `sessionStorage`.  `taken`, `understood` and `persisted` are
histories for the properties.

Abstractions: an utterance is named by its first frame; texts and times are left out;
sequences are one higher than in the code.  The lease of the publisher is written by the
code and never read, so it is not a variable.

### PersonalAI
One student's private summaries and chats: the requests with their idempotency records,
the worker, and the end of the class, which purges them.  A request inserts its record
in the first of its two steps; the foreign key of the record then shares the Session row
until it commits.  `EndClass` reads the records to rewrite and *then* waits for the
Session row, in two steps as well.  A worker run is `picked`, `claimed`, `generated`;
`Poll` is `run_once` with its lease sweep first.  A job is named by what it answers: a
chat and the sequence of its USER message, or a summarised range.

### KnowledgeIndex
Everything that feeds the knowledge index of a class: PDFs with their processing job,
the segments of the canonical transcript, the professor's answer (captured, typed,
edited, withdrawn, given again) with the status of its question, the KNOWLEDGE_INDEXING
rows and their worker, and a turn of a REVIEW chat that retrieves a chunk and cites it.
The worker reads its sources in one transaction, embeds without one and stores in
another that reads the sources again (`_source_is_current`); everything else is one step
under the Session lock. `Conflict` is what the unique indexes of `knowledge_chunks`
refuse.

Abstractions: a text is the sequence of chunks it splits into; similarity is a free
choice among the chunks that the query's conditions let through.

### CourseAccess
Accounts and browser sessions, Courses with members and join codes, and the open class
of a Course.  A request is authenticated in one transaction (`Authenticate`) and served
in a later one that does not read the account again.  Operations that lock one row are a
step; those that lock the Course and its class take them one after the other, in two
orders, and PostgreSQL ends one of two that wait for each other.  `delete_course` waits
for its class while that is open, and afterwards too when the class has a material or a
stored recording (`kept`): its two joins are locked without `OF`, rows of both tables
(`LocksClass`).  Start, end, the upload of a material and the deletion of a class come
from the other side.  A creation carries an Idempotency-Key or none, and a browser may
send it again.

Abstractions: one person per User and per verified email; a join code is the number of
the rotation that made it; the answer to a list or a read is left out; what refuses a
start, an end or a material beside the status of the class (a material in processing, an
answer being captured, the limit of materials) is a free choice.

### Proof modules
`<Component>_proofs` holds the theorems about a component, one lemma per action and one
step per conjunct that the action can disturb.  `JobLedger_proofs` ends with the
refinement of `AttemptOutcome`; `LiveClass_proofs` serves `LiveAudio`, which it extends,
and `RealtimeEvents`, which it instantiates.  The inductive invariants of the ledger, of
post-processing and of clustering are stated in their component modules, the others at
the head of their proof modules.

`MC<Component>` gives a component the instances that TLC checks.

## Runs

| Run | Instance | Shows |
|---|---|---|
| `ledger` | two pairs of rows (coordinator and material; private and LIVE clustering), 2 workers, 2 attempts, all operations wired | fencing, one run per attempt, events, the refinement of `AttemptOutcome`; the personal sweep frees rows of dead workers |
| `postprocessing` | recording, voice answer and questions, 2 attempts per row | version and row agree, sources stay readable, organizations are not lost, PROCESSING ends, a recovered transcript is rebuilt from |
| `clustering` | 4 questions, 3 attempts a row | no question forgotten, owned twice, counted twice or late; the FINAL generation is the class; every question is clustered |
| `stored_files` | a recording of 2 chunks or a PDF, 2 overlapping requests, 2 deletion workers, 1 fault | what is served has its bytes, what is stored has an owner, acknowledged bytes are kept, a recording is transcribed once although handlers decide on stale rows, queued deletions happen and are reported truly |
| `realtime` | 2 writing transactions, 3 events (one update, one internal), 1 browser, 2 connections; batch, queue and replay of 1 | a registered browser hears what commits, a replay is whole or a resync, no earlier read undoes an update event |
| `live_audio` | 2 tabs, 2 sockets, 3 frames, a window of 1, 2 breaks | a frame is taken once, skipped sound has a gap, finals are kept once |
| `personal_ai` | 3 keys, 1 range, 1 chat of 4 messages, 2 workers, 2 attempts, 1 crash | nothing private survives the class, results match jobs, jobs end |
| `knowledge` | a PDF of 2 pages, 1 segment, 2 texts, 2 answers, 3 rows, 2 attempts, 1 crash | chunks of one text, only current sources enter index and citations, the question follows its answer, requests are worked off |
| `course_access` | a professor and a student, 2 Courses with classes that are open, done or have files, 2 browsers, 1 key, 2 codes | a deleted Course is closed, the owner is a member, a key creates once, requests end, and nothing deadlocks |
| `knowledge_pages` | as `knowledge` | *violated*: the pages of a PDF collide in the index |
| `files_stuck` | as `stored_files`, 1 request, 1 worker | *violated*: a stored but uncommitted chunk blocks its upload |
| `course_withdrawn` | as `course_access`, all operations for all users | *violated*: a withdrawn account owns a new Course |

Further configurations lie beside them and can be run by hand (`tlc -config X.cfg
MC<Component>`).  `RowsKeepContract` of `MCQuestionClustering` and `JobsKeepContract` of
`MCPersonalAI` hold as well when they are added to the configurations of those runs.

| Configuration | Property | Result |
|---|---|---|
| `StoredFilesRows` | the invariants of `stored_files`, `HiddenObjectsQueued` and `TypeOK` under two faults | hold |
| `RealtimeEventsCommitted` | `ToldIsCommitted`, `NoneDropped` | hold |
| `RealtimeReads` | `EventsStay` with two updates, a restart and reads at any time | holds |
| `PostprocessingSteps` | `WatchdogCompletes`, `CanonicalIsLast`, `RecoveryOnlyRebuilds`; `JobsKeepContract`: each row implements `AttemptOutcome` | hold |
| `KnowledgeIndexRows` | `RowsKeepContract`, likewise; `OnlyCrashStrands`, `StrandedIsFinal` | hold |
| `JobLedgerLostRun` | `LostRunsEnd` | violated: nobody sweeps a lost SHARED run |
| `PostprocessingLateResult` | `LateResultsAreDiscarded` | violated: a stale HQ run cancels the attempt after it |
| `PostprocessingUnorganized` | `AnswersHaveOrganization` | violated: a Session completes without its answer's organization row |
| `PostprocessingNoSummary` | `RecoveryHasSummary` | violated: the HQ transcript never gets its summary |
| `ClusteringPending` | `FinalClearsPending` | violated: a FINAL generation leaves the state pending |
| `ClusteringLastJob` | `LastJobShown` | violated: the watchdog leaves `last_job_status` behind |
| `StoredFilesLeftBehind` | `DeletedClassQueued` | violated: deleting a class queues none of its objects |
| `StoredFilesStale` | `OnlyActiveUploadsMove` | violated: a chunk is appended to an upload that the watchdog has failed |
| `RealtimeReadsView` | `ViewNeverRegresses` | violated: an answer that no event cancels takes the Session back |
| `RealtimeEventsLost` | `DeliveryRecoverable` | violated: an event can be behind the cursor and unheard |
| `LiveAudioProcessed` | `ProcessedWasAccepted` | violated: the processed watermark passes frames that the provider refused |
| `PersonalAIReplay` | `ReplayIsPurged` | violated: a record that commits during the end keeps its reply |
| `PersonalAIRetry` | `RetriedTurnHasRoom` | violated: a retried turn has later messages behind it |
| `CourseAccessErased` | `WithdrawnIsAnonymous` | violated: a login that met a withdrawal writes the name back |

### Bounds

*Rows and attempts.*  `MaxAttempt = 2`: every hazard here needs an attempt and the one
after it; a third adds no new pair (in clustering, three reserve and requeue a row
twice). `MaxVersion` ends only the steps that write nothing but a version.  Two workers
are needed for a late answer and its successor; the second row of a ledger pair is there
for the sweeps that write several rows at once.  A coordinator that is requeued by an HQ
success is bounded by the HQ attempts, so `SessionPostprocessing` has no other bound.
Four questions make a row, one that extends it, one that comes after its candidate was
read and one that comes while it runs.  The limits on attempts stand for the assumption
that a row does not fail for ever (the code sets none), `MaxQuestion` for the assumption
that questions pause (each one restarts the debounce).

*Files.*  Two chunks give an upload a middle, where a chunk can be repeated or lost; one
fault is what each hazard needs, and its aftermath is explored with two handlers and two
deletion workers (with two faults by `StoredFilesRows`, where handlers and workers are
symmetric: it checks invariants only).  A stale row needs one handler that waits and
another, or the watchdog, that commits meanwhile.  `OneFile` lets a behaviour upload
the recording or the PDF, not both: they meet only in the ledger, which does not tell
objects apart.

*Events.*  Batch, queue and replay hold one row where the code has 100, 100 and 500, so
that every one of them overflows with three events.  Three events are one before, one
around and one after a cursor; two writers commit in the other order than they began.
The run's reads are early (`EarlyReads`): what a page reads of itself is asked for before
the first event and may arrive at any later step, and what no event cancels arrives
before the second connection.  `RealtimeReads` lifts both, with two updates and a
restart, for the action property alone.

*Audio.*  A window of one makes the tab discard; two breaks leave an old handler beside
a new one and a restart beside either; three frames are one taken, one skipped and one
after. `SocketSymmetry` is used because the run checks invariants only.

*Private AI.*  Three keys make a summary, a chat and a turn, or a chat and two turns;
keys are interchangeable, so they are first used in order.  *Knowledge.*  Two pages,
because one hides the conflict of page numbers; two texts with a common beginning; at
most one row fails or is lost in a behaviour (`OneFailure`).  *Courses.*  `Roles` keeps
the student from owning Courses and the second Course from anything but its creation;
the violation runs check without it.

Deadlock is checked where something can always happen (`clustering`, `course_access`);
in the other instances a behaviour ends when the bounds are used up or the class is over
with nothing to retry.

### Fairness

- `JobLedger`: leases run out, and `PersonalAIWorker.run_once` sweeps on every poll.  No
  worker owes the end of what it claimed.
- `SessionPostprocessing`: the deadline passes, and the post-processing worker starts
  each poll with `run_watchdog_once`, restarts included.  Nothing is assumed of the HQ,
  clustering or AI workers, of uploads or of professors.  `RecoveryRebuilds` names what
  it needs itself (`CoordinatorAlive`): coordinators are claimed and finished by a
  process that keeps polling.
- `QuestionClustering`: the worker's loop goes on (weak fairness of `RunOnce`; which
  outcome a run has is free) and so does the clock (strong fairness of `Tick`, which is
  disabled while a poll looks and claims).  `EveryQuestionIsClustered` leaves out
  Sessions whose worker died with a run (`Orphaned`): no one sweeps that lease.
- `StoredFiles`: a handler that the server runs returns, its reply is sent, the deletion
  worker's loop goes on, a lease ends, and the user presses upload again (`Start`,
  `Ask`: what `UploadFinishes` grants the code).  Deletions and the ends of terms owe
  nobody anything.
- `RealtimeEvents`: the publisher is a task of the API process, every socket has a
  handler that runs until it closes, and a read of the Session or the timeline is
  answered as long as the process runs.  Writers, pages, disconnections and the answers
  in `late` promise nothing.
- `PersonalAI`: some worker polls and a request that was begun ends.  Weak fairness of
  `Poll` as a whole: nothing is assumed of a single worker, which may crash.
- `KnowledgeIndex`: the indexing worker polls and a call to the provider ends, by its
  timeout if nothing else. `IndexingEnds` leaves out behaviours in which the worker
  died.
- `CourseAccess`: strong fairness of `Serve` per browser: row locks are granted in the
  order of their requests, so a transaction is not passed over for ever.  A transaction
  that PostgreSQL ends to break a deadlock answers its request with an error.
- `LiveAudio` states no liveness: whether sound arrives is up to browsers and providers.

## Proofs

The theorems hold for every value of the constants; they use the named assumptions of
the modules only (kinds of jobs, numbers as bounds, values that are distinct).  A
property that is proved is still checked by a run wherever a plausible bug in the code
can break it; type invariants that are proved are not.

For every set of jobs and workers and all bounds:

- `LedgerInvariant`: `LedgerInv` is inductive.  `ResultIffSucceeded` alone is not: a
  step could commit a result for a row that is behind a result already accepted, so
  `ResultsNotAhead` (no accepted result is of a later attempt than its row) and
  `RunsNotAhead` (a run that is not behind its row was claimed from it, so the row is
  neither ABSENT nor PENDING) are added, and `AbsentRows` fixes the numbers of rows that
  do not exist.
- `TypeCorrect`, `ResultsAreFenced`, `AttemptsHaveOneRun`, `EventsShowRows`: its
  conjuncts.  `EventVersionsOnlyGrow`: the action property, step by step from it.
- `LedgerImplementsOutcome`: every step of the ledger maps to `Open`, `Deliver`,
  `Abandon`, `Withdraw` or a stutter; the invariant rules out the rest (that a retried
  attempt has already published, that an accepted result is of another attempt than its
  row's).

The ledger model has rows without a meaning, moved by generic operations.  The models of
the components have the rows themselves, moved by the services that own them, so each of
them is shown to implement the same `AttemptOutcome`, one instance per row
(`Outcome(j) == INSTANCE AttemptOutcome WITH Job <- {j}, ...`): `RowsKeepContract` in
`QuestionClustering_proofs` and `KnowledgeIndex_proofs`, `JobsKeepContract` in
`SessionPostprocessing_proofs` and `PersonalAI_proofs`.  One contract therefore holds of
every family of rows: an attempt is open at a time, it settles once, and what has
succeeded is not run again.  Two rows need a word.  The coordinator is left out: it is
requeued after it succeeded, and the results of its earlier attempts are not part of the
state that `SessionPostprocessing` keeps (the ledger pair with a `Rebuildable` row shows
them).  A private job whose conversation was purged is `"gone"`, also one that no
request ever opened: `Withdraw` says that it stays so, which is how the contract states
that a request or worker that comes late cannot bring private content back.

For every set of inputs and retried types and every `MaxAttempt`:

- `PostprocessingInvariant`: `PostInv` is inductive.  `VersionFollowsJob` and
  `SourcesKept` alone are not.  They need that a Session has no rows and no runs before
  its class ends (`ClassRunning`) and a settled LIVE version after (`ClassEnded`); that
  RECORDING versions exist exactly while the recording is UPLOADED (`VersionsOfUpload`),
  so that no second upload can start a row whose attempt is behind its versions; that
  the attempt a run reports for has a version (`RunsHaveVersion`); that rows refer to
  versions that exist (`SourcesExist`); and that the canonical HQ version is readable
  (`CanonicalReadable`).
- The proof separates steps that leave the versions alone (`RowsMove`) from those that
  touch them (`HqMoves`), which may end or add a version but never take a readable one
  away.  `TypesCorrect`, `VersionsFollowJobs` and `InputsStayReadable` are conjuncts of
  the invariant.
- `CompletionOrganizes` is the action property `OrganizedAtCompletion`.  It needs one
  more invariant, `CoordinatorAnswers`: while the Session is PROCESSING, a voice answer
  without a row is the business of an active coordinator, or of one that gave up on its
  source.  A child that ends last finds the coordinator inactive, so only the second is
  left; the watchdog makes the missing row itself.
- The liveness properties of this component each have a part that is a matter of single
  steps, and it is proved.  `OnePassCompletes`: whatever uploads and workers left, one
  transaction of the watchdog completes the Session, and the deadline that lets it run
  does not move back; what `ProcessingEnds` adds is only that the watchdog runs.
  `RecoveryEndsRebuilt`: the coordinator that recovers a COMPLETED Session ends by
  rebuilding, not by giving up; what `RecoveryRebuilds` adds is that a worker gets to
  run it.  The latter rests on `HqTranscriptIsLast`, for which `PostInv` is too weak:
  the canonical HQ version must be the last one and its row SUCCEEDED
  (`CanonicalLatest`), so that neither a retry nor an upload can start another.

For every number of questions and attempts:

- `ClusteringInvariant`: `ClusteringInv` is inductive.  What the properties rest on is
  that a LIVE row which may still run was built on the current revision and reaches past
  the applied watermark (`ActiveLiveRows`), that the FINAL row is the last one, frozen
  at the watermark of the class (`FinalRow`), that a reservation is one the requeue
  accepts (`Reservation`), and that nothing is owed when no row answers (`Owned`).
  `CandidateHolds` and `RunHolds` say what the worker may believe of a row that it read
  before the lock: its watermark may be too low, never too high, and its input is
  exactly the questions above the applied watermark.
- `QuestionsNotForgotten`, `QuestionsHaveOneOwner`, `QuestionsClusteredOnce`,
  `FinalGenerationIsTheClass`, `TypesCorrect` follow.  `CurrentRunsStayUsable` shows
  that the supersede branches of `_succeed` and `_fail` are never taken: they are a
  second line of defence behind the status check.

For every set of persons, Courses, browsers and keys (`CourseAccess_proofs`):

- `AccessInv` is inductive: types, `DeletedCourseIsClosed`, `OwnerIsMember`, and what
  `CreatedOnce` rests on: the record of a keyed creation stays as long as its account
  (`KeyIsKept`), one Course stands for it (`OneCoursePerKey`), and a request to delete
  names a Course that exists (`DeletesExisting`).  `DeletionCloses`, `OwnerStaysMember`,
  `KeyCreatesOnce` follow.

For every set of tabs and sockets, every number of frames and every window
(`LiveClass_proofs`):

- `AudioInv` is inductive: a handler at work has a recording and a real frame
  (`HandlersFit`), the recording is captured exactly while the class is LIVE with its
  transcript open (`RecordingFits`), and no taken frame is above the received watermark
  (`TakenBelow`), which is why a frame that is sent again by an old handler is a
  duplicate.  `FramesTakenOnce`, `SoundIsAccountedFor`, `FinalsAreKept` follow.

For every set of writers and browsers, every number of events and all limits (also
`LiveClass_proofs`, which instantiates `RealtimeEvents` beside `LiveAudio`):

- `EventsInv` is inductive: at most one `session.updated` row is uncommitted and it has
  the next version of the Session, a committed row has none later than the Session's
  (`VersionsFit`), and all that a page was told or is about to be told is committed
  (`PageFits`).  `TellsWhatCommitted` follows.
- The action property `UpdatesStay` (`EventsStay`) needs one more conjunct of `PageFits`:
  a read of the Session that is under way is as new as every update event the page took.
  An event does not wait for a read and the answer is put in the cache uncompared; what
  protects the cache is that the invalidation after an event cancels the read and asks
  again, and the new read finds at least the version the event committed.  Answers that
  no event cancels are excepted, because they do take the Session back
  (`ViewNeverRegresses`, violated by `RealtimeReadsView`).
- `NothingIsDropped` is what `RegisteredHears` and `ReconnectHears` rest on: an event is
  handed from outbox to batch to queue, or from the replay, or in the answer to a read,
  to the page, or a resync takes its place, and no step loses it while the connection
  lasts.  They add only that
  the publisher and the handler go on.  Its proof uses that a cursor is a committed row,
  whose place among the others no later commit changes.

For every number of handlers and deletion workers, every length of a recording and every
kind and number of faults, with the recording and the PDF in one behaviour (TLC's
`OneFile` keeps them apart) (`StoredFiles_proofs`):

- `FilesInv` is inductive.  Its rows: one upload is ACTIVE at a time, and none once the
  recording is FAILED, but one may be ACTIVE under a recording that is not UPLOADING, for
  a stale expiry sets the recording back (`UploadsFit`); at most one upload was
  completed, and the recording has a key and one transcript exactly while it is UPLOADED
  (`RecordingFits`).  Its keys: no two rows name one object (`RowKeysApart`), a handler
  that holds a new object is alone with it (`HeldFits`, `HandsApart`), and the ledger
  names what is hidden and nothing else (`LedgerFits`).
- Its handlers: what one read before it waited counts no more bytes than the row does
  now (`SeenFits`), so a stale append is refused, unless the object still ends where it
  saw the upload end.  Between its write and its commit a handler holds the Session row;
  the upload may have been ended before that, by the watchdog or another completion, but
  its bytes are as the handler left them (`AppendedFits`, `PromotedFits`).  A stale
  completion or expiry that would write over the end of a recording meets the table's
  constraints (`MayBecomeUploaded`, `MayBecomePending`); the proof that there is one
  completed upload and one transcript uses them, since the guards alone would let both
  through.  What is being discarded is of no row that still serves it
  (`DiscardingFits`).
- `ServedIsStored`, `HiddenIsQueued`, `OneRecording`, `LedgerTellsTheTruth` and
  `ObjectsHaveOwners` rest on those parts: a deletion, a compensation or a worker removes
  a key only if no served row has it.  A worker whose lease was taken over still has a
  ledger row and a key that no row serves (`DeletersFit`), which is why the order in
  which two workers finish does not matter.
- `AcknowledgedIsHeld` needs a second invariant beside it, `LastBytesHeld`.  Until all
  bytes are counted an ACTIVE upload has its object; once they are, the object may have
  been moved, and then a completion has it in hand, or a fault or the completion of
  another upload came between.
- `OnlyFaultsStrand`: as long as nothing failed no object is orphaned at all.  The set
  `orphans` that `EveryObjectOwned` excepts grows only in steps that use up a fault.

For every set of keys, chats, ranges and workers (`PersonalAI_proofs`):

- `PrivateInv` is inductive: a chat has one active turn (`AtMostOneActive`), a row's
  chat is open and holds its USER message (`TurnsFit`), and the class that ended has
  nothing of LIVE.  The last needs no knowledge of where requests and workers are, which
  is the point: each of them writes under the Session row and reads its status there.
  `NothingPrivateStays` and `ResultsMatchJobs` follow.

For every set of materials, pages and texts (`KnowledgeIndex_proofs`):

- `KnowledgeInv` is inductive.  `AnswerChunksOfOneText` needs that what the worker found
  of an answer is of one that still has no chunks when they are stored (`IndexerFits`);
  citations need that what a turn retrieved is still stored or is of a deleted answer,
  whose identity is not used again (`TurnFits`).  `TargetFollowsAnswer`,
  `AnswersAreOfOneText` and the action property `OnlyCurrentSourcesEnter` follow.
- `OnlyACrashStrands`: a run of the indexing worker is never fenced off, so that the
  branches for a foreign token are not taken in a class with one worker, and the one way
  to a RUNNING row without a worker is a crash.  `StrandedForGood` is what follows then:
  no step of any process moves a row again or adds a chunk, because a RUNNING row
  absorbs every request and no sweep covers it.  This is why `IndexingEnds` has to leave
  out behaviours with a crash.

Model-checked only: liveness (`ProcessingEnds`, `RecoveryRebuilds`, `RequesterRunsEnd`,
`EveryQuestionIsClustered`, `DeletionsFinish`, `RegisteredHears`, `ReconnectHears`,
`JobsEnd`, `IndexingEnds`, `RequestsEnd`), which needs fairness and ENABLED and is out
of reach of the installed provers.  Every invariant and every action property of the
runs that hold is a theorem.

## What the violations say

Three statements of the repository's documents that the runs refute are findings in
`PROJECT.json`, with the lines they quote: the pages of a PDF, the upload that is stuck,
the withdrawn owner.  The other violated configurations say:

*Ledger.*  README.md:129 and `docs/api/API_명세서.md:360` have lost leases swept; no
process calls `heartbeat` or `fail_expired_shared`, so a SHARED row whose worker died
stays RUNNING unless it blocks a Session that the watchdog sweeps.

*Post-processing.*  API:398 discards the late result of an earlier attempt, but
`_finish_success` and `_finish_failure` (recording_transcription.py:244, 292) cancel by
job id, not by run.  API:359 re-evaluates completion only after the coordinator
registered its children; a recording uploaded again between claim and end of a
coordinator lets the Session complete without them (postprocessing.py:366).
`docs/database/DB_스키마.md:1707` has a recovering coordinator create the missing FINAL
summary; `_schedule_final_summary` (563) returns while another one is active.  Also: an
HQ success in PROCESSING after the coordinator ended wakes no coordinator (API:357 says
every HQ terminal does), and LIVE transcripts are summarized as a fallback although
API:358 reserves the final summary to RECORDING sources.

*Clustering.*  DB:1844 sets `applied_sequence` on a FINAL result, `_succeed_final`
(clustering.py:544) does not, and the finished class stays "pending" on its page.
DB:1834 updates `last_job_status` on every transition; the watchdog and the retry of a
FINAL row do not.  Also: the row of a reserved LIVE retry stays FAILED at the end of
class because `supersede` acts on PENDING and RUNNING rows only; DB:942 and :1951 keep
the captured input of an existing row, while `create` extends any PENDING row (the
invariants hold either way); DB:1233 recaptures `base_revision` on the retry of a FINAL
row, which `JobService.retry` does not do.

*Files.*  DB:1775 queues the objects of a deleted class; `SessionService.delete`
(sessions.py:303) writes no ledger rows, and the deletion of a Course leaves the
temporary objects of ACTIVE and FAILED uploads.  An upload handler decides on rows it
read before it waited for the Session (recordings.py:585-607).  So a chunk that waited
behind the watchdog is appended to a FAILED upload and answered 200 (DB:602, 604;
`StoredFilesStale`).  A completion that waited there moves the object, is refused by
`session_recordings_failed_at_ck`, and its compensation deletes the only copy of the
bytes the FAILED upload counts (DB:609); no endpoint resumes a FAILED upload, so no
client asks for them, but support no longer finds them.  An expiry decided on stale rows
may set the recording to UPLOAD_PENDING while a newer upload is ACTIVE.
`find_storage_orphans`
(lifecycle.py:538-554) would report PDFs in use as orphans.  Uploads expire only when
the client touches them.

*Realtime.*  `claim_available` (repositories/outbox.py:52) promises that delivery
"remains recoverable through replay".  It is not when an event is fanned out between
`_replay` and `hub.add` and a later one moves the cursor; when a transaction that began
early commits late (its `created_at` is before the cursor); when two events of one
transaction compare by random ids; or when the process stops between claim and fan-out.
A first connection gets neither a replay nor a resync.  The answer to a change of the
page's own and the first record manifest are put in the cache by neither comparing
versions nor being cancelled, so one that is late takes the Session back to an older
version until the next read (`RealtimeReadsView`).

*Live audio.*  `mark_processed` says "Advance only after a provider accepted the frame"
(live_audio.py:245); the watermark is the minimum of the sequence and the received one,
and passes earlier frames that failed.  Also: a first frame above 0 records no gap; a
frame accepted just before a disconnection can lock the publisher out (API:1719-1721);
the gap of a lost server state is not final (API:1722 says it is).

*Private AI.*  A request whose record commits after `end_session` read the records keeps
a 202 that points at a deleted resource (sessions.py:353; DB:1877, API:207).  A retry of
a failed turn that is no longer the last message of its chat can never be answered
(personal_ai.py:1182; DB:1960, API:1273).  Two requests of one class at once can each
hold the shared lock the other's exclusive one waits for; PostgreSQL ends one (modelled
as `Abort`).  The hash of a retry does not cover the job id, and its record lacks
`session_id` and so is not purged.

*Knowledge.*  Without a run of their own: text answers given or edited after COMPLETED
are never indexed again (DB:1376-1377) and an edited answer keeps serving its old
chunks; withdrawing a text answer that a chat cites fails on a foreign key (API:1038); a
request absorbed by a RUNNING row that had already read its sources is lost
(knowledge.py:160-168); a RUNNING row of a dead worker absorbs every later one; a class
without a recording gets no request when its coordinator ends
(postprocessing.py:383-394).

*Courses.*  DB:2023 keeps anonymous values only of a withdrawn User; a login that read
the account before writes the name back, and may leave a row of `auth_sessions`.  Also:
the request hash of rotation, deletion and class creation does not cover the Course, so
the same key on another Course replays the first reply (API:202); `delete_course` locks
the Course before the class, `start`, `end`, `delete` and `update_title` the other way
(ERD.md:997), which the database resolves by ending one of them.  No open class
is needed for that: its selects of files join the class under `FOR UPDATE` without `of=`
(lifecycle.py:120-138), so a completed class that has files is locked too, and a discard
or a new material of that class meets it the same way (`detach` and `delete_recording`,
which `CourseAccess` has no operations for, lock in the order of these two).

## Not modelled

- *Providers* (STT, chat, embedding, summaries): external computations, a free choice of
  result, refusal or silence.
- *Archive pages, lists and keyset cursors*: each one query of committed rows, nothing
  is written.
- *Pages of the frontend* and the *local recorder* with its IndexedDB: no state shared
  with another process beyond what the uploader and the publisher of `StoredFiles` and
  `LiveAudio` show.
- *Lock orders* of the final AI workers against the end of class and the watchdog, and
  of clustering: more rows at once than one Session's tables; `CourseAccess` and
  `PersonalAI` model the two orders that meet in requests.
- *Several Sessions*: the coordinator is claimed oldest first over all Sessions, and one
  whose source gate stays closed is looked at on every poll; every model here has one
  Session.
- *A stale candidate* (read without a lock, claimed under one) of the material,
  knowledge and final AI workers; a crash of the material worker, whose row is then
  never swept.
- *Clocks of records*: the expiry of idempotency records and the lease of a PROCESSING
  one; the retry of a client after 24 hours.
- *Several API processes*: the hub, tickets and rate limits are in the memory of one.
- *Small operations*: titles of classes, reactions, limits on materials, registration
  with an address that was withdrawn, the give-up of a publisher after five attempts,
  two first Google logins of one person at once.
