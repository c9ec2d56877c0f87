---------------------------- MODULE KnowledgeIndex ----------------------------
(***************************************************************************)
(* The knowledge index of one class and what feeds it: PDFs and their      *)
(* MATERIAL_PROCESSING worker, the final Segments of the canonical         *)
(* transcript, the professor's answer to one question, the                 *)
(* KNOWLEDGE_INDEXING jobs and their worker, and one turn of a REVIEW chat *)
(* that retrieves a chunk and cites it.                                    *)
(*                                                                         *)
(* A worker reads its sources and embeds them outside any transaction; the *)
(* transaction that stores the chunks comes later and reads the sources    *)
(* again.  Every other operation is one transaction under the lock of the  *)
(* Session row, and so one step.                                           *)
(***************************************************************************)
EXTENDS Naturals, Sequences, FiniteSets

CONSTANTS
    Material,     \* LectureMaterial identities
    PageChunks,   \* how many chunks the text of each page of a PDF gives
    Text,         \* answer texts, each the sequence of chunks that it splits into
    MaxSegment,   \* bound: final Segments of a transcript version
    MaxAnswer,    \* bound: answers given to the question, one after the other
    MaxJob,       \* bound: KNOWLEDGE_INDEXING rows
    MaxAttempt,   \* bound: attempts of one row
    MaxCrash      \* bound: crashes of the indexing worker

ASSUME IndexBounds ==
    /\ PageChunks \in Seq(Nat) /\ \A t \in Text : t \in Seq(STRING) /\ t # <<>>
    /\ MaxSegment \in Nat /\ MaxAnswer \in Nat /\ MaxJob \in Nat
    /\ MaxAttempt \in Nat \ {0} /\ MaxCrash \in Nat

VARIABLES
    session,      \* LectureSession.status
    canonical,    \* source of the canonical TranscriptVersion
    coordinator,  \* the post-processing coordinator has to run
    segments,     \* final Segments of the LIVE version
    material,     \* [Material -> row with its processing job]
    reading,      \* what the material worker works on
    target,       \* Question.status
    answer,       \* the question's Answer
    answers,      \* answers created so far
    jobs,         \* KNOWLEDGE_INDEXING rows, oldest first
    indexer,      \* what the indexing worker works on
    chunks,       \* knowledge_chunks
    turn,         \* the chat turn and the chunk it retrieved
    crashes

class == <<session, canonical, coordinator, segments>>
material_ == <<material, reading>>
answer_ == <<target, answer, answers>>
index == <<indexer, chunks, crashes>>
vars == <<class, material_, answer_, jobs, index, turn>>

-----------------------------------------------------------------------------
(* Types *)

Page == DOMAIN PageChunks
Version == {"LIVE", "HQ"}

(* "part" tells the chunks of a source apart: the page, the sequence of the *)
(* Segment, or the text itself.                                             *)
MaterialChunks(m) == UNION {[kind : {"material"}, of : {m}, part : {p},
                             index : 0 .. PageChunks[p] - 1] : p \in Page}
SegmentChunk(v, n) == [kind |-> "segment", of |-> v, part |-> n, index |-> 0]
AnswerChunks(a, t) == {[kind |-> "answer", of |-> a, part |-> t[i], index |-> i - 1] : i \in DOMAIN t}
Chunk == (UNION {MaterialChunks(m) : m \in Material})
         \cup {SegmentChunk(v, n) : v \in Version, n \in 1 .. MaxSegment}
         \cup (UNION {AnswerChunks(a, t) : a \in 1 .. MaxAnswer, t \in Text})

(* The unique indexes of knowledge_chunks; that of the materials has no     *)
(* page_number.                                                             *)
Conflict(c, d) ==
    /\ c.kind = d.kind /\ c.of = d.of /\ c.index = d.index
    /\ c.kind = "segment" => c.part = d.part

Active == {"PENDING", "RUNNING"}
Status == Active \cup {"SUCCEEDED", "FAILED", "CANCELLED"}
Row == [status : Status, attempt : 1 .. MaxAttempt, retryable : BOOLEAN]
NewRow == [status |-> "PENDING", attempt |-> 1, retryable |-> FALSE]

MaterialRow == [status : {"none", "UPLOADED", "PROCESSING", "READY", "FAILED"},
                detached : BOOLEAN, job : Row]
NoMaterial == [status |-> "none", detached |-> FALSE, job |-> NewRow]

(* text is None while text_content is NULL; "after" is the                  *)
(* capture_started_after_sequence of a VOICE answer.                        *)
None == <<>>
Answer == [id : 1 .. MaxAnswer, kind : {"VOICE", "TEXT"}, status : {"CAPTURING", "COMPLETED"},
           text : Text \cup {None}, after : 0 .. MaxSegment]
NoAnswer == [id |-> 0, kind |-> "none", status |-> "none", text |-> None, after |-> 0]

Nobody == [at |-> "idle", job |-> 0, attempt |-> 0, found |-> {}]
NoTurn == [at |-> "no", chunk |-> {}]

ActiveJobs == {j \in DOMAIN jobs : jobs[j].status \in Active}
Cited == IF turn.at = "answered" THEN turn.chunk ELSE {}

TypeOK ==
    /\ session \in {"LIVE", "PROCESSING", "COMPLETED"}
    /\ canonical \in Version /\ coordinator \in BOOLEAN
    /\ segments \in 0 .. MaxSegment
    /\ material \in [Material -> MaterialRow]
    /\ reading \in {{}} \cup {{m} : m \in Material}
    /\ target \in {"OPEN", "SELECTED", "ANSWERED"}
    /\ answer \in Answer \cup {NoAnswer} /\ answers \in 0 .. MaxAnswer
    /\ jobs \in Seq(Row) /\ Len(jobs) <= MaxJob
    \* the unique index ai_jobs_one_active_knowledge_indexing_uq
    /\ Cardinality(ActiveJobs) <= 1
    /\ indexer \in [at : {"idle", "claimed", "embedded", "failing", "refused"},
                    job : 0 .. MaxJob, attempt : 0 .. MaxAttempt, found : SUBSET Chunk]
    /\ chunks \subseteq Chunk
    \* the unique indexes, and the foreign key of chat_message_evidence
    /\ \A c, d \in chunks : c # d => ~Conflict(c, d)
    /\ Cited \subseteq chunks
    /\ turn.at \in {"no", "asked", "retrieved", "answered"} /\ turn.chunk \subseteq Chunk
    /\ crashes \in 0 .. MaxCrash

Init ==
    /\ session = "LIVE" /\ canonical = "LIVE" /\ coordinator = FALSE /\ segments = 0
    /\ material = [m \in Material |-> NoMaterial] /\ reading = {}
    /\ target = "OPEN" /\ answer = NoAnswer /\ answers = 0
    /\ jobs = <<>> /\ indexer = Nobody /\ chunks = {}
    /\ turn = NoTurn /\ crashes = 0

-----------------------------------------------------------------------------
(* Requests for the index *)

(* enqueue_knowledge_indexing: an active row, also one that is RUNNING,     *)
(* stands for the request.                                                  *)
Enqueue ==
    \/ ActiveJobs # {} /\ UNCHANGED jobs
    \/ /\ ActiveJobs = {} /\ Len(jobs) < MaxJob
       /\ jobs' = Append(jobs, NewRow)

(* JobService.retry; the unique index refuses one beside an active row.     *)
RetryIndexing(j) ==
    /\ jobs[j].status = "FAILED" /\ jobs[j].retryable /\ jobs[j].attempt < MaxAttempt
    /\ ActiveJobs = {}
    /\ jobs' = [jobs EXCEPT ![j] = [status |-> "PENDING", attempt |-> @.attempt + 1,
                                    retryable |-> FALSE]]
    /\ UNCHANGED <<class, material_, answer_, index, turn>>

-----------------------------------------------------------------------------
(* The class *)

PersistFinal ==
    /\ session = "LIVE" /\ segments < MaxSegment
    /\ segments' = segments + 1
    /\ Enqueue
    /\ UNCHANGED <<session, canonical, coordinator, material_, answer_, index, turn>>

(* end; it is refused while an answer is captured.                          *)
End ==
    /\ session = "LIVE" /\ answer.status # "CAPTURING"
    /\ session' = "PROCESSING" /\ coordinator' = TRUE
    /\ UNCHANGED <<canonical, segments, material_, answer_, jobs, index, turn>>

(* RecordingTranscriptionWorker._finish_success, also of an upload or a     *)
(* retry after the class; the coordinator then has to run again.            *)
SwitchCanonical ==
    /\ session # "LIVE" /\ canonical = "LIVE"
    /\ canonical' = "HQ" /\ coordinator' = TRUE
    /\ UNCHANGED <<session, segments, material_, answer_, jobs, index, turn>>

(* _finish_coordinator: only an HQ transcript asks for the index.  The      *)
(* children that complete the class are not told apart from it.             *)
FinishCoordinator ==
    /\ coordinator
    /\ coordinator' = FALSE /\ session' = "COMPLETED"
    /\ IF canonical = "HQ" THEN Enqueue ELSE UNCHANGED jobs
    /\ UNCHANGED <<canonical, segments, material_, answer_, index, turn>>

-----------------------------------------------------------------------------
(* Materials *)

(* MaterialService.upload and detach take the same classes.                 *)
MaterialsOpen == session \in {"LIVE", "COMPLETED"}

Upload(m) ==
    /\ MaterialsOpen /\ material[m].status = "none"
    /\ material' = [material EXCEPT ![m].status = "UPLOADED"]
    /\ UNCHANGED <<class, reading, answer_, jobs, index, turn>>

Detach(m) ==
    /\ MaterialsOpen /\ material[m].status # "none" /\ ~material[m].detached
    /\ material' = [material EXCEPT
           ![m].detached = TRUE,
           ![m].job.status = IF @ \in Active THEN "CANCELLED" ELSE @,
           ![m].job.retryable = FALSE]
    /\ UNCHANGED <<class, reading, answer_, jobs, index, turn>>

ClaimMaterial(m) ==
    /\ reading = {} /\ material[m].status # "none" /\ material[m].job.status = "PENDING"
    /\ material' = [material EXCEPT ![m].status = "PROCESSING", ![m].job.status = "RUNNING"]
    /\ reading' = {m}
    /\ UNCHANGED <<class, answer_, jobs, index, turn>>

(* MaterialProcessingWorker._is_current: the detached one has a newer       *)
(* version.                                                                 *)
IsCurrent(m) == ~material[m].detached /\ material[m].status = "PROCESSING"

(* _finish_success: READY and the request for the index in one transaction. *)
FinishSuccess(m) ==
    /\ reading = {m} /\ reading' = {}
    /\ IF IsCurrent(m)
       THEN /\ material' = [material EXCEPT ![m].status = "READY", ![m].job.status = "SUCCEEDED"]
            /\ Enqueue
       ELSE UNCHANGED <<material, jobs>>
    /\ UNCHANGED <<class, answer_, index, turn>>

FinishFailure(m) ==
    /\ reading = {m} /\ reading' = {}
    /\ material' = IF IsCurrent(m)
                   THEN [material EXCEPT ![m].status = "FAILED", ![m].job.status = "FAILED",
                                         ![m].job.retryable = TRUE]
                   ELSE material
    /\ UNCHANGED <<class, answer_, jobs, index, turn>>

RetryMaterial(m) ==
    /\ material[m].job.retryable /\ material[m].job.attempt < MaxAttempt
    /\ material' = [material EXCEPT ![m].job = [status |-> "PENDING", attempt |-> @.attempt + 1,
                                                retryable |-> FALSE]]
    /\ UNCHANGED <<class, reading, answer_, jobs, index, turn>>

-----------------------------------------------------------------------------
(* The answer.  A client sends the version it read; a stale one is refused  *)
(* and writes nothing.                                                      *)

CanAnswer == target = "OPEN" /\ answer = NoAnswer /\ answers < MaxAnswer

(* create, VOICE                                                            *)
CaptureAnswer ==
    /\ session = "LIVE" /\ CanAnswer
    /\ answers' = answers + 1 /\ target' = "SELECTED"
    /\ answer' = [id |-> answers + 1, kind |-> "VOICE", status |-> "CAPTURING",
                  text |-> None, after |-> segments]
    /\ UNCHANGED <<class, material_, jobs, index, turn>>

(* create, TEXT                                                             *)
WriteAnswer(t) ==
    /\ session = "COMPLETED" /\ CanAnswer
    /\ answers' = answers + 1 /\ target' = "ANSWERED"
    /\ answer' = [id |-> answers + 1, kind |-> "TEXT", status |-> "COMPLETED",
                  text |-> t, after |-> 0]
    /\ UNCHANGED <<class, material_, jobs, index, turn>>

(* complete: what was said since the capture began must be there.           *)
CompleteAnswer ==
    /\ session = "LIVE" /\ answer.status = "CAPTURING" /\ segments > answer.after
    /\ answer' = [answer EXCEPT !.status = "COMPLETED"] /\ target' = "ANSWERED"
    /\ UNCHANGED <<class, material_, answers, jobs, index, turn>>

CancelAnswer ==
    /\ session = "LIVE" /\ answer.status = "CAPTURING"
    /\ answer' = NoAnswer /\ target' = "OPEN"
    /\ UNCHANGED <<class, material_, answers, jobs, index, turn>>

(* update_text; the new text is not indexed.                                *)
EditAnswer(t) ==
    /\ session = "COMPLETED" /\ answer.status = "COMPLETED"
    /\ answer' = [answer EXCEPT !.text = t]
    /\ UNCHANGED <<class, material_, target, answers, jobs, index, turn>>

OfAnswer(a) == {c \in chunks : c.kind = "answer" /\ c.of = a}

(* Bug: the target of a deleted answer is not opened again.                 *)
WithdrawTextOnly ==
    /\ session = "COMPLETED" /\ answer.status = "COMPLETED" /\ answer.text # None
    /\ IF answer.kind = "VOICE"
       THEN answer' = [answer EXCEPT !.text = None] /\ UNCHANGED <<target, chunks>>
       ELSE /\ answer' = NoAnswer /\ UNCHANGED target
            /\ chunks' = chunks \ OfAnswer(answer.id)
            /\ Cited \cap OfAnswer(answer.id) = {}
    /\ UNCHANGED <<class, material_, answers, jobs, indexer, crashes, turn>>

(* withdraw_text: a VOICE answer keeps its range; a TEXT answer is deleted  *)
(* with its chunks, and the commit fails when a chat cites one of them.     *)
WithdrawText ==
    /\ session = "COMPLETED" /\ answer.status = "COMPLETED" /\ answer.text # None
    /\ IF answer.kind = "VOICE"
       THEN answer' = [answer EXCEPT !.text = None] /\ UNCHANGED <<target, chunks>>
       ELSE /\ answer' = NoAnswer /\ target' = "OPEN"
            /\ chunks' = chunks \ OfAnswer(answer.id)
            /\ Cited \cap OfAnswer(answer.id) = {}
    /\ UNCHANGED <<class, material_, answers, jobs, indexer, crashes, turn>>

-----------------------------------------------------------------------------
(* KnowledgeIndexingWorker *)

Served(m) == material[m].status = "READY" /\ ~material[m].detached

(* _material_candidates skips a page with a chunk, _transcript_candidates   *)
(* a Segment with one, _answer_candidates an answer with one.               *)
MaterialCandidates ==
    UNION {{c \in MaterialChunks(m) :
               ~\E d \in chunks : d.kind = "material" /\ d.of = m /\ d.part = c.part}
           : m \in {n \in Material : Served(n)}}

SegmentsOf(v) == IF v = "LIVE" THEN segments ELSE MaxSegment
TranscriptCandidates == {SegmentChunk(canonical, n) : n \in 1 .. SegmentsOf(canonical)} \ chunks

(* Bug: an answer that has chunks is read again.                            *)
EveryAnswerText ==
    IF answer.status = "COMPLETED" THEN AnswerChunks(answer.id, answer.text) ELSE {}

AnswerCandidates ==
    IF answer.status = "COMPLETED" /\ OfAnswer(answer.id) = {}
    THEN AnswerChunks(answer.id, answer.text) ELSE {}

(* _claim, of the oldest row that is PENDING; only one is active.           *)
ClaimIndexing(j) ==
    /\ indexer.at = "idle" /\ jobs[j].status = "PENDING"
    /\ jobs' = [jobs EXCEPT ![j].status = "RUNNING"]
    /\ indexer' = [at |-> "claimed", job |-> j, attempt |-> jobs[j].attempt, found |-> {}]
    /\ UNCHANGED <<class, material_, answer_, chunks, crashes, turn>>

(* _collect_candidates, and the embedding of what it found.                 *)
Collect ==
    /\ indexer.at = "claimed"
    /\ indexer' = [indexer EXCEPT
           !.at = "embedded",
           !.found = MaterialCandidates \cup TranscriptCandidates \cup AnswerCandidates]
    /\ UNCHANGED <<class, material_, answer_, jobs, chunks, crashes, turn>>

(* Storage, PDF or provider fails: "failing" may be retried.                *)
CollectFails ==
    /\ indexer.at = "claimed"
    /\ \E at \in {"failing", "refused"} :
          indexer' = [indexer EXCEPT !.at = at]
    /\ UNCHANGED <<class, material_, answer_, jobs, chunks, crashes, turn>>

RunIsCurrent ==
    /\ jobs[indexer.job].status = "RUNNING" /\ jobs[indexer.job].attempt = indexer.attempt

(* _source_is_current                                                       *)
SourceIsCurrent(c) ==
    CASE c.kind = "material" -> Served(c.of)
      [] c.kind = "segment" -> c.of = canonical
      [] c.kind = "answer" -> /\ c.of = answer.id /\ answer.status = "COMPLETED"
                              /\ c \in AnswerChunks(answer.id, answer.text)

(* INSERT ... ON CONFLICT DO NOTHING, page after page.                      *)
Inserted(found) ==
    {c \in found : ~\E d \in chunks : Conflict(c, d)} \
    {c \in found : c.kind = "material" /\ \E d \in found : Conflict(c, d) /\ d.part < c.part}

(* Bug: what was read is stored without looking at the source again.        *)
SucceedUnchecked ==
    /\ indexer.at = "embedded" /\ indexer' = Nobody
    /\ chunks' = chunks \cup Inserted(indexer.found)
    /\ jobs' = [jobs EXCEPT ![indexer.job].status = "SUCCEEDED"]
    /\ UNCHANGED <<class, material_, answer_, crashes, turn>>

(* _succeed                                                                 *)
Succeed ==
    /\ indexer.at = "embedded" /\ indexer' = Nobody
    /\ IF RunIsCurrent
       THEN /\ chunks' = chunks \cup Inserted({c \in indexer.found : SourceIsCurrent(c)})
            /\ jobs' = [jobs EXCEPT ![indexer.job].status = "SUCCEEDED"]
       ELSE UNCHANGED <<chunks, jobs>>
    /\ UNCHANGED <<class, material_, answer_, crashes, turn>>

(* Bug: only an error that may be retried is reported.                      *)
FailRetryable ==
    /\ indexer.at \in {"failing", "refused"} /\ indexer' = Nobody
    /\ jobs' = IF RunIsCurrent /\ indexer.at = "failing"
               THEN [jobs EXCEPT ![indexer.job].status = "FAILED", ![indexer.job].retryable = TRUE]
               ELSE jobs
    /\ UNCHANGED <<class, material_, answer_, chunks, crashes, turn>>

(* _fail                                                                    *)
Fail ==
    /\ indexer.at \in {"failing", "refused"} /\ indexer' = Nobody
    /\ jobs' = IF RunIsCurrent
               THEN [jobs EXCEPT ![indexer.job].status = "FAILED",
                                 ![indexer.job].retryable = (indexer.at = "failing")]
               ELSE jobs
    /\ UNCHANGED <<class, material_, answer_, chunks, crashes, turn>>

(* Nobody takes over the row of a worker that died.                         *)
Crash ==
    /\ indexer.at # "idle" /\ crashes < MaxCrash
    /\ indexer' = Nobody /\ crashes' = crashes + 1
    /\ UNCHANGED <<class, material_, answer_, jobs, chunks, turn>>

-----------------------------------------------------------------------------
(* The turn of a REVIEW chat *)

(* retrieve: what an answer says now is not compared with its chunk.        *)
Visible(c) ==
    CASE c.kind = "material" -> Served(c.of)
      [] c.kind = "segment" -> c.of = canonical
      [] c.kind = "answer" -> c.of = answer.id /\ answer.text # None

Ask ==
    /\ session = "COMPLETED" /\ turn.at = "no"
    /\ turn' = [at |-> "asked", chunk |-> {}]
    /\ UNCHANGED <<class, material_, answer_, jobs, index>>

Retrieve ==
    /\ turn.at = "asked"
    /\ \E c \in {d \in chunks : Visible(d)} : turn' = [at |-> "retrieved", chunk |-> {c}]
    /\ UNCHANGED <<class, material_, answer_, jobs, index>>

(* project_evidence reads the source once more, under the same conditions.  *)
Projected(c) == Visible(c)

(* _persist_chat: what has no projection any more is not cited.             *)
Respond ==
    /\ turn.at = "retrieved"
    /\ turn' = [at |-> "answered", chunk |-> {c \in turn.chunk : Projected(c)}]
    /\ UNCHANGED <<class, material_, answer_, jobs, index>>

-----------------------------------------------------------------------------

ClassNext == PersistFinal \/ End \/ SwitchCanonical \/ FinishCoordinator

MaterialNext(m) ==
    \/ Upload(m) \/ Detach(m) \/ RetryMaterial(m)
    \/ ClaimMaterial(m) \/ FinishSuccess(m) \/ FinishFailure(m)

(* The endpoints that give an answer, settle it and take it back.           *)
CreateAnswer == CaptureAnswer \/ \E t \in Text : WriteAnswer(t)
SettleAnswer == CompleteAnswer \/ \E t \in Text : EditAnswer(t)
TakeBackAnswer == CancelAnswer \/ WithdrawText
AnswerNext == CreateAnswer \/ SettleAnswer \/ TakeBackAnswer

(* run_once                                                                 *)
IndexerWorks ==
    \/ \E j \in DOMAIN jobs : ClaimIndexing(j)
    \/ Collect \/ CollectFails \/ Succeed \/ Fail

Next ==
    \/ ClassNext
    \/ \E m \in Material : MaterialNext(m)
    \/ AnswerNext
    \/ \E j \in DOMAIN jobs : RetryIndexing(j)
    \/ IndexerWorks \/ Crash
    \/ Ask \/ Retrieve \/ Respond

Spec == Init /\ [][Next]_vars

(* The worker polls on and a provider call ends, by its timeout if nothing  *)
(* else; nobody has to send a request.                                      *)
FairSpec == Spec /\ WF_vars(IndexerWorks)

-----------------------------------------------------------------------------
(* Properties *)

(* The question's status follows its answer through capture, cancellation,  *)
(* text, withdrawal and a second answer: SELECTED while one is captured,    *)
(* ANSWERED while there is a completed one, OPEN otherwise, so that a       *)
(* question without an answer can always be answered (answers.py).          *)
TargetMatchesAnswer ==
    target = CASE answer = NoAnswer -> "OPEN"
               [] answer.status = "CAPTURING" -> "SELECTED"
               [] answer.status = "COMPLETED" -> "ANSWERED"

(* What was detached, replaced, edited or withdrawn while a worker held it  *)
(* is neither stored nor cited: a chunk enters the index only while its     *)
(* source says what it says, and a turn cites only what is still visible.   *)
OnlyCurrentEnters ==
    [][ /\ \A c \in chunks' \ chunks : SourceIsCurrent(c)'
        /\ \A c \in Cited' \ Cited : Visible(c)' ]_vars

(* An answer is served with the chunks of one of its texts, never with a    *)
(* mixture of two, whatever was edited between two runs of the worker or    *)
(* during one (_answer_candidates and _source_is_current, each of which     *)
(* looks at the chunks of one text only).                                   *)
AnswerChunksOfOneText ==
    \A a \in 1 .. MaxAnswer : \E t \in Text \cup {None} : OfAnswer(a) \subseteq AnswerChunks(a, t)

(* A request for the index is worked off: its row leaves PENDING and        *)
(* RUNNING unless the worker dies with it.                                  *)
IndexingEnds ==
    \A j \in 1 .. MaxJob :
        (j \in ActiveJobs) ~> (j \notin ActiveJobs \/ crashes > 0)

(* "A PDF is split page by page into chunks" (DB_schema, 10.1): a run reads  *)
(* every page of a PDF and stores what it read in one transaction, so a     *)
(* material that has chunks has those of each page.                         *)
EveryPageIndexed ==
    \A m \in Material :
        MaterialChunks(m) \cap chunks # {} => MaterialChunks(m) \subseteq chunks

(* A row that runs has its worker on it, until the worker dies: a run is    *)
(* never fenced off, and only a crash leaves a row RUNNING for nobody.      *)
OnlyCrashStrands ==
    /\ indexer.at # "idle" => RunIsCurrent
    /\ \A j \in DOMAIN jobs :
          jobs[j].status = "RUNNING" => indexer.job = j \/ crashes > 0

(* A row left RUNNING is the last of its class: every later request is      *)
(* taken to be served by it (enqueue_knowledge_indexing), no other row may  *)
(* be retried beside it, and nothing enters the index any more.             *)
Stranded == indexer.at = "idle" /\ \E j \in DOMAIN jobs : jobs[j].status = "RUNNING"

StrandedIsFinal ==
    [][Stranded => Stranded' /\ jobs' = jobs /\ chunks' \subseteq chunks]_vars

-----------------------------------------------------------------------------
(* Every row is a job of the ledger: it implements AttemptOutcome, in which *)
(* nothing of it may be rebuilt.                                            *)

Work == {<<"indexing", j>> : j \in 1 .. MaxJob} \cup {<<"material", m>> : m \in Material}

NoRow == [status |-> "none", attempt |-> 0]
RowOf(w) ==
    IF w[1] = "material"
    THEN IF material[w[2]].status = "none" THEN NoRow ELSE material[w[2]].job
    ELSE IF w[2] \in DOMAIN jobs THEN jobs[w[2]] ELSE NoRow

AttemptOf(w) == RowOf(w).attempt
PhaseOf(w) ==
    IF RowOf(w) = NoRow THEN "none"
    ELSE IF RowOf(w).status \in Active THEN "open" ELSE "settled"
ResultOf(w) == IF RowOf(w).status = "SUCCEEDED" THEN {<<w, RowOf(w).attempt>>} ELSE {}

Outcome(w) == INSTANCE AttemptOutcome WITH
    Job         <- {w},
    Rebuildable <- {},
    attempt     <- [k \in {w} |-> AttemptOf(k)],
    phase       <- [k \in {w} |-> PhaseOf(k)],
    result      <- ResultOf(w)

(* Requests, retries, detachment and workers settle each attempt of a row   *)
(* once and open none after one that succeeded (JobKernel).                 *)
RowKeepsContract(w) == Outcome(w)!Spec

=============================================================================
