------------------------ MODULE SessionPostprocessing ------------------------
(***************************************************************************)
(* One class Session from LIVE to COMPLETED: the recording and its upload, *)
(* the LIVE and the RECORDING (HQ) transcript versions, and the AIJob rows *)
(* that post-process them.  API calls, the HQ transcription worker, the    *)
(* clustering worker, the post-processing worker and its watchdog run in   *)
(* processes of their own; each action is one of their transactions.  A    *)
(* worker that dies is a run that never reports.  Run tokens, versions and *)
(* leases are JobLedger's subject: there an attempt has one run at most,   *)
(* so a run is fenced here by its attempt alone.                           *)
(***************************************************************************)
EXTENDS Naturals, Sequences, FiniteSets

CONSTANTS
    Inputs,      \* what the class may have: "recording", "answer", "question"
    Retried,     \* bound: job types a professor may retry
    MaxAttempt   \* bound: attempts a retry may reach

Coordinator == <<"SESSION_POSTPROCESSING", 0>>
Transcription == <<"RECORDING_TRANSCRIPTION", 0>>
Clustering == <<"QUESTION_CLUSTERING", 0>>        \* the FINAL one
Organization == <<"ANSWER_ORGANIZATION", 0>>      \* of the one voice answer

(* A transcript version used as a source: LIVE, or the HQ attempt's. *)
LIVE == 0
Source == 0 .. MaxAttempt

(* FINAL_SUMMARY rows are told apart by dedupe_key_hash: one per source. *)
Summary(s) == <<"FINAL_SUMMARY", s>>
Summaries == {Summary(s) : s \in Source}

Job == {Coordinator, Transcription, Clustering, Organization} \cup Summaries
Type(j) == j[1]
JobType == {Type(j) : j \in Job}

ASSUME BoundsAreKnown ==
    /\ MaxAttempt \in Nat \ {0}
    /\ Inputs \subseteq {"recording", "answer", "question"}
    /\ Retried \subseteq JobType

VARIABLES
    session,     \* LectureSession.status
    overdue,     \* ended_at + PROCESSING_DEADLINE has passed
    recording,   \* SessionRecording.status, "none" without a row
    heard,       \* the LIVE version has a final segment (last_sequence > 0)
    live,        \* status of the LIVE TranscriptVersion
    hq,          \* statuses of the RECORDING versions, by HQ attempt
    canonical,   \* canonical_transcript_version_id, a Source
    answer,      \* Answer.status of a voice answer, "none" without a row
    asked,       \* a question was asked
    job,         \* [Job -> Row], the Session's blocking ai_jobs rows
    run,         \* runs that were claimed and have not reported yet
    rebuilt      \* HQ versions a coordinator mapped answers to and indexed

vars == <<session, overdue, recording, heard, live, hq, canonical, answer,
          asked, job, run, rebuilt>>

class == <<heard, answer, asked>>          \* what the LIVE class produced
transcripts == <<heard, live, hq, canonical>>

-----------------------------------------------------------------------------
(* Types *)

Active == {"PENDING", "RUNNING"}
Status == Active \cup {"ABSENT", "SUCCEEDED", "FAILED", "CANCELLED"}
Row == [status : Status, attempt : Nat, retryable : BOOLEAN, source : Source]
Run == [job : Job, attempt : Nat, late : BOOLEAN]
Ready == {"FINALIZED", "EMPTY", "FAILED"}
VersionStatus == Ready \cup {"FINALIZING"}

NoRow == [status |-> "ABSENT", attempt |-> 0, retryable |-> FALSE, source |-> LIVE]

TypeOK ==
    /\ session \in {"LIVE", "PROCESSING", "COMPLETED"}
    /\ recording \in {"none", "CAPTURING", "UPLOAD_PENDING", "UPLOADING", "UPLOADED", "FAILED"}
    /\ overdue \in BOOLEAN /\ heard \in BOOLEAN /\ asked \in BOOLEAN
    /\ live \in VersionStatus
    \* transcript_versions_empty_failed_sequence_ck
    /\ live \in {"EMPTY", "FAILED"} => ~heard
    /\ hq \in Seq(VersionStatus)
    /\ canonical \in 0 .. Len(hq) /\ rebuilt \subseteq 1 .. Len(hq)
    /\ answer \in {"none", "CAPTURING", "COMPLETED"}
    /\ job \in [Job -> Row]
    /\ run \subseteq Run

(* SessionService.start: the LIVE version is created and made canonical. *)
Init ==
    /\ session = "LIVE" /\ overdue = FALSE
    /\ recording = "none"
    /\ heard = FALSE /\ live = "FINALIZING" /\ hq = <<>> /\ canonical = LIVE
    /\ answer = "none" /\ asked = FALSE
    /\ job = [j \in Job |-> NoRow]
    /\ run = {} /\ rebuilt = {}

-----------------------------------------------------------------------------
(* Rows and versions *)

NewRow(status, retryable, source) ==
    [status |-> status, attempt |-> 1, retryable |-> retryable, source |-> source]

Ended(row, status, retryable) == [row EXCEPT !.status = status, !.retryable = retryable]

NextAttempt(row) ==
    [status |-> "PENDING", attempt |-> row.attempt + 1, retryable |-> FALSE,
     source |-> row.source]

IsActive(j) == job[j].status \in Active
IsCurrent(r) == job[r.job].status = "RUNNING" /\ job[r.job].attempt = r.attempt

VersionOf(s) == IF s = LIVE THEN live ELSE hq[s]

(* Finalized with at least one segment: EMPTY versions have none. *)
Usable(s) == VersionOf(s) = "FINALIZED" /\ (s = LIVE => heard)

(* Bug: the versions are read in ascending order. *)
FirstTarget == IF hq # <<>> /\ hq[1] = "FINALIZED" THEN {1} ELSE {}

(* The latest RECORDING version, as a set, if it is finalized. *)
Target == IF hq # <<>> /\ hq[Len(hq)] = "FINALIZED" THEN {Len(hq)} ELSE {}

(* _finalized_summary_source *)
SummarySource ==
    IF Target # {} THEN Target ELSE {s \in {canonical} : Usable(s)}

(* _source_gate_is_terminal, on given values of the tables it reads. *)
GateTerminal(rec, lv, versions) ==
    \/ rec = "none" /\ lv \in Ready
    \/ rec = "FAILED"
    \/ rec = "UPLOADED" /\ versions # <<>> /\ versions[Len(versions)] \in Ready

SourceGate == GateTerminal(recording, live, hq)

(* Bug: only a coordinator that succeeded lets the Session complete. *)
EvaluateAfterSuccess ==
    session' = IF /\ session = "PROCESSING"
                  /\ job'[Coordinator].status = "SUCCEEDED"
                  /\ \A j \in Job : job'[j].status \notin Active
                  /\ GateTerminal(recording', live', hq')
               THEN "COMPLETED" ELSE session

(* evaluate_session_completion, last in a transaction: it reads what the   *)
(* transaction has written.  The coordinator is itself a blocking row.     *)
EvaluateCompletion ==
    session' = IF /\ session = "PROCESSING"
                  /\ \A j \in Job : job'[j].status \notin Active
                  /\ GateTerminal(recording', live', hq')
               THEN "COMPLETED" ELSE session

-----------------------------------------------------------------------------
(* The LIVE class *)

ClaimPublisher ==
    /\ "recording" \in Inputs
    /\ session = "LIVE" /\ recording = "none"
    /\ recording' = "CAPTURING"
    /\ UNCHANGED <<session, overdue, class, live, hq, canonical, job, run, rebuilt>>

(* persist_final; during the drain after End only a gap is recorded. *)
PersistFinal ==
    /\ session \in {"LIVE", "PROCESSING"} /\ recording = "CAPTURING" /\ live = "FINALIZING"
    /\ heard' = TRUE
    /\ UNCHANGED <<session, overdue, recording, live, hq, canonical, answer, asked,
                   job, run, rebuilt>>

AskQuestion ==
    /\ "question" \in Inputs
    /\ session = "LIVE"
    /\ asked' = TRUE
    /\ UNCHANGED <<session, overdue, recording, transcripts, answer, job, run, rebuilt>>

StartAnswer ==
    /\ "answer" \in Inputs
    /\ session = "LIVE" /\ answer = "none"
    /\ answer' = "CAPTURING"
    /\ UNCHANGED <<session, overdue, recording, transcripts, asked, job, run, rebuilt>>

CancelAnswer ==
    /\ session = "LIVE" /\ answer = "CAPTURING"
    /\ answer' = "none"
    /\ UNCHANGED <<session, overdue, recording, transcripts, asked, job, run, rebuilt>>

(* A voice answer needs a segment of the LIVE version to end at. *)
CompleteAnswer ==
    /\ session = "LIVE" /\ answer = "CAPTURING" /\ heard
    /\ answer' = "COMPLETED"
    /\ UNCHANGED <<session, overdue, recording, transcripts, asked, job, run, rebuilt>>

(* SessionService.end, with _schedule_final_clustering. *)
End ==
    /\ session = "LIVE" /\ answer # "CAPTURING"
    /\ session' = "PROCESSING"
    /\ live' = IF live # "FINALIZING" THEN live
               ELSE IF heard THEN "FINALIZED" ELSE "EMPTY"
    /\ recording' = IF recording = "CAPTURING" THEN "UPLOAD_PENDING" ELSE recording
    /\ job' = [job EXCEPT
          ![Coordinator] = NewRow("PENDING", TRUE, LIVE),
          ![Clustering] = IF asked THEN NewRow("PENDING", TRUE, LIVE) ELSE @]
    /\ UNCHANGED <<overdue, class, hq, canonical, run, rebuilt>>

DeadlinePasses ==
    /\ session # "LIVE" /\ ~overdue
    /\ overdue' = TRUE
    /\ UNCHANGED <<session, recording, class, live, hq, canonical, job, run, rebuilt>>

-----------------------------------------------------------------------------
(* The publisher's browser uploads the recording, or has none.  The upload *)
(* manifest is ACTIVE exactly while the recording is UPLOADING.            *)

Recording(from, to) ==
    /\ recording \in from
    /\ recording' = to
    /\ UNCHANGED <<session, overdue, class, live, canonical, run, rebuilt>>

AbandonLocalUpload ==
    /\ session = "PROCESSING"
    /\ Recording({"UPLOAD_PENDING"}, "FAILED")
    /\ UNCHANGED <<hq, job>>

CreateUpload ==
    /\ session \in {"PROCESSING", "COMPLETED"}
    /\ Recording({"UPLOAD_PENDING", "FAILED"}, "UPLOADING")
    /\ UNCHANGED <<hq, job>>

ExpireUpload ==
    /\ Recording({"UPLOADING"}, "UPLOAD_PENDING")
    /\ UNCHANGED <<hq, job>>

(* prepare_completion and complete_upload: the session is not looked at. *)
CompleteUpload ==
    /\ Recording({"UPLOADING"}, "UPLOADED")
    /\ hq' = Append(hq, "FINALIZING")
    /\ job' = [job EXCEPT ![Transcription] = NewRow("PENDING", FALSE, LIVE)]

-----------------------------------------------------------------------------
(* The HQ transcription worker *)

Start(j, late) ==
    /\ job' = [job EXCEPT ![j].status = "RUNNING"]
    /\ run' = run \cup {[job |-> j, attempt |-> job[j].attempt, late |-> late]}

(* The deadline of the first attempt, and of any attempt in PROCESSING, is *)
(* the Session's; a retry after COMPLETED has ten minutes of its own.      *)
TranscriptionIsLate ==
    overdue /\ ~(session = "COMPLETED" /\ job[Transcription].attempt > 1)

ClaimTranscription ==
    /\ job[Transcription].status = "PENDING"
    /\ IF recording = "UPLOADED" /\ hq[job[Transcription].attempt] = "FINALIZING"
       THEN Start(Transcription, TranscriptionIsLate)
       ELSE /\ job' = [job EXCEPT ![Transcription] = Ended(@, "CANCELLED", FALSE)]
            /\ UNCHANGED run
    /\ UNCHANGED <<session, overdue, recording, class, live, hq, canonical, rebuilt>>

(* requeue_completed_coordinator, on the rows of the same transaction. *)
Requeued(rows) ==
    IF session = "COMPLETED" /\ rows[Coordinator].status \notin Active
    THEN [rows EXCEPT ![Coordinator] = NextAttempt(@)]
    ELSE rows

SucceedTranscription(r) ==
    /\ r.job = Transcription /\ IsCurrent(r) /\ ~r.late
    /\ hq[r.attempt] = "FINALIZING"
    /\ \E status \in {"FINALIZED", "EMPTY"} : hq' = [hq EXCEPT ![r.attempt] = status]
    /\ canonical' = r.attempt
    /\ job' = Requeued([job EXCEPT ![Transcription] = Ended(@, "SUCCEEDED", FALSE)])
    /\ run' = run \ {r}
    /\ UNCHANGED <<session, overdue, recording, class, live, rebuilt>>

FailTranscription(r) ==
    /\ r.job = Transcription /\ IsCurrent(r)
    /\ hq[r.attempt] = "FINALIZING"
    /\ \E retryable \in BOOLEAN :
          /\ r.late => retryable
          /\ job' = [job EXCEPT ![Transcription] = Ended(@, "FAILED", retryable)]
    /\ hq' = [hq EXCEPT ![r.attempt] = "FAILED"]
    /\ run' = run \ {r}
    /\ UNCHANGED <<session, overdue, recording, class, live, canonical, rebuilt>>

(* _finish_success and _finish_failure of a run whose version is not       *)
(* FINALIZING any more cancel the job by its id, whatever its attempt.     *)
CancelTranscription(r) ==
    /\ r.job = Transcription
    /\ hq[r.attempt] # "FINALIZING"
    /\ job' = IF IsActive(Transcription)
              THEN [job EXCEPT ![Transcription] = Ended(@, "CANCELLED", FALSE)]
              ELSE job
    /\ run' = run \ {r}
    /\ UNCHANGED <<session, overdue, recording, class, live, hq, canonical, rebuilt>>

-----------------------------------------------------------------------------
(* The coordinator *)

ClaimCoordinator ==
    /\ job[Coordinator].status = "PENDING"
    /\ SourceGate
    /\ Start(Coordinator, FALSE)
    /\ UNCHANGED <<session, overdue, recording, class, live, hq, canonical, rebuilt>>

(* _finish_coordinator: the gate was terminal at the claim, not any more. *)
SourceNotReady(r) ==
    /\ r.job = Coordinator /\ IsCurrent(r)
    /\ ~SourceGate
    /\ job' = [job EXCEPT ![Coordinator] = Ended(@, "FAILED", TRUE)]
    /\ run' = run \ {r}
    /\ UNCHANGED <<session, overdue, recording, class, live, hq, canonical, rebuilt>>

(* Bug: the organization reads the latest HQ version, finalized or not. *)
WithLatestOrganization(rows, source) ==
    IF answer = "COMPLETED" /\ rows[Organization].status = "ABSENT"
    THEN [rows EXCEPT ![Organization] = NewRow("PENDING", TRUE, Len(hq))]
    ELSE rows

(* _schedule_answer_organizations: an answer whose mapping to the target   *)
(* version failed is organized from the LIVE range.                        *)
WithOrganization(rows, source) ==
    IF answer = "COMPLETED" /\ rows[Organization].status = "ABSENT"
    THEN [rows EXCEPT ![Organization] = NewRow("PENDING", TRUE, source)]
    ELSE rows

(* _schedule_final_summary: nothing while another summary job is active,   *)
(* and never a second row for a source.                                    *)
WithSummary(rows, sources) ==
    IF \E j \in Summaries : rows[j].status \in Active THEN rows
    ELSE [j \in Job |->
             IF \E s \in sources : j = Summary(s) /\ rows[j].status = "ABSENT"
             THEN NewRow("PENDING", TRUE, j[2]) ELSE rows[j]]

FinishCoordinator(r) ==
    /\ r.job = Coordinator /\ IsCurrent(r)
    /\ SourceGate
    /\ \E source \in Target \cup {LIVE} :
          job' = [WithSummary(WithOrganization(job, source), SummarySource)
                     EXCEPT ![Coordinator] = Ended(@, "SUCCEEDED", FALSE)]
    /\ rebuilt' = rebuilt \cup Target
    /\ run' = run \ {r}
    /\ UNCHANGED <<overdue, recording, class, live, hq, canonical>>
    /\ EvaluateCompletion

-----------------------------------------------------------------------------
(* FINAL clustering, answer organization and final summary *)

Children == {Clustering, Organization} \cup Summaries

ClaimChild(j) ==
    /\ job[j].status = "PENDING"
    /\ Start(j, FALSE)
    /\ UNCHANGED <<session, overdue, recording, class, live, hq, canonical, rebuilt>>

(* _run_final_summary drops its result when its source is not usable. *)
InputUsable(r) == r.job \in Summaries => Usable(job[r.job].source)

FinishChild(r, status, retryable) ==
    /\ r.job \in Children /\ IsCurrent(r)
    /\ job' = [job EXCEPT ![r.job] = Ended(@, status, retryable)]
    /\ run' = run \ {r}
    /\ UNCHANGED <<overdue, recording, class, live, hq, canonical, rebuilt>>
    /\ EvaluateCompletion

SucceedChild(r) == InputUsable(r) /\ FinishChild(r, "SUCCEEDED", FALSE)

FailChild(r) ==
    \E retryable \in BOOLEAN :
        (r.job = Clustering => retryable) /\ FinishChild(r, "FAILED", retryable)

(* A late result of any other run is dropped with its transaction. *)
DiscardLate(r) ==
    /\ IF r.job = Transcription THEN ~IsCurrent(r) /\ hq[r.attempt] = "FINALIZING"
       ELSE ~IsCurrent(r) \/ ~InputUsable(r)
    /\ run' = run \ {r}
    /\ UNCHANGED <<session, overdue, recording, class, live, hq, canonical, job, rebuilt>>

-----------------------------------------------------------------------------
(* Retries, backfill and the watchdog *)

(* JobService.retry.  A second active summary row violates the unique      *)
(* index of the Session and the request fails.                             *)
Retry(j) ==
    /\ Type(j) \in Retried /\ job[j].attempt < MaxAttempt
    /\ job[j].status = "FAILED" /\ job[j].retryable
    /\ j = Clustering => session = "COMPLETED"
    /\ j = Transcription => recording = "UPLOADED"
    /\ j \in Summaries => \A k \in Summaries : ~IsActive(k)
    /\ job' = [job EXCEPT ![j] = NextAttempt(@)]
    /\ hq' = IF j = Transcription THEN Append(hq, "FINALIZING") ELSE hq
    /\ UNCHANGED <<session, overdue, recording, class, live, canonical, run, rebuilt>>

(* _schedule_missing_final_summary *)
ScheduleMissingSummary ==
    /\ session = "COMPLETED"
    /\ Usable(canonical)
    /\ \A j \in Summaries : job[j].status = "ABSENT"
    /\ job' = WithSummary(job, SummarySource)
    /\ UNCHANGED <<session, overdue, recording, class, live, hq, canonical, run, rebuilt>>

(* Bug: work that was never scheduled is not recorded as timed out. *)
TimedOutIfActive(j) == IF IsActive(j) THEN Ended(job[j], "FAILED", TRUE) ELSE job[j]

(* _synthesize_timeout_jobs, then every active blocking row is failed. *)
TimedOut(j) ==
    IF IsActive(j) THEN Ended(job[j], "FAILED", TRUE)
    ELSE IF /\ job[j].status = "ABSENT"
            /\ (j = Clustering /\ asked) \/ (j = Organization /\ answer = "COMPLETED")
         THEN NewRow("FAILED", TRUE, LIVE)
         ELSE job[j]

(* Bug: the version of a timed out transcription stays FINALIZING. *)
LeftFinalizing(versions) == versions

(* _terminalize_transcript_source *)
Terminalized(versions) ==
    [a \in DOMAIN versions |->
        IF a = Len(versions) /\ versions[a] = "FINALIZING" THEN "FAILED" ELSE versions[a]]

(* run_watchdog_once and _force_timeout *)
Watchdog ==
    /\ session = "PROCESSING" /\ overdue
    /\ recording' = IF recording = "none" \/ (recording = "UPLOADED" /\ hq # <<>>)
                    THEN recording ELSE "FAILED"
    /\ live' = IF recording = "none" /\ live = "FINALIZING"
               THEN (IF heard THEN "FINALIZED" ELSE "EMPTY") ELSE live
    /\ hq' = IF recording = "none" THEN hq ELSE Terminalized(hq)
    /\ job' = [j \in Job |-> TimedOut(j)]
    /\ UNCHANGED <<overdue, class, canonical, run, rebuilt>>
    /\ EvaluateCompletion

-----------------------------------------------------------------------------

ClassNext ==
    \/ ClaimPublisher \/ PersistFinal
    \/ AskQuestion \/ StartAnswer \/ CancelAnswer \/ CompleteAnswer
    \/ End

UploadNext == AbandonLocalUpload \/ CreateUpload \/ ExpireUpload \/ CompleteUpload

Report(r) ==
    \/ SucceedTranscription(r) \/ FailTranscription(r) \/ CancelTranscription(r)
    \/ SourceNotReady(r) \/ FinishCoordinator(r)
    \/ SucceedChild(r) \/ FailChild(r)
    \/ DiscardLate(r)

WorkerNext ==
    \/ ClaimTranscription \/ ClaimCoordinator
    \/ \E j \in Children : ClaimChild(j)
    \/ \E r \in run : Report(r)
    \/ ScheduleMissingSummary

Next ==
    \/ ClassNext \/ UploadNext \/ WorkerNext
    \/ \E j \in Job : Retry(j)
    \/ DeadlinePasses
    \/ Watchdog

Spec == Init /\ [][Next]_vars

(* Time passes and the post-processing worker begins every poll with its   *)
(* watchdog.  No worker owes the end of what it claimed.                   *)
Fairness == WF_vars(DeadlinePasses) /\ WF_vars(Watchdog)

FairSpec == Spec /\ Fairness

-----------------------------------------------------------------------------
(* Properties *)

(* The HQ job and the transcript version of its attempt move together: the *)
(* two tables are written by uploads, retries, the worker, and a watchdog  *)
(* that knows nothing of the worker's run.                                 *)
VersionFollowsJob ==
    LET row == job[Transcription]
    IN  /\ row.attempt = Len(hq)
        /\ row.status # "ABSENT" => recording = "UPLOADED"
        /\ IsActive(Transcription) => hq[row.attempt] = "FINALIZING"
        /\ row.status = "FAILED" => hq[row.attempt] = "FAILED"
        /\ row.status = "SUCCEEDED" => /\ hq[row.attempt] \in {"FINALIZED", "EMPTY"}
                                       /\ canonical = row.attempt

(* After the class the canonical transcript can be read, and what a job    *)
(* was given as its input stays finalized under it: no retry, timeout or   *)
(* late result takes a version away that something refers to.              *)
SourcesKept ==
    session # "LIVE" =>
        /\ VersionOf(canonical) \in {"FINALIZED", "EMPTY"}
        /\ \A j \in Summaries \cup {Organization} :
              job[j].status # "ABSENT" => Usable(job[j].source)

(* A Session completes with every voice answer organized, or with a row    *)
(* that says how that failed, whether its coordinator, a child or the      *)
(* watchdog is the last to end; unless the coordinator had already given   *)
(* up on a source that was uploaded again (see AnswersHaveOrganization).   *)
OrganizedAtCompletion ==
    [][session # "COMPLETED" /\ session' = "COMPLETED" /\ answer = "COMPLETED"
          /\ job'[Organization].status = "ABSENT"
       => job[Coordinator].status = "FAILED" /\ job[Coordinator].retryable]_vars

(* SYS-10: PROCESSING always ends, whatever worker died on the way, with   *)
(* an upload that never comes or an HQ job nobody finishes.                *)
ProcessingEnds == session = "PROCESSING" ~> session = "COMPLETED"

(* The process that runs coordinators polls on and ends what it claims. *)
CoordinatorAlive ==
    /\ WF_vars(ClaimCoordinator)
    /\ \A a \in 1 .. MaxAttempt + 1 :
          LET r == [job |-> Coordinator, attempt |-> a, late |-> FALSE]
          IN  WF_vars(r \in run /\ (FinishCoordinator(r) \/ SourceNotReady(r)))

(* A coordinator that waits in a COMPLETED Session for an HQ transcript    *)
(* that became canonical gets to it: the gate it needs does not close      *)
(* again, and the version it maps answers to is the one that woke it.      *)
RecoveryRebuilds ==
    CoordinatorAlive =>
        (session = "COMPLETED" /\ canonical # LIVE /\ Usable(canonical) /\ IsActive(Coordinator)
            ~> canonical \in rebuilt)

(* API document: "the late result of an earlier attempt is discarded".     *)
LateResultsAreDiscarded ==
    [][\A r \in run \ run' : ~IsCurrent(r) => job' = job]_vars

(* API document: a Session completes only after the coordinator's terminal *)
(* transaction has registered its children; and answers.py reports a       *)
(* DATA_INTEGRITY_ERROR for a voice answer of a COMPLETED Session that has *)
(* no organization job.                                                    *)
AnswersHaveOrganization ==
    session = "COMPLETED" /\ answer = "COMPLETED" => job[Organization].status # "ABSENT"

(* DB document: a recovered HQ transcript gets its summary job from the    *)
(* coordinator that recovers it.                                           *)
RecoveryHasSummary ==
    \A a \in rebuilt : job[Summary(a)].status # "ABSENT"

-----------------------------------------------------------------------------
(* What ProcessingEnds and RecoveryRebuilds rest on, step by step. *)

(* One transaction of the watchdog completes a Session from whatever its   *)
(* uploads and workers left, for it makes the gate terminal and every row; *)
(* and a deadline that has passed stays passed.                            *)
WatchdogCompletes == [][(Watchdog => session' = "COMPLETED") /\ (overdue => overdue')]_vars

(* An HQ transcript that became canonical is the last of its class: no     *)
(* upload, retry, watchdog or late run adds a version, or takes it away.   *)
CanonicalIsLast == [][canonical # LIVE => UNCHANGED <<recording, hq, canonical>>]_vars

(* The coordinator that waits in a COMPLETED Session ends in one way only: *)
(* with the HQ transcript rebuilt.  No gate that closed under its run, and *)
(* no watchdog, ends it without.                                           *)
RecoveryOnlyRebuilds ==
    [][session = "COMPLETED" /\ canonical # LIVE /\ Usable(canonical)
          /\ IsActive(Coordinator) /\ ~IsActive(Coordinator)'
       => canonical \in rebuilt']_vars

-----------------------------------------------------------------------------
(* What makes VersionFollowsJob and SourcesKept inductive. *)

ClassRunning ==
    session = "LIVE" =>
        /\ recording \in {"none", "CAPTURING"}
        /\ live = "FINALIZING" /\ hq = <<>> /\ canonical = LIVE
        /\ run = {} /\ \A j \in Job : job[j].status = "ABSENT"

ClassEnded ==
    session # "LIVE" => /\ recording # "CAPTURING"
                        /\ live = IF heard THEN "FINALIZED" ELSE "EMPTY"

VersionsOfUpload ==
    /\ recording = "UPLOADED" <=> hq # <<>>
    /\ Len(hq) <= MaxAttempt

RunsHaveVersion == \A r \in run : r.job = Transcription => r.attempt \in 1 .. Len(hq)

AbsentRows == \A j \in Job : job[j].status = "ABSENT" => job[j].attempt = 0

SourcesExist ==
    \A j \in Summaries \cup {Organization} :
        job[j].status # "ABSENT" => job[j].source <= Len(hq)

CanonicalReadable == canonical # LIVE => hq[canonical] \in {"FINALIZED", "EMPTY"}

AnswerHeard == answer = "COMPLETED" => heard

PostInv ==
    /\ TypeOK
    /\ ClassRunning /\ ClassEnded
    /\ VersionsOfUpload /\ RunsHaveVersion /\ AbsentRows /\ SourcesExist
    /\ CanonicalReadable /\ AnswerHeard
    /\ VersionFollowsJob /\ SourcesKept

-----------------------------------------------------------------------------
(* Every row but the coordinator's is a job of the ledger: it implements   *)
(* AttemptOutcome, in which nothing of it may be rebuilt.                  *)

AttemptOf(j) == job[j].attempt
PhaseOf(j) ==
    IF job[j].status = "ABSENT" THEN "none" ELSE IF IsActive(j) THEN "open" ELSE "settled"
ResultOf(j) == IF job[j].status = "SUCCEEDED" THEN {<<j, job[j].attempt>>} ELSE {}

Outcome(j) == INSTANCE AttemptOutcome WITH
    Job         <- {j},
    Rebuildable <- {},
    attempt     <- [k \in {j} |-> AttemptOf(k)],
    phase       <- [k \in {j} |-> PhaseOf(k)],
    result      <- ResultOf(j)

(* Uploads, workers, retries and a watchdog that ends rows under running   *)
(* workers, or writes rows nobody had opened, settle each attempt of a row *)
(* once and open none after one that succeeded (JobKernel).                *)
JobKeepsContract(j) == Outcome(j)!Spec

=============================================================================
