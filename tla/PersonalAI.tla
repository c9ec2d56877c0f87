------------------------------ MODULE PersonalAI ------------------------------
(***************************************************************************)
(* The private summaries and chats of one student in one class: the API    *)
(* requests with their idempotency records, PersonalAIWorker, and the end  *)
(* of the class, which purges everything private that belongs to LIVE.     *)
(*                                                                         *)
(* An API request is one transaction in two steps.  It first inserts its   *)
(* idempotency record; the record's foreign key then holds a shared lock   *)
(* on the Session row until the transaction ends.  It next locks the       *)
(* Session row alone, does its work and commits.  The end of the class is  *)
(* also two steps: it reads the records to rewrite, then waits for the     *)
(* Session row.                                                            *)
(***************************************************************************)
EXTENDS Naturals, Sequences, FiniteSets

CONSTANTS
    Key,           \* idempotency keys, one for every logical request
    SourceRange,   \* transcript ranges that can be summarised
    Chat,          \* ChatSession identities
    Worker,        \* PersonalAIWorker processes
    Mode,          \* modes of chats that are asked for
    MaxMessage,    \* bound: messages of one chat
    MaxAttempt,    \* bound: attempts of one job
    MaxCrash       \* bound: worker crashes

ASSUME PersonalBounds ==
    /\ Mode \subseteq {"LIVE", "REVIEW"}
    /\ MaxMessage \in Nat \ {0} /\ MaxAttempt \in Nat \ {0} /\ MaxCrash \in Nat

VARIABLES
    session,   \* LectureSession.status
    mode,      \* [Chat -> mode, "none" before it exists, "purged" after]
    message,   \* [Chat -> roles of its messages in order of sequence]
    job,       \* [Job -> row], private rows of ai_jobs
    summary,   \* jobs whose LIVE LectureSummary is stored
    record,    \* [Key -> row], idempotency_records
    ending,    \* the end_session transaction: the keys it locked
    run,       \* [Worker -> what it works on]
    crashes

data == <<session, mode, message, job, summary>>
vars == <<data, record, ending, run, crashes>>

-----------------------------------------------------------------------------
(* Types *)

(* A CHAT_RESPONSE job is named by its turn, the chat and the sequence of   *)
(* the USER message it answers; a LIVE_SUMMARY job by the range that its    *)
(* dedupe key stands for.                                                   *)
Turn == Chat \X (1 .. MaxMessage - 1)
SummaryOf(r) == <<r, 0>>
Summary == SourceRange \X {0}
Job == Summary \cup Turn
IsTurn(j) == j[2] > 0

Active == {"PENDING", "RUNNING"}
Status == Active \cup {"SUCCEEDED", "FAILED", "CANCELLED"}
Row == [status : Status \cup {"ABSENT"}, attempt : 0 .. MaxAttempt, retryable : BOOLEAN]
NoRow == [status |-> "ABSENT", attempt |-> 0, retryable |-> FALSE]
ActiveTurns(c) == {j \in Turn : j[1] = c /\ job[j].status \in Active}

(* "processing" is a row that its transaction has not committed.            *)
Request == [kind : {"summary"}, range : SourceRange]
           \cup [kind : {"chat"}, chat : Chat, mode : Mode]
           \cup [kind : {"message"}, chat : Chat]
NoRequest == [kind |-> "none"]
Record == [state : {"none", "processing", "accepted", "purged", "refused"},
           request : Request \cup {NoRequest}, purgeable : BOOLEAN]
NoRecord == [state |-> "none", request |-> NoRequest, purgeable |-> FALSE]

NoJob == <<>>
Run == [at : {"idle", "picked", "claimed", "generated", "failing"}, job : Job \cup {NoJob},
        attempt : 0 .. MaxAttempt, retryable : BOOLEAN]
Idle == [at |-> "idle", job |-> NoJob, attempt |-> 0, retryable |-> FALSE]

TypeOK ==
    /\ session \in {"LIVE", "PROCESSING", "COMPLETED"}
    /\ mode \in [Chat -> {"none", "LIVE", "REVIEW", "purged"}]
    /\ message \in [Chat -> Seq({"USER", "ASSISTANT"})]
    /\ \A c \in Chat : Len(message[c]) <= MaxMessage
    /\ job \in [Job -> Row]
    \* the unique index ai_jobs_one_active_chat_response_uq
    /\ \A c \in Chat : Cardinality(ActiveTurns(c)) <= 1
    /\ summary \subseteq Summary
    /\ record \in [Key -> Record]
    /\ ending \in [at : {"no", "listed"}, listed : SUBSET Key]
    /\ run \in [Worker -> Run]
    /\ crashes \in 0 .. MaxCrash

Init ==
    /\ session = "LIVE"
    /\ mode = [c \in Chat |-> "none"]
    /\ message = [c \in Chat |-> <<>>]
    /\ job = [j \in Job |-> NoRow]
    /\ summary = {}
    /\ record = [k \in Key |-> NoRecord]
    /\ ending = [at |-> "no", listed |-> {}]
    /\ run = [w \in Worker |-> Idle]
    /\ crashes = 0

-----------------------------------------------------------------------------
(* Locks and rows *)

(* Transactions that hold the shared lock of their record's foreign key.    *)
Sharing == {k \in Key : record[k].state = "processing"}
SessionFree == Sharing = {}
SessionFreeFor(k) == Sharing = {k}

Expected(m) == IF m = "LIVE" THEN "LIVE" ELSE "COMPLETED"

(* _job_state_is_current                                                    *)
Current(j) ==
    IF IsTurn(j) THEN mode[j[1]] \in {"LIVE", "REVIEW"} /\ session = Expected(mode[j[1]])
    ELSE session = "LIVE"

NewJob == [status |-> "PENDING", attempt |-> 1, retryable |-> FALSE]

-----------------------------------------------------------------------------
(* API requests *)

(* The rows whose replay the end of the class has to rewrite.               *)
Purgeable(request) ==
    CASE request.kind = "summary" -> TRUE
      [] request.kind = "chat" -> request.mode = "LIVE"
      [] request.kind = "message" -> mode[request.chat] = "LIVE"

(* What the client knows: it writes to chats that it has been given.        *)
Known(request) ==
    CASE request.kind = "chat" -> mode[request.chat] = "none"
      [] request.kind = "message" -> mode[request.chat] \in {"LIVE", "REVIEW"}
      [] OTHER -> TRUE

(* _acquire of a key that has no record.  A key that has one is replayed,   *)
(* which writes nothing.                                                    *)
Acquire(k, request) ==
    /\ record[k].state = "none" /\ Known(request)
    /\ record' = [record EXCEPT ![k] = [state |-> "processing", request |-> request,
                                        purgeable |-> Purgeable(request)]]
    /\ UNCHANGED <<data, ending, run, crashes>>

(* The transaction is rolled back: a service error, or PostgreSQL ended it  *)
(* because two requests share the Session row and each wants it alone.  No  *)
(* row is left; the bound is that this key is not sent again.               *)
Abort(k) ==
    /\ k \in Sharing
    /\ record' = [record EXCEPT ![k] = [NoRecord EXCEPT !.state = "refused"]]
    /\ UNCHANGED <<data, ending, run, crashes>>

Accept(k) == record' = [record EXCEPT ![k].state = "accepted"]

(* Bug: the status of the Session is not checked again under its lock.      *)
RequestSummaryUnchecked(k) ==
    LET r == SummaryOf(record[k].request.range) IN
    /\ SessionFreeFor(k) /\ record[k].request.kind = "summary"
    /\ job' = IF job[r].status = "ABSENT" THEN [job EXCEPT ![r] = NewJob] ELSE job
    /\ Accept(k)
    /\ UNCHANGED <<session, mode, message, summary, ending, run, crashes>>

(* request_live_summary: a range that has a job gets that job again.        *)
RequestSummary(k) ==
    LET r == SummaryOf(record[k].request.range) IN
    /\ SessionFreeFor(k) /\ record[k].request.kind = "summary" /\ session = "LIVE"
    /\ job' = IF job[r].status = "ABSENT" THEN [job EXCEPT ![r] = NewJob] ELSE job
    /\ Accept(k)
    /\ UNCHANGED <<session, mode, message, summary, ending, run, crashes>>

CreateChat(k) ==
    LET request == record[k].request IN
    /\ SessionFreeFor(k) /\ request.kind = "chat"
    /\ mode[request.chat] = "none" /\ session = Expected(request.mode)
    /\ mode' = [mode EXCEPT ![request.chat] = request.mode]
    /\ Accept(k)
    /\ UNCHANGED <<session, message, job, summary, ending, run, crashes>>

(* create_chat_turn                                                         *)
CreateTurn(k) ==
    LET c == record[k].request.chat
        turn == <<c, Len(message[c]) + 1>>
    IN  /\ SessionFreeFor(k) /\ record[k].request.kind = "message"
        /\ mode[c] \in {"LIVE", "REVIEW"} /\ session = Expected(mode[c])
        /\ ActiveTurns(c) = {}
        /\ Len(message[c]) + 1 < MaxMessage
        /\ message' = [message EXCEPT ![c] = Append(@, "USER")]
        /\ job' = [job EXCEPT ![turn] = NewJob]
        /\ Accept(k)
        /\ UNCHANGED <<session, mode, summary, ending, run, crashes>>

(* JobService.retry by the requester.  A unique index allows one active     *)
(* response of a chat.  Its idempotency record names no Session.            *)
Retry(j) ==
    /\ job[j].status = "FAILED" /\ job[j].retryable /\ job[j].attempt < MaxAttempt
    /\ IsTurn(j) => ActiveTurns(j[1]) = {}
    /\ job' = [job EXCEPT ![j] = [status |-> "PENDING", attempt |-> @.attempt + 1, retryable |-> FALSE]]
    /\ UNCHANGED <<session, mode, message, summary, record, ending, run, crashes>>

-----------------------------------------------------------------------------
(* The end of the class *)

(* lock_purge_records: the committed rows, before the Session is locked.    *)
ListRecords ==
    /\ session = "LIVE" /\ ending.at = "no"
    /\ ending' = [at |-> "listed",
                  listed |-> {k \in Key : record[k].state \in {"accepted", "purged"} /\ record[k].purgeable}]
    /\ UNCHANGED <<data, record, run, crashes>>

(* AnswerCaptureActiveError and other refusals roll the request back.       *)
EndRefused ==
    /\ ending.at = "listed" /\ SessionFree
    /\ ending' = [at |-> "no", listed |-> {}]
    /\ UNCHANGED <<data, record, run, crashes>>

LiveChats == {c \in Chat : mode[c] = "LIVE"}
Cleared(f, S, empty) == [x \in DOMAIN f |-> IF x \in S THEN empty ELSE f[x]]

(* purge_live                                                               *)
PurgeLive ==
    /\ summary' = {}
    /\ mode' = Cleared(mode, LiveChats, "purged")
    /\ message' = Cleared(message, LiveChats, <<>>)
    /\ job' = Cleared(job, Summary \cup {j \in Turn : j[1] \in LiveChats}, NoRow)

(* mark_live_ai_purged                                                      *)
MarkPurged(listed) ==
    record' = [k \in Key |-> IF k \in listed THEN [record[k] EXCEPT !.state = "purged"] ELSE record[k]]

EndClass ==
    /\ ending.at = "listed" /\ SessionFree
    /\ PurgeLive
    /\ MarkPurged(ending.listed)
    /\ session' = "PROCESSING"
    /\ ending' = [at |-> "no", listed |-> {}]
    /\ UNCHANGED <<run, crashes>>

(* Post-processing completes the Session.                                   *)
Complete ==
    /\ session = "PROCESSING" /\ SessionFree
    /\ session' = "COMPLETED"
    /\ UNCHANGED <<mode, message, job, summary, record, ending, run, crashes>>

-----------------------------------------------------------------------------
(* PersonalAIWorker *)

SetRun(w, at, retryable) == run' = [run EXCEPT ![w].at = at, ![w].retryable = retryable]
Drop(w) == run' = [run EXCEPT ![w] = Idle]

(* Bug: a run is recognised by its job alone.                               *)
FencedByJob(w) == job[run[w].job].status # "ABSENT"

(* _lock_current_job: the row is still the run of this worker.              *)
Fenced(w) ==
    /\ job[run[w].job].status = "RUNNING"
    /\ job[run[w].job].attempt = run[w].attempt

(* Bug: only summaries are looked at.                                       *)
ExpireSummary(j) ==
    /\ job[j].status = "RUNNING" /\ ~IsTurn(j)
    /\ job' = [job EXCEPT ![j].status = "FAILED", ![j].retryable = TRUE]
    /\ UNCHANGED <<session, mode, message, summary, record, ending, run, crashes>>

(* _fail_expired.  The lease is as long as the provider's own timeout, so   *)
(* that it can run out under a worker that still waits for an answer.       *)
Expire(j) ==
    /\ job[j].status = "RUNNING"
    /\ job' = [job EXCEPT ![j].status = "FAILED", ![j].retryable = TRUE]
    /\ UNCHANGED <<session, mode, message, summary, record, ending, run, crashes>>

(* _claim reads a candidate without a lock, in a transaction of its own.    *)
Pick(w, j) ==
    /\ run[w] = Idle /\ job[j].status = "PENDING"
    /\ run' = [run EXCEPT ![w] = [Idle EXCEPT !.at = "picked", !.job = j]]
    /\ UNCHANGED <<data, record, ending, crashes>>

(* The rest of _claim, under the locks of Session and Chat.                 *)
Claim(w) ==
    LET j == run[w].job IN
    /\ run[w].at = "picked" /\ SessionFree
    /\ IF job[j].status = "PENDING" /\ Current(j)
       THEN /\ job' = [job EXCEPT ![j].status = "RUNNING"]
            /\ run' = [run EXCEPT ![w].at = "claimed", ![w].attempt = job[j].attempt]
       ELSE /\ job' = [job EXCEPT ![j].status = IF @ \in Active /\ ~Current(j) THEN "CANCELLED" ELSE @]
            /\ Drop(w)
    /\ UNCHANGED <<session, mode, message, summary, record, ending, crashes>>

(* _generate_summary and _generate_chat_response: the input is read again,  *)
(* and the provider answers.                                                *)
Generate(w) ==
    /\ run[w].at = "claimed"
    /\ IF job[run[w].job].status # "ABSENT" /\ Current(run[w].job)
       THEN SetRun(w, "generated", FALSE) ELSE SetRun(w, "failing", FALSE)
    /\ UNCHANGED <<data, record, ending, crashes>>

(* The provider fails, with an error that may or may not be retried.        *)
ProviderFails(w) ==
    /\ run[w].at = "claimed"
    /\ \E retryable \in BOOLEAN : SetRun(w, "failing", retryable)
    /\ UNCHANGED <<data, record, ending, crashes>>

Succeed(j) == job' = [job EXCEPT ![j].status = "SUCCEEDED"]

(* _persist_summary                                                         *)
PersistSummary(w) ==
    LET j == run[w].job IN
    /\ run[w].at = "generated" /\ ~IsTurn(j) /\ SessionFree
    /\ IF ~Fenced(w) THEN UNCHANGED <<job, summary>>
       ELSE IF session = "LIVE" THEN summary' = summary \cup {j} /\ Succeed(j)
       ELSE job' = [job EXCEPT ![j].status = "FAILED"] /\ UNCHANGED summary
    /\ Drop(w)
    /\ UNCHANGED <<session, mode, message, record, ending, crashes>>

(* The sequence after the USER message is free.                             *)
RoomForAnswer(j) == Len(message[j[1]]) = j[2]

(* _persist_chat_response: the answer takes the sequence after its USER     *)
(* message, or fails on the unique constraint when that one is taken.       *)
PersistResponse(w) ==
    LET j == run[w].job IN
    /\ run[w].at = "generated" /\ IsTurn(j) /\ SessionFree
    /\ IF Fenced(w) /\ Current(j) /\ RoomForAnswer(j)
       THEN /\ message' = [message EXCEPT ![j[1]] = Append(@, "ASSISTANT")]
            /\ Succeed(j)
            /\ Drop(w)
       ELSE /\ UNCHANGED <<message, job>>
            /\ IF Fenced(w) /\ Current(j) THEN SetRun(w, "failing", TRUE) ELSE Drop(w)
    /\ UNCHANGED <<session, mode, summary, record, ending, crashes>>

(* _fail                                                                    *)
Fail(w) ==
    LET j == run[w].job IN
    /\ run[w].at = "failing" /\ SessionFree
    /\ job' = IF Fenced(w)
              THEN [job EXCEPT ![j].status = "FAILED", ![j].retryable = run[w].retryable] ELSE job
    /\ Drop(w)
    /\ UNCHANGED <<session, mode, message, summary, record, ending, crashes>>

Crash(w) ==
    /\ run[w] # Idle /\ crashes < MaxCrash
    /\ Drop(w)
    /\ crashes' = crashes + 1
    /\ UNCHANGED <<data, record, ending>>

-----------------------------------------------------------------------------

Handle(k) == RequestSummary(k) \/ CreateChat(k) \/ CreateTurn(k) \/ Abort(k)

Work(w) ==
    \/ \E j \in Job : Pick(w, j)
    \/ Claim(w) \/ Generate(w) \/ ProviderFails(w)
    \/ PersistSummary(w) \/ PersistResponse(w) \/ Fail(w)

Poll == (\E j \in Job : Expire(j)) \/ \E w \in Worker : Work(w)

Next ==
    \/ \E k \in Key : Handle(k) \/ \E request \in Request : Acquire(k, request)
    \/ \E j \in Job : Retry(j)
    \/ ListRecords \/ EndRefused \/ EndClass \/ Complete
    \/ Poll
    \/ \E w \in Worker : Crash(w)

Spec == Init /\ [][Next]_vars

(* Some worker polls on, which is to look for expired leases and to work,   *)
(* and a request ends.  Nobody has to send, retry or end anything.          *)
Fairness == WF_vars(Poll) /\ WF_vars(\E k \in Key : Handle(k))

FairSpec == Spec /\ Fairness

-----------------------------------------------------------------------------
(* Properties *)

(* Once the class has ended nothing of its LIVE conversations is left or    *)
(* comes back, whatever a worker, a request or a retry was doing:           *)
(* purge_live deletes summaries, chats, messages and jobs, and everyone     *)
(* else writes under the lock of the Session row.                           *)
NothingPrivateAfterEnd ==
    session # "LIVE" =>
        /\ summary = {}
        /\ \A c \in Chat : mode[c] # "LIVE"
        /\ \A c \in Chat : mode[c] = "purged" => message[c] = <<>>
        /\ \A j \in Job : job[j].status \in Status => IsTurn(j) /\ mode[j[1]] = "REVIEW"

(* A private job SUCCEEDED exactly when its result is stored: the summary   *)
(* of its range, or the ASSISTANT message behind its USER message; and a    *)
(* chat holds no answer that no job gave.                                   *)
Answered(j) == j[2] < Len(message[j[1]]) /\ message[j[1]][j[2] + 1] = "ASSISTANT"
ResultMatchesJob ==
    /\ \A j \in Summary : job[j].status = "SUCCEEDED" <=> j \in summary
    /\ \A j \in Turn : job[j].status = "SUCCEEDED" <=> Answered(j)
    /\ \A j \in Turn : job[j].status \in Status => message[j[1]][j[2]] = "USER"

(* A job that was accepted leaves PENDING and RUNNING, also when its worker *)
(* crashed, so that the chat it blocks takes a message again.               *)
JobsEnd == \A j \in Job : job[j].status \in Active ~> job[j].status \notin Active

(* "Replace stale personal-LIVE replay bodies": after the end every record  *)
(* of a LIVE request answers 410, and none points the client at a resource  *)
(* that was deleted (repositories/idempotency.py, line 166).                *)
ReplayIsPurged ==
    session # "LIVE" => \A k \in Key : record[k].purgeable => record[k].state # "accepted"

(* A retried turn can be answered: the retry reuses the USER message of the *)
(* turn, and its answer follows that message (DB_schema, 14.10).            *)
RetriedTurnHasRoom == \A j \in Turn : job[j].status \in Active => RoomForAnswer(j)

-----------------------------------------------------------------------------
(* A private row is a job of the ledger: it implements AttemptOutcome,      *)
(* where the end of the class withdraws every job of a LIVE conversation,   *)
(* requested or not.                                                        *)

Forbidden(j) == session # "LIVE" /\ (IsTurn(j) => mode[j[1]] = "purged")

AttemptOf(j) == job[j].attempt
PhaseOf(j) ==
    CASE job[j].status = "ABSENT" -> IF Forbidden(j) THEN "gone" ELSE "none"
      [] job[j].status \in Active -> "open"
      [] OTHER -> "settled"
ResultOf(j) == IF job[j].status = "SUCCEEDED" THEN {<<j, job[j].attempt>>} ELSE {}

Outcome(j) == INSTANCE AttemptOutcome WITH
    Job         <- {j},
    Rebuildable <- {},
    attempt     <- [k \in {j} |-> AttemptOf(k)],
    phase       <- [k \in {j} |-> PhaseOf(k)],
    result      <- ResultOf(j)

(* Requests, retries, expired leases, late workers and the end of the class *)
(* settle each attempt of a row once, open none after one that succeeded,   *)
(* and open none at all once the conversation was purged (PersonalAIWorker, *)
(* purge_live).                                                             *)
JobKeepsContract(j) == Outcome(j)!Spec
=============================================================================
