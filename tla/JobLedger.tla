------------------------------ MODULE JobLedger ------------------------------
(***************************************************************************)
(* The AIJob rows of PostgreSQL and everyone that moves them: API          *)
(* transactions that enqueue, retry, cancel and purge, polling workers     *)
(* that claim a row, compute outside any transaction and come back with a  *)
(* ClaimedJob fence, and the watchdogs.  Each action is one transaction.   *)
(***************************************************************************)
EXTENDS Naturals, FiniteSets

CONSTANTS
    Job,           \* AIJob identities
    Worker,        \* polling worker processes
    Shared,        \* jobs of visibility SHARED; the others are REQUESTER_ONLY
    Coordinator,   \* SESSION_POSTPROCESSING rows, the only ones requeued
    Hq,            \* RECORDING_TRANSCRIPTION rows
    Blocking,      \* rows of one Session with blocks_session_completion
    Material,      \* MATERIAL_PROCESSING rows, whose material can be detached
    Clustering,    \* QUESTION_CLUSTERING rows of mode LIVE_INCREMENTAL
    Wired,         \* kernel operations some process calls; {} in production
    MaxAttempt,    \* bound: attempts of a row
    MaxVersion     \* bound: steps that only write a version end below this one

ASSUME JobKinds ==
    /\ Shared \subseteq Job /\ Coordinator \subseteq Shared /\ Hq \subseteq Shared
    /\ Blocking \subseteq Shared /\ Material \subseteq Shared /\ Clustering \subseteq Shared
    /\ Coordinator \cap Material = {}
ASSUME BoundsAreNumbers == MaxAttempt \in Nat \ {0} /\ MaxVersion \in Nat
ASSUME WiredIsKnown == Wired \subseteq {"heartbeat", "fail_expired_shared"}

VARIABLES
    row,       \* [Job -> Row], the ai_jobs table
    run,       \* [Worker -> ClaimedJob or NoRun], what each worker holds
    issued,    \* number of run tokens drawn so far (uuid4 is always fresh)
    event,     \* [Job -> Event], the last job.updated put in the outbox
    accepted   \* runs whose results were committed with their SUCCEEDED row

vars == <<row, run, issued, event, accepted>>

-----------------------------------------------------------------------------
(* Types *)

Active == {"PENDING", "RUNNING"}
Terminal == {"SUCCEEDED", "FAILED", "CANCELLED", "SUPERSEDED"}
Status == Active \cup Terminal
NoRow == {"ABSENT", "PURGED"}      \* not inserted yet, deleted for good
Lease == {"none", "live", "expired"}

Row == [status : Status \cup NoRow, attempt : Nat, version : Nat, token : Nat,
        lease : Lease, overdue : BOOLEAN, retryable : BOOLEAN]
ClaimedJob == [job : Job, attempt : Nat, token : Nat]
NoRun == [job |-> "none"]
Event == [status : Status \cup {"none"}, version : Nat]

(* A row no worker holds: run_token and lease_expires_at are NULL. *)
IdleRow(status, attempt, version, retryable) ==
    [status |-> status, attempt |-> attempt, version |-> version, token |-> 0,
     lease |-> "none", overdue |-> FALSE, retryable |-> retryable]

EmptyRow(status) == IdleRow(status, 0, 0, FALSE)

TypeOK ==
    /\ row \in [Job -> Row]
    /\ run \in [Worker -> ClaimedJob \cup {NoRun}]
    /\ issued \in Nat
    /\ event \in [Job -> Event]
    /\ accepted \subseteq ClaimedJob
    \* the ai_jobs check constraint on run_token and lease_expires_at
    /\ \A j \in Job : /\ row[j].status = "RUNNING" <=> row[j].token # 0
                      /\ row[j].status = "RUNNING" <=> row[j].lease # "none"

Init ==
    /\ row = [j \in Job |-> EmptyRow("ABSENT")]
    /\ run = [w \in Worker |-> NoRun]
    /\ issued = 0
    /\ event = [j \in Job |-> [status |-> "none", version |-> 0]]
    /\ accepted = {}

-----------------------------------------------------------------------------
(* Row transitions shared by the operations *)

NewRow(status, retryable) == IdleRow(status, 1, 1, retryable)

Claimed(r, token) ==
    [status |-> "RUNNING", attempt |-> r.attempt, version |-> r.version + 1,
     token |-> token, lease |-> "live", overdue |-> FALSE, retryable |-> r.retryable]

(* Bug: the retried row keeps its attempt number. *)
SameAttemptAgain(r) == IdleRow("PENDING", r.attempt, r.version + 1, FALSE)

(* Bug: the retried row starts its versions anew. *)
FreshVersionAgain(r) == IdleRow("PENDING", r.attempt + 1, 1, FALSE)

PendingAgain(r) == IdleRow("PENDING", r.attempt + 1, r.version + 1, FALSE)

Ended(r, status, retryable) == IdleRow(status, r.attempt, r.version + 1, retryable)

(* Bug: any worker that ever claimed the job may finish it. *)
RunningConditions(r) == row[r.job].status = "RUNNING"

(* _run_conditions: the row is still the one this worker claimed. *)
RunConditions(r) ==
    /\ row[r.job].attempt = r.attempt
    /\ row[r.job].token = r.token
    /\ row[r.job].status = "RUNNING"

(* _emit_update: the new row of a SHARED job is written to the outbox. *)
Emit(S) ==
    event' = [j \in Job |-> IF j \in S \cap Shared
                            THEN [status |-> row'[j].status, version |-> row'[j].version]
                            ELSE event[j]]

Holds(w) == run[w] # NoRun
Release(w) == run' = [run EXCEPT ![w] = NoRun]

-----------------------------------------------------------------------------
(* API transactions and workers *)

Enqueue(j, retryable) ==
    /\ row[j].status = "ABSENT"
    /\ row' = [row EXCEPT ![j] = NewRow("PENDING", retryable)]
    /\ Emit({j})
    /\ UNCHANGED <<run, issued, accepted>>

(* claim_next_shared, claim_shared_by_id, claim_requester_by_id *)
Claim(w, j) ==
    /\ ~Holds(w)
    /\ row[j].status = "PENDING"
    /\ issued' = issued + 1
    /\ row' = [row EXCEPT ![j] = Claimed(@, issued + 1)]
    /\ run' = [run EXCEPT ![w] = [job |-> j, attempt |-> row[j].attempt,
                                  token |-> issued + 1]]
    /\ Emit({j})
    /\ UNCHANGED accepted

(* heartbeat: writes the row and a new version, and no outbox event. *)
Heartbeat(w) ==
    /\ "heartbeat" \in Wired
    /\ Holds(w) /\ RunConditions(run[w])
    /\ row[run[w].job].version < MaxVersion
    /\ row' = [row EXCEPT ![run[w].job].lease = "live", ![run[w].job].version = @ + 1]
    /\ UNCHANGED <<run, issued, event, accepted>>

(* succeed, in the transaction that stores what the worker produced. *)
Succeed(w) ==
    /\ Holds(w) /\ RunConditions(run[w])
    /\ row' = [row EXCEPT ![run[w].job] = Ended(@, "SUCCEEDED", FALSE)]
    /\ accepted' = accepted \cup {run[w]}
    /\ Emit({run[w].job})
    /\ Release(w)
    /\ UNCHANGED issued

Fail(w, retryable) ==
    /\ Holds(w) /\ RunConditions(run[w])
    /\ row' = [row EXCEPT ![run[w].job] = Ended(@, "FAILED", retryable)]
    /\ Emit({run[w].job})
    /\ Release(w)
    /\ UNCHANGED <<issued, accepted>>

(* succeed or fail changed no row: the worker rolls its result back. *)
DiscardLate(w) ==
    /\ Holds(w) /\ ~RunConditions(run[w])
    /\ Release(w)
    /\ UNCHANGED <<row, issued, event, accepted>>

(* The worker process dies; its row stays RUNNING. *)
Crash(w) ==
    /\ Holds(w)
    /\ Release(w)
    /\ UNCHANGED <<row, issued, event, accepted>>

(* Bug: cancel and supersede tell nobody. *)
FinishByIdSilently(j, status) ==
    /\ row[j].status \in Active
    /\ row' = [row EXCEPT ![j] = Ended(@, status, FALSE)]
    /\ UNCHANGED <<run, issued, event, accepted>>

(* cancel and supersede: by id, whoever runs the job. *)
FinishById(j, status) ==
    /\ row[j].status \in Active
    /\ row' = [row EXCEPT ![j] = Ended(@, status, FALSE)]
    /\ Emit({j})
    /\ UNCHANGED <<run, issued, accepted>>

(* Bug: every ended row is retried, not only a retryable FAILED one. *)
RetryTerminal(j) ==
    /\ row[j].status \in Terminal
    /\ row[j].attempt < MaxAttempt
    /\ row' = [row EXCEPT ![j] = PendingAgain(@)]
    /\ Emit({j})
    /\ UNCHANGED <<run, issued, accepted>>

RetryFailed(j) ==
    /\ row[j].status = "FAILED" /\ row[j].retryable
    /\ row[j].attempt < MaxAttempt
    /\ row' = [row EXCEPT ![j] = PendingAgain(@)]
    /\ Emit({j})
    /\ UNCHANGED <<run, issued, accepted>>

(* requeue_completed_coordinator: any terminal row, retryable or not. *)
RequeueCoordinator(j) ==
    /\ j \in Coordinator
    /\ row[j].status \in Terminal
    /\ row[j].attempt < MaxAttempt
    /\ row' = [row EXCEPT ![j] = PendingAgain(@)]
    /\ Emit({j})
    /\ UNCHANGED <<run, issued, accepted>>

(* detach of a material whose job failed: not retryable any more.  The row *)
(* takes a new version and the outbox hears nothing of it.                 *)
DetachFailed(j) ==
    /\ j \in Material
    /\ row[j].status = "FAILED" /\ row[j].version < MaxVersion
    /\ row' = [row EXCEPT ![j].retryable = FALSE, ![j].version = @ + 1]
    /\ UNCHANGED <<run, issued, event, accepted>>

(* QuestionService.create: a question asked while the clustering job waits *)
(* joins its input.  The row takes a new version, again in silence.        *)
ExtendPending(j) ==
    /\ j \in Clustering
    /\ row[j].status = "PENDING" /\ row[j].version < MaxVersion
    /\ row' = [row EXCEPT ![j].version = @ + 1]
    /\ UNCHANGED <<run, issued, event, accepted>>

(* purge_live_ai deletes private rows and what they produced. *)
Purge(j) ==
    /\ j \in Job \ Shared
    /\ row[j].status \in Status
    /\ row' = [row EXCEPT ![j] = EmptyRow("PURGED")]
    /\ accepted' = {r \in accepted : r.job # j}
    /\ UNCHANGED <<run, issued, event>>

-----------------------------------------------------------------------------
(* Time and watchdogs *)

LeaseExpires(j) ==
    /\ row[j].status = "RUNNING" /\ row[j].lease = "live"
    /\ row' = [row EXCEPT ![j].lease = "expired"]
    /\ UNCHANGED <<run, issued, event, accepted>>

(* started_at falls behind now - general_timeout. *)
RunsOverdue(j) ==
    /\ row[j].status = "RUNNING" /\ ~row[j].overdue
    /\ row' = [row EXCEPT ![j].overdue = TRUE]
    /\ UNCHANGED <<run, issued, event, accepted>>

LostShared(j) ==
    /\ j \in Shared /\ row[j].status = "RUNNING"
    /\ row[j].lease = "expired" \/ (j \notin Hq /\ row[j].overdue)

(* Bug: the visibility test is inverted. *)
LostWrongVisibility(j) ==
    /\ j \in Shared /\ row[j].status = "RUNNING"
    /\ row[j].lease = "expired"

LostRequesterOnly(j) ==
    /\ j \in Job \ Shared /\ row[j].status = "RUNNING"
    /\ row[j].lease = "expired"

(* A watchdog fails the rows of S in one transaction. *)
FailAll(S) ==
    row' = [j \in Job |-> IF j \in S THEN Ended(row[j], "FAILED", TRUE) ELSE row[j]]

(* SKIP LOCKED: rows another transaction holds are left for the next poll. *)
FailExpiredShared ==
    /\ "fail_expired_shared" \in Wired
    /\ \E S \in SUBSET {j \in Job : LostShared(j)} :
          S # {} /\ FailAll(S) /\ Emit(S)
    /\ UNCHANGED <<run, issued, accepted>>

FailExpiredRequesterOnly ==
    /\ \E S \in SUBSET {j \in Job : LostRequesterOnly(j)} :
          S # {} /\ FailAll(S)
    /\ UNCHANGED <<run, issued, event, accepted>>

(* _force_timeout: rows the Session still needs and never got are inserted *)
(* FAILED, and every blocking row that is not terminal fails with them.    *)
ForceTimeout ==
    /\ \E M \in SUBSET {j \in Blocking : row[j].status = "ABSENT"} :
          LET S == {j \in Blocking : row[j].status \in Active}
          IN  /\ S \cup M # {}
              /\ row' = [j \in Job |->
                            CASE j \in M -> NewRow("FAILED", TRUE)
                              [] j \in S -> Ended(row[j], "FAILED", TRUE)
                              [] OTHER   -> row[j]]
              /\ Emit(S \cup M)
    /\ UNCHANGED <<run, issued, accepted>>

-----------------------------------------------------------------------------

JobNext(j) ==
    \/ \E retryable \in BOOLEAN : Enqueue(j, retryable)
    \/ \E status \in {"CANCELLED", "SUPERSEDED"} : FinishById(j, status)
    \/ RetryFailed(j)
    \/ RequeueCoordinator(j)
    \/ DetachFailed(j)
    \/ ExtendPending(j)
    \/ Purge(j)
    \/ LeaseExpires(j)
    \/ RunsOverdue(j)

WorkerNext(w) ==
    \/ \E j \in Job : Claim(w, j)
    \/ Heartbeat(w)
    \/ Succeed(w)
    \/ \E retryable \in BOOLEAN : Fail(w, retryable)
    \/ DiscardLate(w)
    \/ Crash(w)

Watchdog == FailExpiredShared \/ FailExpiredRequesterOnly \/ ForceTimeout

Next ==
    \/ \E j \in Job : JobNext(j)
    \/ \E w \in Worker : WorkerNext(w)
    \/ Watchdog

Spec == Init /\ [][Next]_vars

(* Time passes, and PersonalAIWorker.run_once sweeps its expired rows on   *)
(* every poll.  Nothing else is owed: a worker may die instead of          *)
(* finishing, and no process calls the shared watchdog.                    *)
Fairness ==
    /\ \A j \in Job : WF_vars(LeaseExpires(j))
    /\ WF_vars(FailExpiredRequesterOnly)

FairSpec == Spec /\ Fairness

-----------------------------------------------------------------------------
(* Properties *)

(* repositories/jobs.py: "State transitions guarded by the current attempt  *)
(* and run token".  A row is SUCCEEDED exactly when the result of its      *)
(* current attempt was committed, whatever was retried, cancelled, timed   *)
(* out or answered late in between, and no attempt has two results.        *)
ResultIffSucceeded ==
    /\ \A j \in Job :
          row[j].status = "SUCCEEDED" <=>
             \E r \in accepted : r.job = j /\ r.attempt = row[j].attempt
    /\ \A r, s \in accepted :
          r.job = s.job /\ r.attempt = s.attempt => r = s

(* Two workers never hold the same attempt of a job: what an attempt wrote *)
(* under its number (transcript_versions is unique on job and attempt) has *)
(* one author.                                                             *)
OneRunPerAttempt ==
    \A v, w \in Worker :
        Holds(v) /\ Holds(w) /\ run[v].job = run[w].job
                 /\ run[v].attempt = run[w].attempt => v = w

(* The last job.updated of a SHARED row shows the status the row has, and  *)
(* never a version the row has not reached: a client that refetches on the *)
(* event and one that trusts its payload agree on whether the job runs.    *)
EventShowsRow ==
    \A j \in Shared :
        /\ row[j].status = "ABSENT" <=> event[j].status = "none"
        /\ row[j].status # "ABSENT" => event[j].status = row[j].status
        /\ event[j].version <= row[j].version

(* Successive job.updated events of a row carry growing versions, across   *)
(* attempts too, so a client can drop an event older than the one it has.  *)
EventsGrow ==
    \A j \in Shared : event'[j] # event[j] => event'[j].version > event[j].version

EventVersionsGrow == [][EventsGrow]_vars

(* fail_expired_requester_only: a private job whose lease ran out does not *)
(* stay RUNNING, even if the worker that claimed it is gone.               *)
RequesterRunsEnd ==
    \A j \in Job \ Shared : row[j].status = "RUNNING" ~> row[j].status # "RUNNING"

(* README.md and the API document: a RUNNING job whose lease is not renewed *)
(* is turned FAILED by a watchdog.                                         *)
LostRunsEnd ==
    \A j \in Job : row[j].status = "RUNNING" /\ row[j].lease = "expired"
                      ~> ~(row[j].status = "RUNNING" /\ row[j].lease = "expired")

(* What makes the above inductive.  No result is ahead of its row; and a   *)
(* run that is not behind its row is the one its row was claimed by.       *)
ResultsNotAhead ==
    \A r \in accepted : row[r.job].status \in Status /\ r.attempt <= row[r.job].attempt

RunsNotAhead ==
    \A w \in Worker : Holds(w) =>
        \/ row[run[w].job].status = "PURGED"
        \/ run[w].attempt < row[run[w].job].attempt
        \/ /\ run[w].attempt = row[run[w].job].attempt
           /\ row[run[w].job].status \notin {"ABSENT", "PENDING"}

AbsentRows ==
    \A j \in Job : row[j].status \in NoRow => row[j].attempt = 0 /\ row[j].version = 0

LedgerInv ==
    /\ TypeOK
    /\ ResultsNotAhead
    /\ RunsNotAhead
    /\ AbsentRows
    /\ ResultIffSucceeded
    /\ OneRunPerAttempt
    /\ EventShowsRow

-----------------------------------------------------------------------------
(* The ledger implements AttemptOutcome. *)

PhaseOf(status) ==
    CASE status = "ABSENT"   -> "none"
      [] status = "PURGED"   -> "gone"
      [] status \in Active   -> "open"
      [] status \in Terminal -> "settled"

attemptOf == [j \in Job |-> row[j].attempt]
phaseOf == [j \in Job |-> PhaseOf(row[j].status)]
resultOf == {<<r.job, r.attempt>> : r \in accepted}

Outcome == INSTANCE AttemptOutcome WITH
    Rebuildable <- Coordinator,
    attempt     <- attemptOf,
    phase       <- phaseOf,
    result      <- resultOf

(* Each step of the ledger opens, settles or withdraws attempts as the     *)
(* abstract specification allows, or changes nothing it can see.           *)
ImplementsAttemptOutcome == Outcome!Spec

=============================================================================
