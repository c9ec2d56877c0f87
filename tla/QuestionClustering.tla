-------------------------- MODULE QuestionClustering --------------------------
(***************************************************************************)
(* Clustering of the questions of one Session.  A question raises the      *)
(* requested watermark and feeds an AIJob row; the clustering worker       *)
(* applies rows one at a time, each on the revision it was made for.  A    *)
(* failed LIVE_INCREMENTAL row is reserved for retry; the end of class     *)
(* replaces whatever is pending by one FINAL row over a frozen input.      *)
(*                                                                         *)
(* The worker is one process (deploy/systemd): run_once starts, looks for  *)
(* a row without a lock, claims it under the locks, computes, reports.     *)
(* API calls and the watchdog run between these steps.  A cluster is its   *)
(* members: generations are bags of questions.                             *)
(***************************************************************************)
EXTENDS Naturals, Sequences, FiniteSets

CONSTANTS
    MaxQuestion,   \* bound: questions asked
    MaxAttempt     \* bound: attempts of a row

ASSUME BoundsArePositive == MaxQuestion \in Nat \ {0} /\ MaxAttempt \in Nat \ {0}

VARIABLES
    session,     \* LectureSession.status
    asked,       \* clustering_sequence of the latest question
    requested,   \* requested_sequence
    applied,     \* applied_sequence
    revision,    \* current_revision
    current,     \* current_generation, 0 for NULL
    final,       \* final_generation, 0 for NULL
    retry,       \* retry_job_id as an index of rows, 0 for NULL
    lastJob,     \* last_job_id, last_job_attempt, last_job_status
    rows,        \* QUESTION_CLUSTERING rows in order of creation
    live,        \* how often a question is a member of the LIVE generation
    closing,     \* how often it is a member of the FINAL generation
    worker       \* where run_once is, and what it has read

state == <<requested, applied, revision, current, final, retry, lastJob>>
members == <<live, closing>>
vars == <<session, asked, state, rows, members, worker>>

-----------------------------------------------------------------------------
(* Types *)

Question == 1 .. MaxQuestion
Active == {"PENDING", "RUNNING"}
Mode == {"LIVE_INCREMENTAL", "FINAL"}
Row == [mode : Mode, status : Active \cup {"SUCCEEDED", "FAILED", "SUPERSEDED"},
        attempt : Nat, through : Nat, base : Nat,
        due : BOOLEAN]      \* available_at <= the clock run_once has read
Worker == [at : {"idle", "looking", "claiming", "running"},
           row : Nat, attempt : Nat, through : Nat, inputs : SUBSET Question]

NoJob == [row |-> 0, attempt |-> 0, status |-> "NULL"]
Idle == [at |-> "idle", row |-> 0, attempt |-> 0, through |-> 0, inputs |-> {}]

(* The check constraints of question_clustering_states are part of it. *)
TypeOK ==
    /\ session \in {"LIVE", "PROCESSING", "COMPLETED"}
    /\ asked \in 0 .. MaxQuestion /\ requested \in Nat /\ applied \in 0 .. requested
    /\ revision \in Nat /\ current \in Nat /\ final \in {0, current}
    /\ rows \in Seq(Row)
    /\ retry \in 0 .. Len(rows)
    /\ lastJob.row \in 0 .. Len(rows)
    /\ live \in [Question -> Nat] /\ closing \in [Question -> Nat]
    /\ worker \in Worker

Init ==
    /\ session = "LIVE" /\ asked = 0
    /\ requested = 0 /\ applied = 0 /\ revision = 0 /\ current = 0 /\ final = 0
    /\ retry = 0 /\ lastJob = NoJob
    /\ rows = <<>>
    /\ live = [q \in Question |-> 0] /\ closing = [q \in Question |-> 0]
    /\ worker = Idle

-----------------------------------------------------------------------------
(* Rows *)

ActiveRows == {i \in DOMAIN rows : rows[i].status \in Active}

NewRow(mode, through, base, due) ==
    [mode |-> mode, status |-> "PENDING", attempt |-> 1,
     through |-> through, base |-> base, due |-> due]

(* JobKernel.retry_failed; available_at is the caller's clock. *)
NextAttempt(row, due) ==
    [row EXCEPT !.status = "PENDING", !.attempt = row.attempt + 1, !.due = due]

Set(i, status) == [rows EXCEPT ![i].status = status]
Superseded(i) == IF i \in ActiveRows THEN Set(i, "SUPERSEDED") ELSE rows

Last(i, attempt, status) == [row |-> i, attempt |-> attempt, status |-> status]

(* _session_allows_mode *)
Allows(mode) == (mode = "LIVE_INCREMENTAL") <=> (session = "LIVE")

Counted(bag, qs) == [q \in Question |-> IF q \in qs THEN bag[q] + 1 ELSE bag[q]]

-----------------------------------------------------------------------------
(* Questions *)

(* A request that waited for its locks longer than the debounce leaves a   *)
(* row that is due at once.                                                *)
Ask ==
    /\ session = "LIVE" /\ asked < MaxQuestion
    /\ requested' = requested + 1 /\ asked' = requested'
    /\ UNCHANGED <<session, applied, revision, current, final, retry, members, worker>>

(* A PENDING row takes the question too, even one requeued for retry. *)
AskExtends ==
    /\ Ask
    /\ \E i \in ActiveRows, late \in BOOLEAN :
        /\ rows[i].status = "PENDING"
        /\ rows' = [rows EXCEPT ![i].through = requested', ![i].due = late]
    /\ UNCHANGED lastJob

(* Bug: a reserved retry does not count. *)
NoneActive == ActiveRows = {}

(* No row answers for the questions that are not applied. *)
Unowned == ActiveRows = {} /\ retry = 0

(* The question waits for the RUNNING or the reserved row to succeed. *)
AskWaits ==
    /\ Ask
    /\ ~Unowned /\ \A i \in ActiveRows : rows[i].status = "RUNNING"
    /\ UNCHANGED <<rows, lastJob>>

AskEnqueues ==
    /\ Ask
    /\ Unowned
    /\ \E late \in BOOLEAN :
        rows' = Append(rows, NewRow("LIVE_INCREMENTAL", requested', revision, late))
    /\ lastJob' = Last(Len(rows'), 1, "PENDING")

(* After class the sequence goes on without the watermark. *)
AskAfterClass ==
    /\ session # "LIVE" /\ asked < MaxQuestion
    /\ asked' = asked + 1
    /\ UNCHANGED <<session, state, rows, members, worker>>

-----------------------------------------------------------------------------
(* The Session *)

(* All active rows end, RUNNING ones under their workers' feet. *)
EndActive(status) ==
    [i \in DOMAIN rows |->
        IF i \in ActiveRows THEN [rows[i] EXCEPT !.status = status] ELSE rows[i]]

(* SessionService.end.  A reserved retry's row is FAILED, so superseding   *)
(* it changes nothing but the reservation.                                 *)
End ==
    /\ session = "LIVE"
    /\ session' = "PROCESSING"
    /\ retry' = 0
    /\ LET fenced == EndActive("SUPERSEDED")
       IN IF requested > 0
          THEN /\ rows' = Append(fenced, NewRow("FINAL", requested, revision, FALSE))
               /\ lastJob' = Last(Len(rows'), 1, "PENDING")
          ELSE rows' = fenced /\ UNCHANGED lastJob
    /\ UNCHANGED <<asked, requested, applied, revision, current, final, members, worker>>

(* The other blocking work of the Session ends: SessionPostprocessing. *)
Complete ==
    /\ session = "PROCESSING" /\ ActiveRows = {}
    /\ session' = "COMPLETED"
    /\ UNCHANGED <<asked, state, rows, members, worker>>

(* evaluate_session_completion after the FINAL row ended: the Session may  *)
(* have other blocking work.                                               *)
MayComplete ==
    session' \in IF session = "PROCESSING" THEN {"PROCESSING", "COMPLETED"} ELSE {session}

(* _force_timeout of the watchdog; state.last_job_* is left alone. *)
Timeout ==
    /\ session = "PROCESSING"
    /\ session' = "COMPLETED"
    /\ rows' = EndActive("FAILED")
    /\ UNCHANGED <<asked, state, members, worker>>

(* JobService.retry, after class only; state.last_job_* is left alone. *)
RetryFinal ==
    /\ session = "COMPLETED"
    /\ \E i \in DOMAIN rows :
        /\ rows[i].mode = "FINAL" /\ rows[i].status = "FAILED"
        /\ rows[i].attempt < MaxAttempt
        /\ rows' = [rows EXCEPT ![i] = NextAttempt(rows[i], FALSE)]
    /\ UNCHANGED <<session, asked, state, members, worker>>

-----------------------------------------------------------------------------
(* The worker *)

(* run_once reads the clock once, when it starts. *)
Tick ==
    /\ worker.at \in {"idle", "running"}
    /\ \E i \in ActiveRows : ~rows[i].due /\ rows' = [rows EXCEPT ![i].due = TRUE]
    /\ UNCHANGED <<session, asked, state, members, worker>>

(* The guards under which _requeue_one_retry takes the reserved row. *)
Requeueable(i) ==
    /\ rows[i].status = "FAILED" /\ rows[i].mode = "LIVE_INCREMENTAL"
    /\ rows[i].base = revision /\ rows[i].through > applied

(* _requeue_one_retry: the reservation it read and then found gone is one  *)
(* it never saw.                                                           *)
Requeue ==
    /\ worker.at = "idle"
    /\ worker' = [worker EXCEPT !.at = "looking"]
    /\ IF retry # 0 /\ session # "LIVE"
       THEN /\ rows' = Superseded(retry)
            /\ retry' = 0
            /\ lastJob' = [lastJob EXCEPT !.status = "SUPERSEDED"]
       ELSE IF retry # 0 /\ Requeueable(retry)
       THEN /\ rows' = [rows EXCEPT ![retry] = NextAttempt(rows[retry], TRUE)]
            /\ retry' = 0
            /\ lastJob' = Last(retry, rows[retry].attempt + 1, "PENDING")
       ELSE UNCHANGED <<rows, retry, lastJob>>
    /\ UNCHANGED <<session, asked, requested, applied, revision, current, final, members>>

(* Bug: a retried row is taken for one that ran. *)
ReadyOnce == {i \in DOMAIN rows : /\ rows[i].status = "PENDING" /\ rows[i].due
                                  /\ rows[i].attempt = 1}

Ready == {i \in DOMAIN rows : rows[i].status = "PENDING" /\ rows[i].due}

(* _claim, the candidate: read without a lock, and never read again. *)
Look ==
    /\ worker.at = "looking"
    /\ \/ \E i \in Ready :
            worker' = [Idle EXCEPT !.at = "claiming", !.row = i,
                            !.attempt = rows[i].attempt, !.through = rows[i].through]
       \/ Ready = {} /\ worker' = Idle
    /\ UNCHANGED <<session, asked, state, rows, members>>

(* Bug: the FINAL run reads every question there is. *)
InputsNow(mode, through) ==
    {q \in 1 .. asked : mode = "FINAL" \/ q \in applied + 1 .. through}

(* The questions of a run, from the watermark read under the lock. *)
Inputs(mode, through) ==
    {q \in 1 .. asked : q <= through /\ (mode = "FINAL" \/ q > applied)}

(* _claim under the locks: the row as it is decides, the watermark and the *)
(* attempt are those of the candidate.                                     *)
Claim ==
    /\ worker.at = "claiming"
    /\ LET i == worker.row
       IN IF ~Allows(rows[i].mode)
          THEN rows' = Superseded(i) /\ worker' = Idle /\ UNCHANGED lastJob
          ELSE IF i \in Ready
          THEN /\ rows' = Set(i, "RUNNING")
               /\ lastJob' = Last(i, worker.attempt, "RUNNING")
               /\ worker' = [worker EXCEPT !.at = "running",
                                 !.inputs = Inputs(rows[i].mode, worker.through)]
          ELSE worker' = Idle /\ UNCHANGED <<rows, lastJob>>
    /\ UNCHANGED <<session, asked, requested, applied, revision, current, final, retry, members>>

(* The fence every report passes first. *)
IsCurrent(w) == rows[w.row].status = "RUNNING" /\ rows[w.row].attempt = w.attempt

(* A current run whose Session or revision has moved on. *)
Obsolete(w) == ~Allows(rows[w.row].mode) \/ rows[w.row].base # revision

LateReport ==
    /\ worker.at = "running" /\ ~IsCurrent(worker)
    /\ worker' = Idle
    /\ UNCHANGED <<session, asked, state, rows, members>>

Discard ==
    /\ rows' = Superseded(worker.row)
    /\ retry' = 0
    /\ lastJob' = Last(worker.row, worker.attempt, "SUPERSEDED")
    /\ UNCHANGED <<session, requested, applied, revision, current, final, members>>

(* Bug: the watermark of the row, which a question may have raised since. *)
RowWatermark == rows[worker.row].through

(* What a LIVE run has applied when it succeeds. *)
Watermark == worker.through

(* Bug: the next question will bring a row. *)
EnqueueNothing(done) ==
    rows' = done /\ lastJob' = Last(worker.row, worker.attempt, "SUCCEEDED")

(* _enqueue_next_job: what was asked meanwhile gets a fresh row. *)
EnqueueNext(done) ==
    IF requested > applied'
    THEN /\ rows' = Append(done, NewRow("LIVE_INCREMENTAL", requested, revision', FALSE))
         /\ lastJob' = Last(Len(rows'), 1, "PENDING")
    ELSE rows' = done /\ lastJob' = Last(worker.row, worker.attempt, "SUCCEEDED")

(* The clusters of the previous generation are copied, the run's added. *)
ApplyLive ==
    /\ live' = Counted(live, worker.inputs)
    /\ applied' = Watermark
    /\ revision' = revision + 1 /\ current' = current + 1
    /\ retry' = 0
    /\ EnqueueNext(Set(worker.row, "SUCCEEDED"))
    /\ UNCHANGED <<session, requested, final, closing>>

(* _succeed_final: a generation of its own; applied_sequence is left alone. *)
ApplyFinal ==
    /\ closing' = Counted(closing, worker.inputs)
    /\ revision' = revision + 1
    /\ current' = (IF current > final THEN current ELSE final) + 1 /\ final' = current'
    /\ rows' = Set(worker.row, "SUCCEEDED")
    /\ lastJob' = Last(worker.row, worker.attempt, "SUCCEEDED")
    /\ MayComplete
    /\ UNCHANGED <<requested, applied, retry, live>>

Succeed ==
    /\ worker.at = "running" /\ IsCurrent(worker)
    /\ worker' = Idle
    /\ IF Obsolete(worker) THEN Discard
       ELSE IF rows[worker.row].mode = "FINAL" THEN ApplyFinal ELSE ApplyLive
    /\ UNCHANGED asked

(* _fail: a LIVE row is reserved for retry, a FINAL one ends the wait. *)
Reserve ==
    /\ rows' = Set(worker.row, "FAILED")
    /\ lastJob' = Last(worker.row, worker.attempt, "FAILED")
    /\ IF rows[worker.row].mode = "FINAL" THEN MayComplete /\ UNCHANGED retry
       ELSE retry' = worker.row /\ UNCHANGED session
    /\ UNCHANGED <<requested, applied, revision, current, final, members>>

Fail ==
    /\ worker.at = "running" /\ IsCurrent(worker)
    /\ worker.attempt < MaxAttempt
    /\ worker' = Idle
    /\ IF Obsolete(worker) THEN Discard ELSE Reserve
    /\ UNCHANGED asked

(* The process dies with its run, and systemd starts another.  A deadlock  *)
(* with a question ends it too: _fail takes the locks in another order.    *)
Crash ==
    /\ worker.at = "running"
    /\ worker' = Idle
    /\ UNCHANGED <<session, asked, state, rows, members>>

-----------------------------------------------------------------------------

RunOnce == Requeue \/ Look \/ Claim \/ Succeed \/ Fail \/ LateReport

Next ==
    \/ AskExtends \/ AskWaits \/ AskEnqueues \/ AskAfterClass
    \/ End \/ Complete \/ Timeout \/ RetryFinal
    \/ Tick \/ RunOnce \/ Crash

Spec == Init /\ [][Next]_vars

(* The worker's loop goes on, and its clock with it: a row that waits is   *)
(* due in some later poll.                                                 *)
FairSpec == Spec /\ WF_vars(RunOnce) /\ SF_vars(Tick)

-----------------------------------------------------------------------------
(* Properties *)

(* No question is forgotten during class: while the requested watermark is *)
(* ahead of the applied one, an active row built on the current revision,  *)
(* or a reserved row the worker's requeue accepts, covers a question that  *)
(* is not applied yet.                                                     *)
NothingForgotten ==
    session = "LIVE" /\ requested > applied =>
        \/ \E i \in ActiveRows : rows[i].base = revision /\ rows[i].through > applied
        \/ retry # 0 /\ Requeueable(retry)

(* active_job_id and retry_job_id are never both set, and no two rows are  *)
(* active at a time: each question belongs to one row at most.             *)
OneOwner ==
    /\ \A i, j \in ActiveRows : i = j
    /\ retry # 0 => ActiveRows = {}

(* The LIVE generation holds each applied question exactly once and no     *)
(* other, whatever was retried, superseded, or claimed on a watermark that *)
(* had moved meanwhile.                                                    *)
ClusteredOnce ==
    \A q \in Question : live[q] = IF q <= applied THEN 1 ELSE 0

(* The FINAL generation is the class: once published it holds every        *)
(* question asked during class exactly once, and none asked after it.      *)
FinalIsTheClass ==
    \A q \in Question : closing[q] = IF final # 0 /\ q <= requested THEN 1 ELSE 0

(* The revision and the Session are checked again when a run reports       *)
(* (_succeed, _fail); for a run that is still current they never changed.  *)
CurrentRunIsUsable ==
    worker.at = "running" /\ IsCurrent(worker) => ~Obsolete(worker)

(* A row nobody runs: its worker died. *)
Orphaned == \E i \in DOMAIN rows : rows[i].status = "RUNNING" /\ worker.row # i

(* A question asked during class is clustered, unless the class ends first *)
(* or the worker died with a run: debounce, coalescing and retries delay   *)
(* it only, given that a row fails fewer than MaxAttempt times.            *)
EveryQuestionIsClustered ==
    \A q \in Question :
        session = "LIVE" /\ requested >= q ~>
            applied >= q \/ session # "LIVE" \/ Orphaned

(* What the invariants above rest on. *)
Watermarks ==
    /\ requested <= asked
    /\ session = "LIVE" => asked = requested /\ final = 0

(* The rows that may still run, or run again, fit the state. *)
ActiveLiveRows ==
    \A i \in ActiveRows : rows[i].mode = "LIVE_INCREMENTAL" =>
        /\ session = "LIVE" /\ rows[i].base = revision
        /\ applied < rows[i].through /\ rows[i].through <= requested

FinalRow ==
    \A i \in DOMAIN rows : rows[i].mode = "FINAL" =>
        /\ session # "LIVE" /\ i = Len(rows) /\ rows[i].through = requested
        /\ rows[i].status # "SUCCEEDED" => final = 0 /\ rows[i].base = revision

Reservation ==
    retry # 0 =>
        session = "LIVE" /\ Requeueable(retry) /\ rows[retry].through <= requested

Owned == session = "LIVE" /\ Unowned => requested = applied

(* What the worker has read is still good for the row it is about.  A LIVE *)
(* row that is not due may be once more, by a question that came late.     *)
Claimable(i) == rows[i].status = "PENDING" /\ (rows[i].mode = "FINAL" => rows[i].due)

CandidateHolds ==
    worker.at = "claiming" =>
        /\ worker.row \in DOMAIN rows
        /\ Claimable(worker.row) =>
              LET row == rows[worker.row]
              IN /\ worker.attempt = row.attempt /\ worker.through <= row.through
                 /\ IF row.mode = "FINAL" THEN worker.through = row.through
                    ELSE worker.through > applied

RunHolds ==
    worker.at = "running" =>
        /\ worker.row \in DOMAIN rows
        /\ IsCurrent(worker) =>
              LET row == rows[worker.row]
              IN /\ IF row.mode = "FINAL" THEN worker.through = row.through
                    ELSE applied < worker.through /\ worker.through <= row.through
                 /\ \A q \in Question :
                       q \in worker.inputs <=>
                           q <= worker.through /\ (row.mode = "FINAL" \/ q > applied)

ClusteringInv ==
    /\ TypeOK /\ Watermarks /\ ActiveLiveRows /\ FinalRow /\ Reservation /\ Owned
    /\ OneOwner /\ CandidateHolds /\ RunHolds
    /\ ClusteredOnce /\ FinalIsTheClass

(* DB schema, 14.6: a FINAL result sets applied_sequence to its watermark, *)
(* so that no published FINAL generation leaves the state pending.         *)
FinalClearsPending == final # 0 => applied = requested

(* DB schema, 14.6: every transition of a row updates state.last_job_*.    *)
LastJobShown ==
    lastJob.row # 0 =>
        /\ lastJob.status = rows[lastJob.row].status
        /\ lastJob.attempt = rows[lastJob.row].attempt

-----------------------------------------------------------------------------
(* Every row is a job of the ledger: it implements AttemptOutcome, in which  *)
(* nothing of it may be rebuilt.                                             *)

AttemptOf(i) == IF i \in DOMAIN rows THEN rows[i].attempt ELSE 0
PhaseOf(i) ==
    IF i \notin DOMAIN rows THEN "none"
    ELSE IF rows[i].status \in Active THEN "open" ELSE "settled"
ResultOf(i) ==
    IF i \in DOMAIN rows /\ rows[i].status = "SUCCEEDED" THEN {<<i, rows[i].attempt>>} ELSE {}

Outcome(i) == INSTANCE AttemptOutcome WITH
    Job         <- {i},
    Rebuildable <- {},
    attempt     <- [k \in {i} |-> AttemptOf(k)],
    phase       <- [k \in {i} |-> PhaseOf(k)],
    result      <- ResultOf(i)

(* Whatever a question, the end of class, the watchdog, a retry or a late   *)
(* report does to a row, an attempt of it ends once, and one that succeeded *)
(* is its last (JobKernel, services/jobs.py).                               *)
RowKeepsContract(i) == Outcome(i)!Spec

=============================================================================
