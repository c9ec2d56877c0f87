--------------------- MODULE SessionPostprocessing_proofs ---------------------
(***************************************************************************)
(* PostInv is an inductive invariant of SessionPostprocessing, for every   *)
(* bound and every choice of inputs: types, the agreement of the HQ job    *)
(* with its transcript version, and the inputs of jobs staying finalized.  *)
(***************************************************************************)
EXTENDS SessionPostprocessing, TLAPS

(* The blocking jobs of a Session are told apart by type and source. *)
LEMMA Kinds ==
    /\ Coordinator \in Job /\ Transcription \in Job /\ Clustering \in Job
    /\ Organization \in Job /\ Summaries \subseteq Job /\ Children \subseteq Job
    /\ Transcription \notin Children /\ Coordinator \notin Children
    /\ Transcription \notin Summaries \cup {Organization, Coordinator, Clustering}
    /\ Coordinator \notin Summaries \cup {Organization}
    /\ Clustering \notin Summaries \cup {Organization}
    /\ Organization \notin Summaries
BY DEF Job, Children, Summaries, Summary, Coordinator, Transcription, Clustering, Organization

LEMMA SummaryNames ==
    /\ \A s \in Source : Summary(s) \in Summaries
    /\ \A j \in Summaries : j[2] \in Source /\ Summary(j[2]) = j
    /\ \A s : Summary(s)[2] = s
BY DEF Summaries, Summary

LEMMA Sources == LIVE \in Source /\ \A n \in Nat : n <= MaxAttempt => n \in Source
BY BoundsAreKnown DEF LIVE, Source

(* Row operators. *)
LEMMA NewRowType ==
    ASSUME NEW st \in Status, NEW b \in BOOLEAN, NEW s \in Source
    PROVE  /\ NewRow(st, b, s) \in Row
           /\ NewRow(st, b, s).status = st /\ NewRow(st, b, s).attempt = 1
           /\ NewRow(st, b, s).source = s
BY DEF NewRow, Row

LEMMA EndedType ==
    ASSUME NEW x \in Row, NEW st \in Status, NEW b \in BOOLEAN
    PROVE  /\ Ended(x, st, b) \in Row
           /\ Ended(x, st, b).status = st /\ Ended(x, st, b).attempt = x.attempt
           /\ Ended(x, st, b).source = x.source
BY DEF Ended, Row

LEMMA NextAttemptType ==
    ASSUME NEW x \in Row
    PROVE  /\ NextAttempt(x) \in Row
           /\ NextAttempt(x).status = "PENDING" /\ NextAttempt(x).attempt = x.attempt + 1
           /\ NextAttempt(x).source = x.source
<1>1. x.attempt + 1 \in Nat /\ x.source \in Source
  BY DEF Row
<1> QED BY <1>1 DEF NextAttempt, Row, Status, Active

LEMMA StartedType ==
    ASSUME NEW x \in Row
    PROVE  /\ [x EXCEPT !.status = "RUNNING"] \in Row
           /\ [x EXCEPT !.status = "RUNNING"].status = "RUNNING"
           /\ [x EXCEPT !.status = "RUNNING"].attempt = x.attempt
           /\ [x EXCEPT !.status = "RUNNING"].source = x.source
BY DEF Row, Status, Active

-----------------------------------------------------------------------------
(* Steps that move rows of job and leave recording and transcripts alone.  *)

(* The HQ row keeps its attempt; it may start, or be cancelled. *)
HqRowMoves ==
    /\ job'[Transcription].attempt = job[Transcription].attempt
    /\ \/ job'[Transcription].status = job[Transcription].status
       \/ job[Transcription].status = "PENDING" /\ job'[Transcription].status = "RUNNING"
       \/ /\ job[Transcription].status # "ABSENT"
          /\ job'[Transcription].status = "CANCELLED"

GoodRows(rows) ==
    /\ rows \in [Job -> Row]
    /\ \A j \in Job : rows[j].status = "ABSENT" => rows[j].attempt = 0
    /\ \A j \in Summaries \cup {Organization} :
          rows[j].status # "ABSENT" => Usable(rows[j].source) /\ rows[j].source <= Len(hq)

RowsKept == GoodRows(job') /\ HqRowMoves

LEMMA RowsAreGood == ASSUME PostInv, session # "LIVE" PROVE GoodRows(job)
BY DEF PostInv, TypeOK, AbsentRows, SourcesKept, SourcesExist, GoodRows

LEMMA RowsMove ==
    ASSUME PostInv, session # "LIVE", session' \in {session, "COMPLETED"},
           UNCHANGED <<overdue, recording, class, live, hq, canonical>>,
           RowsKept,
           run' \subseteq Run, RunsHaveVersion',
           rebuilt' \subseteq 1 .. Len(hq)
    PROVE  PostInv'
<1> USE DEF class
<1>1. TypeOK'
  BY DEF PostInv, TypeOK, RowsKept, GoodRows
<1>2. ClassRunning' /\ ClassEnded' /\ VersionsOfUpload' /\ CanonicalReadable' /\ AnswerHeard'
  BY DEF PostInv, TypeOK, ClassRunning, ClassEnded, VersionsOfUpload, CanonicalReadable, AnswerHeard
<1>3. AbsentRows'
  BY DEF RowsKept, GoodRows, AbsentRows
<1>4. VersionFollowsJob'
  BY Kinds DEF PostInv, VersionFollowsJob, RowsKept, HqRowMoves, IsActive, Active
<1>5. SourcesKept'
  BY DEF PostInv, SourcesKept, RowsKept, GoodRows, Usable, VersionOf
<1>6. SourcesExist'
  BY DEF SourcesExist, RowsKept, GoodRows
<1> QED BY <1>1, <1>2, <1>3, <1>4, <1>5, <1>6 DEF PostInv

(* One row that exists is replaced by one with the same source. *)
LEMMA OneRowMoves ==
    ASSUME NEW rows, GoodRows(rows),
           NEW k \in Job, NEW x \in Row,
           rows[k].status # "ABSENT", x.status # "ABSENT", x.source = rows[k].source
    PROVE  GoodRows([rows EXCEPT ![k] = x])
<1>1. rows \in [Job -> Row]
  BY DEF GoodRows
<1>2. [rows EXCEPT ![k] = x] \in [Job -> Row]
  BY <1>1
<1>3. \A j \in Job : [rows EXCEPT ![k] = x][j].status = "ABSENT"
                        => [rows EXCEPT ![k] = x][j].attempt = 0
  BY <1>1 DEF GoodRows
<1>4. \A j \in Summaries \cup {Organization} :
          [rows EXCEPT ![k] = x][j].status # "ABSENT" =>
              /\ Usable([rows EXCEPT ![k] = x][j].source)
              /\ [rows EXCEPT ![k] = x][j].source <= Len(hq)
  BY <1>1, Kinds DEF GoodRows
<1> QED BY <1>2, <1>3, <1>4 DEF GoodRows

(* A step that touches the HQ versions keeps those that can be read. *)
LEMMA HqMoves ==
    ASSUME PostInv, session # "LIVE", session' \in {session, "COMPLETED"},
           UNCHANGED <<overdue, class, live, rebuilt>>,
           recording' \in {"none", "UPLOAD_PENDING", "UPLOADING", "UPLOADED", "FAILED"},
           hq' \in Seq(VersionStatus), Len(hq) <= Len(hq'), VersionsOfUpload',
           \A s \in 1 .. Len(hq) : hq[s] \in {"FINALIZED", "EMPTY"} => hq'[s] = hq[s],
           canonical' = canonical \/ canonical' \in 1 .. Len(hq'), CanonicalReadable',
           GoodRows(job'), run' \subseteq run, VersionFollowsJob'
    PROVE  PostInv'
<1> USE DEF class
<1>1. Len(hq) \in Nat /\ Len(hq') \in Nat /\ canonical \in 0 .. Len(hq)
  BY DEF PostInv, TypeOK
<1>2. canonical' \in 0 .. Len(hq') /\ rebuilt' \subseteq 1 .. Len(hq')
  BY <1>1 DEF PostInv, TypeOK
<1>3. TypeOK'
  BY <1>2 DEF PostInv, TypeOK, GoodRows
<1>4. ClassRunning' /\ ClassEnded' /\ AnswerHeard'
  BY DEF PostInv, TypeOK, ClassRunning, ClassEnded, AnswerHeard
<1>5. RunsHaveVersion' /\ AbsentRows'
  BY <1>1 DEF PostInv, RunsHaveVersion, AbsentRows, GoodRows
<1>6. \A s \in 0 .. Len(hq) : Usable(s) => Usable(s)'
  <2> SUFFICES ASSUME NEW s \in 0 .. Len(hq), Usable(s) PROVE Usable(s)'
    OBVIOUS
  <2>1. CASE s = LIVE
    BY <2>1 DEF Usable, VersionOf
  <2>2. CASE s # LIVE
    <3>1. s \in 1 .. Len(hq) /\ hq[s] = "FINALIZED"
      BY <1>1, <2>2 DEF LIVE, Usable, VersionOf
    <3> QED BY <3>1, <2>2 DEF Usable, VersionOf
  <2> QED BY <2>1, <2>2
<1>7. \A j \in Summaries \cup {Organization} : job'[j].status # "ABSENT" =>
          job'[j].source \in 0 .. Len(hq) /\ Usable(job'[j].source)
  BY <1>1, Kinds, BoundsAreKnown DEF GoodRows, Row, Source
<1>8. VersionOf(canonical)' \in {"FINALIZED", "EMPTY"}
  <2>1. CASE canonical' = LIVE
    BY <2>1, <1>4 DEF ClassEnded, VersionOf, PostInv, TypeOK
  <2>2. CASE canonical' # LIVE
    BY <2>2 DEF CanonicalReadable, VersionOf
  <2> QED BY <2>1, <2>2
<1>9. SourcesKept'
  BY <1>6, <1>7, <1>8 DEF SourcesKept
<1>10. SourcesExist'
  BY <1>1, <1>7 DEF SourcesExist
<1> QED BY <1>3, <1>4, <1>5, <1>9, <1>10 DEF PostInv

-----------------------------------------------------------------------------
(* The class, its end, and the upload *)

LEMMA InitHolds == Init => PostInv
<1> SUFFICES ASSUME Init PROVE PostInv
  OBVIOUS
<1>1. \A j \in Job : job[j] = NoRow
  BY DEF Init
<1>2. NoRow \in Row /\ NoRow.status = "ABSENT" /\ NoRow.attempt = 0
  BY Sources DEF NoRow, Row, Status, Active
<1>3. TypeOK
  <2>1. hq \in Seq(VersionStatus) /\ Len(hq) = 0
    BY DEF Init
  <2>2. job \in [Job -> Row]
    BY <1>2 DEF Init
  <2>3. canonical \in 0 .. Len(hq) /\ rebuilt \subseteq 1 .. Len(hq) /\ run \subseteq Run
    BY <2>1 DEF Init, LIVE
  <2>4. live \in VersionStatus /\ (live \in {"EMPTY", "FAILED"} => ~heard)
    BY DEF Init, VersionStatus
  <2>5. session \in {"LIVE", "PROCESSING", "COMPLETED"} /\ overdue \in BOOLEAN
        /\ heard \in BOOLEAN /\ asked \in BOOLEAN
        /\ recording \in {"none", "CAPTURING", "UPLOAD_PENDING", "UPLOADING", "UPLOADED", "FAILED"}
        /\ answer \in {"none", "CAPTURING", "COMPLETED"}
    BY DEF Init
  <2> QED BY <2>1, <2>2, <2>3, <2>4, <2>5 DEF TypeOK
<1>4. ClassRunning /\ ClassEnded /\ VersionsOfUpload /\ RunsHaveVersion
  BY <1>1, <1>2, BoundsAreKnown
     DEF Init, ClassRunning, ClassEnded, VersionsOfUpload, RunsHaveVersion
<1>5. AbsentRows /\ CanonicalReadable /\ AnswerHeard
  BY <1>1, <1>2 DEF Init, AbsentRows, CanonicalReadable, AnswerHeard
<1>6. VersionFollowsJob /\ SourcesKept /\ SourcesExist
  BY <1>1, <1>2, Kinds DEF Init, VersionFollowsJob, SourcesKept, SourcesExist, IsActive, Active
<1> QED BY <1>3, <1>4, <1>5, <1>6 DEF PostInv

(* What happens in the class leaves rows and transcript versions alone. *)
LEMMA ClassStep ==
    ASSUME PostInv, session = "LIVE",
           UNCHANGED <<session, overdue, live, hq, canonical, job, run, rebuilt>>,
           recording' \in {"none", "CAPTURING"}, heard' \in BOOLEAN, asked' \in BOOLEAN,
           answer' \in {"none", "CAPTURING", "COMPLETED"}, AnswerHeard'
    PROVE  PostInv'
<1>1. TypeOK'
  BY DEF PostInv, TypeOK, ClassRunning
<1>2. ClassRunning' /\ ClassEnded' /\ VersionsOfUpload' /\ RunsHaveVersion'
  BY DEF PostInv, ClassRunning, ClassEnded, VersionsOfUpload, RunsHaveVersion
<1>3. AbsentRows' /\ CanonicalReadable'
  BY DEF PostInv, AbsentRows, CanonicalReadable
<1>4. VersionFollowsJob' /\ SourcesKept' /\ SourcesExist'
  BY Kinds DEF PostInv, VersionFollowsJob, SourcesKept, SourcesExist, IsActive, Active, ClassRunning
<1> QED BY <1>1, <1>2, <1>3, <1>4 DEF PostInv

LEMMA EndKeeps == ASSUME PostInv, End PROVE PostInv'
<1> USE DEF class
<1>1. /\ session = "LIVE" /\ session' = "PROCESSING" /\ live = "FINALIZING"
      /\ recording \in {"none", "CAPTURING"} /\ hq = <<>> /\ canonical = LIVE /\ run = {}
      /\ \A j \in Job : job[j].status = "ABSENT" /\ job[j].attempt = 0
  BY DEF PostInv, End, ClassRunning, AbsentRows
<1>2. job \in [Job -> Row] /\ NewRow("PENDING", TRUE, LIVE) \in Row
      /\ NewRow("PENDING", TRUE, LIVE).status = "PENDING"
  BY Sources, NewRowType DEF PostInv, TypeOK, Status, Active
<1>3. /\ job' \in [Job -> Row]
      /\ \A j \in Job : j \notin {Coordinator, Clustering} => job'[j] = job[j]
      /\ \A j \in Job : job'[j].status = "ABSENT" => job'[j].attempt = 0
  BY <1>1, <1>2, Kinds DEF End
<1>4. TypeOK'
  BY <1>1, <1>3 DEF PostInv, TypeOK, End, VersionStatus, Ready
<1>5. ClassRunning' /\ ClassEnded' /\ VersionsOfUpload' /\ RunsHaveVersion'
  BY <1>1 DEF PostInv, End, ClassRunning, ClassEnded, VersionsOfUpload, RunsHaveVersion
<1>6. AbsentRows' /\ CanonicalReadable' /\ AnswerHeard'
  BY <1>1, <1>3 DEF PostInv, End, AbsentRows, CanonicalReadable, AnswerHeard
<1>7. job'[Transcription] = job[Transcription]
      /\ \A j \in Summaries \cup {Organization} : job'[j] = job[j]
  BY <1>3, Kinds
<1>8. VersionFollowsJob'
  BY <1>1, <1>7, Kinds DEF PostInv, End, VersionFollowsJob, IsActive, Active
<1>9. VersionOf(canonical)' \in {"FINALIZED", "EMPTY"}
  BY <1>1 DEF End, VersionOf
<1>10. SourcesKept' /\ SourcesExist'
  BY <1>1, <1>7, <1>9, Kinds DEF SourcesKept, SourcesExist
<1> QED BY <1>4, <1>5, <1>6, <1>8, <1>10 DEF PostInv

(* Uploads before they are complete. *)
LEMMA UploadMoves ==
    ASSUME PostInv, session # "LIVE", recording # "UPLOADED",
           recording' \in {"UPLOAD_PENDING", "UPLOADING", "FAILED"},
           UNCHANGED <<session, overdue, class, live, hq, canonical, job, run, rebuilt>>
    PROVE  PostInv'
<1> USE DEF class
<1>1. TypeOK' /\ RunsHaveVersion' /\ AbsentRows' /\ CanonicalReadable' /\ AnswerHeard'
  BY DEF PostInv, TypeOK, RunsHaveVersion, AbsentRows, CanonicalReadable, AnswerHeard
<1>2. ClassRunning' /\ ClassEnded' /\ VersionsOfUpload'
  BY DEF PostInv, ClassRunning, ClassEnded, VersionsOfUpload
<1>3. VersionFollowsJob' /\ SourcesKept' /\ SourcesExist'
  BY Kinds DEF PostInv, VersionFollowsJob, SourcesKept, SourcesExist, IsActive, Active, Usable, VersionOf
<1> QED BY <1>1, <1>2, <1>3 DEF PostInv

LEMMA CompleteUploadKeeps == ASSUME PostInv, CompleteUpload PROVE PostInv'
<1> USE DEF class
<1>1. /\ recording = "UPLOADING" /\ recording' = "UPLOADED" /\ hq = <<>>
      /\ session # "LIVE" /\ session' = session
      /\ UNCHANGED <<overdue, class, live, canonical, run, rebuilt>>
  BY DEF PostInv, CompleteUpload, Recording, VersionsOfUpload, ClassRunning
<1>2. hq' = <<"FINALIZING">> /\ Len(hq') = 1 /\ hq'[1] = "FINALIZING" /\ Len(hq) = 0
      /\ hq' \in Seq(VersionStatus)
  BY <1>1 DEF CompleteUpload, VersionStatus
<1>3. canonical = LIVE /\ rebuilt = {}
  BY <1>1, <1>2 DEF PostInv, TypeOK, LIVE
<1>4. job \in [Job -> Row] /\ NewRow("PENDING", FALSE, LIVE) \in Row
      /\ NewRow("PENDING", FALSE, LIVE).status = "PENDING"
      /\ NewRow("PENDING", FALSE, LIVE).attempt = 1
  BY Sources, NewRowType DEF PostInv, TypeOK, Status, Active
<1>5. /\ job' \in [Job -> Row]
      /\ job'[Transcription].status = "PENDING" /\ job'[Transcription].attempt = 1
      /\ \A j \in Job : j # Transcription => job'[j] = job[j]
  BY <1>4, Kinds DEF CompleteUpload
<1>6. TypeOK'
  BY <1>1, <1>2, <1>3, <1>5 DEF PostInv, TypeOK, LIVE
<1>7. ClassRunning' /\ ClassEnded' /\ VersionsOfUpload'
  BY <1>1, <1>2, BoundsAreKnown DEF PostInv, ClassRunning, ClassEnded, VersionsOfUpload
<1>8. RunsHaveVersion' /\ AbsentRows' /\ CanonicalReadable' /\ AnswerHeard'
  BY <1>1, <1>2, <1>3, <1>5
     DEF PostInv, RunsHaveVersion, AbsentRows, CanonicalReadable, AnswerHeard
<1>9. VersionFollowsJob'
  BY <1>1, <1>2, <1>5 DEF VersionFollowsJob, IsActive, Active
<1>10. \A j \in Summaries \cup {Organization} :
          job[j].status # "ABSENT" => job[j].source = LIVE
  <2> SUFFICES ASSUME NEW j \in Summaries \cup {Organization}, job[j].status # "ABSENT"
               PROVE  job[j].source = LIVE
    OBVIOUS
  <2>1. job[j].source \in Nat /\ job[j].source <= 0
    BY <1>2, <1>4, Kinds, BoundsAreKnown DEF PostInv, SourcesExist, Row, Source
  <2> QED BY <2>1 DEF LIVE
<1>11. Usable(LIVE)' = Usable(LIVE) /\ VersionOf(LIVE)' = VersionOf(LIVE)
  BY <1>1 DEF VersionOf, Usable
<1>12. SourcesKept'
  BY <1>1, <1>3, <1>5, <1>10, <1>11, Kinds DEF PostInv, SourcesKept
<1>13. SourcesExist'
  BY <1>2, <1>5, <1>10, Kinds DEF SourcesExist, LIVE
<1> QED BY <1>6, <1>7, <1>8, <1>9, <1>12, <1>13 DEF PostInv

-----------------------------------------------------------------------------
(* Claims and reports *)

(* Only a class that has ended has rows and runs. *)
LEMMA HasEnded ==
    ASSUME PostInv
    PROVE  /\ run # {} => session # "LIVE"
           /\ \A j \in Job : job[j].status # "ABSENT" => session # "LIVE"
BY DEF PostInv, ClassRunning

LEMMA CompletionMoves == EvaluateCompletion => session' \in {session, "COMPLETED"}
BY DEF EvaluateCompletion

(* The HQ row of an upload has the version of its attempt. *)
LEMMA HqAttempt ==
    ASSUME PostInv, job[Transcription].status # "ABSENT"
    PROVE  /\ recording = "UPLOADED" /\ job[Transcription].attempt = Len(hq)
           /\ Len(hq) \in 1 .. Len(hq) /\ Len(hq) \in Nat
<1>1. hq \in Seq(VersionStatus) /\ recording = "UPLOADED" /\ hq # <<>>
      /\ job[Transcription].attempt = Len(hq)
  BY DEF PostInv, TypeOK, VersionsOfUpload, VersionFollowsJob
<1>2. Len(hq) \in Nat /\ Len(hq) # 0
  BY <1>1
<1> QED BY <1>1, <1>2

LEMMA StartKeeps ==
    ASSUME PostInv, NEW k \in Job, NEW late \in BOOLEAN,
           job[k].status = "PENDING", Start(k, late),
           UNCHANGED <<session, overdue, recording, class, live, hq, canonical, rebuilt>>
    PROVE  PostInv'
<1> DEFINE x == [job[k] EXCEPT !.status = "RUNNING"]
           r == [job |-> k, attempt |-> job[k].attempt, late |-> late]
<1>1. session # "LIVE" /\ GoodRows(job)
  BY HasEnded, RowsAreGood
<1>2. job[k] \in Row /\ job \in [Job -> Row]
  BY <1>1 DEF GoodRows
<1>3. x \in Row /\ x.status = "RUNNING" /\ x.attempt = job[k].attempt /\ x.source = job[k].source
  BY <1>2, StartedType
<1>4. job' = [job EXCEPT ![k] = x] /\ run' = run \cup {r}
  BY DEF Start
<1>5. GoodRows(job')
  BY <1>1, <1>3, <1>4, OneRowMoves
<1>6. HqRowMoves
  BY <1>2, <1>3, <1>4, Kinds DEF HqRowMoves
<1>7. r \in Run
  BY <1>2 DEF Run, Row
<1>8. RunsHaveVersion'
  <2>1. k = Transcription => r.attempt \in 1 .. Len(hq)
    BY HqAttempt
  <2> QED BY <1>4, <2>1 DEF PostInv, RunsHaveVersion
<1>9. run' \subseteq Run /\ rebuilt' \subseteq 1 .. Len(hq)
  BY <1>4, <1>7 DEF PostInv, TypeOK
<1> HIDE DEF x, r
<1> QED BY <1>1, <1>5, <1>6, <1>8, <1>9, RowsMove DEF RowsKept

(* A row is replaced by its end, and the run that ended it is gone. *)
LEMMA EndRowKeeps ==
    ASSUME PostInv, NEW k \in Job, NEW st \in Status \ {"ABSENT"}, NEW b \in BOOLEAN,
           job[k].status # "ABSENT",
           k = Transcription => st = "CANCELLED",
           job' = [job EXCEPT ![k] = Ended(@, st, b)],
           run' \subseteq run, session' \in {session, "COMPLETED"},
           UNCHANGED <<overdue, recording, class, live, hq, canonical, rebuilt>>
    PROVE  PostInv'
<1> DEFINE x == Ended(job[k], st, b)
<1>1. session # "LIVE" /\ GoodRows(job)
  BY HasEnded, RowsAreGood
<1>2. job[k] \in Row /\ job \in [Job -> Row]
  BY <1>1 DEF GoodRows
<1>3. x \in Row /\ x.status = st /\ x.attempt = job[k].attempt /\ x.source = job[k].source
  BY <1>2, EndedType
<1>4. job' = [job EXCEPT ![k] = x]
  OBVIOUS
<1> HIDE DEF x
<1>5. GoodRows(job')
  <2>1. GoodRows([job EXCEPT ![k] = x])
    BY <1>1, <1>3, OneRowMoves
  <2> QED BY <1>4, <2>1
<1>6. HqRowMoves
  BY <1>2, <1>3, <1>4, Kinds DEF HqRowMoves
<1>7. RunsHaveVersion' /\ run' \subseteq Run /\ rebuilt' \subseteq 1 .. Len(hq)
  BY DEF PostInv, TypeOK, RunsHaveVersion
<1> QED BY <1>1, <1>5, <1>6, <1>7, RowsMove DEF RowsKept

LEMMA ClaimTranscriptionKeeps == ASSUME PostInv, ClaimTranscription PROVE PostInv'
<1>1. job[Transcription].status = "PENDING" /\ Transcription \in Job
      /\ UNCHANGED <<session, overdue, recording, class, live, hq, canonical, rebuilt>>
  BY Kinds DEF ClaimTranscription
<1>2. TranscriptionIsLate \in BOOLEAN
  BY DEF PostInv, TypeOK, TranscriptionIsLate
<1>3. CASE Start(Transcription, TranscriptionIsLate)
  BY <1>1, <1>2, <1>3, StartKeeps
<1>4. CASE job' = [job EXCEPT ![Transcription] = Ended(@, "CANCELLED", FALSE)] /\ run' = run
  BY <1>1, <1>4, EndRowKeeps DEF Status, Active
<1> QED BY <1>3, <1>4 DEF ClaimTranscription

LEMMA ClaimKeeps ==
    ASSUME PostInv, ClaimCoordinator \/ \E j \in Children : ClaimChild(j)
    PROVE  PostInv'
<1>1. CASE ClaimCoordinator
  BY <1>1, StartKeeps, Kinds DEF ClaimCoordinator
<1>2. CASE \E j \in Children : ClaimChild(j)
  BY <1>2, StartKeeps, Kinds DEF ClaimChild
<1> QED BY <1>1, <1>2

LEMMA EndsKeep ==
    ASSUME PostInv, NEW r \in run,
           CancelTranscription(r) \/ SourceNotReady(r) \/ SucceedChild(r) \/ FailChild(r)
             \/ DiscardLate(r)
    PROVE  PostInv'
<1>1. CASE CancelTranscription(r) /\ IsActive(Transcription)
  <2>1. job[Transcription].status # "ABSENT"
    BY <1>1 DEF IsActive, Active
  <2> QED BY <1>1, <2>1, EndRowKeeps, Kinds DEF CancelTranscription, Status, Active
<1>2. CASE job' = job /\ run' = run \ {r}
           /\ UNCHANGED <<session, overdue, recording, class, live, hq, canonical, rebuilt>>
  <2>1. RunsHaveVersion' /\ run' \subseteq Run /\ rebuilt' \subseteq 1 .. Len(hq)
    BY <1>2 DEF PostInv, TypeOK, RunsHaveVersion
  <2> QED BY <1>2, <2>1, HasEnded, RowsAreGood, RowsMove DEF RowsKept, HqRowMoves
<1>3. CASE SourceNotReady(r)
  <2>1. job[Coordinator].status # "ABSENT"
    BY <1>3 DEF SourceNotReady, IsCurrent
  <2> QED BY <1>3, <2>1, EndRowKeeps, Kinds DEF SourceNotReady, Status, Active
<1>4. ASSUME NEW st \in {"SUCCEEDED", "FAILED"}, NEW b \in BOOLEAN, FinishChild(r, st, b)
      PROVE  PostInv'
  <2>1. r.job \in Job /\ r.job # Transcription /\ job[r.job].status # "ABSENT"
        /\ st \in Status \ {"ABSENT"}
    BY <1>4, Kinds DEF FinishChild, IsCurrent, Status, Active
  <2>2. session' \in {session, "COMPLETED"}
    BY <1>4, CompletionMoves DEF FinishChild
  <2> QED BY <1>4, <2>1, <2>2, EndRowKeeps DEF FinishChild
<1>5. CASE SucceedChild(r)
  BY <1>4, <1>5 DEF SucceedChild
<1>6. CASE FailChild(r)
  BY <1>4, <1>6 DEF FailChild
<1> QED BY <1>1, <1>2, <1>3, <1>5, <1>6 DEF CancelTranscription, DiscardLate

HqEnded(a, end) ==
    /\ hq' \in Seq(VersionStatus) /\ Len(hq') = Len(hq) /\ hq'[a] = end
    /\ \A s \in 1 .. Len(hq) : s # a => hq'[s] = hq[s]

LEMMA HqEnds ==
    ASSUME hq \in Seq(VersionStatus), NEW a \in 1 .. Len(hq),
           NEW end \in {"FINALIZED", "EMPTY", "FAILED"}, hq' = [hq EXCEPT ![a] = end]
    PROVE  HqEnded(a, end)
BY DEF HqEnded, VersionStatus, Ready

(* The HQ row and its version end together. *)
LEMMA HqEndKeeps ==
    ASSUME PostInv, NEW r \in run, r.job = Transcription, IsCurrent(r),
           hq[r.attempt] = "FINALIZING",
           NEW end \in {"FINALIZED", "EMPTY", "FAILED"}, HqEnded(r.attempt, end),
           NEW st \in {"SUCCEEDED", "FAILED"}, st = "FAILED" <=> end = "FAILED",
           canonical' = IF st = "SUCCEEDED" THEN r.attempt ELSE canonical,
           GoodRows(job'),
           job'[Transcription].status = st, job'[Transcription].attempt = job[Transcription].attempt,
           run' \subseteq run, UNCHANGED <<session, overdue, recording, class, live, rebuilt>>
    PROVE  PostInv'
<1>1. /\ session # "LIVE" /\ recording = "UPLOADED" /\ hq \in Seq(VersionStatus)
      /\ r.attempt = Len(hq) /\ job[Transcription].attempt = Len(hq)
      /\ Len(hq) \in 1 .. Len(hq) /\ Len(hq) \in Nat
  BY HasEnded, HqAttempt DEF IsCurrent, PostInv, TypeOK
<1>2. /\ hq' \in Seq(VersionStatus) /\ Len(hq') = Len(hq) /\ hq'[Len(hq)] = end
      /\ \A s \in 1 .. Len(hq) : s # Len(hq) => hq'[s] = hq[s]
  BY <1>1 DEF HqEnded
<1>3. VersionsOfUpload' /\ recording' = "UPLOADED"
  <2>1. recording' = recording
    OBVIOUS
  <2>2. hq' # <<>> /\ Len(hq) <= MaxAttempt
    BY <1>1, <1>2 DEF PostInv, VersionsOfUpload
  <2> QED BY <1>1, <1>2, <2>1, <2>2 DEF VersionsOfUpload
<1>4. \A s \in 1 .. Len(hq) : hq[s] \in {"FINALIZED", "EMPTY"} => hq'[s] = hq[s]
  BY <1>1, <1>2
<1>5. CanonicalReadable' /\ (canonical' = canonical \/ canonical' \in 1 .. Len(hq'))
  <2>1. CASE st = "SUCCEEDED"
    BY <1>1, <1>2, <2>1 DEF CanonicalReadable
  <2>2. CASE st = "FAILED"
    <3>1. canonical' = canonical /\ canonical \in 0 .. Len(hq)
      BY <2>2 DEF PostInv, TypeOK
    <3>2. canonical # LIVE => canonical \in 1 .. Len(hq) /\ hq[canonical] \in {"FINALIZED", "EMPTY"}
      BY <1>1, <3>1 DEF PostInv, CanonicalReadable, LIVE
    <3> QED BY <1>4, <3>1, <3>2 DEF CanonicalReadable
  <2> QED BY <2>1, <2>2
<1>6. VersionFollowsJob'
  <2>1. CASE st = "SUCCEEDED"
    BY <1>1, <1>2, <2>1 DEF VersionFollowsJob, IsActive, Active
  <2>2. CASE st = "FAILED"
    BY <1>1, <1>2, <2>2 DEF VersionFollowsJob, IsActive, Active
  <2> QED BY <2>1, <2>2
<1>7. recording' \in {"none", "UPLOAD_PENDING", "UPLOADING", "UPLOADED", "FAILED"}
      /\ Len(hq) <= Len(hq')
  BY <1>1, <1>2, <1>3
<1> QED BY <1>1, <1>2, <1>3, <1>4, <1>5, <1>6, <1>7, HqMoves

LEMMA SucceedTranscriptionKeeps ==
    ASSUME PostInv, NEW r \in run, SucceedTranscription(r) PROVE PostInv'
<1> DEFINE x == Ended(job[Transcription], "SUCCEEDED", FALSE)
           rows == [job EXCEPT ![Transcription] = x]
           y == NextAttempt(rows[Coordinator])
<1>1. r.job = Transcription /\ IsCurrent(r) /\ job[Transcription].status = "RUNNING"
      /\ session # "LIVE" /\ GoodRows(job)
  BY HasEnded, RowsAreGood DEF SucceedTranscription, IsCurrent
<1>2. job \in [Job -> Row] /\ job[Transcription] \in Row /\ Transcription \in Job
      /\ Coordinator \in Job /\ Coordinator # Transcription
  BY <1>1, Kinds DEF GoodRows
<1>3. x \in Row /\ x.status = "SUCCEEDED" /\ x.attempt = job[Transcription].attempt
      /\ x.source = job[Transcription].source
  BY <1>2, EndedType DEF Status
<1>4. job' = Requeued(rows)
  BY DEF SucceedTranscription
<1> HIDE DEF x
<1>5. GoodRows(rows) /\ rows \in [Job -> Row] /\ rows[Transcription] = x
  <2>1. GoodRows(rows)
    BY <1>1, <1>2, <1>3, OneRowMoves
  <2> QED BY <1>2, <2>1 DEF GoodRows
<1> HIDE DEF rows
<1>6. y \in Row /\ y.status = "PENDING" /\ y.source = rows[Coordinator].source
      /\ y.attempt = rows[Coordinator].attempt + 1 /\ y.attempt \in Nat
  BY <1>2, <1>5, NextAttemptType DEF Row
<1>7. job' = rows \/ job' = [rows EXCEPT ![Coordinator] = y]
  BY <1>4 DEF Requeued
<1> HIDE DEF y
<1>8. GoodRows([rows EXCEPT ![Coordinator] = y])
  <2>1. [rows EXCEPT ![Coordinator] = y] \in [Job -> Row]
    BY <1>2, <1>5, <1>6
  <2>2. \A j \in Job : j # Coordinator => [rows EXCEPT ![Coordinator] = y][j] = rows[j]
    BY <1>5
  <2>3. [rows EXCEPT ![Coordinator] = y][Coordinator] = y
    BY <1>2, <1>5
  <2> QED BY <1>5, <1>6, <2>1, <2>2, <2>3, Kinds DEF GoodRows
<1>9. GoodRows(job') /\ job'[Transcription] = x
  BY <1>2, <1>5, <1>7, <1>8
<1>10. PICK end \in {"FINALIZED", "EMPTY"} : hq' = [hq EXCEPT ![r.attempt] = end]
  BY DEF SucceedTranscription
<1>11. hq[r.attempt] = "FINALIZING" /\ canonical' = r.attempt /\ run' \subseteq run
       /\ UNCHANGED <<session, overdue, recording, class, live, rebuilt>>
  BY DEF SucceedTranscription
<1>12. HqEnded(r.attempt, end)
  BY <1>1, <1>10, HqAttempt, HqEnds DEF IsCurrent, PostInv, TypeOK
<1> QED BY <1>1, <1>3, <1>9, <1>11, <1>12, HqEndKeeps

LEMMA FailTranscriptionKeeps ==
    ASSUME PostInv, NEW r \in run, FailTranscription(r) PROVE PostInv'
<1>1. r.job = Transcription /\ IsCurrent(r) /\ job[Transcription].status = "RUNNING"
      /\ session # "LIVE" /\ GoodRows(job)
  BY HasEnded, RowsAreGood DEF FailTranscription, IsCurrent
<1>2. job \in [Job -> Row] /\ job[Transcription] \in Row /\ Transcription \in Job
  BY <1>1, Kinds DEF GoodRows
<1>3. PICK retryable \in BOOLEAN :
          job' = [job EXCEPT ![Transcription] = Ended(@, "FAILED", retryable)]
  BY DEF FailTranscription
<1> DEFINE x == Ended(job[Transcription], "FAILED", retryable)
<1>4. x \in Row /\ x.status = "FAILED" /\ x.attempt = job[Transcription].attempt
      /\ x.source = job[Transcription].source
  BY <1>2, EndedType DEF Status
<1>5. job' = [job EXCEPT ![Transcription] = x]
  BY <1>3
<1> HIDE DEF x
<1>6. GoodRows(job') /\ job'[Transcription] = x
  <2>1. GoodRows([job EXCEPT ![Transcription] = x])
    BY <1>1, <1>2, <1>4, OneRowMoves
  <2> QED BY <1>2, <1>5, <2>1
<1>7. hq[r.attempt] = "FINALIZING" /\ hq' = [hq EXCEPT ![r.attempt] = "FAILED"]
      /\ canonical' = canonical /\ run' \subseteq run
      /\ UNCHANGED <<session, overdue, recording, class, live, rebuilt>>
  BY DEF FailTranscription
<1>8. HqEnded(r.attempt, "FAILED")
  BY <1>1, <1>7, HqAttempt, HqEnds DEF IsCurrent, PostInv, TypeOK
<1> QED BY <1>1, <1>4, <1>6, <1>7, <1>8, HqEndKeeps

-----------------------------------------------------------------------------
(* The coordinator's children *)

(* What the coordinator gives to a child can be read. *)
LEMMA SourcesUsable ==
    ASSUME PostInv, session # "LIVE"
    PROVE  /\ \A s \in Target : s \in Source /\ s <= Len(hq) /\ Usable(s)
           /\ \A s \in SummarySource : s \in Source /\ s <= Len(hq) /\ Usable(s)
           /\ answer = "COMPLETED" => LIVE \in Source /\ LIVE <= Len(hq) /\ Usable(LIVE)
<1>1. hq \in Seq(VersionStatus) /\ Len(hq) \in Nat /\ canonical \in 0 .. Len(hq)
      /\ Len(hq) <= MaxAttempt
  BY DEF PostInv, TypeOK, VersionsOfUpload
<1>2. \A s \in Target : s \in Source /\ s <= Len(hq) /\ Usable(s)
  <2> SUFFICES ASSUME NEW s \in Target PROVE s \in Source /\ s <= Len(hq) /\ Usable(s)
    OBVIOUS
  <2>1. s = Len(hq) /\ hq # <<>> /\ hq[Len(hq)] = "FINALIZED"
    BY DEF Target
  <2>2. Len(hq) # 0
    BY <1>1, <2>1
  <2> QED BY <1>1, <2>1, <2>2, Sources DEF Usable, VersionOf, LIVE
<1>3. canonical \in Source
  BY <1>1, BoundsAreKnown DEF Source
<1>4. \A s \in SummarySource : s \in Source /\ s <= Len(hq) /\ Usable(s)
  BY <1>1, <1>2, <1>3 DEF SummarySource
<1>5. answer = "COMPLETED" => LIVE \in Source /\ LIVE <= Len(hq) /\ Usable(LIVE)
  BY <1>1, Sources DEF PostInv, AnswerHeard, ClassEnded, Usable, VersionOf, LIVE
<1> QED BY <1>2, <1>4, <1>5

LEMMA WithOrganizationKeeps ==
    ASSUME PostInv, session # "LIVE", NEW rows, GoodRows(rows), NEW source \in Target \cup {LIVE}
    PROVE  /\ GoodRows(WithOrganization(rows, source))
           /\ \A j \in Job : j # Organization => WithOrganization(rows, source)[j] = rows[j]
<1> DEFINE x == NewRow("PENDING", TRUE, source)
<1>1. CASE WithOrganization(rows, source) = rows
  BY <1>1
<1>2. CASE answer = "COMPLETED" /\ WithOrganization(rows, source) = [rows EXCEPT ![Organization] = x]
  <2>1. source \in Source /\ source <= Len(hq) /\ Usable(source)
    BY <1>2, SourcesUsable
  <2>2. x \in Row /\ x.source = source /\ x.status = "PENDING"
    BY <2>1, NewRowType DEF Status, Active
  <2> HIDE DEF x
  <2>3. rows \in [Job -> Row]
    BY DEF GoodRows
  <2> QED BY <1>2, <2>1, <2>2, <2>3, Kinds DEF GoodRows
<1> QED BY <1>1, <1>2 DEF WithOrganization

LEMMA WithSummaryKeeps ==
    ASSUME PostInv, session # "LIVE", NEW rows, GoodRows(rows)
    PROVE  /\ GoodRows(WithSummary(rows, SummarySource))
           /\ \A j \in Job : j \notin Summaries => WithSummary(rows, SummarySource)[j] = rows[j]
<1> DEFINE new(j) == \E s \in SummarySource : j = Summary(s) /\ rows[j].status = "ABSENT"
           after == [j \in Job |-> IF new(j) THEN NewRow("PENDING", TRUE, j[2]) ELSE rows[j]]
<1>1. CASE WithSummary(rows, SummarySource) = rows
  BY <1>1
<1>2. CASE WithSummary(rows, SummarySource) = after
  <2>1. \A j \in Job : new(j) => j \in Summaries /\ j[2] \in SummarySource
    BY SummaryNames, SourcesUsable
  <2>2. \A j \in Job : new(j) =>
            /\ after[j] \in Row /\ after[j].status = "PENDING" /\ after[j].source = j[2]
            /\ Usable(j[2]) /\ j[2] <= Len(hq)
    <3> SUFFICES ASSUME NEW j \in Job, new(j)
                 PROVE  /\ after[j] \in Row /\ after[j].status = "PENDING"
                        /\ after[j].source = j[2]
                        /\ Usable(j[2]) /\ j[2] <= Len(hq)
      OBVIOUS
    <3>1. after[j] = NewRow("PENDING", TRUE, j[2])
      OBVIOUS
    <3>2. j[2] \in Source /\ Usable(j[2]) /\ j[2] <= Len(hq)
      BY <2>1, SourcesUsable
    <3>3. "PENDING" \in Status /\ TRUE \in BOOLEAN
      BY DEF Status, Active
    <3> HIDE DEF after, new
    <3>4. ASSUME NEW src \in Source
          PROVE  /\ NewRow("PENDING", TRUE, src) \in Row
                 /\ NewRow("PENDING", TRUE, src).status = "PENDING"
                 /\ NewRow("PENDING", TRUE, src).source = src
      BY <3>3, <3>4, NewRowType
    <3> QED BY <3>1, <3>2, <3>4
  <2>3. \A j \in Job : ~new(j) => after[j] = rows[j]
    OBVIOUS
  <2>4. rows \in [Job -> Row]
    BY DEF GoodRows
  <2> HIDE DEF new
  <2>5. after \in [Job -> Row]
    BY <2>2, <2>3, <2>4
  <2> HIDE DEF after
  <2>6. GoodRows(after)
    <3>1. \A j \in Job : after[j].status = "ABSENT" => after[j].attempt = 0
      BY <2>2, <2>3 DEF GoodRows
    <3>2. \A j \in Summaries \cup {Organization} :
            after[j].status # "ABSENT" => Usable(after[j].source) /\ after[j].source <= Len(hq)
      BY <2>2, <2>3, Kinds DEF GoodRows
    <3> QED BY <2>5, <3>1, <3>2 DEF GoodRows
  <2> QED BY <1>2, <2>1, <2>3, <2>6
<1> QED BY <1>1, <1>2 DEF WithSummary

LEMMA FinishCoordinatorKeeps ==
    ASSUME PostInv, NEW r \in run, FinishCoordinator(r) PROVE PostInv'
<1>1. session # "LIVE" /\ GoodRows(job) /\ job[Coordinator].status = "RUNNING"
  BY HasEnded, RowsAreGood DEF FinishCoordinator, IsCurrent
<1>2. PICK source \in Target \cup {LIVE} :
          job' = [WithSummary(WithOrganization(job, source), SummarySource)
                     EXCEPT ![Coordinator] = Ended(@, "SUCCEEDED", FALSE)]
  BY DEF FinishCoordinator
<1> DEFINE rows == WithSummary(WithOrganization(job, source), SummarySource)
           x == Ended(rows[Coordinator], "SUCCEEDED", FALSE)
<1>3. GoodRows(rows) /\ rows[Coordinator] = job[Coordinator]
      /\ rows[Transcription] = job[Transcription]
  <2>1. GoodRows(WithOrganization(job, source))
        /\ \A j \in {Coordinator, Transcription} : WithOrganization(job, source)[j] = job[j]
    BY <1>1, WithOrganizationKeeps, Kinds
  <2> QED BY <1>1, <2>1, WithSummaryKeeps, Kinds
<1>4. job' = [rows EXCEPT ![Coordinator] = x]
  BY <1>2
<1> HIDE DEF rows
<1>5. rows \in [Job -> Row] /\ Coordinator \in Job /\ Transcription \in Job
      /\ Coordinator # Transcription
  BY <1>3, Kinds DEF GoodRows
<1>6. x \in Row /\ x.status = "SUCCEEDED" /\ x.source = rows[Coordinator].source
  BY <1>5, EndedType DEF Status
<1> HIDE DEF x
<1>7. GoodRows(job')
  <2>1. GoodRows([rows EXCEPT ![Coordinator] = x])
    BY <1>1, <1>3, <1>5, <1>6, OneRowMoves
  <2> QED BY <1>4, <2>1
<1>8. HqRowMoves
  BY <1>3, <1>4, <1>5 DEF HqRowMoves
<1>9. RunsHaveVersion' /\ run' \subseteq Run
  BY DEF FinishCoordinator, PostInv, TypeOK, RunsHaveVersion
<1>10. rebuilt' \subseteq 1 .. Len(hq)
  <2>1. Target \subseteq 1 .. Len(hq)
    BY DEF PostInv, TypeOK, Target
  <2> QED BY <2>1 DEF FinishCoordinator, PostInv, TypeOK
<1>11. session' \in {session, "COMPLETED"}
       /\ UNCHANGED <<overdue, recording, class, live, hq, canonical>>
  BY CompletionMoves DEF FinishCoordinator
<1> QED BY <1>1, <1>7, <1>8, <1>9, <1>10, <1>11, RowsMove DEF RowsKept

LEMMA ScheduleKeeps == ASSUME PostInv, ScheduleMissingSummary PROVE PostInv'
<1>1. session # "LIVE" /\ GoodRows(job) /\ job' = WithSummary(job, SummarySource)
      /\ UNCHANGED <<session, overdue, recording, class, live, hq, canonical, run, rebuilt>>
  BY RowsAreGood DEF ScheduleMissingSummary
<1>2. GoodRows(job') /\ HqRowMoves
  BY <1>1, WithSummaryKeeps, Kinds DEF HqRowMoves
<1>3. RunsHaveVersion' /\ run' \subseteq Run /\ rebuilt' \subseteq 1 .. Len(hq)
  BY <1>1 DEF PostInv, TypeOK, RunsHaveVersion
<1> QED BY <1>1, <1>2, <1>3, RowsMove DEF RowsKept

-----------------------------------------------------------------------------
(* Retries and the watchdog *)

LEMMA RetryKeeps == ASSUME PostInv, NEW k \in Job, Retry(k) PROVE PostInv'
<1> DEFINE x == NextAttempt(job[k])
<1>1. /\ job[k].status = "FAILED" /\ session # "LIVE" /\ GoodRows(job)
      /\ job \in [Job -> Row] /\ job[k] \in Row /\ hq \in Seq(VersionStatus)
  BY HasEnded, RowsAreGood DEF Retry, PostInv, TypeOK
<1>2. x \in Row /\ x.status = "PENDING" /\ x.source = job[k].source
      /\ x.attempt = job[k].attempt + 1
  BY <1>1, NextAttemptType
<1>3. job' = [job EXCEPT ![k] = x]
      /\ UNCHANGED <<session, overdue, recording, class, live, canonical, run, rebuilt>>
  BY DEF Retry
<1> HIDE DEF x
<1>4. GoodRows([job EXCEPT ![k] = x])
  BY <1>1, <1>2, OneRowMoves
<1>5. CASE k # Transcription
  <2>1. hq' = hq
    BY <1>5 DEF Retry
  <2>2. GoodRows(job') /\ HqRowMoves
    BY <1>1, <1>3, <1>4, <1>5, Kinds DEF HqRowMoves
  <2>3. RunsHaveVersion' /\ run' \subseteq Run /\ rebuilt' \subseteq 1 .. Len(hq)
    BY <1>3, <2>1 DEF PostInv, TypeOK, RunsHaveVersion
  <2> QED BY <1>1, <1>3, <2>1, <2>2, <2>3, RowsMove DEF RowsKept
<1>6. CASE k = Transcription
  <2>1. /\ recording = "UPLOADED" /\ job[k].attempt = Len(hq) /\ Len(hq) \in Nat
        /\ hq[Len(hq)] = "FAILED"
    BY <1>1, <1>6, HqAttempt DEF PostInv, VersionFollowsJob
  <2>2. Len(hq) < MaxAttempt
    BY <2>1 DEF Retry
  <2>3. hq' = Append(hq, "FINALIZING")
    BY <1>6 DEF Retry
  <2>4. /\ hq' \in Seq(VersionStatus) /\ Len(hq') = Len(hq) + 1
        /\ hq'[Len(hq) + 1] = "FINALIZING"
        /\ \A s \in 1 .. Len(hq) : hq'[s] = hq[s]
    BY <1>1, <2>1, <2>3 DEF VersionStatus
  <2>5. hq' # <<>> /\ Len(hq') <= MaxAttempt /\ Len(hq) <= Len(hq')
    BY <2>1, <2>2, <2>4, BoundsAreKnown
  <2>6. VersionsOfUpload'
    BY <1>3, <2>1, <2>5 DEF VersionsOfUpload
  <2>7. CanonicalReadable'
    <3>1. canonical' = canonical /\ canonical \in 0 .. Len(hq)
      BY <1>3 DEF PostInv, TypeOK
    <3> QED BY <2>1, <2>4, <3>1 DEF PostInv, CanonicalReadable, LIVE
  <2>8. job'[Transcription].status = "PENDING" /\ job'[Transcription].attempt = Len(hq')
    BY <1>1, <1>2, <1>3, <1>6, <2>1, <2>4
  <2>9. VersionFollowsJob'
    BY <1>3, <2>1, <2>4, <2>8 DEF VersionFollowsJob, IsActive, Active
  <2>10. GoodRows(job') /\ run' \subseteq run /\ canonical' = canonical
         /\ recording' \in {"none", "UPLOAD_PENDING", "UPLOADING", "UPLOADED", "FAILED"}
         /\ session' \in {session, "COMPLETED"}
         /\ UNCHANGED <<overdue, class, live, rebuilt>>
    BY <1>3, <1>4, <2>1
  <2> QED BY <1>1, <2>4, <2>5, <2>6, <2>7, <2>9, <2>10, HqMoves
<1> QED BY <1>5, <1>6

LEMMA TerminalizedVersions ==
    ASSUME hq \in Seq(VersionStatus)
    PROVE  /\ Terminalized(hq) \in Seq(VersionStatus) /\ Len(Terminalized(hq)) = Len(hq)
           /\ \A s \in 1 .. Len(hq) :
                Terminalized(hq)[s] = IF s = Len(hq) /\ hq[s] = "FINALIZING" THEN "FAILED"
                                      ELSE hq[s]
BY DEF Terminalized, VersionStatus, Ready

LEMMA TimedOutRow ==
    ASSUME PostInv, session # "LIVE", NEW j \in Job
    PROVE  /\ TimedOut(j) \in Row
           /\ TimedOut(j).status = "ABSENT" => TimedOut(j).attempt = 0
           /\ j \in Summaries \cup {Organization} /\ TimedOut(j).status # "ABSENT"
                => Usable(TimedOut(j).source) /\ TimedOut(j).source <= Len(hq)
           /\ j \in {Coordinator, Transcription} \cup Summaries =>
                /\ ~IsActive(j) => TimedOut(j) = job[j]
                /\ IsActive(j) => /\ TimedOut(j).status = "FAILED"
                                  /\ TimedOut(j).attempt = job[j].attempt
<1> DEFINE ended == Ended(job[j], "FAILED", TRUE)
           new == NewRow("FAILED", TRUE, LIVE)
<1>1. GoodRows(job) /\ job[j] \in Row
  BY RowsAreGood DEF PostInv, TypeOK
<1>2. "FAILED" \in Status /\ TRUE \in BOOLEAN /\ LIVE \in Source
  BY Sources DEF Status
<1>3. ended \in Row /\ ended.status = "FAILED" /\ ended.attempt = job[j].attempt
      /\ ended.source = job[j].source
  BY <1>1, <1>2, EndedType
<1>4. new \in Row /\ new.status = "FAILED" /\ new.source = LIVE
  BY <1>2, NewRowType
<1>5. \/ IsActive(j) /\ TimedOut(j) = ended
      \/ /\ ~IsActive(j) /\ TimedOut(j) = new
         /\ j = Clustering \/ (j = Organization /\ answer = "COMPLETED")
      \/ ~IsActive(j) /\ TimedOut(j) = job[j]
  BY DEF TimedOut
<1> HIDE DEF ended, new
<1>6. TimedOut(j) \in Row /\ (TimedOut(j).status = "ABSENT" => TimedOut(j).attempt = 0)
  BY <1>1, <1>3, <1>4, <1>5 DEF GoodRows
<1>7. IsActive(j) => job[j].status # "ABSENT"
  BY DEF IsActive, Active
<1>8. ASSUME j \in Summaries \cup {Organization}, TimedOut(j).status # "ABSENT"
      PROVE  Usable(TimedOut(j).source) /\ TimedOut(j).source <= Len(hq)
  <2>1. CASE IsActive(j) /\ TimedOut(j) = ended
    BY <1>1, <1>3, <1>7, <1>8, <2>1 DEF GoodRows
  <2>2. CASE TimedOut(j) = new /\ (j = Clustering \/ (j = Organization /\ answer = "COMPLETED"))
    BY <1>4, <1>8, <2>2, SourcesUsable, Kinds
  <2>3. CASE TimedOut(j) = job[j]
    BY <1>1, <1>8, <2>3 DEF GoodRows
  <2> QED BY <1>5, <2>1, <2>2, <2>3
<1>9. ASSUME j \in {Coordinator, Transcription} \cup Summaries
      PROVE  j # Clustering /\ j # Organization
  BY <1>9, Kinds DEF Coordinator, Transcription, Clustering, Organization
<1> QED BY <1>3, <1>5, <1>6, <1>8, <1>9

LEMMA WatchdogKeeps == ASSUME PostInv, Watchdog PROVE PostInv'
<1> USE DEF class
<1>1. /\ session = "PROCESSING" /\ session' \in {session, "COMPLETED"}
      /\ job' = [j \in Job |-> TimedOut(j)]
      /\ UNCHANGED <<overdue, class, canonical, run, rebuilt>>
  BY CompletionMoves DEF Watchdog
<1>2. live' = live
  BY <1>1 DEF Watchdog, PostInv, ClassEnded
<1>3. hq \in Seq(VersionStatus) /\ Len(hq) \in Nat /\ canonical \in 0 .. Len(hq)
      /\ job \in [Job -> Row]
  BY DEF PostInv, TypeOK
<1>4. hq' = hq \/ hq' = Terminalized(hq)
  BY DEF Watchdog
<1>5. /\ hq' \in Seq(VersionStatus) /\ Len(hq') = Len(hq)
      /\ \A s \in 1 .. Len(hq) : hq[s] \in {"FINALIZED", "EMPTY", "FAILED"} => hq'[s] = hq[s]
  BY <1>3, <1>4, TerminalizedVersions
<1>6. hq # <<>> <=> hq' # <<>>
  BY <1>3, <1>5
<1>7. recording' \in {"none", "UPLOAD_PENDING", "UPLOADING", "UPLOADED", "FAILED"}
      /\ (recording' = "UPLOADED" <=> recording = "UPLOADED")
  BY DEF Watchdog, PostInv, TypeOK, VersionsOfUpload
<1>8. VersionsOfUpload'
  BY <1>5, <1>6, <1>7 DEF PostInv, VersionsOfUpload
<1>9. CanonicalReadable'
  <2>1. canonical # LIVE => canonical \in 1 .. Len(hq)
    BY <1>3 DEF LIVE
  <2> QED BY <1>1, <1>5, <2>1 DEF PostInv, CanonicalReadable
<1>10. GoodRows(job')
  <2>1. job' \in [Job -> Row] /\ \A j \in Job : job'[j] = TimedOut(j)
    BY <1>1, TimedOutRow
  <2>2. \A j \in Job : job'[j].status = "ABSENT" => job'[j].attempt = 0
    BY <1>1, <2>1, TimedOutRow
  <2>3. ASSUME NEW j \in Summaries \cup {Organization}, job'[j].status # "ABSENT"
        PROVE  Usable(job'[j].source) /\ job'[j].source <= Len(hq)
    <3>1. j \in Job
      BY Kinds
    <3>2. TimedOut(j).status # "ABSENT" /\ job'[j] = TimedOut(j)
      BY <2>1, <2>3, <3>1
    <3> QED BY <1>1, <3>1, <3>2, TimedOutRow
  <2> QED BY <2>1, <2>2, <2>3 DEF GoodRows
<1>11. VersionFollowsJob'
  <2>1. Transcription \in Job /\ session # "LIVE" /\ job'[Transcription] = TimedOut(Transcription)
    BY <1>1, Kinds
  <2>2. CASE ~IsActive(Transcription)
    <3>1. job'[Transcription] = job[Transcription]
      BY <2>1, <2>2, TimedOutRow
    <3>2. job[Transcription].status # "ABSENT" =>
              job[Transcription].attempt \in 1 .. Len(hq)
      BY HqAttempt
    <3> QED BY <1>1, <1>5, <1>7, <2>2, <3>1, <3>2
            DEF PostInv, VersionFollowsJob, IsActive, Active
  <2>3. CASE IsActive(Transcription)
    <3>1. job[Transcription].status # "ABSENT"
      BY <2>3 DEF IsActive, Active
    <3>2. recording = "UPLOADED" /\ job[Transcription].attempt = Len(hq)
          /\ Len(hq) \in 1 .. Len(hq) /\ hq[Len(hq)] = "FINALIZING"
      BY <2>3, <3>1, HqAttempt DEF PostInv, VersionFollowsJob
    <3>3. job'[Transcription].status = "FAILED" /\ job'[Transcription].attempt = Len(hq)
      BY <2>1, <2>3, <3>2, TimedOutRow
    <3>4. hq' = Terminalized(hq)
      BY <3>2 DEF Watchdog
    <3>5. hq'[Len(hq)] = "FAILED"
      BY <1>3, <3>2, <3>4, TerminalizedVersions
    <3> QED BY <1>5, <1>7, <3>2, <3>3, <3>5 DEF VersionFollowsJob, IsActive, Active
  <2> QED BY <2>2, <2>3
<1>12. \A s \in 1 .. Len(hq) : hq[s] \in {"FINALIZED", "EMPTY"} => hq'[s] = hq[s]
  BY <1>5
<1>13. session # "LIVE" /\ run' \subseteq run /\ Len(hq) <= Len(hq') /\ canonical' = canonical
       /\ UNCHANGED <<overdue, class, live, rebuilt>>
  BY <1>1, <1>2, <1>3, <1>5
<1> QED BY <1>1, <1>5, <1>7, <1>8, <1>9, <1>10, <1>11, <1>12, <1>13, HqMoves

-----------------------------------------------------------------------------
(* The invariant *)

LEMMA ClassKeeps == ASSUME PostInv, ClassNext PROVE PostInv'
<1> USE DEF class, transcripts
<1>1. CASE ClaimPublisher
  <2>1. session = "LIVE" /\ recording' = "CAPTURING" /\ AnswerHeard'
        /\ heard' \in BOOLEAN /\ asked' \in BOOLEAN
        /\ answer' \in {"none", "CAPTURING", "COMPLETED"}
        /\ UNCHANGED <<session, overdue, live, hq, canonical, job, run, rebuilt>>
    BY <1>1 DEF ClaimPublisher, PostInv, TypeOK, AnswerHeard
  <2> QED BY <2>1, ClassStep
<1>2. CASE PersistFinal
  <2>1. session = "LIVE"
    BY <1>2 DEF PersistFinal, PostInv, ClassEnded
  <2>2. recording' = "CAPTURING" /\ heard' = TRUE /\ AnswerHeard' /\ asked' \in BOOLEAN
        /\ answer' \in {"none", "CAPTURING", "COMPLETED"}
        /\ UNCHANGED <<session, overdue, live, hq, canonical, job, run, rebuilt>>
    BY <1>2 DEF PersistFinal, PostInv, TypeOK, AnswerHeard
  <2> QED BY <2>1, <2>2, ClassStep
<1>3. CASE AskQuestion \/ StartAnswer \/ CancelAnswer \/ CompleteAnswer
  <2>1. session = "LIVE" /\ heard' = heard /\ recording' = recording
        /\ UNCHANGED <<session, overdue, live, hq, canonical, job, run, rebuilt>>
    BY <1>3 DEF AskQuestion, StartAnswer, CancelAnswer, CompleteAnswer
  <2>2. heard' \in BOOLEAN /\ asked' \in BOOLEAN
        /\ answer' \in {"none", "CAPTURING", "COMPLETED"}
    BY <1>3, <2>1 DEF AskQuestion, StartAnswer, CancelAnswer, CompleteAnswer, PostInv, TypeOK
  <2>3. AnswerHeard'
    BY <1>3 DEF AskQuestion, StartAnswer, CancelAnswer, CompleteAnswer, PostInv, AnswerHeard
  <2>4. recording' \in {"none", "CAPTURING"}
    BY <2>1 DEF PostInv, ClassRunning
  <2> QED BY <2>1, <2>2, <2>3, <2>4, ClassStep
<1> QED BY <1>1, <1>2, <1>3, EndKeeps DEF ClassNext

LEMMA UploadKeeps == ASSUME PostInv, UploadNext PROVE PostInv'
<1>1. CASE AbandonLocalUpload \/ CreateUpload \/ ExpireUpload
  <2>1. /\ recording \in {"UPLOAD_PENDING", "UPLOADING", "FAILED"}
        /\ recording' \in {"UPLOAD_PENDING", "UPLOADING", "FAILED"}
        /\ UNCHANGED <<session, overdue, class, live, hq, canonical, job, run, rebuilt>>
    BY <1>1 DEF AbandonLocalUpload, CreateUpload, ExpireUpload, Recording
  <2>2. session # "LIVE"
    BY <2>1 DEF PostInv, ClassRunning
  <2> QED BY <2>1, <2>2, UploadMoves
<1> QED BY <1>1, CompleteUploadKeeps DEF UploadNext

LEMMA WorkerKeeps == ASSUME PostInv, WorkerNext PROVE PostInv'
<1>1. ASSUME NEW r \in run, Report(r) PROVE PostInv'
  BY <1>1, SucceedTranscriptionKeeps, FailTranscriptionKeeps, FinishCoordinatorKeeps, EndsKeep
     DEF Report
<1> QED BY <1>1, ClaimTranscriptionKeeps, ClaimKeeps, ScheduleKeeps DEF WorkerNext

LEMMA QuietKeeps == ASSUME PostInv, DeadlinePasses \/ UNCHANGED vars PROVE PostInv'
<1>1. /\ UNCHANGED <<session, recording, heard, live, hq, canonical, answer, asked,
                     job, run, rebuilt>>
      /\ overdue' \in BOOLEAN
  BY DEF DeadlinePasses, vars, class, PostInv, TypeOK
<1>2. TypeOK'
  BY <1>1 DEF PostInv, TypeOK
<1>3. ClassRunning' /\ ClassEnded' /\ VersionsOfUpload' /\ RunsHaveVersion' /\ AbsentRows'
      /\ SourcesExist' /\ CanonicalReadable' /\ AnswerHeard'
  BY <1>1 DEF PostInv, ClassRunning, ClassEnded, VersionsOfUpload, RunsHaveVersion, AbsentRows,
              SourcesExist, CanonicalReadable, AnswerHeard
<1>4. VersionFollowsJob' /\ SourcesKept'
  BY <1>1 DEF PostInv, VersionFollowsJob, SourcesKept, IsActive, Usable, VersionOf
<1> QED BY <1>2, <1>3, <1>4 DEF PostInv

LEMMA StepKeeps == ASSUME PostInv, [Next]_vars PROVE PostInv'
BY ClassKeeps, UploadKeeps, WorkerKeeps, RetryKeeps, WatchdogKeeps, QuietKeeps DEF Next

(* The inductive invariant of a Session's post-processing holds in every   *)
(* state, whatever its inputs, the types retried and the attempts reached. *)
THEOREM PostprocessingInvariant == Spec => []PostInv
<1>1. Init => PostInv
  BY InitHolds
<1>2. PostInv /\ [Next]_vars => PostInv'
  BY StepKeeps
<1> QED BY <1>1, <1>2, PTL DEF Spec

(* Every table keeps to the statuses and sequences its columns allow.      *)
THEOREM TypesCorrect == Spec => []TypeOK
<1>1. PostInv => TypeOK
  BY DEF PostInv
<1> QED BY <1>1, PostprocessingInvariant, PTL

(* The HQ job row and the transcript version of its attempt always agree,  *)
(* through uploads, retries, late results and the watchdog.                *)
THEOREM VersionsFollowJobs == Spec => []VersionFollowsJob
<1>1. PostInv => VersionFollowsJob
  BY DEF PostInv
<1> QED BY <1>1, PostprocessingInvariant, PTL

(* After the class the canonical transcript can be read, and the version a *)
(* summary or an organization was given stays finalized under it.          *)
THEOREM InputsStayReadable == Spec => []SourcesKept
<1>1. PostInv => SourcesKept
  BY DEF PostInv
<1> QED BY <1>1, PostprocessingInvariant, PTL

-----------------------------------------------------------------------------
(* What OrganizedAtCompletion needs: while the Session is PROCESSING, an    *)
(* answer without a row is still the business of its coordinator, or the    *)
(* coordinator failed on its source.                                        *)
GaveUp(row) == row.status = "FAILED" /\ row.retryable

CoordinatorAnswers ==
    session = "PROCESSING" /\ answer = "COMPLETED" /\ job[Organization].status = "ABSENT"
        => IsActive(Coordinator) \/ GaveUp(job[Coordinator])

CompletesOrganized ==
    session # "COMPLETED" /\ session' = "COMPLETED" /\ answer = "COMPLETED"
        /\ job'[Organization].status = "ABSENT"
    => GaveUp(job[Coordinator])

(* A step that takes no row from the answer and ends no coordinator without *)
(* giving up; if it completes the Session, no coordinator is active.        *)
LEMMA RowsStay ==
    ASSUME CoordinatorAnswers, session' \in {session, "COMPLETED"}, answer' = answer,
           job'[Organization].status = "ABSENT" => job[Organization].status = "ABSENT",
           \/ job'[Coordinator] = job[Coordinator]
           \/ job'[Coordinator].status \in Active
           \/ GaveUp(job'[Coordinator]) /\ session' = session,
           session' # session => session = "PROCESSING" /\ job'[Coordinator].status \notin Active
    PROVE  CoordinatorAnswers' /\ CompletesOrganized
BY DEF CoordinatorAnswers, CompletesOrganized, GaveUp, IsActive

LEMMA CompletionEndsRows ==
    ASSUME EvaluateCompletion, session' # session
    PROVE  session = "PROCESSING" /\ session' = "COMPLETED" /\ job'[Coordinator].status \notin Active
BY Kinds DEF EvaluateCompletion

LEMMA ClassOrganized ==
    ASSUME PostInv, CoordinatorAnswers, ClassNext \/ UploadNext \/ DeadlinePasses \/ UNCHANGED vars
    PROVE  CoordinatorAnswers' /\ CompletesOrganized
<1> USE DEF class, transcripts
<1>1. CASE session = "LIVE" /\ session' = "LIVE"
  BY <1>1 DEF CoordinatorAnswers, CompletesOrganized
<1>2. CASE End
  <2>1. job' = [job EXCEPT ![Coordinator] = NewRow("PENDING", TRUE, LIVE),
                           ![Clustering] = IF asked THEN NewRow("PENDING", TRUE, LIVE) ELSE @]
        /\ session' = "PROCESSING" /\ job \in [Job -> Row]
    BY <1>2 DEF End, PostInv, TypeOK
  <2>2. Coordinator # Clustering
    BY DEF Coordinator, Clustering
  <2>3. job'[Coordinator] = NewRow("PENDING", TRUE, LIVE)
    BY <2>1, <2>2, Kinds
  <2> QED BY <2>1, <2>3 DEF CoordinatorAnswers, CompletesOrganized, IsActive, Active, NewRow
<1>3. CASE UNCHANGED <<session, answer>> /\ job'[Organization] = job[Organization]
           /\ job'[Coordinator] = job[Coordinator]
  BY <1>3, RowsStay
<1>4. CASE ClassNext /\ ~End
  <2>1. session' = session
    BY <1>4 DEF ClassNext, ClaimPublisher, PersistFinal, AskQuestion, StartAnswer, CancelAnswer,
                CompleteAnswer
  <2>2. CASE session = "LIVE"
    BY <1>1, <2>1, <2>2
  <2>3. CASE session # "LIVE"
    BY <1>3, <1>4, <2>3 DEF ClassNext, ClaimPublisher, PersistFinal, AskQuestion, StartAnswer,
                            CancelAnswer, CompleteAnswer
  <2> QED BY <2>2, <2>3
<1>5. CASE UploadNext
  <2>1. UNCHANGED <<session, answer>>
    BY <1>5 DEF UploadNext, AbandonLocalUpload, CreateUpload, ExpireUpload, CompleteUpload, Recording
  <2>2. job'[Organization] = job[Organization] /\ job'[Coordinator] = job[Coordinator]
    <3>1. job \in [Job -> Row]
      BY DEF PostInv, TypeOK
    <3>2. job' = job \/ job' = [job EXCEPT ![Transcription] = NewRow("PENDING", FALSE, LIVE)]
      BY <1>5 DEF UploadNext, AbandonLocalUpload, CreateUpload, ExpireUpload, CompleteUpload
    <3> QED BY <3>1, <3>2, Kinds
  <2> QED BY <1>3, <2>1, <2>2
<1>6. CASE DeadlinePasses \/ UNCHANGED vars
  BY <1>3, <1>6 DEF DeadlinePasses, vars
<1> QED BY <1>2, <1>4, <1>5, <1>6

LEMMA ClaimsOrganized ==
    ASSUME PostInv, CoordinatorAnswers,
           ClaimTranscription \/ ClaimCoordinator \/ \E j \in Children : ClaimChild(j)
    PROVE  CoordinatorAnswers' /\ CompletesOrganized
<1>1. job \in [Job -> Row] /\ session' = session /\ answer' = answer
  BY DEF PostInv, TypeOK, ClaimTranscription, ClaimCoordinator, ClaimChild, class
<1>2. ASSUME NEW j \in Job, NEW late, Start(j, late)
      PROVE  CoordinatorAnswers' /\ CompletesOrganized
  <2>1. \A k \in Job : job'[k] = job[k] \/ job'[k].status = "RUNNING"
    BY <1>1, <1>2, StartedType DEF Start
  <2> QED BY <1>1, <2>1, RowsStay, Kinds DEF Active
<1>3. CASE ClaimTranscription
  <2>1. CASE job' = [job EXCEPT ![Transcription] = Ended(@, "CANCELLED", FALSE)]
    BY <1>1, <2>1, RowsStay, Kinds
  <2> QED BY <1>2, <1>3, <2>1, Kinds DEF ClaimTranscription
<1> QED BY <1>2, <1>3, Kinds DEF ClaimCoordinator, ClaimChild

LEMMA ReportsOrganized ==
    ASSUME PostInv, CoordinatorAnswers, NEW r \in run, Report(r)
    PROVE  CoordinatorAnswers' /\ CompletesOrganized
<1>1. job \in [Job -> Row] /\ answer' = answer
  BY DEF PostInv, TypeOK, Report, SucceedTranscription, FailTranscription, CancelTranscription,
         SourceNotReady, FinishCoordinator, SucceedChild, FailChild, FinishChild, DiscardLate, class
<1>2. CASE SucceedTranscription(r)
  <2>1. job' = Requeued([job EXCEPT ![Transcription] = Ended(@, "SUCCEEDED", FALSE)])
        /\ session' = session
    BY <1>2 DEF SucceedTranscription
  <2>2. CASE session = "COMPLETED"
    BY <2>1, <2>2 DEF CoordinatorAnswers, CompletesOrganized
  <2>3. CASE session # "COMPLETED"
    <3>1. job' = [job EXCEPT ![Transcription] = Ended(@, "SUCCEEDED", FALSE)]
      BY <2>1, <2>3 DEF Requeued
    <3> QED BY <1>1, <2>1, <3>1, RowsStay, Kinds
  <2> QED BY <2>2, <2>3
<1>3. CASE FailTranscription(r) \/ CancelTranscription(r) \/ DiscardLate(r)
  <2>1. session' = session
        /\ (job' = job \/ \E x : job' = [job EXCEPT ![Transcription] = x])
    BY <1>3 DEF FailTranscription, CancelTranscription, DiscardLate
  <2> QED BY <1>1, <2>1, RowsStay, Kinds
<1>4. CASE SourceNotReady(r)
  <2>1. session' = session /\ job' = [job EXCEPT ![Coordinator] = Ended(@, "FAILED", TRUE)]
    BY <1>4 DEF SourceNotReady
  <2>2. GaveUp(job'[Coordinator]) /\ job'[Organization] = job[Organization]
    BY <1>1, <2>1, Kinds DEF GaveUp, Ended, Row
  <2> QED BY <1>1, <2>1, <2>2, RowsStay
<1>5. CASE FinishCoordinator(r)
  <2>1. session # "LIVE" /\ GoodRows(job)
    BY HasEnded, RowsAreGood
  <2>2. PICK source \in Target \cup {LIVE} :
            job' = [WithSummary(WithOrganization(job, source), SummarySource)
                       EXCEPT ![Coordinator] = Ended(@, "SUCCEEDED", FALSE)]
    BY <1>5 DEF FinishCoordinator
  <2> DEFINE rows == WithOrganization(job, source)
  <2>3. GoodRows(rows)
    BY <2>1, WithOrganizationKeeps
  <2>4. answer = "COMPLETED" => rows[Organization].status # "ABSENT"
    BY <1>1, Kinds DEF WithOrganization, NewRow
  <2> HIDE DEF rows
  <2>5. GoodRows(WithSummary(rows, SummarySource))
        /\ WithSummary(rows, SummarySource)[Organization] = rows[Organization]
    BY <2>1, <2>3, WithSummaryKeeps, Kinds
  <2>6. job'[Organization] = rows[Organization]
    <3>1. WithSummary(rows, SummarySource) \in [Job -> Row]
          /\ job' = [WithSummary(rows, SummarySource)
                        EXCEPT ![Coordinator] = Ended(@, "SUCCEEDED", FALSE)]
      BY <2>2, <2>5 DEF rows, GoodRows
    <3> QED BY <2>5, <3>1, Kinds
  <2> QED BY <1>1, <2>4, <2>6 DEF CoordinatorAnswers, CompletesOrganized
<1>6. ASSUME NEW st \in {"SUCCEEDED", "FAILED"}, NEW b \in BOOLEAN, FinishChild(r, st, b)
      PROVE  CoordinatorAnswers' /\ CompletesOrganized
  <2>1. r.job \in Children /\ job[r.job].status = "RUNNING" /\ EvaluateCompletion
        /\ job' = [job EXCEPT ![r.job] = Ended(@, st, b)]
    BY <1>6 DEF FinishChild, IsCurrent
  <2>2. job'[Coordinator] = job[Coordinator]
    BY <1>1, <2>1, Kinds
  <2>3. job'[Organization].status = "ABSENT" => job[Organization].status = "ABSENT"
    <3>1. r.job \in Job /\ job[r.job] \in Row /\ st \in Status
      BY <1>1, <2>1, Kinds DEF Status
    <3>2. Ended(job[r.job], st, b).status # "ABSENT"
      BY <3>1, EndedType
    <3> QED BY <1>1, <2>1, <3>1, <3>2, Kinds
  <2>4. session' \in {session, "COMPLETED"}
        /\ (session' # session => session = "PROCESSING" /\ job'[Coordinator].status \notin Active)
    BY <2>1, CompletionMoves, CompletionEndsRows
  <2> QED BY <1>1, <2>2, <2>3, <2>4, RowsStay
<1>7. CASE SucceedChild(r) \/ FailChild(r)
  BY <1>6, <1>7 DEF SucceedChild, FailChild
<1> QED BY <1>2, <1>3, <1>4, <1>5, <1>7 DEF Report

LEMMA RetryOrganized ==
    ASSUME PostInv, CoordinatorAnswers, NEW j \in Job, Retry(j)
    PROVE  CoordinatorAnswers' /\ CompletesOrganized
<1>1. /\ job \in [Job -> Row] /\ UNCHANGED <<session, answer>>
      /\ job' = [job EXCEPT ![j] = NextAttempt(@)]
  BY DEF PostInv, TypeOK, Retry, class
<1>2. \A k \in Job : job'[k] = job[k] \/ job'[k].status = "PENDING"
  BY <1>1 DEF NextAttempt
<1> QED BY <1>1, <1>2, RowsStay, Kinds DEF Active

LEMMA WatchdogOrganized ==
    ASSUME PostInv, CoordinatorAnswers, Watchdog
    PROVE  CoordinatorAnswers' /\ CompletesOrganized
<1>1. job \in [Job -> Row] /\ job' = [j \in Job |-> TimedOut(j)] /\ answer' = answer
  BY DEF PostInv, TypeOK, Watchdog, class
<1>2. job'[Organization] = TimedOut(Organization) /\ job[Organization] \in Row
  BY <1>1, Kinds
<1>3. answer = "COMPLETED" => job'[Organization].status # "ABSENT"
  BY <1>2 DEF TimedOut, Ended, NewRow, Row, IsActive
<1> QED BY <1>1, <1>3 DEF CoordinatorAnswers, CompletesOrganized

LEMMA StepOrganizes ==
    ASSUME PostInv, CoordinatorAnswers, [Next]_vars
    PROVE  CoordinatorAnswers' /\ CompletesOrganized
<1>1. CASE ClassNext \/ UploadNext \/ DeadlinePasses \/ UNCHANGED vars
  BY <1>1, ClassOrganized
<1>2. CASE WorkerNext
  <2>1. CASE ScheduleMissingSummary
    BY <2>1 DEF ScheduleMissingSummary, CoordinatorAnswers, CompletesOrganized
  <2> QED BY <1>2, <2>1, ClaimsOrganized, ReportsOrganized DEF WorkerNext
<1>3. CASE Watchdog
  BY <1>3, WatchdogOrganized
<1>4. CASE \E j \in Job : Retry(j)
  BY <1>4, RetryOrganized
<1> QED BY <1>1, <1>2, <1>3, <1>4 DEF Next

(* Whoever ends last in PROCESSING, the Session completes with a row for    *)
(* every voice answer, unless its coordinator gave up on a source that was  *)
(* uploaded again (evaluate_session_completion, _finish_coordinator,        *)
(* _force_timeout).                                                         *)
THEOREM CompletionOrganizes == Spec => OrganizedAtCompletion
<1>1. Init => CoordinatorAnswers
  BY DEF Init, CoordinatorAnswers
<1>2. PostInv /\ CoordinatorAnswers /\ [Next]_vars => CoordinatorAnswers'
  BY StepOrganizes
<1>3. ASSUME PostInv, CoordinatorAnswers, [Next]_vars
      PROVE  [session # "COMPLETED" /\ session' = "COMPLETED" /\ answer = "COMPLETED"
                 /\ job'[Organization].status = "ABSENT"
              => job[Coordinator].status = "FAILED" /\ job[Coordinator].retryable]_vars
  BY <1>3, StepOrganizes DEF CompletesOrganized, GaveUp
<1> QED BY <1>1, <1>2, <1>3, PostprocessingInvariant, PTL DEF Spec, OrganizedAtCompletion

-----------------------------------------------------------------------------
(* Every row but the coordinator's is a job of the ledger *)

(* What a step may make of row a: its active attempt ends or goes on, the  *)
(* next one is opened, or the watchdog records one that never was.         *)
Moves(a, b) ==
    \/ /\ b.attempt = a.attempt
       /\ b.status = a.status \/ (a.status \in Active /\ b.status # "ABSENT")
    \/ /\ b.attempt = a.attempt + 1
       /\ a.status \in {"ABSENT", "FAILED"} /\ b.status = "PENDING"
    \/ a.status = "ABSENT" /\ b.status = "FAILED" /\ b.attempt = 1

LEMMA RowStays == ASSUME NEW a, NEW b, b = a PROVE Moves(a, b)
BY DEF Moves

LEMMA OneMoves ==
    ASSUME PostInv, NEW k \in Job, NEW x, job' = [job EXCEPT ![k] = x],
           Moves(job[k], x), NEW j \in Job
    PROVE  Moves(job[j], job'[j])
<1>1. job \in [Job -> Row]
  BY DEF PostInv, TypeOK
<1>2. job'[j] = IF j = k THEN x ELSE job[j]
  BY <1>1
<1> QED BY <1>2, RowStays

LEMMA EndMoves ==
    ASSUME NEW a \in Row, a.status \in Active, NEW st \in {"SUCCEEDED", "FAILED", "CANCELLED"},
           NEW b \in BOOLEAN
    PROVE  Moves(a, Ended(a, st, b))
<1>1. Ended(a, st, b).status = st /\ Ended(a, st, b).attempt = a.attempt
  BY EndedType DEF Status
<1> QED BY <1>1 DEF Moves

LEMMA NewRowMoves ==
    ASSUME NEW a, a.status = "ABSENT", a.attempt = 0,
           NEW b \in BOOLEAN, NEW s \in Source
    PROVE  Moves(a, NewRow("PENDING", b, s)) /\ Moves(a, NewRow("FAILED", b, s))
<1>1. "PENDING" \in Status /\ "FAILED" \in Status
  BY DEF Status, Active
<1>2. /\ NewRow("PENDING", b, s).status = "PENDING" /\ NewRow("PENDING", b, s).attempt = 1
      /\ NewRow("FAILED", b, s).status = "FAILED" /\ NewRow("FAILED", b, s).attempt = 1
  BY <1>1, NewRowType
<1> QED BY <1>2 DEF Moves

LEMMA StartMoves ==
    ASSUME PostInv, NEW k \in Job, NEW late, job[k].status = "PENDING", Start(k, late),
           NEW j \in Job
    PROVE  Moves(job[j], job'[j])
<1> DEFINE x == [job[k] EXCEPT !.status = "RUNNING"]
<1>1. x.status = "RUNNING" /\ x.attempt = job[k].attempt
  BY StartedType DEF PostInv, TypeOK
<1>2. job' = [job EXCEPT ![k] = x]
  BY DEF Start
<1> HIDE DEF x
<1>3. Moves(job[k], x)
  BY <1>1 DEF Moves, Active
<1> QED BY <1>2, <1>3, OneMoves

LEMMA EndedMoves ==
    ASSUME PostInv, NEW k \in Job, job[k].status \in Active,
           NEW st \in {"SUCCEEDED", "FAILED", "CANCELLED"}, NEW b \in BOOLEAN,
           job' = [job EXCEPT ![k] = Ended(@, st, b)], NEW j \in Job
    PROVE  Moves(job[j], job'[j])
<1>1. job[k] \in Row
  BY DEF PostInv, TypeOK
<1>2. Moves(job[k], Ended(job[k], st, b))
  BY <1>1, EndMoves
<1> QED BY <1>2, OneMoves

LEMMA WithSummaryMoves ==
    ASSUME PostInv, session # "LIVE", NEW rows, rows \in [Job -> Row],
           \A j \in Job : rows[j].status = "ABSENT" => rows[j].attempt = 0, NEW j \in Job
    PROVE  Moves(rows[j], WithSummary(rows, SummarySource)[j])
<1> DEFINE new == \E s \in SummarySource : j = Summary(s) /\ rows[j].status = "ABSENT"
<1>1. \/ WithSummary(rows, SummarySource)[j] = rows[j]
      \/ new /\ WithSummary(rows, SummarySource)[j] = NewRow("PENDING", TRUE, j[2])
  BY DEF WithSummary
<1>2. new => /\ j[2] \in Source /\ rows[j].status = "ABSENT" /\ rows[j].attempt = 0
  BY SummaryNames, SourcesUsable
<1> HIDE DEF new
<1> QED BY <1>1, <1>2, NewRowMoves, RowStays

LEMMA WithOrganizationMoves ==
    ASSUME PostInv, session # "LIVE", NEW source \in Target \cup {LIVE}, NEW j \in Job
    PROVE  Moves(job[j], WithOrganization(job, source)[j])
<1>1. source \in Source
  BY SourcesUsable, Sources
<1>2. job \in [Job -> Row] /\ \A k \in Job : job[k].status = "ABSENT" => job[k].attempt = 0
  BY DEF PostInv, TypeOK, AbsentRows
<1>3. \/ WithOrganization(job, source)[j] = job[j]
      \/ /\ j = Organization /\ job[j].status = "ABSENT"
         /\ WithOrganization(job, source)[j] = NewRow("PENDING", TRUE, source)
  BY <1>2 DEF WithOrganization
<1> QED BY <1>1, <1>2, <1>3, NewRowMoves, RowStays

LEMMA TimedOutMoves ==
    ASSUME PostInv, NEW j \in Job PROVE Moves(job[j], TimedOut(j))
<1>1. job[j] \in Row /\ (job[j].status = "ABSENT" => job[j].attempt = 0)
  BY DEF PostInv, TypeOK, AbsentRows
<1>2. CASE IsActive(j)
  BY <1>1, <1>2, EndMoves DEF TimedOut, IsActive
<1>3. CASE ~IsActive(j)
  BY <1>1, <1>3, NewRowMoves, Sources, RowStays DEF TimedOut
<1> QED BY <1>2, <1>3

LEMMA ReportMoves ==
    ASSUME PostInv, NEW r \in run, Report(r), NEW j \in Job \ {Coordinator}
    PROVE  Moves(job[j], job'[j])
<1>0. session # "LIVE" /\ job \in [Job -> Row] /\ GoodRows(job)
  BY HasEnded, RowsAreGood DEF PostInv, TypeOK
<1>1. CASE SucceedTranscription(r)
  <2> DEFINE rows == [job EXCEPT ![Transcription] = Ended(@, "SUCCEEDED", FALSE)]
  <2>1. job[Transcription].status \in Active /\ job' = Requeued(rows)
    BY <1>1 DEF SucceedTranscription, IsCurrent, Active
  <2>2. rows[j] = (IF j = Transcription THEN Ended(job[j], "SUCCEEDED", FALSE) ELSE job[j])
        /\ DOMAIN rows = Job
    BY <1>0
  <2>3. Moves(job[j], rows[j])
    <3>1. CASE j = Transcription
      <4>1. job[j] \in Row /\ job[j].status \in Active
        BY <1>0, <2>1, <3>1
      <4>2. Moves(job[j], Ended(job[j], "SUCCEEDED", FALSE))
        BY <4>1, EndMoves
      <4> QED BY <2>2, <3>1, <4>2
    <3>2. CASE j # Transcription
      BY <2>2, <3>2, RowStays
    <3> QED BY <3>1, <3>2
  <2> HIDE DEF rows
  <2>4. job'[j] = rows[j]
    BY <2>1, <2>2 DEF Requeued
  <2> QED BY <2>3, <2>4
<1>2. CASE FailTranscription(r)
  <2>1. /\ job[Transcription].status \in Active /\ Transcription \in Job
        /\ \E b \in BOOLEAN : job' = [job EXCEPT ![Transcription] = Ended(@, "FAILED", b)]
    BY <1>2, Kinds DEF FailTranscription, IsCurrent, Active
  <2> QED BY <2>1, EndedMoves
<1>3. CASE CancelTranscription(r)
  BY <1>3, Kinds, EndedMoves, RowStays DEF CancelTranscription, IsActive
<1>4. CASE SourceNotReady(r)
  <2>1. job' = [job EXCEPT ![Coordinator] = Ended(@, "FAILED", TRUE)]
    BY <1>4 DEF SourceNotReady
  <2>2. job'[j] = job[j]
    BY <1>0, <2>1
  <2> QED BY <2>2, RowStays
<1>5. CASE FinishCoordinator(r)
  <2>1. PICK source \in Target \cup {LIVE} :
            job' = [WithSummary(WithOrganization(job, source), SummarySource)
                       EXCEPT ![Coordinator] = Ended(@, "SUCCEEDED", FALSE)]
    BY <1>5 DEF FinishCoordinator
  <2> DEFINE given == WithOrganization(job, source)
             rows == WithSummary(given, SummarySource)
  <2>2. GoodRows(given) /\ Moves(job[j], given[j])
        /\ \A k \in Job : k # Organization => given[k] = job[k]
    BY <1>0, WithOrganizationKeeps, WithOrganizationMoves
  <2>3. job' = [rows EXCEPT ![Coordinator] = Ended(@, "SUCCEEDED", FALSE)]
    BY <2>1
  <2> HIDE DEF given
  <2>4. GoodRows(rows) /\ Moves(given[j], rows[j])
        /\ \A k \in Job : k \notin Summaries => rows[k] = given[k]
    <3>1. given \in [Job -> Row] /\ \A k \in Job : given[k].status = "ABSENT" => given[k].attempt = 0
      BY <2>2 DEF GoodRows
    <3> QED BY <1>0, <2>2, <3>1, WithSummaryKeeps, WithSummaryMoves
  <2> HIDE DEF rows
  <2>5. job'[j] = rows[j]
    BY <2>3, <2>4 DEF GoodRows
  <2>6. CASE j = Organization
    BY <2>2, <2>4, <2>5, <2>6, Kinds
  <2>7. CASE j # Organization
    BY <2>2, <2>4, <2>5, <2>7
  <2> QED BY <2>6, <2>7
<1>6. ASSUME NEW st \in {"SUCCEEDED", "FAILED"}, NEW b \in BOOLEAN, FinishChild(r, st, b)
      PROVE  Moves(job[j], job'[j])
  <2>1. r.job \in Job /\ job[r.job].status \in Active
        /\ job' = [job EXCEPT ![r.job] = Ended(@, st, b)]
    BY <1>6, Kinds DEF FinishChild, IsCurrent, Active
  <2> QED BY <2>1, EndedMoves
<1>7. CASE SucceedChild(r) \/ FailChild(r)
  BY <1>6, <1>7 DEF SucceedChild, FailChild
<1>8. CASE DiscardLate(r)
  BY <1>8, RowStays DEF DiscardLate
<1> QED BY <1>1, <1>2, <1>3, <1>4, <1>5, <1>7, <1>8 DEF Report

LEMMA RowsMoved ==
    ASSUME PostInv, Next, NEW j \in Job \ {Coordinator} PROVE Moves(job[j], job'[j])
<1>0. job \in [Job -> Row] /\ \A k \in Job : job[k].status = "ABSENT" => job[k].attempt = 0
  BY DEF PostInv, TypeOK, AbsentRows
<1>1. CASE ClassNext
  <2>1. CASE End
    <3>1. session = "LIVE" /\ job[j].status = "ABSENT"
      BY <2>1 DEF End, PostInv, ClassRunning
    <3>2. \/ job'[j] = job[j]
          \/ job'[j] = NewRow("PENDING", TRUE, LIVE)
      BY <1>0, <2>1 DEF End
    <3> QED BY <1>0, <3>1, <3>2, NewRowMoves, RowStays, Sources
  <2>2. CASE ~End
    <3>1. job' = job
      BY <1>1, <2>2
         DEF ClassNext, ClaimPublisher, PersistFinal, AskQuestion, StartAnswer, CancelAnswer,
             CompleteAnswer
    <3> QED BY <3>1, RowStays
  <2> QED BY <2>1, <2>2
<1>2. CASE UploadNext
  <2>1. CASE CompleteUpload
    <3>1. /\ job' = [job EXCEPT ![Transcription] = NewRow("PENDING", FALSE, LIVE)]
          /\ recording = "UPLOADING"
      BY <2>1 DEF CompleteUpload, Recording
    <3>2. job[Transcription].status = "ABSENT" /\ job[Transcription].attempt = 0
      BY <1>0, <3>1, Kinds DEF PostInv, VersionFollowsJob
    <3>3. Moves(job[Transcription], NewRow("PENDING", FALSE, LIVE))
      BY <3>2, NewRowMoves, Sources
    <3> QED BY <3>1, <3>3, OneMoves, Kinds
  <2>2. CASE ~CompleteUpload
    <3>1. job' = job
      BY <1>2, <2>2 DEF UploadNext, AbandonLocalUpload, CreateUpload, ExpireUpload
    <3> QED BY <3>1, RowStays
  <2> QED BY <2>1, <2>2
<1>3. CASE WorkerNext
  <2>1. CASE ClaimTranscription
    <3>1. job[Transcription].status = "PENDING" /\ Transcription \in Job
      BY <2>1, Kinds DEF ClaimTranscription
    <3>2. CASE Start(Transcription, TranscriptionIsLate)
      BY <3>1, <3>2, StartMoves
    <3>3. CASE job' = [job EXCEPT ![Transcription] = Ended(@, "CANCELLED", FALSE)]
      BY <3>1, <3>3, EndedMoves DEF Active
    <3> QED BY <2>1, <3>2, <3>3 DEF ClaimTranscription
  <2>2. CASE ClaimCoordinator
    BY <2>2, StartMoves, Kinds DEF ClaimCoordinator
  <2>3. ASSUME NEW k \in Children, ClaimChild(k) PROVE Moves(job[j], job'[j])
    BY <2>3, StartMoves, Kinds DEF ClaimChild
  <2>4. ASSUME NEW r \in run, Report(r) PROVE Moves(job[j], job'[j])
    BY <2>4, ReportMoves
  <2>5. CASE ScheduleMissingSummary
    <3>1. session # "LIVE" /\ job' = WithSummary(job, SummarySource)
      BY <2>5 DEF ScheduleMissingSummary
    <3> QED BY <1>0, <3>1, WithSummaryMoves
  <2> QED BY <1>3, <2>1, <2>2, <2>3, <2>4, <2>5 DEF WorkerNext
<1>4. ASSUME NEW k \in Job, Retry(k) PROVE Moves(job[j], job'[j])
  <2>1. job[k].status = "FAILED" /\ job' = [job EXCEPT ![k] = NextAttempt(@)]
    BY <1>4 DEF Retry
  <2>2. NextAttempt(job[k]).status = "PENDING" /\ NextAttempt(job[k]).attempt = job[k].attempt + 1
    BY <1>0, NextAttemptType
  <2>3. Moves(job[k], NextAttempt(job[k]))
    BY <2>1, <2>2 DEF Moves
  <2> QED BY <2>1, <2>3, OneMoves
<1>5. CASE Watchdog
  <2>1. job'[j] = TimedOut(j)
    BY <1>5 DEF Watchdog
  <2> QED BY <2>1, TimedOutMoves
<1>6. CASE DeadlinePasses
  BY <1>6, RowStays DEF DeadlinePasses
<1> QED BY <1>1, <1>2, <1>3, <1>4, <1>5, <1>6 DEF Next

(* Such a step is one of the contract's, or leaves the job as it was. *)
LEMMA RowContract ==
    ASSUME TypeOK, TypeOK', AbsentRows, NEW j \in Job, Moves(job[j], job'[j])
    PROVE  [Outcome(j)!Next]_(Outcome(j)!vars)
<1>1. /\ AttemptOf(j) = job[j].attempt /\ AttemptOf(j)' = job'[j].attempt
      /\ PhaseOf(j) = IF job[j].status = "ABSENT" THEN "none"
                      ELSE IF job[j].status \in Active THEN "open" ELSE "settled"
      /\ PhaseOf(j)' = IF job'[j].status = "ABSENT" THEN "none"
                       ELSE IF job'[j].status \in Active THEN "open" ELSE "settled"
      /\ ResultOf(j) = IF job[j].status = "SUCCEEDED" THEN {<<j, job[j].attempt>>} ELSE {}
      /\ ResultOf(j)' = IF job'[j].status = "SUCCEEDED" THEN {<<j, job'[j].attempt>>} ELSE {}
  BY DEF AttemptOf, PhaseOf, ResultOf, IsActive
<1>2. /\ job[j].status \in Status /\ job'[j].status \in Status
      /\ job[j].attempt \in Nat /\ (job[j].status = "ABSENT" => job[j].attempt = 0)
  BY DEF TypeOK, AbsentRows, Row
<1>3. ASSUME AttemptOf(j)' = AttemptOf(j), PhaseOf(j)' = PhaseOf(j), ResultOf(j)' = ResultOf(j)
      PROVE  UNCHANGED Outcome(j)!vars
  BY <1>3 DEF Outcome!vars
<1>4. CASE /\ job'[j].attempt = job[j].attempt
           /\ \/ job'[j].status = job[j].status
              \/ job[j].status \in Active /\ job'[j].status \in Active
  BY <1>1, <1>3, <1>4 DEF Active
<1>5. CASE /\ job'[j].attempt = job[j].attempt
           /\ job[j].status \in Active /\ job'[j].status = "SUCCEEDED"
  <2>1. Outcome(j)!Deliver(j)
    BY <1>1, <1>5 DEF Outcome!Deliver, Active
  <2> QED BY <2>1 DEF Outcome!Next
<1>6. CASE /\ job'[j].attempt = job[j].attempt
           /\ job[j].status \in Active /\ job'[j].status \in {"FAILED", "CANCELLED"}
  <2>1. Outcome(j)!Abandon({j}, {})
    BY <1>1, <1>6 DEF Outcome!Abandon, Active
  <2> QED BY <2>1 DEF Outcome!Next
<1>7. CASE /\ job'[j].attempt = job[j].attempt + 1
           /\ job[j].status \in {"ABSENT", "FAILED"} /\ job'[j].status = "PENDING"
  <2>1. Outcome(j)!Open(j)
    BY <1>1, <1>7 DEF Outcome!Open, Active
  <2> QED BY <2>1 DEF Outcome!Next
<1>8. CASE job[j].status = "ABSENT" /\ job'[j].status = "FAILED" /\ job'[j].attempt = 1
  <2>1. Outcome(j)!Abandon({}, {j})
    BY <1>1, <1>8 DEF Outcome!Abandon, Active
  <2> QED BY <2>1 DEF Outcome!Next
<1> QED BY <1>2, <1>4, <1>5, <1>6, <1>7, <1>8 DEF Moves, Status, Active

(* Every row of a Session but its coordinator's keeps the contract of the  *)
(* ledger's jobs, whoever moves it: uploads, workers that finish late,     *)
(* retries, and a watchdog that ends or invents rows.  The coordinator is  *)
(* left out because its earlier results are not in the state.              *)
THEOREM JobsKeepContract == ASSUME NEW j \in Job \ {Coordinator} PROVE Spec => JobKeepsContract(j)
<1>1. Init => Outcome(j)!Init
  BY DEF Init, NoRow, Outcome!Init, AttemptOf, PhaseOf, ResultOf
<1>2. PostInv /\ PostInv' /\ [Next]_vars => [Outcome(j)!Next]_(Outcome(j)!vars)
  <2> SUFFICES ASSUME PostInv, PostInv', Next \/ UNCHANGED vars
               PROVE  [Outcome(j)!Next]_(Outcome(j)!vars)
    OBVIOUS
  <2>1. Moves(job[j], job'[j])
    BY RowsMoved, RowStays DEF vars
  <2> QED BY <2>1, RowContract DEF PostInv
<1> QED BY <1>1, <1>2, PostprocessingInvariant, PTL DEF Spec, JobKeepsContract, Outcome!Spec

-----------------------------------------------------------------------------
(* The steps that liveness rests on *)

LEMMA WatchdogEndsSession == ASSUME PostInv, Watchdog PROVE session' = "COMPLETED"
<1>1. /\ session = "PROCESSING" /\ job \in [Job -> Row] /\ job' = [j \in Job |-> TimedOut(j)]
      /\ hq \in Seq(VersionStatus)
  BY DEF Watchdog, PostInv, TypeOK
<1>2. ASSUME NEW j \in Job PROVE job'[j].status \notin Active
  <2>1. job[j] \in Row /\ job'[j] = TimedOut(j)
    BY <1>1
  <2>2. CASE IsActive(j)
    <3>1. TimedOut(j).status = "FAILED"
      BY <2>1, <2>2 DEF TimedOut, Ended, Row
    <3> QED BY <2>1, <3>1 DEF Active
  <2>3. CASE ~IsActive(j)
    <3>1. TimedOut(j) = job[j] \/ TimedOut(j).status = "FAILED"
      BY <2>3 DEF TimedOut, NewRow
    <3> QED BY <2>1, <2>3, <3>1 DEF IsActive, Active
  <2> QED BY <2>2, <2>3
<1>3. GateTerminal(recording', live', hq')
  <2>1. CASE recording = "none"
    <3>1. recording' = "none" /\ live' = live
      BY <1>1, <2>1 DEF Watchdog, PostInv, ClassEnded
    <3>2. live \in Ready
      BY <1>1 DEF PostInv, ClassEnded, Ready
    <3> QED BY <3>1, <3>2 DEF GateTerminal
  <2>2. CASE recording = "UPLOADED"
    <3>1. hq # <<>> /\ recording' = "UPLOADED" /\ hq' = Terminalized(hq)
      BY <2>2 DEF Watchdog, PostInv, VersionsOfUpload
    <3>2. Len(hq) \in 1 .. Len(hq) /\ hq[Len(hq)] \in VersionStatus
      BY <1>1, <3>1
    <3>3. /\ Terminalized(hq)[Len(hq)] \in Ready /\ Len(Terminalized(hq)) = Len(hq)
          /\ Terminalized(hq) # <<>>
      BY <1>1, <3>2, TerminalizedVersions DEF VersionStatus, Ready
    <3> QED BY <3>1, <3>3 DEF GateTerminal
  <2>3. CASE recording \notin {"none", "UPLOADED"}
    BY <2>3 DEF Watchdog, GateTerminal
  <2> QED BY <2>1, <2>2, <2>3
<1> QED BY <1>1, <1>2, <1>3 DEF Watchdog, EvaluateCompletion

LEMMA DeadlineStaysPassed ==
    ASSUME [Next]_vars, overdue
    PROVE  overdue'
<1>1. ASSUME NEW r \in run, Report(r) PROVE overdue' = overdue
  BY <1>1 DEF Report, SucceedTranscription, FailTranscription, CancelTranscription,
     SourceNotReady, FinishCoordinator, SucceedChild, FailChild, FinishChild, DiscardLate
<1>2. CASE WorkerNext
  BY <1>1, <1>2 DEF WorkerNext, ClaimTranscription, ClaimCoordinator, ClaimChild,
     ScheduleMissingSummary
<1>3. CASE ClassNext \/ UploadNext
  BY <1>3 DEF ClassNext, ClaimPublisher, PersistFinal, AskQuestion, StartAnswer, CancelAnswer,
     CompleteAnswer, End, UploadNext, AbandonLocalUpload, CreateUpload, ExpireUpload,
     CompleteUpload, Recording
<1>4. CASE DeadlinePasses \/ Watchdog \/ UNCHANGED vars \/ \E j \in Job : Retry(j)
  BY <1>4 DEF DeadlinePasses, Watchdog, vars, Retry
<1> QED BY <1>2, <1>3, <1>4 DEF Next

(* From any reachable state of PROCESSING one pass of the watchdog          *)
(* completes the Session, and once it may pass it may for ever              *)
(* (run_watchdog_once, _force_timeout).                                     *)
THEOREM OnePassCompletes == Spec => WatchdogCompletes
<1>1. PostInv /\ [Next]_vars => (Watchdog => session' = "COMPLETED") /\ (overdue => overdue')
  BY WatchdogEndsSession, DeadlineStaysPassed
<1> QED BY <1>1, PostprocessingInvariant, PTL DEF Spec, WatchdogCompletes

-----------------------------------------------------------------------------
(* The HQ transcript that became canonical *)

CanonicalLatest ==
    canonical # LIVE => canonical = Len(hq) /\ job[Transcription].status = "SUCCEEDED"

LEMMA LatestFacts ==
    ASSUME PostInv, CanonicalLatest, canonical # LIVE
    PROVE  /\ session # "LIVE" /\ recording = "UPLOADED" /\ hq # <<>>
           /\ hq \in Seq(VersionStatus) /\ Len(hq) \in 1 .. Len(hq)
           /\ hq[Len(hq)] \in {"FINALIZED", "EMPTY"} /\ canonical = Len(hq)
           /\ job[Transcription].status = "SUCCEEDED"
<1>1. hq \in Seq(VersionStatus) /\ canonical \in 0 .. Len(hq) /\ canonical = Len(hq)
      /\ job[Transcription].status = "SUCCEEDED"
  BY DEF CanonicalLatest, PostInv, TypeOK
<1>2. Len(hq) \in 1 .. Len(hq) /\ hq # <<>>
  BY <1>1 DEF LIVE
<1> QED BY <1>1, <1>2 DEF PostInv, VersionsOfUpload, CanonicalReadable, ClassRunning

LEMMA LatestStays ==
    ASSUME PostInv, CanonicalLatest, [Next]_vars, canonical # LIVE
    PROVE  UNCHANGED <<recording, hq, canonical>>
<1>1. /\ session # "LIVE" /\ recording = "UPLOADED" /\ hq # <<>>
      /\ hq \in Seq(VersionStatus) /\ Len(hq) \in 1 .. Len(hq)
      /\ hq[Len(hq)] \in {"FINALIZED", "EMPTY"}
      /\ job[Transcription].status = "SUCCEEDED"
  BY LatestFacts
<1>2. CASE ClassNext \/ UploadNext
  BY <1>1, <1>2
     DEF ClassNext, ClaimPublisher, PersistFinal, AskQuestion, StartAnswer, CancelAnswer,
         CompleteAnswer, End, UploadNext, AbandonLocalUpload, CreateUpload, ExpireUpload,
         CompleteUpload, Recording, transcripts
<1>3. ASSUME NEW r \in run, Report(r) PROVE UNCHANGED <<recording, hq, canonical>>
  <2>1. ~SucceedTranscription(r) /\ ~FailTranscription(r)
    BY <1>1 DEF SucceedTranscription, FailTranscription, IsCurrent
  <2> QED BY <1>3, <2>1
        DEF Report, CancelTranscription, SourceNotReady, FinishCoordinator, SucceedChild,
            FailChild, FinishChild, DiscardLate
<1>4. CASE WorkerNext
  BY <1>3, <1>4 DEF WorkerNext, ClaimTranscription, ClaimCoordinator, ClaimChild,
     ScheduleMissingSummary
<1>5. ASSUME NEW j \in Job, Retry(j) PROVE UNCHANGED <<recording, hq, canonical>>
  <2>1. j # Transcription
    BY <1>1, <1>5 DEF Retry
  <2> QED BY <1>5, <2>1 DEF Retry
<1>6. CASE Watchdog
  <2>1. recording' = recording /\ canonical' = canonical /\ hq' = Terminalized(hq)
    BY <1>1, <1>6 DEF Watchdog
  <2>2. Terminalized(hq) = [a \in DOMAIN hq |-> hq[a]]
    BY <1>1 DEF Terminalized
  <2>3. hq = [a \in DOMAIN hq |-> hq[a]]
    BY <1>1
  <2> QED BY <2>1, <2>2, <2>3
<1>7. CASE DeadlinePasses \/ UNCHANGED vars
  BY <1>7 DEF DeadlinePasses, vars
<1> QED BY <1>2, <1>4, <1>5, <1>6, <1>7 DEF Next

LEMMA LatestNext ==
    ASSUME PostInv, CanonicalLatest, [Next]_vars
    PROVE  CanonicalLatest'
<1>1. CASE canonical # LIVE
  <2>1. UNCHANGED <<hq, canonical>> /\ canonical = Len(hq)
    BY <1>1, LatestStays, LatestFacts
  <2>2. Moves(job[Transcription], job'[Transcription])
    <3>1. Transcription \in Job \ {Coordinator}
      BY Kinds
    <3> QED BY <3>1, RowsMoved, RowStays DEF vars
  <2>3. job'[Transcription].status = "SUCCEEDED"
    BY <1>1, <2>2, LatestFacts DEF Moves, Active
  <2> QED BY <2>1, <2>3 DEF CanonicalLatest
<1>2. CASE canonical = LIVE /\ canonical' # LIVE
  <2>1. PICK r \in run : SucceedTranscription(r)
    BY <1>2
       DEF Next, vars, ClassNext, ClaimPublisher, PersistFinal, AskQuestion, StartAnswer,
           CancelAnswer, CompleteAnswer, End, UploadNext, AbandonLocalUpload, CreateUpload,
           ExpireUpload, CompleteUpload, Recording, transcripts, WorkerNext, ClaimTranscription,
           ClaimCoordinator, ClaimChild, ScheduleMissingSummary, Report, FailTranscription,
           CancelTranscription, SourceNotReady, FinishCoordinator, SucceedChild, FailChild,
           FinishChild, DiscardLate, Retry, DeadlinePasses, Watchdog
  <2>2. /\ r.job = Transcription /\ job[Transcription].attempt = r.attempt
        /\ job[Transcription] \in Row /\ job \in [Job -> Row]
        /\ hq \in Seq(VersionStatus) /\ r.attempt = Len(hq)
    BY <2>1, Kinds DEF SucceedTranscription, IsCurrent, PostInv, TypeOK, VersionFollowsJob
  <2>3. canonical' = r.attempt /\ Len(hq') = Len(hq)
    BY <2>1, <2>2 DEF SucceedTranscription
  <2> DEFINE rows == [job EXCEPT ![Transcription] = Ended(@, "SUCCEEDED", FALSE)]
  <2>4. rows[Transcription].status = "SUCCEEDED"
    BY <2>2, Kinds DEF Ended, Row
  <2>5. job' = Requeued(rows)
    BY <2>1 DEF SucceedTranscription
  <2> HIDE DEF rows
  <2>6. job'[Transcription].status = "SUCCEEDED"
    BY <2>4, <2>5, Kinds DEF Requeued
  <2> QED BY <2>2, <2>3, <2>6 DEF CanonicalLatest
<1>3. CASE canonical' = LIVE
  BY <1>3 DEF CanonicalLatest
<1> QED BY <1>1, <1>2, <1>3

LEMMA LatestInvariant == Spec => []CanonicalLatest
<1>1. Init => CanonicalLatest
  BY DEF Init, CanonicalLatest
<1>2. PostInv /\ CanonicalLatest /\ [Next]_vars => CanonicalLatest'
  BY LatestNext
<1> QED BY <1>1, <1>2, PostprocessingInvariant, PTL DEF Spec

(* Once an HQ transcript is canonical neither an upload, a retry, the       *)
(* watchdog nor a late run brings another version or takes it away, so that *)
(* what was built from it stays built from the canonical one                *)
(* (_finish_success, JobService.retry, complete_upload).                    *)
THEOREM HqTranscriptIsLast == Spec => CanonicalIsLast
<1>1. PostInv /\ CanonicalLatest /\ [Next]_vars
      => (canonical # LIVE => UNCHANGED <<recording, hq, canonical>>)
  BY LatestStays
<1> QED BY <1>1, PostprocessingInvariant, LatestInvariant, PTL DEF Spec, CanonicalIsLast

LEMMA RecoveryStep ==
    ASSUME PostInv, CanonicalLatest, [Next]_vars, session = "COMPLETED", canonical # LIVE,
           Usable(canonical), IsActive(Coordinator), ~IsActive(Coordinator)'
    PROVE  canonical \in rebuilt'
<1>1. /\ recording = "UPLOADED" /\ hq # <<>> /\ hq \in Seq(VersionStatus)
      /\ canonical = Len(hq) /\ hq[Len(hq)] = "FINALIZED" /\ job \in [Job -> Row]
  BY LatestFacts DEF Usable, VersionOf, PostInv, TypeOK
<1>2. SourceGate /\ Target = {canonical}
  BY <1>1 DEF SourceGate, GateTerminal, Ready, Target
<1>3. job'[Coordinator] # job[Coordinator] /\ job[Coordinator].status \in Active
      /\ job'[Coordinator].status \notin Active
  BY DEF IsActive
<1>4. Coordinator \in Job /\ Coordinator # Transcription /\ Coordinator \notin Children
      /\ Coordinator \notin Summaries
  BY Kinds
<1>5. ASSUME NEW j, job' = [job EXCEPT ![j].status = "RUNNING"]
      PROVE  FALSE
  <2>1. CASE j = Coordinator
    BY <1>1, <1>3, <1>4, <1>5, <2>1 DEF Row, Active
  <2>2. CASE j # Coordinator
    BY <1>1, <1>3, <1>4, <1>5, <2>2
  <2> QED BY <2>1, <2>2
<1>6. ASSUME NEW r \in run, Report(r) PROVE canonical \in rebuilt'
  <2>1. CASE SucceedTranscription(r)
    <3> DEFINE rows == [job EXCEPT ![Transcription] = Ended(@, "SUCCEEDED", FALSE)]
    <3>1. rows[Coordinator] = job[Coordinator] /\ job' = Requeued(rows)
      BY <1>1, <1>4, <2>1 DEF SucceedTranscription
    <3> HIDE DEF rows
    <3> QED BY <1>3, <3>1 DEF Requeued
  <2>2. CASE FailTranscription(r) \/ CancelTranscription(r) \/ DiscardLate(r)
    BY <1>1, <1>3, <1>4, <2>2 DEF FailTranscription, CancelTranscription, DiscardLate
  <2>3. CASE SourceNotReady(r)
    BY <1>2, <2>3 DEF SourceNotReady
  <2>4. CASE FinishCoordinator(r)
    BY <1>2, <2>4 DEF FinishCoordinator
  <2>5. CASE SucceedChild(r) \/ FailChild(r)
    <3>1. r.job # Coordinator
      BY <1>4, <2>5 DEF SucceedChild, FailChild, FinishChild
    <3>2. PICK st \in {"SUCCEEDED", "FAILED"}, b \in BOOLEAN : FinishChild(r, st, b)
      BY <2>5 DEF SucceedChild, FailChild
    <3> QED BY <1>1, <1>3, <1>4, <3>1, <3>2 DEF FinishChild
  <2> QED BY <1>6, <2>1, <2>2, <2>3, <2>4, <2>5 DEF Report
<1>7. CASE WorkerNext
  <2>1. CASE ClaimTranscription
    BY <1>1, <1>3, <1>4, <1>5, <2>1 DEF ClaimTranscription, Start
  <2>2. CASE ClaimCoordinator
    BY <1>5, <2>2 DEF ClaimCoordinator, Start
  <2>3. CASE \E j \in Children : ClaimChild(j)
    BY <1>5, <2>3 DEF ClaimChild, Start
  <2>4. CASE ScheduleMissingSummary
    <3>1. job' = WithSummary(job, SummarySource)
      BY <2>4 DEF ScheduleMissingSummary
    <3>2. \A s \in SummarySource : Coordinator # Summary(s)
      BY DEF Coordinator, Summary
    <3>3. job'[Coordinator] = job[Coordinator]
      BY <1>1, <1>4, <3>1, <3>2 DEF WithSummary
    <3> QED BY <1>3, <3>3
  <2> QED BY <1>6, <1>7, <2>1, <2>2, <2>3, <2>4 DEF WorkerNext
<1>8. ASSUME NEW j \in Job, Retry(j) PROVE FALSE
  <2>1. j # Coordinator
    BY <1>3, <1>8 DEF Retry, Active
  <2> QED BY <1>1, <1>3, <1>4, <1>8, <2>1 DEF Retry
<1>9. CASE ClassNext \/ UploadNext
  BY <1>1, <1>3, <1>4, <1>9
     DEF ClassNext, ClaimPublisher, PersistFinal, AskQuestion, StartAnswer, CancelAnswer,
         CompleteAnswer, End, UploadNext, AbandonLocalUpload, CreateUpload, ExpireUpload,
         CompleteUpload
<1>10. CASE DeadlinePasses \/ Watchdog \/ UNCHANGED vars
  BY <1>3, <1>10 DEF DeadlinePasses, Watchdog, vars
<1> QED BY <1>7, <1>8, <1>9, <1>10 DEF Next

(* A recovery that waits in a COMPLETED Session is never given up: its      *)
(* coordinator stays active until it has mapped the answers to the HQ       *)
(* transcript and asked for the index (requeue_completed_coordinator,       *)
(* _finish_coordinator).                                                    *)
THEOREM RecoveryEndsRebuilt == Spec => RecoveryOnlyRebuilds
<1>1. PostInv /\ CanonicalLatest /\ [Next]_vars
      => (session = "COMPLETED" /\ canonical # LIVE /\ Usable(canonical)
             /\ IsActive(Coordinator) /\ ~IsActive(Coordinator)'
          => canonical \in rebuilt')
  BY RecoveryStep
<1> QED BY <1>1, PostprocessingInvariant, LatestInvariant, PTL DEF Spec, RecoveryOnlyRebuilds

==============================================================================
