------------------------- MODULE KnowledgeIndex_proofs -------------------------
(***************************************************************************)
(* KnowledgeInv is an inductive invariant of KnowledgeIndex, for any       *)
(* materials, pages and texts and any bounds: the index, its unique        *)
(* indexes and the citations of it stay in step with what they are of.     *)
(***************************************************************************)
EXTENDS KnowledgeIndex, FiniteSetTheorems, TLAPS

ClassTyped ==
    /\ session \in {"LIVE", "PROCESSING", "COMPLETED"}
    /\ canonical \in Version /\ coordinator \in BOOLEAN
    /\ segments \in 0 .. MaxSegment /\ crashes \in 0 .. MaxCrash

MaterialsTyped ==
    /\ material \in [Material -> MaterialRow]
    /\ reading \in {{}} \cup {{m} : m \in Material}

AnswerTyped ==
    /\ target \in {"OPEN", "SELECTED", "ANSWERED"}
    /\ answer \in Answer \cup {NoAnswer} /\ answers \in 0 .. MaxAnswer

JobsTyped ==
    /\ jobs \in Seq(Row) /\ Len(jobs) <= MaxJob
    /\ \A i, j \in ActiveJobs : i = j

(* What a worker found is of sources that had no chunks, and only it adds   *)
(* chunks: the answer it read still has none when it stores them.           *)
IndexerFits ==
    /\ indexer \in [at : {"idle", "claimed", "embedded", "failing", "refused"},
                    job : 0 .. MaxJob, attempt : 0 .. MaxAttempt, found : SUBSET Chunk]
    /\ indexer.at # "idle" => indexer.job \in DOMAIN jobs
    /\ \A c \in indexer.found : c.kind = "answer" => OfAnswer(c.of) = {}

ChunksFit ==
    /\ chunks \subseteq Chunk
    /\ \A c, d \in chunks : c # d => ~Conflict(c, d)
    /\ Cited \subseteq chunks
    /\ turn.at \in {"no", "asked", "retrieved", "answered"} /\ turn.chunk \subseteq Chunk
    /\ AnswerChunksOfOneText

(* What the turn retrieved is still stored, or is of an answer that was     *)
(* deleted, and answers do not share identities.                            *)
TurnFits ==
    /\ answer.id <= answers
    /\ \A c \in turn.chunk :
          c \in chunks \/ (c.kind = "answer" /\ c.of # answer.id /\ c.of \in 1 .. answers)

KnowledgeInv ==
    /\ ClassTyped /\ MaterialsTyped /\ AnswerTyped /\ TargetMatchesAnswer
    /\ JobsTyped /\ IndexerFits /\ ChunksFit /\ TurnFits

-----------------------------------------------------------------------------
(* Operators *)

LEMMA Bounds ==
    /\ MaxSegment \in Nat /\ MaxAnswer \in Nat /\ MaxJob \in Nat
    /\ MaxAttempt \in Nat \ {0} /\ MaxCrash \in Nat
BY IndexBounds

LEMMA AnswerRecords ==
    /\ \A f \in Answer : /\ f # NoAnswer /\ f.status \in {"CAPTURING", "COMPLETED"}
                         /\ \A t \in Text \cup {None} : [f EXCEPT !.text = t] \in Answer
                         /\ [f EXCEPT !.status = "COMPLETED"] \in Answer
    /\ NoAnswer.status = "none" /\ NoAnswer.text = None
BY DEF Answer, NoAnswer

LEMMA ChunkKinds ==
    ASSUME NEW c \in Chunk
    PROVE  /\ c.kind \in {"material", "segment", "answer"}
           /\ c.kind = "material" => \E m \in Material : c \in MaterialChunks(m)
           /\ c.kind = "segment" =>
                 \E v \in Version, n \in 1 .. MaxSegment : c = SegmentChunk(v, n)
           /\ c.kind = "answer" => c.of \in 1 .. MaxAnswer
<1>1. CASE \E m \in Material : c \in MaterialChunks(m)
  <2>1. c.kind = "material"
    BY <1>1 DEF MaterialChunks
  <2> QED BY <1>1, <2>1
<1>2. CASE \E v \in Version, n \in 1 .. MaxSegment : c = SegmentChunk(v, n)
  <2>1. c.kind = "segment"
    BY <1>2 DEF SegmentChunk
  <2> QED BY <1>2, <2>1
<1>3. CASE \E a \in 1 .. MaxAnswer, t \in Text : c \in AnswerChunks(a, t)
  <2>1. c.kind = "answer" /\ c.of \in 1 .. MaxAnswer
    BY <1>3 DEF AnswerChunks
  <2> QED BY <2>1
<1> QED BY <1>1, <1>2, <1>3 DEF Chunk

LEMMA ActiveIsOne ==
    ASSUME JobsTyped
    PROVE  Cardinality(ActiveJobs) <= 1
<1>1. CASE ActiveJobs = {}
  BY <1>1, FS_EmptySet
<1>2. CASE ActiveJobs # {}
  <2>1. PICK i \in ActiveJobs : TRUE
    BY <1>2
  <2>2. ActiveJobs = {i}
    BY <2>1 DEF JobsTyped
  <2> QED BY <2>2, FS_Singleton
<1> QED BY <1>1, <1>2

LEMMA TypesFollow == KnowledgeInv => TypeOK
BY ActiveIsOne DEF KnowledgeInv, ClassTyped, MaterialsTyped, AnswerTyped, JobsTyped,
   IndexerFits, ChunksFit, TypeOK

LEMMA NewRowTyped == NewRow \in Row /\ NewRow.status = "PENDING"
BY IndexBounds DEF NewRow, Row, Status, Active

LEMMA EnqueueStep ==
    ASSUME JobsTyped, Enqueue
    PROVE  JobsTyped' /\ DOMAIN jobs \subseteq DOMAIN jobs'
<1>1. CASE UNCHANGED jobs
  BY <1>1 DEF JobsTyped, ActiveJobs
<1>2. CASE ActiveJobs = {} /\ Len(jobs) < MaxJob /\ jobs' = Append(jobs, NewRow)
  <2>1. /\ Len(jobs') = Len(jobs) + 1 /\ jobs' \in Seq(Row) /\ Len(jobs') \in Nat
        /\ Len(jobs) \in Nat /\ DOMAIN jobs = 1 .. Len(jobs) /\ DOMAIN jobs' = 1 .. Len(jobs')
        /\ \A i \in DOMAIN jobs : jobs'[i] = jobs[i]
    BY <1>2, NewRowTyped DEF JobsTyped
  <2>2. ActiveJobs' \subseteq {Len(jobs) + 1}
    BY <1>2, <2>1 DEF ActiveJobs
  <2>3. Len(jobs') <= MaxJob
    BY <1>2, <2>1, IndexBounds
  <2> QED BY <2>1, <2>2, <2>3 DEF JobsTyped
<1> QED BY <1>1, <1>2 DEF Enqueue

(* A row moves; it becomes active only where it was or where none is.       *)
LEMMA RowMoves ==
    ASSUME JobsTyped, NEW j \in DOMAIN jobs, NEW r \in Row, jobs' = [jobs EXCEPT ![j] = r],
           r.status \in Active => jobs[j].status \in Active \/ ActiveJobs = {}
    PROVE  JobsTyped' /\ DOMAIN jobs' = DOMAIN jobs
<1>1. /\ jobs' \in Seq(Row) /\ Len(jobs') = Len(jobs) /\ DOMAIN jobs' = DOMAIN jobs
      /\ \A i \in DOMAIN jobs : jobs'[i] = IF i = j THEN r ELSE jobs[i]
  BY DEF JobsTyped
<1>2. CASE r.status \notin Active
  BY <1>1, <1>2 DEF JobsTyped, ActiveJobs
<1>3. CASE r.status \in Active /\ jobs[j].status \in Active
  BY <1>1, <1>3 DEF JobsTyped, ActiveJobs
<1>4. CASE r.status \in Active /\ ActiveJobs = {}
  BY <1>1, <1>4 DEF JobsTyped, ActiveJobs
<1> QED BY <1>2, <1>3, <1>4

(* Steps that leave the index alone, whatever happens to the rows.          *)
LEMMA IndexStays ==
    ASSUME IndexerFits, ChunksFit, UNCHANGED <<indexer, chunks, turn>>,
           DOMAIN jobs \subseteq DOMAIN jobs'
    PROVE  IndexerFits' /\ ChunksFit'
<1>1. \A a : OfAnswer(a)' = OfAnswer(a)
  BY DEF OfAnswer
<1>2. Cited' = Cited
  BY DEF Cited
<1>3. AnswerChunksOfOneText'
  BY <1>1 DEF ChunksFit, AnswerChunksOfOneText
<1>4. IndexerFits'
  BY <1>1 DEF IndexerFits
<1> QED BY <1>2, <1>3, <1>4 DEF ChunksFit

(* Chunks may only come, and the answer keeps its identity.                 *)
LEMMA TurnStays ==
    ASSUME TurnFits, UNCHANGED <<turn, answer.id, answers>>, chunks \subseteq chunks'
    PROVE  TurnFits'
BY DEF TurnFits

LEMMA InitHolds == Init => KnowledgeInv
<1> SUFFICES ASSUME Init PROVE KnowledgeInv
  OBVIOUS
<1>1. ClassTyped /\ MaterialsTyped
  <2>1. ClassTyped
    <3>1. /\ session = "LIVE" /\ canonical = "LIVE" /\ coordinator = FALSE
          /\ segments = 0 /\ crashes = 0
      BY DEF Init
    <3>2. canonical \in Version
      BY <3>1 DEF Version
    <3>3. coordinator \in BOOLEAN
      BY <3>1
    <3>4. segments \in 0 .. MaxSegment /\ crashes \in 0 .. MaxCrash
      BY <3>1, Bounds
    <3>5. session \in {"LIVE", "PROCESSING", "COMPLETED"}
      BY <3>1
    <3> QED BY ONLY <3>2, <3>3, <3>4, <3>5 DEF ClassTyped
  <2>2. NoMaterial \in MaterialRow
    BY NewRowTyped DEF NoMaterial, MaterialRow
  <2>3. MaterialsTyped
    BY <2>2 DEF Init, MaterialsTyped
  <2> QED BY <2>1, <2>3
<1>2. AnswerTyped /\ TargetMatchesAnswer
  <2>1. answers \in 0 .. MaxAnswer
    BY IndexBounds DEF Init
  <2>2. answer = NoAnswer /\ target = "OPEN"
    BY DEF Init
  <2> QED BY <2>1, <2>2, AnswerRecords DEF AnswerTyped, TargetMatchesAnswer
<1>3. JobsTyped
  BY IndexBounds DEF Init, JobsTyped, ActiveJobs
<1>4. IndexerFits
  BY IndexBounds DEF Init, IndexerFits, Nobody
<1>5. ChunksFit
  BY DEF Init, ChunksFit, Cited, NoTurn, AnswerChunksOfOneText, OfAnswer
<1>6. TurnFits
  BY DEF Init, TurnFits, NoTurn, NoAnswer
<1> QED BY <1>1, <1>2, <1>3, <1>4, <1>5, <1>6 DEF KnowledgeInv

-----------------------------------------------------------------------------
(* The class and its materials *)

LEMMA ClassStep ==
    ASSUME KnowledgeInv, ClassNext
    PROVE  KnowledgeInv'
<1>1. ClassTyped'
  <2>1. CASE PersistFinal
    BY <2>1, IndexBounds DEF KnowledgeInv, ClassTyped, PersistFinal, index
  <2>2. CASE End
    BY <2>2 DEF KnowledgeInv, ClassTyped, End, index
  <2>3. CASE SwitchCanonical
    BY <2>3 DEF KnowledgeInv, ClassTyped, Version, SwitchCanonical, index
  <2>4. CASE FinishCoordinator
    BY <2>4 DEF KnowledgeInv, ClassTyped, FinishCoordinator, index
  <2> QED BY <2>1, <2>2, <2>3, <2>4 DEF ClassNext
<1>2. JobsTyped' /\ DOMAIN jobs \subseteq DOMAIN jobs'
  <2>1. Enqueue \/ UNCHANGED jobs
    BY DEF ClassNext, PersistFinal, End, SwitchCanonical, FinishCoordinator
  <2> QED BY <2>1, EnqueueStep DEF KnowledgeInv, JobsTyped, ActiveJobs
<1>3. UNCHANGED <<material, reading, target, answer, answers, indexer, chunks, turn>>
  BY DEF ClassNext, PersistFinal, End, SwitchCanonical, FinishCoordinator, material_, answer_, index
<1>4. MaterialsTyped' /\ AnswerTyped' /\ TargetMatchesAnswer'
  BY <1>3 DEF KnowledgeInv, MaterialsTyped, AnswerTyped, TargetMatchesAnswer
<1> QED BY <1>1, <1>2, <1>3, <1>4, IndexStays, TurnStays DEF KnowledgeInv

LEMMA MaterialStep ==
    ASSUME KnowledgeInv, NEW m \in Material, MaterialNext(m)
    PROVE  KnowledgeInv'
<1>1. UNCHANGED <<session, canonical, coordinator, segments, crashes, target, answer, answers,
                  indexer, chunks, turn>>
  BY DEF MaterialNext, Upload, Detach, RetryMaterial, ClaimMaterial, FinishSuccess,
     FinishFailure, class, answer_, index
<1>2. ClassTyped' /\ AnswerTyped' /\ TargetMatchesAnswer'
  BY <1>1 DEF KnowledgeInv, ClassTyped, AnswerTyped, TargetMatchesAnswer
<1>3. JobsTyped' /\ DOMAIN jobs \subseteq DOMAIN jobs'
  <2>1. Enqueue \/ UNCHANGED jobs
    BY DEF MaterialNext, Upload, Detach, RetryMaterial, ClaimMaterial, FinishSuccess, FinishFailure
  <2> QED BY <2>1, EnqueueStep DEF KnowledgeInv, JobsTyped, ActiveJobs
<1>4. reading' \in {{}} \cup {{n} : n \in Material}
  BY DEF KnowledgeInv, MaterialsTyped, MaterialNext, Upload, Detach, RetryMaterial,
     ClaimMaterial, FinishSuccess, FinishFailure
<1>5. /\ material[m] \in MaterialRow
      /\ \A f \in MaterialRow : [material EXCEPT ![m] = f] \in [Material -> MaterialRow]
  BY DEF KnowledgeInv, MaterialsTyped
<1>6. ASSUME NEW f \in MaterialRow
      PROVE  /\ \A t \in {"none", "UPLOADED", "PROCESSING", "READY", "FAILED"} :
                   [f EXCEPT !.status = t] \in MaterialRow
             /\ [f EXCEPT !.detached = TRUE] \in MaterialRow
             /\ \A t \in Status : [f EXCEPT !.job.status = t] \in MaterialRow
             /\ \A b \in BOOLEAN : [f EXCEPT !.job.retryable = b] \in MaterialRow
             /\ \A r \in Row : [f EXCEPT !.job = r] \in MaterialRow
  BY DEF MaterialRow, Row
<1>7. material' \in [Material -> MaterialRow]
  <2> DEFINE f == material[m]
  <2>1. CASE Upload(m)
    <3>1. material' = [material EXCEPT ![m] = [f EXCEPT !.status = "UPLOADED"]]
      BY <2>1 DEF Upload
    <3> QED BY <3>1, <1>5, <1>6
  <2>2. CASE Detach(m)
    <3>1. /\ f.job.status \in Status
          /\ IF f.job.status \in Active THEN "CANCELLED" \in Status ELSE f.job.status \in Status
      BY <1>5 DEF MaterialRow, Row, Status
    <3> DEFINE t == IF f.job.status \in Active THEN "CANCELLED" ELSE f.job.status
               g == [f EXCEPT !.detached = TRUE]
               h == [g EXCEPT !.job.status = t]
               k == [h EXCEPT !.job.retryable = FALSE]
    <3>2. material' = [material EXCEPT ![m] = k]
      BY <2>2, <1>5 DEF Detach, MaterialRow, Row
    <3>3. g \in MaterialRow
      BY <1>5, <1>6
    <3>4. h \in MaterialRow
      <4> HIDE DEF g
      <4> QED BY <3>1, <3>3, <1>6
    <3>5. k \in MaterialRow
      <4> HIDE DEF h
      <4> QED BY <3>4, <1>6
    <3> HIDE DEF k
    <3> QED BY <3>2, <3>5, <1>5
  <2>3. CASE ClaimMaterial(m)
    <3> DEFINE g == [f EXCEPT !.status = "PROCESSING"]
               h == [g EXCEPT !.job.status = "RUNNING"]
    <3>1. material' = [material EXCEPT ![m] = h]
      BY <2>3, <1>5 DEF ClaimMaterial, MaterialRow, Row
    <3>2. g \in MaterialRow
      BY <1>5, <1>6
    <3>3. h \in MaterialRow
      <4> HIDE DEF g
      <4> QED BY <3>2, <1>6 DEF Status, Active
    <3> HIDE DEF h
    <3> QED BY <3>1, <3>3, <1>5
  <2>4. CASE FinishSuccess(m)
    <3> DEFINE g == [f EXCEPT !.status = "READY"]
               h == [g EXCEPT !.job.status = "SUCCEEDED"]
    <3>1. material' = [material EXCEPT ![m] = h] \/ material' = material
      BY <2>4, <1>5 DEF FinishSuccess, MaterialRow, Row
    <3>2. g \in MaterialRow
      BY <1>5, <1>6
    <3>3. h \in MaterialRow
      <4> HIDE DEF g
      <4> QED BY <3>2, <1>6 DEF Status
    <3> HIDE DEF h
    <3> QED BY <3>1, <3>3, <1>5 DEF KnowledgeInv, MaterialsTyped
  <2>5. CASE FinishFailure(m)
    <3> DEFINE g == [f EXCEPT !.status = "FAILED"]
               h == [g EXCEPT !.job.status = "FAILED"]
               k == [h EXCEPT !.job.retryable = TRUE]
    <3>1. material' = [material EXCEPT ![m] = k] \/ material' = material
      BY <2>5, <1>5 DEF FinishFailure, MaterialRow, Row
    <3>2. g \in MaterialRow
      BY <1>5, <1>6
    <3>3. h \in MaterialRow
      <4> HIDE DEF g
      <4> QED BY <3>2, <1>6 DEF Status
    <3>4. k \in MaterialRow
      <4> HIDE DEF h
      <4> QED BY <3>3, <1>6
    <3> HIDE DEF k
    <3> QED BY <3>1, <3>4, <1>5 DEF KnowledgeInv, MaterialsTyped
  <2>6. CASE RetryMaterial(m)
    <3> DEFINE r == [status |-> "PENDING", attempt |-> f.job.attempt + 1, retryable |-> FALSE]
    <3>1. f.job \in Row /\ f.job.attempt < MaxAttempt
      BY <2>6, <1>5 DEF MaterialRow, RetryMaterial
    <3>2. r \in Row
      BY <3>1, IndexBounds DEF Row, Status, Active
    <3>3. material' = [material EXCEPT ![m] = [f EXCEPT !.job = r]]
      BY <2>6 DEF RetryMaterial
    <3> HIDE DEF r
    <3>4. [f EXCEPT !.job = r] \in MaterialRow
      BY <3>2, <1>5, <1>6
    <3> QED BY <3>3, <3>4, <1>5
  <2> QED BY <2>1, <2>2, <2>3, <2>4, <2>5, <2>6 DEF MaterialNext
<1> QED BY <1>1, <1>2, <1>3, <1>4, <1>7, IndexStays, TurnStays DEF KnowledgeInv, MaterialsTyped

-----------------------------------------------------------------------------
(* The answer *)

(* The question and its answer move together. *)
LEMMA AnswerMoves ==
    ASSUME KnowledgeInv, AnswerNext
    PROVE  AnswerTyped' /\ TargetMatchesAnswer'
<1>1. answers \in 0 .. MaxAnswer /\ segments \in 0 .. MaxSegment /\ (answer = NoAnswer \/ answer \in Answer)
  BY DEF KnowledgeInv, ClassTyped, AnswerTyped
<1>2. /\ answer.status = "CAPTURING" \/ answer.status = "COMPLETED" => answer \in Answer
      /\ answer.text # None => answer \in Answer
  BY <1>1, AnswerRecords
<1>3. CASE CaptureAnswer
  <2> DEFINE f == [id |-> answers + 1, kind |-> "VOICE", status |-> "CAPTURING",
                   text |-> None, after |-> segments]
  <2>1. f \in Answer /\ f.status = "CAPTURING" /\ answers + 1 \in 0 .. MaxAnswer
    BY <1>1, <1>3, IndexBounds DEF CaptureAnswer, CanAnswer, Answer
  <2>2. answer' = f /\ target' = "SELECTED" /\ answers' = answers + 1
    BY <1>3 DEF CaptureAnswer
  <2> HIDE DEF f
  <2> QED BY <2>1, <2>2, AnswerRecords DEF AnswerTyped, TargetMatchesAnswer
<1>4. ASSUME NEW t \in Text, WriteAnswer(t) PROVE AnswerTyped' /\ TargetMatchesAnswer'
  <2> DEFINE f == [id |-> answers + 1, kind |-> "TEXT", status |-> "COMPLETED",
                   text |-> t, after |-> 0]
  <2>1. f \in Answer /\ f.status = "COMPLETED" /\ answers + 1 \in 0 .. MaxAnswer
    BY <1>1, <1>4, IndexBounds DEF WriteAnswer, CanAnswer, Answer
  <2>2. answer' = f /\ target' = "ANSWERED" /\ answers' = answers + 1
    BY <1>4 DEF WriteAnswer
  <2> HIDE DEF f
  <2> QED BY <2>1, <2>2, AnswerRecords DEF AnswerTyped, TargetMatchesAnswer
<1>5. CASE CompleteAnswer
  <2> DEFINE f == [answer EXCEPT !.status = "COMPLETED"]
  <2>1. f \in Answer /\ f.status = "COMPLETED"
    BY <1>2, <1>5, AnswerRecords DEF CompleteAnswer, Answer
  <2>2. answer' = f /\ target' = "ANSWERED" /\ answers' = answers
    BY <1>5 DEF CompleteAnswer
  <2> HIDE DEF f
  <2> QED BY <1>1, <2>1, <2>2, AnswerRecords DEF AnswerTyped, TargetMatchesAnswer
<1>6. CASE CancelAnswer
  BY <1>1, <1>6, AnswerRecords DEF CancelAnswer, AnswerTyped, TargetMatchesAnswer
<1>7. ASSUME NEW t \in Text, EditAnswer(t) PROVE AnswerTyped' /\ TargetMatchesAnswer'
  <2> DEFINE f == [answer EXCEPT !.text = t]
  <2>1. f \in Answer /\ f.status = "COMPLETED" /\ target = "ANSWERED"
    BY <1>2, <1>7, AnswerRecords DEF EditAnswer, Answer, KnowledgeInv, TargetMatchesAnswer
  <2>2. answer' = f /\ target' = target /\ answers' = answers
    BY <1>7 DEF EditAnswer
  <2> HIDE DEF f
  <2> QED BY <1>1, <2>1, <2>2, AnswerRecords DEF AnswerTyped, TargetMatchesAnswer
<1>8. CASE WithdrawText
  <2> DEFINE f == [answer EXCEPT !.text = None]
  <2>1. f \in Answer /\ f.status = "COMPLETED" /\ target = "ANSWERED"
    BY <1>2, <1>8, AnswerRecords DEF WithdrawText, Answer, KnowledgeInv, TargetMatchesAnswer
  <2>2. /\ \/ answer' = f /\ target' = target
           \/ answer' = NoAnswer /\ target' = "OPEN"
        /\ answers' = answers
    BY <1>8 DEF WithdrawText
  <2> HIDE DEF f
  <2> QED BY <1>1, <2>1, <2>2, AnswerRecords DEF AnswerTyped, TargetMatchesAnswer
<1> QED BY <1>3, <1>4, <1>5, <1>6, <1>7, <1>8 DEF AnswerNext, CreateAnswer, SettleAnswer, TakeBackAnswer

(* Withdrawing a text takes chunks away, but none that is cited.            *)
LEMMA ChunksGo ==
    ASSUME IndexerFits, ChunksFit, UNCHANGED <<indexer, turn, jobs>>,
           chunks' \subseteq chunks, Cited \subseteq chunks'
    PROVE  IndexerFits' /\ ChunksFit'
<1>1. \A a : OfAnswer(a)' \subseteq OfAnswer(a)
  BY DEF OfAnswer
<1>2. Cited' = Cited
  BY DEF Cited
<1>3. AnswerChunksOfOneText'
  <2> SUFFICES ASSUME NEW a \in 1 .. MaxAnswer
               PROVE  \E t \in Text \cup {None} : OfAnswer(a)' \subseteq AnswerChunks(a, t)
    BY DEF AnswerChunksOfOneText
  <2>1. PICK t \in Text \cup {None} : OfAnswer(a) \subseteq AnswerChunks(a, t)
    BY DEF ChunksFit, AnswerChunksOfOneText
  <2> QED BY <1>1, <2>1
<1>4. \A c \in indexer.found : c.kind = "answer" => OfAnswer(c.of)' = {}
  BY <1>1 DEF IndexerFits
<1>5. IndexerFits'
  BY <1>4 DEF IndexerFits
<1> QED BY <1>2, <1>3, <1>5 DEF ChunksFit

LEMMA AnswerIds ==
    ASSUME KnowledgeInv, AnswerNext
    PROVE  \/ answer'.id = answer.id /\ answers' = answers /\ chunks' = chunks
           \/ answer'.id = answers + 1 /\ answers' = answers + 1 /\ chunks' = chunks
           \/ /\ answer'.id = 0 /\ answers' = answers
              /\ chunks' = chunks \/ chunks' = chunks \ OfAnswer(answer.id)
<1>1. \A f \in Answer, t \in Text \cup {None} :
         [f EXCEPT !.text = t].id = f.id /\ [f EXCEPT !.status = "COMPLETED"].id = f.id
  BY DEF Answer
<1>2. answer.status \in {"CAPTURING", "COMPLETED"} => answer \in Answer
  BY AnswerRecords DEF KnowledgeInv, AnswerTyped
<1>3. NoAnswer.id = 0
  BY DEF NoAnswer
<1>4. CASE CreateAnswer
  BY <1>4 DEF CreateAnswer, CaptureAnswer, WriteAnswer, index
<1>5. CASE SettleAnswer
  BY <1>1, <1>2, <1>5 DEF SettleAnswer, CompleteAnswer, EditAnswer, index
<1>6. CASE CancelAnswer
  BY <1>3, <1>6 DEF CancelAnswer, index
<1>7. CASE WithdrawText
  BY <1>1, <1>2, <1>3, <1>7 DEF WithdrawText
<1> QED BY <1>4, <1>5, <1>6, <1>7 DEF AnswerNext, TakeBackAnswer

LEMMA AnswerStep ==
    ASSUME KnowledgeInv, AnswerNext
    PROVE  KnowledgeInv'
<1>1. UNCHANGED <<session, canonical, coordinator, segments, crashes, material, reading,
                  jobs, indexer, turn>>
  BY DEF AnswerNext, CreateAnswer, SettleAnswer, TakeBackAnswer, CaptureAnswer, WriteAnswer,
     CompleteAnswer, EditAnswer, CancelAnswer, WithdrawText, class, material_, index
<1>2. ClassTyped' /\ MaterialsTyped' /\ JobsTyped'
  BY <1>1 DEF KnowledgeInv, ClassTyped, MaterialsTyped, JobsTyped, ActiveJobs
<1>3. \/ chunks' = chunks
      \/ chunks' = chunks \ OfAnswer(answer.id) /\ Cited \cap OfAnswer(answer.id) = {}
  BY DEF AnswerNext, CreateAnswer, SettleAnswer, TakeBackAnswer, CaptureAnswer, WriteAnswer,
     CompleteAnswer, EditAnswer, CancelAnswer, WithdrawText, index
<1>4. chunks' \subseteq chunks /\ Cited \subseteq chunks'
  BY <1>3 DEF KnowledgeInv, ChunksFit
<1>5. TurnFits'
  <2>1. answer.id <= answers /\ answers \in Nat /\ (answer = NoAnswer \/ answer.id \in 1 .. MaxAnswer)
    BY Bounds DEF KnowledgeInv, TurnFits, AnswerTyped, Answer
  <2>2. \/ answer'.id = answer.id /\ answers' = answers /\ chunks' = chunks
        \/ answer'.id = answers + 1 /\ answers' = answers + 1 /\ chunks' = chunks
        \/ answer'.id = 0 /\ answers' = answers /\ (chunks' = chunks \/ chunks' = chunks \ OfAnswer(answer.id))
    BY <2>1, AnswerIds
  <2>3. ASSUME NEW c \in turn.chunk
        PROVE  c \in chunks' \/ (c.kind = "answer" /\ c.of # answer'.id /\ c.of \in 1 .. answers')
    <3>1. c \in chunks \/ (c.kind = "answer" /\ c.of # answer.id /\ c.of \in 1 .. answers)
      BY DEF KnowledgeInv, TurnFits
    <3>2. CASE c \in OfAnswer(answer.id)
      <4>1. c \in Chunk /\ c.kind = "answer" /\ c.of = answer.id
        BY <3>2 DEF OfAnswer, KnowledgeInv, ChunksFit
      <4>2. c.of \in 1 .. MaxAnswer
        BY <4>1, ChunkKinds
      <4>3. c.of \in 1 .. answers /\ c.of # 0
        BY <2>1, <4>1, <4>2, Bounds
      <4> QED BY <2>1, <2>2, <3>1, <4>1, <4>3
    <3>3. CASE c \notin OfAnswer(answer.id)
      BY <2>1, <2>2, <3>1, <3>3
    <3> QED BY <3>2, <3>3
  <2>4. answer'.id <= answers'
    BY <2>1, <2>2
  <2> QED BY <1>1, <2>3, <2>4 DEF TurnFits
<1> QED BY <1>1, <1>2, <1>4, <1>5, AnswerMoves, ChunksGo DEF KnowledgeInv

-----------------------------------------------------------------------------
(* The indexing worker *)

(* Steps of the worker change nothing but rows, its own state and chunks.   *)
LEMMA SourcesStay ==
    ASSUME KnowledgeInv, UNCHANGED <<class, material_, answer_>>, crashes' \in 0 .. MaxCrash
    PROVE  ClassTyped' /\ MaterialsTyped' /\ AnswerTyped' /\ TargetMatchesAnswer'
BY DEF KnowledgeInv, ClassTyped, MaterialsTyped, AnswerTyped, TargetMatchesAnswer, class,
   material_, answer_

LEMMA ChunksStay ==
    ASSUME ChunksFit, UNCHANGED <<chunks, turn>>
    PROVE  ChunksFit' /\ \A a : OfAnswer(a)' = OfAnswer(a)
<1>1. \A a : OfAnswer(a)' = OfAnswer(a)
  BY DEF OfAnswer
<1>2. AnswerChunksOfOneText'
  BY <1>1 DEF ChunksFit, AnswerChunksOfOneText
<1>3. Cited' = Cited
  BY DEF Cited
<1> QED BY <1>1, <1>2, <1>3 DEF ChunksFit

LEMMA RetryIndexingStep ==
    ASSUME KnowledgeInv, NEW j \in DOMAIN jobs, RetryIndexing(j)
    PROVE  KnowledgeInv'
<1> DEFINE r == [status |-> "PENDING", attempt |-> jobs[j].attempt + 1, retryable |-> FALSE]
<1>1. jobs[j] \in Row
  BY DEF KnowledgeInv, JobsTyped
<1>2. r \in Row
  BY <1>1, Bounds DEF RetryIndexing, Row, Status, Active
<1>3. /\ jobs' = [jobs EXCEPT ![j] = r] /\ ActiveJobs = {}
      /\ UNCHANGED <<class, material_, answer_, crashes, indexer, chunks, turn>>
  BY DEF RetryIndexing, index
<1> HIDE DEF r
<1>4. JobsTyped' /\ DOMAIN jobs' = DOMAIN jobs
  BY <1>2, <1>3, RowMoves DEF KnowledgeInv
<1>5. crashes' \in 0 .. MaxCrash
  BY <1>3 DEF KnowledgeInv, ClassTyped
<1> QED BY <1>3, <1>4, <1>5, SourcesStay, IndexStays, TurnStays DEF KnowledgeInv, answer_

LEMMA ClaimIndexingStep ==
    ASSUME KnowledgeInv, NEW j \in DOMAIN jobs, ClaimIndexing(j)
    PROVE  KnowledgeInv'
<1> DEFINE r == [jobs[j] EXCEPT !.status = "RUNNING"]
           x == [at |-> "claimed", job |-> j, attempt |-> jobs[j].attempt, found |-> {}]
<1>1. /\ jobs[j] \in Row /\ jobs[j].attempt \in 0 .. MaxAttempt /\ j \in 0 .. MaxJob
  <2>1. jobs[j] \in Row /\ j \in 1 .. Len(jobs) /\ Len(jobs) \in Nat /\ Len(jobs) <= MaxJob
    BY DEF KnowledgeInv, JobsTyped
  <2>2. jobs[j].attempt \in 1 .. MaxAttempt
    BY <2>1 DEF Row
  <2> QED BY <2>1, <2>2, Bounds
<1>2. r \in Row /\ jobs[j].status \in Active
  BY <1>1 DEF ClaimIndexing, Row, Status, Active
<1>3. x \in [at : {"idle", "claimed", "embedded", "failing", "refused"},
              job : 0 .. MaxJob, attempt : 0 .. MaxAttempt, found : SUBSET Chunk]
      /\ x.job = j /\ x.found = {}
  BY <1>1
<1>4. /\ jobs' = [jobs EXCEPT ![j] = r] /\ indexer' = x
      /\ UNCHANGED <<class, material_, answer_, crashes, chunks, turn>>
  BY DEF ClaimIndexing
<1> HIDE DEF r, x
<1>5. JobsTyped' /\ DOMAIN jobs' = DOMAIN jobs
  BY <1>2, <1>4, RowMoves DEF KnowledgeInv
<1>6. IndexerFits'
  BY <1>3, <1>4, <1>5 DEF IndexerFits
<1>7. crashes' \in 0 .. MaxCrash
  BY <1>4 DEF KnowledgeInv, ClassTyped
<1> QED BY <1>4, <1>5, <1>6, <1>7, SourcesStay, ChunksStay, TurnStays DEF KnowledgeInv, answer_

(* What the worker finds are chunks, and no answer among their sources has  *)
(* one yet.                                                                 *)
LEMMA Candidates ==
    ASSUME KnowledgeInv
    PROVE  /\ MaterialCandidates \cup TranscriptCandidates \cup AnswerCandidates \subseteq Chunk
           /\ \A c \in MaterialCandidates \cup TranscriptCandidates \cup AnswerCandidates :
                 c.kind = "answer" => OfAnswer(c.of) = {}
<1>1. \A c \in MaterialCandidates : c \in Chunk /\ c.kind = "material"
  <2> SUFFICES ASSUME NEW c \in MaterialCandidates PROVE c \in Chunk /\ c.kind = "material"
    OBVIOUS
  <2>1. PICK m \in Material : c \in MaterialChunks(m)
    BY DEF MaterialCandidates
  <2>2. c.kind = "material"
    BY <2>1 DEF MaterialChunks
  <2>3. c \in UNION {MaterialChunks(n) : n \in Material}
    BY <2>1
  <2> QED BY <2>2, <2>3 DEF Chunk
<1>2. \A c \in TranscriptCandidates : c \in Chunk /\ c.kind = "segment"
  <2>1. canonical \in Version /\ SegmentsOf(canonical) \in 0 .. MaxSegment
    BY Bounds DEF KnowledgeInv, ClassTyped, SegmentsOf
  <2>2. \A n \in 1 .. SegmentsOf(canonical) : n \in 1 .. MaxSegment
    BY <2>1, Bounds
  <2> SUFFICES ASSUME NEW c \in TranscriptCandidates PROVE c \in Chunk /\ c.kind = "segment"
    OBVIOUS
  <2>3. PICK n \in 1 .. SegmentsOf(canonical) : c = SegmentChunk(canonical, n)
    BY DEF TranscriptCandidates
  <2>4. c.kind = "segment"
    BY <2>3 DEF SegmentChunk
  <2>5. n \in 1 .. MaxSegment
    BY <2>2
  <2>6. c \in Chunk
    BY <2>1, <2>3, <2>5 DEF Chunk
  <2> QED BY <2>4, <2>6
<1>3. \A c \in AnswerCandidates : c \in Chunk /\ OfAnswer(c.of) = {}
  <2> SUFFICES ASSUME NEW c \in AnswerCandidates PROVE c \in Chunk /\ OfAnswer(c.of) = {}
    OBVIOUS
  <2>1. /\ answer.status = "COMPLETED" /\ OfAnswer(answer.id) = {}
        /\ c \in AnswerChunks(answer.id, answer.text)
    BY DEF AnswerCandidates
  <2>2. answer.id \in 1 .. MaxAnswer /\ answer.text \in Text \cup {None}
    BY <2>1, AnswerRecords DEF KnowledgeInv, AnswerTyped, Answer
  <2>3. c.of = answer.id
    BY <2>1 DEF AnswerChunks
  <2>4. answer.text # None
    BY <2>1 DEF AnswerChunks, None
  <2>5. answer.text \in Text
    BY <2>2, <2>4
  <2>6. c \in Chunk
    BY <2>1, <2>2, <2>5 DEF Chunk
  <2> QED BY <2>1, <2>3, <2>6
<1> QED BY <1>1, <1>2, <1>3

LEMMA CollectStep ==
    ASSUME KnowledgeInv, Collect \/ CollectFails
    PROVE  KnowledgeInv'
<1>1. UNCHANGED <<class, material_, answer_, crashes, jobs, chunks, turn>>
  BY DEF Collect, CollectFails
<1>2. /\ crashes' \in 0 .. MaxCrash /\ JobsTyped'
      /\ indexer.at = "claimed" /\ indexer.job \in DOMAIN jobs
  BY <1>1 DEF KnowledgeInv, ClassTyped, JobsTyped, ActiveJobs, IndexerFits, Collect, CollectFails
<1>3. IndexerFits'
  <2>1. CASE Collect
    <3> DEFINE all == MaterialCandidates \cup TranscriptCandidates \cup AnswerCandidates
    <3>1. indexer' = [indexer EXCEPT !.at = "embedded", !.found = all]
      BY <2>1 DEF Collect
    <3>2. all \subseteq Chunk /\ \A c \in all : c.kind = "answer" => OfAnswer(c.of)' = {}
      BY <1>1, Candidates, ChunksStay DEF KnowledgeInv
    <3> HIDE DEF all
    <3> QED BY <1>1, <1>2, <3>1, <3>2 DEF KnowledgeInv, IndexerFits
  <2>2. CASE CollectFails
    <3>1. \A c \in indexer.found : c.kind = "answer" => OfAnswer(c.of)' = {}
      BY <1>1, ChunksStay DEF KnowledgeInv, IndexerFits
    <3> QED BY <1>1, <1>2, <2>2, <3>1 DEF KnowledgeInv, IndexerFits, CollectFails
  <2> QED BY <2>1, <2>2
<1> QED BY <1>1, <1>2, <1>3, SourcesStay, ChunksStay, TurnStays DEF KnowledgeInv, answer_

(* What of the found chunks is stored conflicts with none of the stored     *)
(* ones, nor with another of the found: a page yields to the page before it, *)
(* the Segments differ in their sequence, and two chunks of the answer's    *)
(* text in their index.                                                     *)
LEMMA InsertedFits ==
    ASSUME KnowledgeInv, NEW found, found \subseteq indexer.found,
           \A c \in found : SourceIsCurrent(c)
    PROVE  LET all == chunks \cup Inserted(found)
           IN  all \subseteq Chunk /\ \A c, d \in all : c # d => ~Conflict(c, d)
<1> DEFINE new == Inserted(found)
<1>1. /\ new \subseteq found /\ found \subseteq Chunk
      /\ \A c \in new, d \in chunks : ~Conflict(c, d)
      /\ \A c \in new : c.kind = "material" =>
            \A d \in found : Conflict(c, d) => ~(d.part < c.part)
  BY DEF Inserted, KnowledgeInv, IndexerFits
<1>2. chunks \subseteq Chunk /\ \A c, d \in chunks : c # d => ~Conflict(c, d)
  BY DEF KnowledgeInv, ChunksFit
<1>3. \A c, d : Conflict(c, d) <=> Conflict(d, c)
  BY DEF Conflict
<1> HIDE DEF new
<1>4. ASSUME NEW c \in new, NEW d \in new, Conflict(c, d) PROVE c = d
  <2>1. c \in Chunk /\ d \in Chunk /\ c \in found /\ d \in found
    BY <1>1
  <2>2. c.kind = d.kind /\ c.of = d.of /\ c.index = d.index
        /\ (c.kind = "segment" => c.part = d.part)
    BY <1>4 DEF Conflict
  <2>3. CASE c.kind = "material"
    <3>1. (\E m \in Material : c \in MaterialChunks(m)) /\ (\E n \in Material : d \in MaterialChunks(n))
      BY <2>1, <2>2, <2>3, ChunkKinds
    <3>2. PICK m \in Material, p \in Page :
            c \in [kind : {"material"}, of : {m}, part : {p}, index : 0 .. PageChunks[p] - 1]
      BY <3>1 DEF MaterialChunks
    <3>3. PICK n \in Material, q \in Page :
            d \in [kind : {"material"}, of : {n}, part : {q}, index : 0 .. PageChunks[q] - 1]
      BY <3>1 DEF MaterialChunks
    <3>4. c.part \in Nat /\ d.part \in Nat
      BY <3>2, <3>3, IndexBounds DEF Page
    <3>5. ~(d.part < c.part) /\ ~(c.part < d.part)
      BY <1>1, <1>3, <1>4, <2>1, <2>2, <2>3
    <3>6. c.part = d.part
      BY <3>4, <3>5
    <3> QED BY <2>2, <3>2, <3>3, <3>6
  <2>4. CASE c.kind = "segment"
    <3>1. (\E v \in Version, n \in 1 .. MaxSegment : c = SegmentChunk(v, n))
          /\ (\E v \in Version, n \in 1 .. MaxSegment : d = SegmentChunk(v, n))
      BY <2>1, <2>2, <2>4, ChunkKinds
    <3> QED BY <2>2, <2>4, <3>1 DEF SegmentChunk
  <2>5. CASE c.kind = "answer"
    <3>1. c \in AnswerChunks(answer.id, answer.text) /\ d \in AnswerChunks(answer.id, answer.text)
          /\ answer.status = "COMPLETED"
      BY <2>1, <2>2, <2>5 DEF SourceIsCurrent
    <3>2. answer.text \in Seq(STRING)
      <4>1. answer.text \in Text \cup {None}
        BY <3>1, AnswerRecords DEF KnowledgeInv, AnswerTyped, Answer
      <4>2. None \in Seq(STRING)
        BY DEF None
      <4> QED BY <4>1, <4>2, IndexBounds
    <3>3. PICK i \in DOMAIN answer.text :
            c = [kind |-> "answer", of |-> answer.id, part |-> answer.text[i], index |-> i - 1]
      BY <3>1 DEF AnswerChunks
    <3>4. PICK j \in DOMAIN answer.text :
            d = [kind |-> "answer", of |-> answer.id, part |-> answer.text[j], index |-> j - 1]
      BY <3>1 DEF AnswerChunks
    <3>5. i \in Nat /\ j \in Nat /\ i - 1 = j - 1
      BY <2>2, <3>2, <3>3, <3>4
    <3>6. i = j
      BY <3>5
    <3> QED BY <3>3, <3>4, <3>6
  <2>6. c.kind \in {"material", "segment", "answer"}
    BY <2>1, ChunkKinds
  <2> QED BY <2>3, <2>4, <2>5, <2>6
<1>5. \A c, d \in chunks \cup new : c # d => ~Conflict(c, d)
  BY <1>1, <1>2, <1>3, <1>4
<1> QED BY <1>1, <1>2, <1>5 DEF new

LEMMA SucceedStep ==
    ASSUME KnowledgeInv, Succeed
    PROVE  KnowledgeInv'
<1>1. UNCHANGED <<class, material_, answer_, crashes, turn>> /\ indexer' = Nobody
  BY DEF Succeed
<1>2. crashes' \in 0 .. MaxCrash
  BY <1>1 DEF KnowledgeInv, ClassTyped
<1>3. IndexerFits'
  BY <1>1, Bounds DEF IndexerFits, Nobody
<1>4. CASE ~RunIsCurrent
  <2>1. UNCHANGED <<jobs, chunks>>
    BY <1>4 DEF Succeed
  <2>2. JobsTyped'
    BY <2>1 DEF KnowledgeInv, JobsTyped, ActiveJobs
  <2> QED BY <1>1, <1>2, <1>3, <2>1, <2>2, SourcesStay, ChunksStay, TurnStays DEF KnowledgeInv, answer_
<1>5. CASE RunIsCurrent
  <2> DEFINE found == {c \in indexer.found : SourceIsCurrent(c)}
             j == indexer.job
             r == [jobs[j] EXCEPT !.status = "SUCCEEDED"]
  <2>1. j \in DOMAIN jobs /\ jobs[j] \in Row
    BY DEF KnowledgeInv, JobsTyped, IndexerFits, Succeed
  <2>2. r \in Row /\ r.status \notin Active
    BY <2>1 DEF Row, Status, Active
  <2>3. jobs' = [jobs EXCEPT ![j] = r] /\ chunks' = chunks \cup Inserted(found)
    BY <1>5 DEF Succeed
  <2>4. JobsTyped'
    <3> HIDE DEF r, j
    <3> QED BY <2>1, <2>2, <2>3, RowMoves DEF KnowledgeInv
  <2>5. found \subseteq indexer.found /\ \A c \in found : SourceIsCurrent(c)
    OBVIOUS
  <2>6. Inserted(found) \subseteq found
    BY DEF Inserted
  <2> HIDE DEF found, r, j
  <2>7. chunks' \subseteq Chunk /\ \A c, d \in chunks' : c # d => ~Conflict(c, d)
    BY <2>3, <2>5, InsertedFits
  <2>8. Cited' \subseteq chunks'
    BY <1>1, <2>3 DEF Cited, KnowledgeInv, ChunksFit
  <2>9. AnswerChunksOfOneText'
    <3> SUFFICES ASSUME NEW a \in 1 .. MaxAnswer
                 PROVE  \E t \in Text \cup {None} : OfAnswer(a)' \subseteq AnswerChunks(a, t)
      BY DEF AnswerChunksOfOneText
    <3>1. CASE \E c \in found : c.kind = "answer" /\ c.of = a
      <4>1. PICK c \in found : c.kind = "answer" /\ c.of = a
        BY <3>1
      <4>2. OfAnswer(a) = {} /\ a = answer.id /\ answer.status = "COMPLETED"
        BY <2>5, <4>1 DEF KnowledgeInv, IndexerFits, SourceIsCurrent
      <4>3. answer.text \in Text \cup {None}
        BY <4>2, AnswerRecords DEF KnowledgeInv, AnswerTyped, Answer
      <4>4. \A d \in found : d.kind = "answer" => d \in AnswerChunks(answer.id, answer.text)
        BY <2>5 DEF SourceIsCurrent
      <4>5. OfAnswer(a)' \subseteq AnswerChunks(a, answer.text)
        BY <2>3, <2>6, <4>2, <4>4 DEF OfAnswer
      <4> QED BY <4>3, <4>5
    <3>2. CASE ~\E c \in found : c.kind = "answer" /\ c.of = a
      <4>1. OfAnswer(a)' = OfAnswer(a)
        BY <2>3, <2>6, <3>2 DEF OfAnswer
      <4> QED BY <4>1 DEF KnowledgeInv, ChunksFit, AnswerChunksOfOneText
    <3> QED BY <3>1, <3>2
  <2>10. ChunksFit'
    BY <1>1, <2>7, <2>8, <2>9 DEF KnowledgeInv, ChunksFit
  <2> QED BY <1>1, <1>2, <1>3, <2>3, <2>4, <2>10, SourcesStay, TurnStays DEF KnowledgeInv, answer_
<1> QED BY <1>4, <1>5

LEMMA FailStep ==
    ASSUME KnowledgeInv, Fail
    PROVE  KnowledgeInv'
<1>1. UNCHANGED <<class, material_, answer_, crashes, chunks, turn>> /\ indexer' = Nobody
  BY DEF Fail
<1>2. crashes' \in 0 .. MaxCrash
  BY <1>1 DEF KnowledgeInv, ClassTyped
<1>3. IndexerFits'
  BY <1>1, Bounds DEF IndexerFits, Nobody
<1> DEFINE j == indexer.job
           r == [jobs[j] EXCEPT !.status = "FAILED", !.retryable = (indexer.at = "failing")]
<1>4. j \in DOMAIN jobs /\ jobs[j] \in Row
  BY DEF KnowledgeInv, JobsTyped, IndexerFits, Fail
<1>5. r \in Row /\ r.status \notin Active
  BY <1>4 DEF Row, Status, Active
<1>6. jobs' = [jobs EXCEPT ![j] = r] \/ jobs' = jobs
  BY <1>4 DEF Fail
<1> HIDE DEF r, j
<1>7. JobsTyped'
  BY <1>4, <1>5, <1>6, RowMoves DEF KnowledgeInv, JobsTyped, ActiveJobs
<1> QED BY <1>1, <1>2, <1>3, <1>7, SourcesStay, ChunksStay, TurnStays DEF KnowledgeInv, answer_

LEMMA CrashStep ==
    ASSUME KnowledgeInv, Crash
    PROVE  KnowledgeInv'
<1>1. UNCHANGED <<class, material_, answer_, jobs, chunks, turn>> /\ indexer' = Nobody
  BY DEF Crash
<1>2. crashes' \in 0 .. MaxCrash
  BY Bounds DEF Crash, KnowledgeInv, ClassTyped
<1>3. IndexerFits'
  BY <1>1, Bounds DEF IndexerFits, Nobody
<1>4. JobsTyped'
  BY <1>1 DEF KnowledgeInv, JobsTyped, ActiveJobs
<1> QED BY <1>1, <1>2, <1>3, <1>4, SourcesStay, ChunksStay, TurnStays DEF KnowledgeInv, answer_

LEMMA TurnStep ==
    ASSUME KnowledgeInv, Ask \/ Retrieve \/ Respond
    PROVE  KnowledgeInv'
<1>1. UNCHANGED <<class, material_, answer_, jobs, indexer, chunks, crashes>>
  BY DEF Ask, Retrieve, Respond, index
<1>2. ClassTyped' /\ MaterialsTyped' /\ AnswerTyped' /\ TargetMatchesAnswer' /\ JobsTyped'
  BY <1>1, SourcesStay DEF KnowledgeInv, ClassTyped, JobsTyped, ActiveJobs
<1>3. \A a : OfAnswer(a)' = OfAnswer(a)
  BY <1>1 DEF OfAnswer
<1>4. IndexerFits' /\ AnswerChunksOfOneText'
  BY <1>1, <1>3 DEF KnowledgeInv, IndexerFits, ChunksFit, AnswerChunksOfOneText
<1>5. turn'.at \in {"asked", "retrieved", "answered"} /\ turn'.chunk \subseteq chunks
  <2>1. CASE Ask
    BY <2>1 DEF Ask
  <2>2. CASE Retrieve
    BY <2>2 DEF Retrieve
  <2>3. CASE Respond
    <3> SUFFICES ASSUME NEW c \in turn.chunk, Visible(c) PROVE c \in chunks
      BY <2>3 DEF Respond, Projected
    <3> QED BY DEF Visible, KnowledgeInv, TurnFits
  <2> QED BY <2>1, <2>2, <2>3
<1>6. ChunksFit'
  BY <1>1, <1>4, <1>5 DEF KnowledgeInv, ChunksFit, Cited
<1>7. TurnFits'
  BY <1>1, <1>5 DEF KnowledgeInv, TurnFits, answer_
<1> QED BY <1>2, <1>4, <1>6, <1>7 DEF KnowledgeInv

-----------------------------------------------------------------------------
(* Theorems *)

LEMMA NextHolds == KnowledgeInv /\ [Next]_vars => KnowledgeInv'
<1> SUFFICES ASSUME KnowledgeInv, [Next]_vars PROVE KnowledgeInv'
  OBVIOUS
<1>1. CASE UNCHANGED vars
  <2>1. UNCHANGED <<class, material_, answer_, jobs, index, turn>>
    BY <1>1 DEF vars
  <2>2. UNCHANGED <<crashes, indexer, chunks, jobs, turn, answer, answers>>
    BY <2>1 DEF index, answer_
  <2>3. crashes' \in 0 .. MaxCrash /\ JobsTyped'
    BY <2>2 DEF KnowledgeInv, ClassTyped, JobsTyped, ActiveJobs
  <2> QED BY <2>1, <2>2, <2>3, SourcesStay, IndexStays, TurnStays DEF KnowledgeInv
<1>2. CASE Next
  BY <1>2, ClassStep, MaterialStep, AnswerStep, RetryIndexingStep, ClaimIndexingStep,
     CollectStep, SucceedStep, FailStep, CrashStep, TurnStep DEF Next, IndexerWorks
<1> QED BY <1>1, <1>2

LEMMA KnowledgeInvariant == Spec => []KnowledgeInv
<1> QED BY InitHolds, NextHolds, PTL DEF Spec

(* Every reachable state is of the types of the rows, the chunks satisfy    *)
(* the unique indexes, one indexing row is active, and no citation outlives *)
(* its chunk (models/knowledge.py, services/knowledge.py).                  *)
THEOREM TypeCorrect == Spec => []TypeOK
<1> QED BY KnowledgeInvariant, TypesFollow, PTL

(* The status of the question follows its answer (services/answers.py).     *)
THEOREM TargetFollowsAnswer == Spec => []TargetMatchesAnswer
<1>1. KnowledgeInv => TargetMatchesAnswer
  BY DEF KnowledgeInv
<1> QED BY <1>1, KnowledgeInvariant, PTL

(* An answer has the chunks of one of its texts, however its edits, its     *)
(* withdrawal and the runs of the worker fall together.                     *)
THEOREM AnswersAreOfOneText == Spec => []AnswerChunksOfOneText
<1>1. KnowledgeInv => AnswerChunksOfOneText
  BY DEF KnowledgeInv, ChunksFit
<1> QED BY <1>1, KnowledgeInvariant, PTL

(* What a step of any process adds to the index or to the citations is      *)
(* current when the step ends (_source_is_current, project_evidence).       *)
LEMMA StepEntersCurrent ==
    ASSUME [Next]_vars
    PROVE  /\ \A c \in chunks' \ chunks : SourceIsCurrent(c)'
           /\ \A c \in Cited' \ Cited : Visible(c)'
<1>1. \A c \in chunks' \ chunks : SourceIsCurrent(c)'
  <2>1. CASE chunks' \subseteq chunks
    BY <2>1
  <2>2. CASE Succeed
    BY <2>2 DEF Succeed, Inserted, SourceIsCurrent, Served, class, material_, answer_
  <2> QED BY <2>1, <2>2 DEF Next, vars, ClassNext, MaterialNext, AnswerNext, IndexerWorks,
        PersistFinal, End, SwitchCanonical, FinishCoordinator, Upload, Detach, RetryMaterial,
        ClaimMaterial, FinishSuccess, FinishFailure, CreateAnswer, SettleAnswer, TakeBackAnswer,
        CaptureAnswer, WriteAnswer, CompleteAnswer, EditAnswer, CancelAnswer, WithdrawText,
        RetryIndexing, ClaimIndexing, Collect, CollectFails, Fail, Crash, Ask, Retrieve, Respond,
        index
<1>2. \A c \in Cited' \ Cited : Visible(c)'
  <2>1. CASE UNCHANGED turn
    BY <2>1 DEF Cited
  <2>2. CASE Ask \/ Retrieve
    BY <2>2 DEF Ask, Retrieve, Cited
  <2>3. CASE Respond
    BY <2>3 DEF Respond, Projected, Visible, Served, Cited, class, material_, answer_
  <2> QED BY <2>1, <2>2, <2>3 DEF Next, vars, ClassNext, MaterialNext, AnswerNext, IndexerWorks,
        PersistFinal, End, SwitchCanonical, FinishCoordinator, Upload, Detach, RetryMaterial,
        ClaimMaterial, FinishSuccess, FinishFailure, CreateAnswer, SettleAnswer, TakeBackAnswer,
        CaptureAnswer, WriteAnswer, CompleteAnswer, EditAnswer, CancelAnswer, WithdrawText,
        RetryIndexing, ClaimIndexing, Collect, CollectFails, Succeed, Fail, Crash
<1> QED BY <1>1, <1>2

(* Nothing that was detached, replaced, edited or withdrawn enters the      *)
(* index or the citations afterwards.                                       *)
THEOREM OnlyCurrentSourcesEnter == Spec => OnlyCurrentEnters
<1> QED BY StepEntersCurrent, PTL DEF Spec, OnlyCurrentEnters

-----------------------------------------------------------------------------
(* Runs that are lost *)

LEMMA StrandsStay ==
    ASSUME OnlyCrashStrands, UNCHANGED <<indexer.job, indexer.attempt, crashes>>,
           indexer'.at # "idle" => indexer.at # "idle",
           Enqueue \/ UNCHANGED jobs, JobsTyped, IndexerFits
    PROVE  OnlyCrashStrands'
<1>1. CASE UNCHANGED jobs
  BY <1>1 DEF OnlyCrashStrands, RunIsCurrent
<1>2. CASE ActiveJobs = {} /\ jobs' = Append(jobs, NewRow)
  <2>1. /\ DOMAIN jobs = 1 .. Len(jobs) /\ DOMAIN jobs' = 1 .. Len(jobs) + 1 /\ Len(jobs) \in Nat
        /\ \A i \in DOMAIN jobs : jobs'[i] = jobs[i]
        /\ jobs'[Len(jobs) + 1] = NewRow
    BY <1>2, NewRowTyped DEF JobsTyped
  <2>2. \A i \in DOMAIN jobs' : jobs'[i].status = "RUNNING" => i \in DOMAIN jobs
    BY <2>1, NewRowTyped
  <2>3. indexer.at # "idle" => indexer.job \in DOMAIN jobs
    BY DEF IndexerFits
  <2> QED BY <2>1, <2>2, <2>3 DEF OnlyCrashStrands, RunIsCurrent
<1> QED BY <1>1, <1>2 DEF Enqueue

LEMMA OneActive ==
    ASSUME JobsTyped, NEW i \in DOMAIN jobs, NEW k \in DOMAIN jobs,
           jobs[i].status \in Active, jobs[k].status \in Active
    PROVE  i = k
BY DEF JobsTyped, ActiveJobs

(* The steps that neither claim, retry nor finish a row, nor lose its run. *)
LEMMA OtherSteps ==
    ASSUME Next, ~\E j \in DOMAIN jobs : RetryIndexing(j) \/ ClaimIndexing(j),
           ~Succeed, ~Fail, ~Crash
    PROVE  /\ UNCHANGED <<indexer.job, indexer.attempt, crashes>>
           /\ indexer'.at # "idle" => indexer.at # "idle"
           /\ Enqueue \/ UNCHANGED jobs
           /\ chunks' \subseteq chunks
<1>1. CASE ClassNext \/ Ask \/ Retrieve \/ Respond
  BY <1>1 DEF ClassNext, PersistFinal, End, SwitchCanonical, FinishCoordinator, Ask, Retrieve,
     Respond, index
<1>2. CASE \E m \in Material : MaterialNext(m)
  BY <1>2 DEF MaterialNext, Upload, Detach, RetryMaterial, ClaimMaterial, FinishSuccess,
     FinishFailure, index
<1>3. CASE AnswerNext
  BY <1>3 DEF AnswerNext, CreateAnswer, SettleAnswer, TakeBackAnswer, CaptureAnswer, WriteAnswer,
     CompleteAnswer, EditAnswer, CancelAnswer, WithdrawText, index
<1>4. CASE Collect
  BY <1>4 DEF Collect
<1>5. CASE CollectFails
  BY <1>5 DEF CollectFails
<1> QED BY <1>1, <1>2, <1>3, <1>4, <1>5 DEF Next, IndexerWorks

LEMMA StrandsInit == Init => OnlyCrashStrands
BY DEF Init, OnlyCrashStrands, Nobody

LEMMA StrandsNext ==
    ASSUME KnowledgeInv, OnlyCrashStrands, [Next]_vars
    PROVE  OnlyCrashStrands'
<1>1. /\ jobs \in Seq(Row) /\ JobsTyped /\ IndexerFits /\ crashes \in Nat
      /\ indexer.at # "idle" => indexer.job \in DOMAIN jobs
  BY DEF KnowledgeInv, JobsTyped, IndexerFits, ClassTyped
<1>2. CASE UNCHANGED vars
  BY <1>2 DEF vars, index, OnlyCrashStrands, RunIsCurrent
<1>3. ASSUME NEW j \in DOMAIN jobs, RetryIndexing(j) PROVE OnlyCrashStrands'
  <2>1. ActiveJobs = {} /\ UNCHANGED <<indexer, crashes>>
    BY <1>3 DEF RetryIndexing, index
  <2>2. indexer.at = "idle"
    BY <1>1, <2>1 DEF OnlyCrashStrands, RunIsCurrent, ActiveJobs, Active
  <2>3. /\ DOMAIN jobs' = DOMAIN jobs /\ jobs'[j].status = "PENDING"
        /\ \A i \in DOMAIN jobs : i # j => jobs'[i] = jobs[i]
    BY <1>1, <1>3 DEF RetryIndexing
  <2>4. \A i \in DOMAIN jobs : jobs'[i].status # "RUNNING"
    BY <2>1, <2>3 DEF ActiveJobs, Active
  <2> QED BY <2>1, <2>2, <2>3, <2>4 DEF OnlyCrashStrands
<1>4. ASSUME NEW j \in DOMAIN jobs, ClaimIndexing(j) PROVE OnlyCrashStrands'
  <2>1. /\ jobs' = [jobs EXCEPT ![j].status = "RUNNING"] /\ jobs[j].status = "PENDING"
        /\ indexer'.job = j /\ indexer'.attempt = jobs[j].attempt
    BY <1>4 DEF ClaimIndexing
  <2>2. jobs[j] \in Row
    BY <1>1
  <2>3. jobs'[j].status = "RUNNING" /\ jobs'[j].attempt = jobs[j].attempt
    BY <1>1, <2>1, <2>2 DEF Row
  <2>4. DOMAIN jobs' = DOMAIN jobs /\ \A i \in DOMAIN jobs : i # j => jobs'[i] = jobs[i]
    BY <1>1, <2>1
  <2>5. \A i \in DOMAIN jobs : i # j => jobs[i].status # "RUNNING"
    BY <1>1, <2>1, OneActive DEF Active
  <2> QED BY <2>1, <2>3, <2>4, <2>5 DEF OnlyCrashStrands, RunIsCurrent
<1>5. CASE Succeed \/ Fail
  <2>1. indexer.at # "idle" /\ indexer' = Nobody
    BY <1>5 DEF Succeed, Fail
  <2>2. indexer.job \in DOMAIN jobs /\ RunIsCurrent /\ jobs[indexer.job] \in Row
    BY <1>1, <2>1 DEF OnlyCrashStrands
  <2>3. \A i \in DOMAIN jobs : i # indexer.job => jobs[i].status # "RUNNING"
    BY <1>1, <2>2, OneActive DEF RunIsCurrent, Active
  <2>4. /\ DOMAIN jobs' = DOMAIN jobs
        /\ jobs'[indexer.job].status \in {"SUCCEEDED", "FAILED"}
        /\ \A i \in DOMAIN jobs : i # indexer.job => jobs'[i] = jobs[i]
    BY <1>1, <1>5, <2>2 DEF Succeed, Fail, Row
  <2>5. \A i \in DOMAIN jobs' : jobs'[i].status # "RUNNING"
    BY <2>3, <2>4
  <2> QED BY <2>1, <2>5 DEF OnlyCrashStrands, Nobody
<1>6. CASE Crash
  <2>1. indexer'.at = "idle" /\ crashes' > 0
    BY <1>1, <1>6 DEF Crash, Nobody
  <2> QED BY <2>1 DEF OnlyCrashStrands
<1>7. CASE /\ Next /\ ~\E j \in DOMAIN jobs : RetryIndexing(j) \/ ClaimIndexing(j)
           /\ ~Succeed /\ ~Fail /\ ~Crash
  BY <1>1, <1>7, OtherSteps, StrandsStay
<1> QED BY <1>2, <1>3, <1>4, <1>5, <1>6, <1>7

(* A run always has its row, which is RUNNING in the attempt it claimed, so *)
(* that no result is thrown away, and a row is RUNNING for nobody only      *)
(* after a crash (KnowledgeIndexingWorker).                                 *)
THEOREM OnlyACrashStrands == Spec => []OnlyCrashStrands
<1>1. KnowledgeInv /\ OnlyCrashStrands /\ [Next]_vars => OnlyCrashStrands'
  BY StrandsNext
<1> QED BY <1>1, StrandsInit, KnowledgeInvariant, PTL DEF Spec

LEMMA StrandedStep ==
    ASSUME KnowledgeInv, Stranded, [Next]_vars
    PROVE  Stranded' /\ jobs' = jobs /\ chunks' \subseteq chunks
<1>1. JobsTyped /\ indexer.at = "idle"
  BY DEF KnowledgeInv, Stranded
<1>2. PICK j \in DOMAIN jobs : jobs[j].status = "RUNNING"
  BY DEF Stranded
<1>3. j \in ActiveJobs
  BY <1>2 DEF ActiveJobs, Active
<1>4. CASE UNCHANGED vars
  <2>1. UNCHANGED <<jobs, indexer, chunks>>
    BY <1>4 DEF vars, index
  <2> QED BY <2>1 DEF Stranded
<1>5. CASE Next
  <2>1. ~Succeed /\ ~Fail /\ ~Crash
    BY <1>1 DEF Succeed, Fail, Crash
  <2>2. \A k \in DOMAIN jobs : ~RetryIndexing(k)
    BY <1>3 DEF RetryIndexing
  <2>3. \A k \in DOMAIN jobs : ~ClaimIndexing(k)
    BY <1>1, <1>2, OneActive DEF ClaimIndexing, Active
  <2>4. (indexer'.at = "idle") /\ (Enqueue \/ UNCHANGED jobs) /\ chunks' \subseteq chunks
    BY <1>1, <1>5, <2>1, <2>2, <2>3, OtherSteps
  <2>5. jobs' = jobs
    BY <1>3, <2>4 DEF Enqueue
  <2> QED BY <1>2, <2>4, <2>5 DEF Stranded
<1> QED BY <1>4, <1>5

(* A crash that strands a row ends the index of its class: no step of any   *)
(* process moves a row again or adds a chunk (enqueue_knowledge_indexing,   *)
(* JobService.retry and the unique index of the active row).                *)
THEOREM StrandedForGood == Spec => StrandedIsFinal
<1>1. KnowledgeInv /\ [Next]_vars
      => (Stranded => Stranded' /\ jobs' = jobs /\ chunks' \subseteq chunks)
  BY StrandedStep
<1> QED BY <1>1, KnowledgeInvariant, PTL DEF Spec, StrandedIsFinal

-----------------------------------------------------------------------------
(* The contract of every row *)

(* How one row may change: within its attempt, or to the next attempt after *)
(* one that failed.                                                         *)
Moves(a, b) ==
    \/ /\ b.attempt = a.attempt
       /\ b.status = a.status \/ (a.status \in Active /\ b.status # "none")
    \/ /\ b.attempt = a.attempt + 1
       /\ a.status \in {"none", "FAILED"} /\ b.status = "PENDING"

(* The state of a PDF and that of its job, as detachment, its worker and    *)
(* the retry leave them to each other.                                      *)
MaterialFits(f) ==
    /\ f.status = "none" => f.job = NewRow
    /\ f.job.retryable => f.job.status = "FAILED" /\ ~f.detached
    /\ f.detached => f.job.status \notin Active
    /\ f.status = "PROCESSING" /\ ~f.detached => f.job.status = "RUNNING"

MaterialsFit == \A m \in Material : MaterialFits(material[m])

LEMMA FitsInit == Init => MaterialsFit
<1> SUFFICES ASSUME Init, NEW m \in Material PROVE MaterialFits(material[m])
  BY DEF MaterialsFit
<1>1. /\ material[m].status = "none" /\ material[m].detached = FALSE
      /\ material[m].job = NewRow /\ NewRow.retryable = FALSE
  BY DEF Init, NoMaterial, NewRow
<1> QED BY <1>1 DEF MaterialFits

LEMMA MaterialMoves ==
    ASSUME MaterialsTyped, MaterialsFit, NEW m \in Material, MaterialNext(m)
    PROVE  /\ \A n \in Material : n # m => material'[n] = material[n]
           /\ MaterialFits(material'[m])
           /\ material'[m].status # "none" /\ material[m].status # "none"
              => Moves(material[m].job, material'[m].job)
           /\ material[m].status = "none"
              => \/ material'[m] = material[m]
                 \/ material'[m].status # "none" /\ material'[m].job = NewRow
<1> DEFINE f == material[m]
           g == material'[m]
<1>1. f \in MaterialRow /\ f.job \in Row /\ MaterialFits(f)
      /\ material \in [Material -> MaterialRow]
  BY DEF MaterialsTyped, MaterialsFit, MaterialRow
<1>2. \A n \in Material : n # m => material'[n] = material[n]
  BY <1>1
     DEF MaterialNext, Upload, Detach, RetryMaterial, ClaimMaterial, FinishSuccess, FinishFailure
<1>3. CASE Upload(m)
  <2>1. g = [f EXCEPT !.status = "UPLOADED"] /\ f.status = "none"
    BY <1>1, <1>3 DEF Upload
  <2>2. g.status = "UPLOADED" /\ g.job = f.job /\ g.detached = f.detached
    BY <1>1, <2>1 DEF MaterialRow
  <2> QED BY <1>1, <1>2, <2>1, <2>2 DEF MaterialFits
<1>4. CASE Detach(m)
  <2>1. /\ g.status = f.status /\ g.detached /\ f.status # "none"
        /\ g.job.status = IF f.job.status \in Active THEN "CANCELLED" ELSE f.job.status
        /\ g.job.attempt = f.job.attempt /\ g.job.retryable = FALSE
    BY <1>1, <1>4 DEF Detach, MaterialRow, Row
  <2> QED BY <1>1, <1>2, <2>1 DEF MaterialFits, Moves, Active
<1>5. CASE ClaimMaterial(m)
  <2>1. /\ g.status = "PROCESSING" /\ g.detached = f.detached /\ f.status # "none"
        /\ f.job.status = "PENDING" /\ g.job.status = "RUNNING"
        /\ g.job.attempt = f.job.attempt /\ g.job.retryable = f.job.retryable
    BY <1>1, <1>5 DEF ClaimMaterial, MaterialRow, Row
  <2> QED BY <1>1, <1>2, <2>1 DEF MaterialFits, Moves, Active
<1>6. CASE FinishSuccess(m) /\ IsCurrent(m)
  <2>1. /\ g.status = "READY" /\ g.detached = f.detached
        /\ f.status = "PROCESSING" /\ ~f.detached
        /\ g.job.status = "SUCCEEDED"
        /\ g.job.attempt = f.job.attempt /\ g.job.retryable = f.job.retryable
    BY <1>1, <1>6 DEF FinishSuccess, IsCurrent, MaterialRow, Row
  <2> QED BY <1>1, <1>2, <2>1 DEF MaterialFits, Moves, Active
<1>7. CASE FinishFailure(m) /\ IsCurrent(m)
  <2>1. /\ g.status = "FAILED" /\ g.detached = f.detached
        /\ f.status = "PROCESSING" /\ ~f.detached
        /\ g.job.status = "FAILED" /\ g.job.attempt = f.job.attempt
    BY <1>1, <1>7 DEF FinishFailure, IsCurrent, MaterialRow, Row
  <2> QED BY <1>1, <1>2, <2>1 DEF MaterialFits, Moves, Active
<1>8. CASE (FinishSuccess(m) \/ FinishFailure(m)) /\ ~IsCurrent(m)
  <2>1. g = f
    BY <1>8 DEF FinishSuccess, FinishFailure
  <2> QED BY <1>1, <1>2, <2>1 DEF Moves
<1>9. CASE RetryMaterial(m)
  <2>1. /\ g.status = f.status /\ g.detached = f.detached /\ f.job.retryable
        /\ g.job = [status |-> "PENDING", attempt |-> f.job.attempt + 1, retryable |-> FALSE]
    BY <1>1, <1>9 DEF RetryMaterial, MaterialRow
  <2>2. f.job.status = "FAILED" /\ ~f.detached /\ f.status \notin {"none", "PROCESSING"}
    BY <1>1, <2>1 DEF MaterialFits, NewRow
  <2> QED BY <1>1, <1>2, <2>1, <2>2 DEF MaterialFits, Moves, Active
<1> QED BY <1>3, <1>4, <1>5, <1>6, <1>7, <1>8, <1>9 DEF MaterialNext

LEMMA FitsNext ==
    ASSUME KnowledgeInv, MaterialsFit, [Next]_vars
    PROVE  MaterialsFit'
<1>1. CASE \E m \in Material : MaterialNext(m)
  <2>1. PICK m \in Material : MaterialNext(m)
    BY <1>1
  <2> QED BY <2>1, MaterialMoves DEF KnowledgeInv, MaterialsFit
<1>2. CASE UNCHANGED material
  BY <1>2 DEF MaterialsFit
<1> QED BY <1>1, <1>2 DEF Next, vars, ClassNext, AnswerNext, IndexerWorks, PersistFinal, End,
      SwitchCanonical, FinishCoordinator, CreateAnswer, SettleAnswer, TakeBackAnswer,
      CaptureAnswer, WriteAnswer, CompleteAnswer, EditAnswer, CancelAnswer, WithdrawText,
      RetryIndexing, ClaimIndexing, Collect, CollectFails, Succeed, Fail, Crash, Ask, Retrieve,
      Respond, material_

LEMMA FitsInvariant == Spec => []MaterialsFit
<1>1. KnowledgeInv /\ MaterialsFit /\ [Next]_vars => MaterialsFit'
  BY FitsNext
<1> QED BY <1>1, FitsInit, KnowledgeInvariant, PTL DEF Spec

(* The rows of the index. *)
LEMMA IndexRowMoves ==
    ASSUME KnowledgeInv, [Next]_vars, NEW j \in DOMAIN jobs
    PROVE  j \in DOMAIN jobs' /\ Moves(jobs[j], jobs'[j])
<1>1. jobs \in Seq(Row) /\ JobsTyped /\ (indexer.at # "idle" => indexer.job \in DOMAIN jobs)
  BY DEF KnowledgeInv, JobsTyped, IndexerFits
<1>2. CASE UNCHANGED jobs
  BY <1>2 DEF Moves
<1>3. CASE Enqueue
  <2>1. CASE UNCHANGED jobs
    BY <2>1 DEF Moves
  <2>2. CASE jobs' = Append(jobs, NewRow)
    <3>1. j \in DOMAIN jobs' /\ jobs'[j] = jobs[j]
      BY <1>1, <2>2
    <3> QED BY <3>1 DEF Moves
  <2> QED BY <1>3, <2>1, <2>2 DEF Enqueue
<1>4. ASSUME NEW k \in DOMAIN jobs, RetryIndexing(k) \/ ClaimIndexing(k)
      PROVE  j \in DOMAIN jobs' /\ Moves(jobs[j], jobs'[j])
  <2>1. /\ DOMAIN jobs' = DOMAIN jobs
        /\ \A i \in DOMAIN jobs : i # k => jobs'[i] = jobs[i]
    BY <1>1, <1>4 DEF RetryIndexing, ClaimIndexing
  <2>2. jobs[k] \in Row
    BY <1>1
  <2>3. CASE RetryIndexing(k)
    <3>1. /\ jobs'[k].status = "PENDING" /\ jobs'[k].attempt = jobs[k].attempt + 1
          /\ jobs[k].status = "FAILED"
      BY <1>1, <2>3 DEF RetryIndexing
    <3> QED BY <2>1, <3>1 DEF Moves
  <2>4. CASE ClaimIndexing(k)
    <3>1. /\ jobs'[k].status = "RUNNING" /\ jobs'[k].attempt = jobs[k].attempt
          /\ jobs[k].status = "PENDING"
      BY <1>1, <2>2, <2>4 DEF ClaimIndexing, Row
    <3> QED BY <2>1, <3>1 DEF Moves, Active
  <2> QED BY <1>4, <2>3, <2>4
<1>5. CASE (Succeed \/ Fail) /\ RunIsCurrent
  <2> DEFINE k == indexer.job
  <2>1. k \in DOMAIN jobs /\ jobs[k] \in Row /\ jobs[k].status = "RUNNING"
    BY <1>1, <1>5 DEF Succeed, Fail, RunIsCurrent
  <2>2. /\ DOMAIN jobs' = DOMAIN jobs
        /\ \A i \in DOMAIN jobs : i # k => jobs'[i] = jobs[i]
        /\ jobs'[k].status \in {"SUCCEEDED", "FAILED"} /\ jobs'[k].attempt = jobs[k].attempt
    BY <1>1, <1>5, <2>1 DEF Succeed, Fail, Row
  <2> QED BY <2>1, <2>2 DEF Moves, Active
<1>6. CASE (Succeed \/ Fail) /\ ~RunIsCurrent
  BY <1>2, <1>6 DEF Succeed, Fail
<1>7. CASE /\ Next /\ ~\E k \in DOMAIN jobs : RetryIndexing(k) \/ ClaimIndexing(k)
           /\ ~Succeed /\ ~Fail
  <2>1. CASE Crash
    BY <1>2, <2>1 DEF Crash
  <2> QED BY <1>2, <1>3, <1>7, <2>1, OtherSteps
<1>8. CASE UNCHANGED vars
  BY <1>2, <1>8 DEF vars
<1> QED BY <1>4, <1>5, <1>6, <1>7, <1>8

LEMMA NewIndexRow ==
    ASSUME KnowledgeInv, [Next]_vars, NEW j \in DOMAIN jobs', j \notin DOMAIN jobs
    PROVE  jobs'[j] = NewRow
<1>1. jobs \in Seq(Row) /\ (indexer.at # "idle" => indexer.job \in DOMAIN jobs)
  BY DEF KnowledgeInv, JobsTyped, IndexerFits
<1>2. DOMAIN jobs' # DOMAIN jobs
  OBVIOUS
<1>3. ~\E k \in DOMAIN jobs : RetryIndexing(k) \/ ClaimIndexing(k)
  BY <1>1, <1>2 DEF RetryIndexing, ClaimIndexing
<1>4. ~Succeed /\ ~Fail /\ ~Crash
  BY <1>1, <1>2 DEF Succeed, Fail, Crash
<1>5. jobs' = Append(jobs, NewRow)
  BY <1>2, <1>3, <1>4, OtherSteps DEF vars, Enqueue
<1>6. jobs'[Len(jobs) + 1] = NewRow /\ DOMAIN jobs' = 1 .. Len(jobs) + 1
      /\ DOMAIN jobs = 1 .. Len(jobs) /\ Len(jobs) \in Nat
  BY <1>1, <1>5, NewRowTyped
<1> QED BY <1>6

LEMMA RowIsTyped ==
    ASSUME KnowledgeInv, NEW w \in Work
    PROVE  /\ RowOf(w) = NoRow \/ RowOf(w) \in Row
           /\ NoRow.status = "none" /\ NoRow.attempt = 0
           /\ \A r \in Row : r.status \in Status /\ r.attempt \in Nat \ {0} /\ r # NoRow
<1>1. /\ NoRow.status = "none" /\ NoRow.attempt = 0
      /\ \A r \in Row : r.status \in Status /\ r.attempt \in Nat \ {0} /\ r # NoRow
  BY Bounds DEF NoRow, Row, Status, Active
<1>2. CASE w[1] = "material"
  <2>1. w[2] \in Material
    BY <1>2 DEF Work
  <2>2. material[w[2]].job \in Row
    BY <2>1 DEF KnowledgeInv, MaterialsTyped, MaterialRow
  <2> QED BY <1>1, <1>2, <2>2 DEF RowOf
<1>3. CASE w[1] # "material"
  BY <1>1, <1>3 DEF RowOf, KnowledgeInv, JobsTyped
<1> QED BY <1>2, <1>3

LEMMA RowsMove ==
    ASSUME KnowledgeInv, MaterialsFit, [Next]_vars, NEW w \in Work
    PROVE  Moves(RowOf(w), RowOf(w)')
<1>0. /\ Moves(NoRow, NewRow) /\ Moves(NoRow, NoRow)
      /\ NewRow.status = "PENDING" /\ NewRow.attempt = 1
  BY DEF Moves, NoRow, NewRow, Active
<1>1. CASE w[1] = "material"
  <2> DEFINE m == w[2]
  <2>1. m \in Material
    BY <1>1 DEF Work
  <2>2. /\ RowOf(w) = IF material[m].status = "none" THEN NoRow ELSE material[m].job
        /\ RowOf(w)' = IF material'[m].status = "none" THEN NoRow ELSE material'[m].job
    BY <1>1 DEF RowOf
  <2> HIDE DEF m
  <2>3. CASE material'[m] = material[m]
    BY <2>2, <2>3 DEF Moves
  <2>4. CASE MaterialNext(m)
    <3>1. CASE material[m].status = "none"
      BY <1>0, <2>1, <2>2, <2>3, <2>4, <3>1, MaterialMoves DEF KnowledgeInv
    <3>2. CASE material[m].status # "none"
      <4>1. material'[m].status # "none"
        <5>1. material \in [Material -> MaterialRow]
          BY DEF KnowledgeInv, MaterialsTyped
        <5> QED BY <2>1, <2>4, <3>2, <5>1
              DEF MaterialNext, Upload, Detach, RetryMaterial, ClaimMaterial, FinishSuccess,
                  FinishFailure, MaterialRow
      <4> QED BY <2>1, <2>2, <2>4, <3>2, <4>1, MaterialMoves DEF KnowledgeInv
    <3> QED BY <3>1, <3>2
  <2>5. ASSUME NEW n \in Material, n # m, MaterialNext(n) PROVE material'[m] = material[m]
    BY <2>1, <2>5, MaterialMoves DEF KnowledgeInv
  <2>6. CASE UNCHANGED material
    BY <2>3, <2>6
  <2> QED BY <2>3, <2>4, <2>5, <2>6 DEF Next, vars, ClassNext, AnswerNext, IndexerWorks,
        PersistFinal, End, SwitchCanonical, FinishCoordinator, CreateAnswer, SettleAnswer,
        TakeBackAnswer, CaptureAnswer, WriteAnswer, CompleteAnswer, EditAnswer, CancelAnswer,
        WithdrawText, RetryIndexing, ClaimIndexing, Collect, CollectFails, Succeed, Fail, Crash,
        Ask, Retrieve, Respond, material_
<1>2. CASE w[1] # "material"
  <2> DEFINE j == w[2]
  <2>1. /\ RowOf(w) = IF j \in DOMAIN jobs THEN jobs[j] ELSE NoRow
        /\ RowOf(w)' = IF j \in DOMAIN jobs' THEN jobs'[j] ELSE NoRow
    BY <1>2 DEF RowOf
  <2> HIDE DEF j
  <2>2. CASE j \in DOMAIN jobs
    BY <2>1, <2>2, IndexRowMoves
  <2>3. CASE j \notin DOMAIN jobs /\ j \in DOMAIN jobs'
    BY <1>0, <2>1, <2>3, NewIndexRow
  <2>4. CASE j \notin DOMAIN jobs /\ j \notin DOMAIN jobs'
    BY <1>0, <2>1, <2>4
  <2> QED BY <2>2, <2>3, <2>4
<1> QED BY <1>1, <1>2

(* Such a step is one of the contract's, or leaves the row as it was. *)
LEMMA RowContract ==
    ASSUME KnowledgeInv, KnowledgeInv', NEW w \in Work, Moves(RowOf(w), RowOf(w)')
    PROVE  [Outcome(w)!Next]_(Outcome(w)!vars)
<1> DEFINE a == RowOf(w)
           b == RowOf(w)'
<1>1. /\ a = NoRow \/ a \in Row
      /\ NoRow.status = "none" /\ NoRow.attempt = 0
      /\ \A r \in Row : r.status \in Status /\ r.attempt \in Nat \ {0} /\ r # NoRow
  BY RowIsTyped
<1>2. b = NoRow \/ b \in Row
  <2>1. CASE w[1] = "material"
    <3>1. w[2] \in Material
      BY <2>1 DEF Work
    <3>2. material'[w[2]].job \in Row
      BY <3>1 DEF KnowledgeInv, MaterialsTyped, MaterialRow
    <3> QED BY <2>1, <3>2 DEF RowOf
  <2>2. CASE w[1] # "material"
    BY <2>2 DEF RowOf, KnowledgeInv, JobsTyped
  <2> QED BY <2>1, <2>2
<1>3. /\ a = NoRow <=> a.status = "none"
      /\ b = NoRow <=> b.status = "none"
      /\ a.status \in Status \cup {"none"} /\ b.status \in Status \cup {"none"}
      /\ a.attempt \in Nat /\ b.attempt \in Nat
  BY <1>1, <1>2 DEF Status, Active
<1>4. /\ AttemptOf(w) = a.attempt /\ AttemptOf(w)' = b.attempt
      /\ PhaseOf(w) = IF a.status = "none" THEN "none"
                      ELSE IF a.status \in Active THEN "open" ELSE "settled"
      /\ PhaseOf(w)' = IF b.status = "none" THEN "none"
                       ELSE IF b.status \in Active THEN "open" ELSE "settled"
      /\ ResultOf(w) = IF a.status = "SUCCEEDED" THEN {<<w, a.attempt>>} ELSE {}
      /\ ResultOf(w)' = IF b.status = "SUCCEEDED" THEN {<<w, b.attempt>>} ELSE {}
  BY <1>3 DEF AttemptOf, PhaseOf, ResultOf
<1>5. Moves(a, b)
  OBVIOUS
<1> HIDE DEF a, b
<1>6. ASSUME AttemptOf(w)' = AttemptOf(w), PhaseOf(w)' = PhaseOf(w), ResultOf(w)' = ResultOf(w)
      PROVE  UNCHANGED Outcome(w)!vars
  BY <1>6 DEF Outcome!vars
<1>7. CASE /\ b.attempt = a.attempt
           /\ \/ b.status = a.status
              \/ a.status \in Active /\ b.status \in Active
  BY <1>4, <1>6, <1>7 DEF Active
<1>8. CASE b.attempt = a.attempt /\ a.status \in Active /\ b.status = "SUCCEEDED"
  <2>1. Outcome(w)!Deliver(w)
    BY <1>4, <1>8 DEF Outcome!Deliver, Active
  <2> QED BY <2>1 DEF Outcome!Next
<1>9. CASE b.attempt = a.attempt /\ a.status \in Active /\ b.status \in {"FAILED", "CANCELLED"}
  <2>1. Outcome(w)!Abandon({w}, {})
    BY <1>4, <1>9 DEF Outcome!Abandon, Active
  <2> QED BY <2>1 DEF Outcome!Next
<1>10. CASE /\ b.attempt = a.attempt + 1
            /\ a.status \in {"none", "FAILED"} /\ b.status = "PENDING"
  <2>1. Outcome(w)!Open(w)
    BY <1>4, <1>10 DEF Outcome!Open, Active
  <2> QED BY <2>1 DEF Outcome!Next
<1> QED BY <1>3, <1>5, <1>7, <1>8, <1>9, <1>10 DEF Moves, Status, Active

(* Every row that feeds or builds the index keeps the contract of the       *)
(* ledger's jobs: a detached PDF cancels its attempt once, a late worker    *)
(* settles nothing twice, and nothing that succeeded is run again           *)
(* (MaterialService, KnowledgeIndexingWorker, JobService).                  *)
THEOREM RowsKeepContract == ASSUME NEW w \in Work PROVE Spec => RowKeepsContract(w)
<1>1. Init => Outcome(w)!Init
  <2> SUFFICES ASSUME Init PROVE Outcome(w)!Init
    OBVIOUS
  <2>1. RowOf(w) = NoRow
    <3>1. CASE w[1] = "material"
      BY <3>1 DEF Init, RowOf, Work, NoMaterial
    <3>2. CASE w[1] # "material"
      BY <3>2 DEF Init, RowOf
    <3> QED BY <3>1, <3>2
  <2>2. AttemptOf(w) = 0 /\ PhaseOf(w) = "none" /\ ResultOf(w) = {}
    BY <2>1 DEF AttemptOf, PhaseOf, ResultOf, NoRow
  <2> QED BY <2>2 DEF Outcome!Init
<1>2. KnowledgeInv /\ KnowledgeInv' /\ MaterialsFit /\ [Next]_vars
      => [Outcome(w)!Next]_(Outcome(w)!vars)
  BY RowsMove, RowContract
<1> QED BY <1>1, <1>2, KnowledgeInvariant, FitsInvariant, PTL
    DEF Spec, RowKeepsContract, Outcome!Spec

=============================================================================
