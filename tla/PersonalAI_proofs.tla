--------------------------- MODULE PersonalAI_proofs ---------------------------
(***************************************************************************)
(* PrivateInv is an inductive invariant of PersonalAI, for any number of   *)
(* chats, ranges, requests and workers and any bounds: nothing private is  *)
(* left after the class, and results and jobs match.                       *)
(***************************************************************************)
EXTENDS PersonalAI, FiniteSetTheorems, TLAPS

DataTyped ==
    /\ session \in {"LIVE", "PROCESSING", "COMPLETED"}
    /\ mode \in [Chat -> {"none", "LIVE", "REVIEW", "purged"}]
    /\ message \in [Chat -> Seq({"USER", "ASSISTANT"})]
    /\ \A c \in Chat : Len(message[c]) <= MaxMessage
    /\ job \in [Job -> Row]
    /\ summary \subseteq Summary

RequestsTyped ==
    /\ record \in [Key -> Record]
    /\ ending \in [at : {"no", "listed"}, listed : SUBSET Key]

RunsTyped ==
    /\ run \in [Worker -> Run] /\ crashes \in 0 .. MaxCrash
    /\ \A w \in Worker : run[w].at # "idle" => run[w].job \in Job

(* What the unique index on active responses says. *)
AtMostOneActive ==
    \A i, j \in Turn :
        i[1] = j[1] /\ job[i].status \in Active /\ job[j].status \in Active => i = j

(* Where a turn has a row its chat is open and holds its USER message; a    *)
(* purged chat stays empty.                                                 *)
TurnsFit ==
    /\ \A j \in Turn : job[j].status \in Status =>
          mode[j[1]] \in {"LIVE", "REVIEW"} /\ j[2] <= Len(message[j[1]])
    /\ \A c \in Chat : mode[c] = "purged" => message[c] = <<>>

(* The part of the invariant that is about stored data. *)
DataInv ==
    /\ DataTyped /\ AtMostOneActive /\ TurnsFit
    /\ NothingPrivateAfterEnd /\ ResultMatchesJob

PrivateInv == DataInv /\ RequestsTyped /\ RunsTyped

-----------------------------------------------------------------------------
(* Operators *)

LEMMA Jobs ==
    /\ \A j \in Turn : j \in Job /\ IsTurn(j) /\ j[1] \in Chat /\ j[2] \in 1 .. MaxMessage - 1
    /\ \A j \in Turn : j \notin Summary
    /\ \A j \in Summary : j \in Job /\ ~IsTurn(j) /\ j[2] = 0
    /\ \A j \in Job : IsTurn(j) <=> j \in Turn
BY PersonalBounds DEF Job, Turn, Summary, IsTurn

LEMMA Statuses == "ABSENT" \notin Status /\ Active \subseteq Status /\ "SUCCEEDED" \notin Active
BY DEF Status, Active

LEMMA ActiveIsOne ==
    ASSUME AtMostOneActive, NEW c \in Chat
    PROVE  Cardinality(ActiveTurns(c)) <= 1
<1>1. CASE ActiveTurns(c) = {}
  BY <1>1, FS_EmptySet
<1>2. CASE ActiveTurns(c) # {}
  <2>1. PICK i \in ActiveTurns(c) : TRUE
    BY <1>2
  <2>2. ActiveTurns(c) = {i}
    BY <2>1 DEF AtMostOneActive, ActiveTurns
  <2> QED BY <2>2, FS_Singleton
<1> QED BY <1>1, <1>2

LEMMA TypesFollow == PrivateInv => TypeOK
BY ActiveIsOne DEF PrivateInv, DataInv, DataTyped, RequestsTyped, RunsTyped, TypeOK

(* A step that leaves the data alone. *)
LEMMA DataStays ==
    ASSUME DataInv, UNCHANGED data
    PROVE  DataInv'
<1>1. DataTyped' /\ AtMostOneActive' /\ TurnsFit'
  BY DEF DataInv, DataTyped, AtMostOneActive, TurnsFit, data
<1>2. NothingPrivateAfterEnd' /\ ResultMatchesJob'
  BY DEF DataInv, NothingPrivateAfterEnd, ResultMatchesJob, Answered, data
<1> QED BY <1>1, <1>2 DEF DataInv

(* A row that exists moves, but not into or out of success. *)
LEMMA RowMoves ==
    ASSUME DataInv, NEW j, NEW r, job' = [job EXCEPT ![j] = r],
           UNCHANGED <<session, mode, message, summary>>,
           j \in Job =>
              /\ r \in Row /\ r.status \in Status \ {"SUCCEEDED"}
              /\ job[j].status \in Status \ {"SUCCEEDED"}
              /\ IsTurn(j) /\ r.status \in Active =>
                    job[j].status \in Active \/ ActiveTurns(j[1]) = {}
    PROVE  DataInv'
<1>1. CASE j \notin Job
  <2>1. job' = job
    BY <1>1 DEF DataInv, DataTyped
  <2> QED BY <2>1, DataStays DEF data
<1>2. CASE j \in Job
  <2>1. \A i \in Job : job'[i] = IF i = j THEN r ELSE job[i]
    BY <1>2 DEF DataInv, DataTyped
  <2>2. DataTyped'
    BY <1>2 DEF DataInv, DataTyped
  <2>3. AtMostOneActive'
    <3> SUFFICES ASSUME NEW i \in Turn, NEW k \in Turn, i[1] = k[1],
                        job'[i].status \in Active, job'[k].status \in Active, i # k
                 PROVE  FALSE
      BY DEF AtMostOneActive
    <3>1. CASE i # j /\ k # j
      BY <2>1, <3>1, Jobs DEF DataInv, AtMostOneActive
    <3>2. CASE i = j
      <4>1. job[k].status \in Active /\ k \in ActiveTurns(j[1])
        BY <2>1, <3>2, Jobs DEF ActiveTurns
      <4>2. job[j].status \in Active
        BY <1>2, <2>1, <3>2, <4>1, Jobs
      <4> QED BY <3>2, <4>1, <4>2 DEF DataInv, AtMostOneActive
    <3>3. CASE k = j
      <4>1. job[i].status \in Active /\ i \in ActiveTurns(j[1])
        BY <2>1, <3>3, Jobs DEF ActiveTurns
      <4>2. job[j].status \in Active
        BY <1>2, <2>1, <3>3, <4>1, Jobs
      <4> QED BY <3>3, <4>1, <4>2 DEF DataInv, AtMostOneActive
    <3> QED BY <3>1, <3>2, <3>3
  <2>4. \A i \in Job : /\ job'[i].status \in Status <=> job[i].status \in Status
                       /\ job'[i].status = "SUCCEEDED" <=> job[i].status = "SUCCEEDED"
    BY <1>2, <2>1
  <2>5. TurnsFit' /\ NothingPrivateAfterEnd'
    BY <2>4, Jobs DEF DataInv, TurnsFit, NothingPrivateAfterEnd
  <2>6. ResultMatchesJob'
    BY <2>4, Jobs DEF DataInv, ResultMatchesJob, Answered
  <2> QED BY <2>2, <2>3, <2>5, <2>6 DEF DataInv
<1> QED BY <1>1, <1>2

LEMMA InitHolds == Init => PrivateInv
<1> SUFFICES ASSUME Init PROVE PrivateInv
  OBVIOUS
<1>1. DataTyped
  BY PersonalBounds DEF Init, DataTyped, NoRow, Row
<1>2. \A j \in Job : job[j].status = "ABSENT"
  BY DEF Init, NoRow
<1>3. AtMostOneActive /\ TurnsFit /\ NothingPrivateAfterEnd
  BY <1>2, Jobs, Statuses DEF Init, AtMostOneActive, TurnsFit, NothingPrivateAfterEnd
<1>4. ResultMatchesJob
  BY <1>2, Jobs, Statuses DEF Init, ResultMatchesJob, Answered
<1>5. RequestsTyped /\ RunsTyped
  BY PersonalBounds DEF Init, RequestsTyped, RunsTyped, NoRecord, Record, Idle, Run
<1> QED BY <1>1, <1>3, <1>4, <1>5 DEF PrivateInv, DataInv

-----------------------------------------------------------------------------
(* API requests *)

LEMMA AcquireStep ==
    ASSUME PrivateInv, NEW k \in Key, NEW q \in Request, Acquire(k, q)
    PROVE  PrivateInv'
<1>1. Purgeable(q) \in BOOLEAN
  BY DEF Purgeable, Request
<1>2. [state |-> "processing", request |-> q, purgeable |-> Purgeable(q)] \in Record
  BY <1>1 DEF Record
<1>3. RequestsTyped'
  BY <1>2 DEF PrivateInv, RequestsTyped, Acquire
<1> QED BY <1>3, DataStays DEF PrivateInv, RunsTyped, Acquire

LEMMA AbortStep ==
    ASSUME PrivateInv, NEW k \in Key, Abort(k)
    PROVE  PrivateInv'
<1>1. [NoRecord EXCEPT !.state = "refused"] \in Record
  BY DEF NoRecord, Record
<1>2. RequestsTyped'
  BY <1>1 DEF PrivateInv, RequestsTyped, Abort
<1> QED BY <1>2, DataStays DEF PrivateInv, RunsTyped, Abort

LEMMA AcceptTyped ==
    ASSUME RequestsTyped, NEW k \in Key, Accept(k), UNCHANGED ending
    PROVE  RequestsTyped'
BY DEF RequestsTyped, Accept, Record

LEMMA RequestSummaryStep ==
    ASSUME PrivateInv, NEW k \in Key, RequestSummary(k)
    PROVE  PrivateInv'
<1> DEFINE r == SummaryOf(record[k].request.range)
<1>1. RequestsTyped' /\ RunsTyped'
  BY AcceptTyped DEF PrivateInv, RequestSummary, RunsTyped
<1>2. r \in Summary
  BY DEF PrivateInv, RequestsTyped, Record, Request, NoRequest, RequestSummary, SummaryOf, Summary
<1>3. /\ session = "LIVE" /\ UNCHANGED <<session, mode, message, summary>>
      /\ job' = IF job[r].status = "ABSENT" THEN [job EXCEPT ![r] = NewJob] ELSE job
  BY DEF RequestSummary
<1> HIDE DEF r
<1>4. CASE job[r].status # "ABSENT"
  BY <1>1, <1>3, <1>4, DataStays DEF PrivateInv, data
<1>5. CASE job[r].status = "ABSENT"
  <2>1. NewJob \in Row /\ NewJob.status = "PENDING"
    BY PersonalBounds DEF NewJob, Row, Status, Active
  <2>2. /\ DataTyped' /\ job'[r] = NewJob
        /\ \A i \in Job : i # r => job'[i] = job[i]
    BY <1>2, <1>3, <1>5, <2>1, Jobs DEF PrivateInv, DataInv, DataTyped
  <2>3. \A i \in Turn : job'[i] = job[i]
    BY <1>2, <2>2, Jobs
  <2>4. AtMostOneActive' /\ TurnsFit' /\ NothingPrivateAfterEnd'
    BY <1>3, <2>3 DEF PrivateInv, DataInv, AtMostOneActive, TurnsFit, NothingPrivateAfterEnd
  <2>5. ResultMatchesJob'
    BY <1>3, <1>5, <2>1, <2>2, <2>3, Jobs DEF PrivateInv, DataInv, ResultMatchesJob, Answered
  <2> QED BY <1>1, <2>2, <2>4, <2>5 DEF PrivateInv, DataInv
<1> QED BY <1>4, <1>5

LEMMA CreateChatStep ==
    ASSUME PrivateInv, NEW k \in Key, CreateChat(k)
    PROVE  PrivateInv'
<1> DEFINE q == record[k].request
<1>1. RequestsTyped' /\ RunsTyped'
  BY AcceptTyped DEF PrivateInv, CreateChat, RunsTyped
<1>2. q.chat \in Chat /\ q.mode \in Mode
  BY DEF PrivateInv, RequestsTyped, Record, Request, NoRequest, CreateChat
<1>3. /\ mode[q.chat] = "none" /\ session = Expected(q.mode)
      /\ mode' = [mode EXCEPT ![q.chat] = q.mode]
      /\ UNCHANGED <<session, message, job, summary>>
  BY DEF CreateChat
<1> HIDE DEF q
<1>4. q.mode \in {"LIVE", "REVIEW"} /\ (session # "LIVE" => q.mode = "REVIEW")
  BY <1>2, <1>3, PersonalBounds DEF Expected
<1>5. \A c \in Chat : mode'[c] = IF c = q.chat THEN q.mode ELSE mode[c]
  BY <1>2, <1>3 DEF PrivateInv, DataInv, DataTyped
<1>6. DataTyped' /\ AtMostOneActive'
  BY <1>2, <1>3, <1>4 DEF PrivateInv, DataInv, DataTyped, AtMostOneActive
<1>7. TurnsFit'
  BY <1>3, <1>4, <1>5, Jobs DEF PrivateInv, DataInv, TurnsFit
<1>8. NothingPrivateAfterEnd'
  BY <1>3, <1>4, <1>5, Jobs DEF PrivateInv, DataInv, NothingPrivateAfterEnd
<1>9. ResultMatchesJob'
  BY <1>3 DEF PrivateInv, DataInv, ResultMatchesJob, Answered
<1> QED BY <1>1, <1>6, <1>7, <1>8, <1>9 DEF PrivateInv, DataInv

(* A new turn is the last message of its chat, so no row and no answer can  *)
(* have been there before.                                                  *)
LEMMA CreateTurnStep ==
    ASSUME PrivateInv, NEW k \in Key, CreateTurn(k)
    PROVE  PrivateInv'
<1> DEFINE c == record[k].request.chat
           turn == <<c, Len(message[c]) + 1>>
<1>1. RequestsTyped' /\ RunsTyped'
  BY AcceptTyped DEF PrivateInv, CreateTurn, RunsTyped
<1>2. c \in Chat
  BY DEF PrivateInv, RequestsTyped, Record, Request, NoRequest, CreateTurn
<1>3. /\ mode[c] \in {"LIVE", "REVIEW"} /\ session = Expected(mode[c])
      /\ ActiveTurns(c) = {} /\ Len(message[c]) + 1 < MaxMessage
      /\ message' = [message EXCEPT ![c] = Append(@, "USER")]
      /\ job' = [job EXCEPT ![turn] = NewJob]
      /\ UNCHANGED <<session, mode, summary>>
  BY DEF CreateTurn
<1>4. message[c] \in Seq({"USER", "ASSISTANT"}) /\ Len(message[c]) \in Nat
  BY <1>2 DEF PrivateInv, DataInv, DataTyped
<1>5. turn \in Turn /\ turn[1] = c /\ turn[2] = Len(message[c]) + 1
  BY <1>2, <1>3, <1>4, PersonalBounds DEF Turn
<1> HIDE DEF c, turn
<1>6. NewJob \in Row /\ NewJob.status = "PENDING"
  BY PersonalBounds DEF NewJob, Row, Status, Active
<1>7. /\ job' \in [Job -> Row] /\ job'[turn] = NewJob
      /\ \A i \in Job : i # turn => job'[i] = job[i]
  BY <1>3, <1>5, <1>6, Jobs DEF PrivateInv, DataInv, DataTyped
<1>8. /\ message'[c] = Append(message[c], "USER")
      /\ message'[c] \in Seq({"USER", "ASSISTANT"}) /\ Len(message'[c]) = Len(message[c]) + 1
      /\ message'[c][Len(message[c]) + 1] = "USER"
      /\ \A n \in 1 .. Len(message[c]) : message'[c][n] = message[c][n]
      /\ \A d \in Chat : d # c => message'[d] = message[d]
  BY <1>2, <1>3, <1>4 DEF PrivateInv, DataInv, DataTyped
<1>9. DataTyped'
  <2>1. message' \in [Chat -> Seq({"USER", "ASSISTANT"})]
    BY <1>2, <1>3, <1>8 DEF PrivateInv, DataInv, DataTyped
  <2>2. ASSUME NEW d \in Chat PROVE Len(message'[d]) <= MaxMessage
    <3>1. CASE d = c
      BY <1>3, <1>4, <1>8, <3>1, PersonalBounds
    <3>2. CASE d # c
      BY <1>8, <3>2 DEF PrivateInv, DataInv, DataTyped
    <3> QED BY <3>1, <3>2
  <2> QED BY <1>3, <1>7, <2>1, <2>2 DEF PrivateInv, DataInv, DataTyped
<1>10. AtMostOneActive'
  <2> SUFFICES ASSUME NEW i \in Turn, NEW j \in Turn, i[1] = j[1],
                      job'[i].status \in Active, job'[j].status \in Active, i # j
               PROVE  FALSE
    BY DEF AtMostOneActive
  <2>1. CASE i # turn /\ j # turn
    BY <1>7, <2>1, Jobs DEF PrivateInv, DataInv, AtMostOneActive
  <2>2. CASE i = turn
    BY <1>3, <1>5, <1>7, <2>2, Jobs DEF ActiveTurns
  <2>3. CASE j = turn
    BY <1>3, <1>5, <1>7, <2>3, Jobs DEF ActiveTurns
  <2> QED BY <2>1, <2>2, <2>3
<1>11. TurnsFit'
  <2>1. ASSUME NEW j \in Turn, job'[j].status \in Status
        PROVE  mode[j[1]] \in {"LIVE", "REVIEW"} /\ j[2] <= Len(message'[j[1]])
    <3>1. CASE j = turn
      BY <1>3, <1>4, <1>5, <1>8, <3>1
    <3>2. CASE j # turn
      <4>1. mode[j[1]] \in {"LIVE", "REVIEW"} /\ j[2] <= Len(message[j[1]])
        BY <1>7, <2>1, <3>2, Jobs DEF PrivateInv, DataInv, TurnsFit
      <4>2. Len(message[j[1]]) <= Len(message'[j[1]]) /\ Len(message[j[1]]) \in Nat
            /\ Len(message'[j[1]]) \in Nat
        <5>1. j[1] \in Chat
          BY Jobs
        <5>2. Len(message[j[1]]) \in Nat
          BY <5>1 DEF PrivateInv, DataInv, DataTyped
        <5>3. CASE j[1] = c
          BY <1>4, <1>8, <5>3
        <5>4. CASE j[1] # c
          BY <1>8, <5>1, <5>2, <5>4
        <5> QED BY <5>3, <5>4
      <4> QED BY <4>1, <4>2, Jobs
    <3> QED BY <3>1, <3>2
  <2>2. \A d \in Chat : mode[d] = "purged" => message'[d] = <<>>
    BY <1>3, <1>8 DEF PrivateInv, DataInv, TurnsFit
  <2> QED BY <1>3, <2>1, <2>2 DEF TurnsFit
<1>12. NothingPrivateAfterEnd'
  BY <1>3, <1>5, <1>7, <1>8, Jobs DEF PrivateInv, DataInv, NothingPrivateAfterEnd, Expected
<1>13. ResultMatchesJob'
  <2>1. \A j \in Summary : job'[j] = job[j]
    BY <1>5, <1>7, Jobs
  <2>2. ASSUME NEW j \in Turn
        PROVE  /\ job'[j].status = "SUCCEEDED" <=> Answered(j)'
               /\ job'[j].status \in Status => message'[j[1]][j[2]] = "USER"
    <3>1. CASE j[1] # c
      BY <1>5, <1>7, <1>8, <3>1, Jobs DEF PrivateInv, DataInv, ResultMatchesJob, Answered
    <3>2. CASE j = turn
      BY <1>4, <1>5, <1>6, <1>7, <1>8, <3>2 DEF Answered
    <3>3. CASE j[1] = c /\ j # turn
      <4>1. j[2] \in Nat /\ job'[j] = job[j]
        BY <1>7, <3>3, Jobs
      <4>2. Answered(j)' <=> Answered(j)
        <5>1. CASE j[2] < Len(message[c])
          <6>1. j[2] + 1 \in 1 .. Len(message[c]) /\ j[2] < Len(message'[c])
            BY <1>4, <1>8, <4>1, <5>1
          <6> QED BY <1>8, <3>3, <5>1, <6>1 DEF Answered
        <5>2. CASE j[2] = Len(message[c])
          <6>1. message'[c][j[2] + 1] # "ASSISTANT"
            BY <1>8, <5>2
          <6> QED BY <1>4, <3>3, <5>2, <6>1 DEF Answered
        <5>3. CASE j[2] > Len(message[c])
          BY <1>4, <1>8, <3>3, <4>1, <5>3 DEF Answered
        <5> QED BY <1>4, <4>1, <5>1, <5>2, <5>3
      <4>3. job[j].status \in Status => j[2] \in 1 .. Len(message[c])
        BY <1>4, <3>3, <4>1, Jobs DEF PrivateInv, DataInv, TurnsFit
      <4> QED BY <1>8, <3>3, <4>1, <4>2, <4>3 DEF PrivateInv, DataInv, ResultMatchesJob
    <3> QED BY <3>1, <3>2, <3>3
  <2> QED BY <1>3, <2>1, <2>2 DEF PrivateInv, DataInv, ResultMatchesJob
<1> QED BY <1>1, <1>9, <1>10, <1>11, <1>12, <1>13 DEF PrivateInv, DataInv

LEMMA RetryStep ==
    ASSUME PrivateInv, NEW j \in Job, Retry(j)
    PROVE  PrivateInv'
<1> DEFINE r == [status |-> "PENDING", attempt |-> job[j].attempt + 1, retryable |-> FALSE]
<1>1. job[j] \in Row
  BY DEF PrivateInv, DataInv, DataTyped
<1>2. r \in Row /\ r.status = "PENDING"
  BY <1>1, PersonalBounds DEF Row, Status, Active, Retry
<1>3. /\ job' = [job EXCEPT ![j] = r] /\ job[j].status = "FAILED"
      /\ IsTurn(j) => ActiveTurns(j[1]) = {}
      /\ UNCHANGED <<session, mode, message, summary, record, ending, run, crashes>>
  BY DEF Retry
<1> HIDE DEF r
<1>4. DataInv'
  <2>1. "PENDING" \in Status \ {"SUCCEEDED"} /\ "FAILED" \in Status \ {"SUCCEEDED"}
    BY DEF Status, Active
  <2> QED BY <1>2, <1>3, <2>1, RowMoves DEF PrivateInv
<1> QED BY <1>3, <1>4 DEF PrivateInv, RequestsTyped, RunsTyped

-----------------------------------------------------------------------------
(* The end of the class *)

LEMMA EndingStep ==
    ASSUME PrivateInv, ListRecords \/ EndRefused
    PROVE  PrivateInv'
<1>1. RequestsTyped'
  BY DEF PrivateInv, RequestsTyped, ListRecords, EndRefused
<1> QED BY <1>1, DataStays DEF PrivateInv, RunsTyped, ListRecords, EndRefused

(* purge_live: of the rows that stay, each belongs to a chat in REVIEW. *)
LEMMA EndClassStep ==
    ASSUME PrivateInv, EndClass
    PROVE  PrivateInv'
<1> DEFINE gone == Summary \cup {j \in Turn : j[1] \in LiveChats}
<1>1. /\ session' = "PROCESSING" /\ summary' = {}
      /\ mode' = Cleared(mode, LiveChats, "purged")
      /\ message' = Cleared(message, LiveChats, <<>>)
      /\ job' = Cleared(job, gone, NoRow)
      /\ MarkPurged(ending.listed) /\ ending' = [at |-> "no", listed |-> {}]
      /\ UNCHANGED <<run, crashes>>
  BY DEF EndClass, PurgeLive
<1>2. RequestsTyped' /\ RunsTyped'
  <2>1. \A r \in Record : [r EXCEPT !.state = "purged"] \in Record
    BY DEF Record
  <2> QED BY <1>1, <2>1 DEF PrivateInv, RequestsTyped, RunsTyped, MarkPurged
<1>3. /\ \A c \in Chat : mode'[c] = IF mode[c] = "LIVE" THEN "purged" ELSE mode[c]
      /\ \A c \in Chat : message'[c] = IF mode[c] = "LIVE" THEN <<>> ELSE message[c]
  BY <1>1 DEF PrivateInv, DataInv, DataTyped, Cleared, LiveChats
<1>4. \A j \in Job : job'[j] = IF j \in gone THEN NoRow ELSE job[j]
  BY <1>1 DEF PrivateInv, DataInv, DataTyped, Cleared
<1>5. \A j \in Turn : j \in gone <=> mode[j[1]] = "LIVE"
  BY Jobs DEF LiveChats
<1>6. \A j \in Summary : j \in gone
  OBVIOUS
<1> HIDE DEF gone
<1>7. NoRow \in Row /\ NoRow.status = "ABSENT"
  BY PersonalBounds DEF NoRow, Row
<1>8. DataTyped'
  <2>1. mode' \in [Chat -> {"none", "LIVE", "REVIEW", "purged"}]
    BY <1>1 DEF PrivateInv, DataInv, DataTyped, Cleared
  <2>2. message' \in [Chat -> Seq({"USER", "ASSISTANT"})]
    <3>1. <<>> \in Seq({"USER", "ASSISTANT"})
      OBVIOUS
    <3> QED BY <1>1, <3>1 DEF PrivateInv, DataInv, DataTyped, Cleared
  <2>3. \A c \in Chat : Len(message'[c]) <= MaxMessage
    BY <1>3, PersonalBounds DEF PrivateInv, DataInv, DataTyped
  <2>4. job' \in [Job -> Row]
    BY <1>1, <1>7 DEF PrivateInv, DataInv, DataTyped, Cleared
  <2> QED BY <1>1, <2>1, <2>2, <2>3, <2>4 DEF DataTyped
<1>9. \A j \in Job : job'[j].status \in Status =>
        j \notin gone /\ job'[j] = job[j]
  BY <1>4, <1>7, Statuses
<1>10. AtMostOneActive'
  BY <1>9, Jobs, Statuses DEF PrivateInv, DataInv, AtMostOneActive
<1>11. ASSUME NEW j \in Turn, job'[j].status \in Status
       PROVE  /\ mode'[j[1]] = mode[j[1]] /\ message'[j[1]] = message[j[1]]
              /\ mode[j[1]] = "REVIEW" /\ j[2] <= Len(message[j[1]])
  BY <1>3, <1>5, <1>9, <1>11, Jobs DEF PrivateInv, DataInv, TurnsFit
<1>12. TurnsFit'
  BY <1>3, <1>11, Jobs DEF PrivateInv, DataInv, TurnsFit
<1>13. \A j \in Job : job'[j].status \in Status => j \in Turn
  BY <1>6, <1>9 DEF Job
<1>14. NothingPrivateAfterEnd'
  BY <1>1, <1>3, <1>11, <1>12, <1>13, Jobs DEF NothingPrivateAfterEnd, TurnsFit
<1>15. ResultMatchesJob'
  <2>1. \A j \in Summary : job'[j].status # "SUCCEEDED"
    BY <1>4, <1>6, <1>7, Jobs
  <2>2. ASSUME NEW j \in Turn
        PROVE  /\ job'[j].status = "SUCCEEDED" <=> Answered(j)'
               /\ job'[j].status \in Status => message'[j[1]][j[2]] = "USER"
    <3>1. CASE mode[j[1]] = "LIVE"
      <4>1. message'[j[1]] = <<>> /\ job'[j] = NoRow
        BY <1>3, <1>4, <1>5, <3>1, Jobs
      <4>2. Len(<<>>) = 0 /\ j[2] \in Nat
        BY Jobs
      <4> QED BY <1>7, <4>1, <4>2, Statuses DEF Answered
    <3>2. CASE mode[j[1]] # "LIVE"
      <4>1. message'[j[1]] = message[j[1]] /\ job'[j] = job[j]
        BY <1>3, <1>4, <1>5, <3>2, Jobs
      <4> QED BY <4>1 DEF PrivateInv, DataInv, ResultMatchesJob, Answered
    <3> QED BY <3>1, <3>2
  <2> QED BY <1>1, <2>1, <2>2 DEF ResultMatchesJob
<1> QED BY <1>2, <1>8, <1>10, <1>12, <1>14, <1>15 DEF PrivateInv, DataInv

LEMMA CompleteStep ==
    ASSUME PrivateInv, Complete
    PROVE  PrivateInv'
<1>1. DataTyped' /\ AtMostOneActive' /\ TurnsFit'
  BY DEF PrivateInv, DataInv, DataTyped, AtMostOneActive, TurnsFit, Complete
<1>2. NothingPrivateAfterEnd' /\ ResultMatchesJob'
  BY DEF PrivateInv, DataInv, NothingPrivateAfterEnd, ResultMatchesJob, Answered, Complete
<1> QED BY <1>1, <1>2 DEF PrivateInv, DataInv, RequestsTyped, RunsTyped, Complete

-----------------------------------------------------------------------------
(* PersonalAIWorker *)

LEMMA RunTyped ==
    ASSUME RunsTyped, NEW w \in Worker, UNCHANGED crashes,
           \/ Drop(w)
           \/ run[w].at # "idle" /\ \E at \in {"generated", "failing"}, retryable \in BOOLEAN : SetRun(w, at, retryable)
    PROVE  RunsTyped'
<1>1. Idle \in Run /\ Idle.at = "idle"
  BY PersonalBounds DEF Idle, Run
<1>2. CASE Drop(w)
  BY <1>1, <1>2 DEF RunsTyped, Drop
<1>3. ASSUME NEW at \in {"generated", "failing"}, NEW retryable \in BOOLEAN, SetRun(w, at, retryable),
             run[w].at # "idle"
      PROVE  RunsTyped'
  <2>1. run' = [run EXCEPT ![w] = [@ EXCEPT !.at = at, !.retryable = retryable]]
    BY <1>3 DEF SetRun, RunsTyped, Run
  <2>2. ASSUME NEW r \in Run
        PROVE  /\ [r EXCEPT !.at = at, !.retryable = retryable] \in Run
               /\ [r EXCEPT !.at = at, !.retryable = retryable].job = r.job
    BY DEF Run
  <2>3. run'[w].job \in Job
    BY <1>3, <2>1, <2>2 DEF RunsTyped
  <2> QED BY <2>1, <2>2, <2>3 DEF RunsTyped
<1> QED BY <1>2, <1>3

LEMMA ExpireStep ==
    ASSUME PrivateInv, NEW j \in Job, Expire(j)
    PROVE  PrivateInv'
<1> DEFINE r == [job[j] EXCEPT !.status = "FAILED", !.retryable = TRUE]
<1>1. job[j] \in Row
  BY DEF PrivateInv, DataInv, DataTyped
<1>2. r \in Row /\ r.status = "FAILED"
  BY <1>1 DEF Row, Status
<1>3. job' = [job EXCEPT ![j] = r] /\ job[j].status = "RUNNING"
  BY DEF Expire, PrivateInv, DataInv, DataTyped
<1> HIDE DEF r
<1>4. DataInv'
  <2>1. "RUNNING" \in Status \ {"SUCCEEDED"} /\ "FAILED" \in (Status \ {"SUCCEEDED"}) \ Active
    BY DEF Status, Active
  <2> QED BY <1>2, <1>3, <2>1, RowMoves DEF PrivateInv, Expire
<1> QED BY <1>4 DEF PrivateInv, RequestsTyped, RunsTyped, Expire

LEMMA PickStep ==
    ASSUME PrivateInv, NEW w \in Worker, NEW j \in Job, Pick(w, j)
    PROVE  PrivateInv'
<1>1. /\ [Idle EXCEPT !.at = "picked", !.job = j] \in Run
      /\ [Idle EXCEPT !.at = "picked", !.job = j].job = j
  <2>1. Idle \in Run
    BY PersonalBounds DEF Idle, Run
  <2> HIDE DEF Idle
  <2> QED BY <2>1 DEF Run
<1>2. RunsTyped'
  BY <1>1 DEF PrivateInv, RunsTyped, Pick
<1> QED BY <1>2, DataStays DEF PrivateInv, RequestsTyped, Pick

LEMMA ClaimStep ==
    ASSUME PrivateInv, NEW w \in Worker, Claim(w)
    PROVE  PrivateInv'
<1> DEFINE j == run[w].job
<1>1. UNCHANGED <<session, mode, message, summary, record, ending, crashes>>
  BY DEF Claim
<1>2. CASE job[j].status = "PENDING" /\ Current(j)
  <2> DEFINE r == [job[j] EXCEPT !.status = "RUNNING"]
  <2>1. /\ job' = [job EXCEPT ![j] = r]
        /\ run' = [run EXCEPT ![w].at = "claimed", ![w].attempt = job[j].attempt]
    BY <1>2 DEF Claim, PrivateInv, DataInv, DataTyped
  <2>2. j \in Job => r \in Row /\ r.status = "RUNNING"
    BY DEF PrivateInv, DataInv, DataTyped, Row, Status, Active
  <2>3. DataInv'
    <3>1. /\ {"PENDING", "RUNNING"} \subseteq Status \ {"SUCCEEDED"}
          /\ {"PENDING", "RUNNING"} \subseteq Active
      BY DEF Status, Active
    <3> HIDE DEF r, j
    <3> QED BY <1>1, <1>2, <2>1, <2>2, <3>1, RowMoves DEF PrivateInv
  <2>4. RunsTyped'
    <3>1. j \in Job
      BY <1>2 DEF PrivateInv, RunsTyped, Run, Claim
    <3>2. job[j].attempt \in 0 .. MaxAttempt
      BY <3>1 DEF PrivateInv, DataInv, DataTyped, Row
    <3>3. \A v \in Worker : run'[v].job = run[v].job /\ (v # w => run'[v] = run[v])
      BY <2>1 DEF PrivateInv, RunsTyped, Run
    <3>4. run' \in [Worker -> Run]
      <4> HIDE DEF j
      <4> QED BY <2>1, <3>2 DEF PrivateInv, RunsTyped, Run
    <3> QED BY <1>1, <3>1, <3>3, <3>4 DEF PrivateInv, RunsTyped
  <2> QED BY <1>1, <2>3, <2>4 DEF PrivateInv, RequestsTyped
<1>3. CASE ~(job[j].status = "PENDING" /\ Current(j))
  <2> DEFINE status == IF job[j].status \in Active /\ ~Current(j) THEN "CANCELLED" ELSE job[j].status
             r == [job[j] EXCEPT !.status = status]
  <2>1. job' = [job EXCEPT ![j] = r] /\ Drop(w)
    BY <1>3 DEF Claim, PrivateInv, DataInv, DataTyped
  <2>2. RunsTyped'
    BY <1>1, <2>1, RunTyped DEF PrivateInv
  <2>3. DataInv'
    <3>1. CASE job[j].status \in Active /\ ~Current(j)
      <4>1. j \in Job => r \in Row /\ r.status = "CANCELLED"
        BY <3>1 DEF PrivateInv, DataInv, DataTyped, Row, Status
      <4>2. Active \subseteq Status \ {"SUCCEEDED"} /\ "CANCELLED" \in (Status \ {"SUCCEEDED"}) \ Active
        BY DEF Status, Active
      <4> HIDE DEF r, status, j
      <4> QED BY <1>1, <2>1, <3>1, <4>1, <4>2, RowMoves DEF PrivateInv
    <3>2. CASE ~(job[j].status \in Active /\ ~Current(j))
      <4>1. j \in Job => r = job[j]
        BY <3>2 DEF PrivateInv, DataInv, DataTyped, Row
      <4> HIDE DEF r, status, j
      <4>2. job' = job
        BY <2>1, <4>1 DEF PrivateInv, DataInv, DataTyped
      <4> QED BY <1>1, <4>2, DataStays DEF PrivateInv, data
    <3> QED BY <3>1, <3>2
  <2> QED BY <1>1, <2>2, <2>3 DEF PrivateInv, RequestsTyped
<1> QED BY <1>2, <1>3

LEMMA AnswerStep ==
    ASSUME PrivateInv, NEW w \in Worker, Generate(w) \/ ProviderFails(w)
    PROVE  PrivateInv'
<1>1. /\ run[w].at # "idle"
      /\ \E at \in {"generated", "failing"}, retryable \in BOOLEAN : SetRun(w, at, retryable)
  BY DEF Generate, ProviderFails
<1>2. UNCHANGED <<data, record, ending, crashes>>
  BY DEF Generate, ProviderFails
<1>3. RunsTyped'
  BY <1>1, <1>2, RunTyped DEF PrivateInv
<1> QED BY <1>2, <1>3, DataStays DEF PrivateInv, RequestsTyped

LEMMA PersistSummaryStep ==
    ASSUME PrivateInv, NEW w \in Worker, PersistSummary(w)
    PROVE  PrivateInv'
<1> DEFINE j == run[w].job
<1>1. /\ UNCHANGED <<session, mode, message, record, ending, crashes>> /\ Drop(w)
      /\ j \in Job /\ ~IsTurn(j)
  BY DEF PersistSummary, PrivateInv, RunsTyped
<1>2. RunsTyped' /\ j \in Summary
  BY <1>1, RunTyped, Jobs DEF PrivateInv, Job
<1>3. CASE ~Fenced(w)
  BY <1>1, <1>2, <1>3, DataStays DEF PrivateInv, RequestsTyped, PersistSummary, data
<1>4. CASE Fenced(w) /\ session = "LIVE"
  <2> DEFINE r == [job[j] EXCEPT !.status = "SUCCEEDED"]
  <2>1. /\ summary' = summary \cup {j} /\ job' = [job EXCEPT ![j] = r]
        /\ r \in Row /\ r.status = "SUCCEEDED"
    BY <1>1, <1>4 DEF PersistSummary, Succeed, PrivateInv, DataInv, DataTyped, Row, Status
  <2> HIDE DEF r, j
  <2>2. /\ job'[j] = r /\ \A i \in Job : i # j => job'[i] = job[i]
        /\ \A i \in Turn : job'[i] = job[i]
    BY <1>1, <2>1, <1>2, Jobs DEF PrivateInv, DataInv, DataTyped
  <2>3. DataTyped'
    BY <1>1, <1>2, <2>1 DEF PrivateInv, DataInv, DataTyped
  <2>4. AtMostOneActive' /\ TurnsFit' /\ NothingPrivateAfterEnd'
    BY <1>1, <1>4, <2>2 DEF PrivateInv, DataInv, AtMostOneActive, TurnsFit, NothingPrivateAfterEnd
  <2>5. ResultMatchesJob'
    BY <1>1, <1>2, <2>1, <2>2, Jobs DEF PrivateInv, DataInv, ResultMatchesJob, Answered
  <2> QED BY <1>1, <1>2, <2>3, <2>4, <2>5 DEF PrivateInv, DataInv, RequestsTyped
<1>5. CASE Fenced(w) /\ session # "LIVE"
  <2> DEFINE r == [job[j] EXCEPT !.status = "FAILED"]
  <2>1. /\ UNCHANGED summary /\ job' = [job EXCEPT ![j] = r] /\ job[j].status = "RUNNING"
        /\ r \in Row /\ r.status = "FAILED"
    BY <1>1, <1>5 DEF PersistSummary, Fenced, PrivateInv, DataInv, DataTyped, Row, Status
  <2>2. DataInv'
    <3>1. "RUNNING" \in Status \ {"SUCCEEDED"} /\ "FAILED" \in (Status \ {"SUCCEEDED"}) \ Active
      BY DEF Status, Active
    <3> HIDE DEF r, j
    <3> QED BY <1>1, <2>1, <3>1, RowMoves DEF PrivateInv
  <2> QED BY <1>1, <1>2, <2>2 DEF PrivateInv, RequestsTyped
<1> QED BY <1>3, <1>4, <1>5

(* The answer takes the place after its USER message, which is the last:    *)
(* the row that succeeds is the one whose answer is stored.                 *)
LEMMA PersistResponseStep ==
    ASSUME PrivateInv, NEW w \in Worker, PersistResponse(w)
    PROVE  PrivateInv'
<1> DEFINE j == run[w].job
           c == j[1]
<1>1. /\ UNCHANGED <<session, mode, summary, record, ending, crashes>>
      /\ j \in Job /\ IsTurn(j) /\ run[w].at # "idle"
  BY DEF PersistResponse, PrivateInv, RunsTyped
<1>2. RunsTyped'
  <2>1. \/ Drop(w)
        \/ SetRun(w, "failing", TRUE)
    BY DEF PersistResponse
  <2> QED BY <1>1, <2>1, RunTyped DEF PrivateInv
<1>3. CASE ~(Fenced(w) /\ Current(j) /\ RoomForAnswer(j))
  <2>1. UNCHANGED data
    BY <1>1, <1>3 DEF PersistResponse, data
  <2> QED BY <1>1, <1>2, <2>1, DataStays DEF PrivateInv, RequestsTyped
<1>4. CASE Fenced(w) /\ Current(j) /\ RoomForAnswer(j)
  <2> DEFINE r == [job[j] EXCEPT !.status = "SUCCEEDED"]
  <2>1. j \in Turn /\ c \in Chat /\ j[2] \in 1 .. MaxMessage - 1
    BY <1>1, Jobs
  <2>2. /\ message' = [message EXCEPT ![c] = Append(@, "ASSISTANT")]
        /\ job' = [job EXCEPT ![j] = r] /\ job[j].status = "RUNNING"
        /\ r \in Row /\ r.status = "SUCCEEDED"
        /\ mode[c] \in {"LIVE", "REVIEW"} /\ session = Expected(mode[c])
        /\ Len(message[c]) = j[2]
    BY <1>1, <1>4 DEF PersistResponse, Succeed, Fenced, Current, RoomForAnswer,
                      PrivateInv, DataInv, DataTyped, Row, Status
  <2>3. message[c] \in Seq({"USER", "ASSISTANT"}) /\ Len(message[c]) \in Nat
    BY <2>1 DEF PrivateInv, DataInv, DataTyped
  <2> HIDE DEF r, j, c
  <2>4. /\ job' \in [Job -> Row] /\ job'[j] = r
        /\ \A i \in Job : i # j => job'[i] = job[i]
    BY <1>1, <2>2 DEF PrivateInv, DataInv, DataTyped
  <2>5. /\ message'[c] = Append(message[c], "ASSISTANT")
        /\ message'[c] \in Seq({"USER", "ASSISTANT"}) /\ Len(message'[c]) = Len(message[c]) + 1
        /\ message'[c][Len(message[c]) + 1] = "ASSISTANT"
        /\ \A n \in 1 .. Len(message[c]) : message'[c][n] = message[c][n]
        /\ \A d \in Chat : d # c => message'[d] = message[d]
    BY <2>1, <2>2, <2>3 DEF PrivateInv, DataInv, DataTyped
  <2>6. DataTyped'
    <3>1. message' \in [Chat -> Seq({"USER", "ASSISTANT"})]
      BY <2>1, <2>2, <2>5 DEF PrivateInv, DataInv, DataTyped
    <3>2. ASSUME NEW d \in Chat PROVE Len(message'[d]) <= MaxMessage
      <4>1. CASE d = c
        BY <2>1, <2>2, <2>3, <2>5, <4>1, PersonalBounds
      <4>2. CASE d # c
        BY <2>5, <4>2 DEF PrivateInv, DataInv, DataTyped
      <4> QED BY <4>1, <4>2
    <3> QED BY <1>1, <2>4, <3>1, <3>2 DEF PrivateInv, DataInv, DataTyped
  <2>7. \A i \in Job : /\ job'[i].status \in Status <=> job[i].status \in Status
                       /\ job'[i].status \in Active => job[i].status \in Active
    BY <2>2, <2>4 DEF Status, Active
  <2>8. AtMostOneActive'
    BY <2>7, Jobs DEF PrivateInv, DataInv, AtMostOneActive
  <2>9. TurnsFit'
    <3>1. ASSUME NEW i \in Turn, job'[i].status \in Status
          PROVE  mode[i[1]] \in {"LIVE", "REVIEW"} /\ i[2] <= Len(message'[i[1]])
      <4>1. /\ mode[i[1]] \in {"LIVE", "REVIEW"} /\ i[2] <= Len(message[i[1]])
            /\ i[1] \in Chat /\ i[2] \in Nat
        BY <2>7, <3>1, Jobs DEF PrivateInv, DataInv, TurnsFit
      <4>2. CASE i[1] = c
        BY <2>3, <2>5, <4>1, <4>2
      <4>3. CASE i[1] # c
        BY <2>5, <4>1, <4>3
      <4> QED BY <4>1, <4>2, <4>3
    <3>2. \A d \in Chat : mode[d] = "purged" => message'[d] = <<>>
      BY <2>2, <2>5 DEF PrivateInv, DataInv, TurnsFit
    <3> QED BY <1>1, <3>1, <3>2 DEF TurnsFit
  <2>10. NothingPrivateAfterEnd'
    BY <1>1, <2>2, <2>5, <2>7, Jobs DEF PrivateInv, DataInv, NothingPrivateAfterEnd, Expected
  <2>11. ResultMatchesJob'
    <3>1. \A i \in Summary : job'[i] = job[i]
      BY <2>1, <2>4, Jobs
    <3>2. ASSUME NEW i \in Turn
          PROVE  /\ job'[i].status = "SUCCEEDED" <=> Answered(i)'
                 /\ job'[i].status \in Status => message'[i[1]][i[2]] = "USER"
      <4>1. i \in Job /\ i[1] \in Chat /\ i[2] \in Nat /\ i[2] >= 1
        BY Jobs
      <4>2. CASE i[1] # c
        BY <2>4, <2>5, <4>1, <4>2 DEF PrivateInv, DataInv, ResultMatchesJob, Answered, c
      <4>3. CASE i[1] = c /\ i[2] # j[2]
        <5>1. job'[i] = job[i] /\ j[2] \in Nat
          BY <2>1, <2>4, <4>1, <4>3
        <5>2. Answered(i)' <=> Answered(i)
          <6>1. CASE i[2] < Len(message[c])
            <7>1. i[2] + 1 \in 1 .. Len(message[c]) /\ i[2] < Len(message'[c])
              BY <2>3, <2>5, <4>1, <6>1
            <7> QED BY <2>5, <4>3, <6>1, <7>1 DEF Answered
          <6>2. CASE ~(i[2] < Len(message[c]))
            <7>1. ~(i[2] < Len(message'[c]))
              BY <2>2, <2>3, <2>5, <4>1, <4>3, <5>1, <6>2
            <7> QED BY <4>3, <6>2, <7>1 DEF Answered
          <6> QED BY <6>1, <6>2
        <5>3. job[i].status \in Status => i[2] \in 1 .. Len(message[c])
          BY <2>3, <4>1, <4>3 DEF PrivateInv, DataInv, TurnsFit
        <5> QED BY <2>5, <4>3, <5>1, <5>2, <5>3 DEF PrivateInv, DataInv, ResultMatchesJob
      <4>4. CASE i[1] = c /\ i[2] = j[2]
        <5>1. i = j
          BY <2>1, <4>4 DEF Turn, c
        <5>2. Answered(i)'
          BY <2>2, <2>3, <2>5, <4>4 DEF Answered
        <5>3. job[j].status \in Status /\ message[c][j[2]] = "USER" /\ j[2] \in 1 .. Len(message[c])
          BY <2>1, <2>2, <2>3 DEF PrivateInv, DataInv, ResultMatchesJob, Status, Active, c
        <5> QED BY <2>2, <2>4, <2>5, <4>4, <5>1, <5>2, <5>3
      <4> QED BY <4>2, <4>3, <4>4
    <3> QED BY <1>1, <3>1, <3>2 DEF PrivateInv, DataInv, ResultMatchesJob
  <2> QED BY <1>1, <1>2, <2>6, <2>8, <2>9, <2>10, <2>11 DEF PrivateInv, DataInv, RequestsTyped
<1> QED BY <1>3, <1>4

LEMMA FailStep ==
    ASSUME PrivateInv, NEW w \in Worker, Fail(w)
    PROVE  PrivateInv'
<1> DEFINE j == run[w].job
           r == [job[j] EXCEPT !.status = "FAILED", !.retryable = run[w].retryable]
<1>1. /\ UNCHANGED <<session, mode, message, summary, record, ending, crashes>> /\ Drop(w)
      /\ j \in Job /\ run[w].retryable \in BOOLEAN
  BY DEF Fail, PrivateInv, RunsTyped, Run
<1>2. RunsTyped'
  BY <1>1, RunTyped DEF PrivateInv
<1>3. CASE ~Fenced(w)
  BY <1>1, <1>2, <1>3, DataStays DEF PrivateInv, RequestsTyped, Fail, data
<1>4. CASE Fenced(w)
  <2>1. job' = [job EXCEPT ![j] = r] /\ job[j].status = "RUNNING"
    BY <1>1, <1>4 DEF Fail, Fenced, PrivateInv, DataInv, DataTyped
  <2>2. r \in Row /\ r.status = "FAILED"
    BY <1>1 DEF PrivateInv, DataInv, DataTyped, Row, Status
  <2>3. DataInv'
    <3>1. "RUNNING" \in Status \ {"SUCCEEDED"} /\ "FAILED" \in (Status \ {"SUCCEEDED"}) \ Active
      BY DEF Status, Active
    <3> HIDE DEF r, j
    <3> QED BY <1>1, <2>1, <2>2, <3>1, RowMoves DEF PrivateInv
  <2> QED BY <1>1, <1>2, <2>3 DEF PrivateInv, RequestsTyped
<1> QED BY <1>3, <1>4

LEMMA CrashStep ==
    ASSUME PrivateInv, NEW w \in Worker, Crash(w)
    PROVE  PrivateInv'
<1>1. Idle \in Run /\ Idle.at = "idle"
  BY PersonalBounds DEF Idle, Run
<1>2. RunsTyped'
  BY <1>1, PersonalBounds DEF PrivateInv, RunsTyped, Crash, Drop
<1> QED BY <1>2, DataStays DEF PrivateInv, RequestsTyped, Crash

-----------------------------------------------------------------------------
(* The specification *)

LEMMA NextHolds == PrivateInv /\ [Next]_vars => PrivateInv'
<1> SUFFICES ASSUME PrivateInv, [Next]_vars PROVE PrivateInv'
  OBVIOUS
<1>1. CASE UNCHANGED vars
  BY <1>1, DataStays DEF PrivateInv, RequestsTyped, RunsTyped, vars
<1>2. ASSUME NEW k \in Key, Handle(k) \/ \E request \in Request : Acquire(k, request)
      PROVE  PrivateInv'
  BY <1>2, AcquireStep, AbortStep, RequestSummaryStep, CreateChatStep, CreateTurnStep DEF Handle
<1>3. CASE ListRecords \/ EndRefused \/ EndClass \/ Complete
  BY <1>3, EndingStep, EndClassStep, CompleteStep
<1>4. ASSUME NEW w \in Worker, Work(w) PROVE PrivateInv'
  BY <1>4, PickStep, ClaimStep, AnswerStep, PersistSummaryStep, PersistResponseStep, FailStep
     DEF Work
<1>5. CASE Poll
  BY <1>4, <1>5, ExpireStep DEF Poll
<1> QED BY <1>1, <1>2, <1>3, <1>5, RetryStep, CrashStep DEF Next

LEMMA PrivateInvariant == Spec => []PrivateInv
BY InitHolds, NextHolds, PTL DEF Spec

(* Rows, requests and runs keep their types, and a chat has at most one     *)
(* active response, which a unique index of the database promises.          *)
THEOREM TypeCorrect == Spec => []TypeOK
BY TypesFollow, PrivateInvariant, PTL

(* Whatever a worker, a request or a retry was doing when the class ended,  *)
(* nothing of its LIVE conversations is left or comes back.                 *)
THEOREM NothingPrivateStays == Spec => []NothingPrivateAfterEnd
<1>1. PrivateInv => NothingPrivateAfterEnd
  BY DEF PrivateInv, DataInv
<1> QED BY <1>1, PrivateInvariant, PTL

(* A private job SUCCEEDED exactly when its summary or answer is stored.    *)
THEOREM ResultsMatchJobs == Spec => []ResultMatchesJob
<1>1. PrivateInv => ResultMatchesJob
  BY DEF PrivateInv, DataInv
<1> QED BY <1>1, PrivateInvariant, PTL

-----------------------------------------------------------------------------
(* The contract of the ledger's jobs *)

AbsentRows == \A j \in Job : job[j].status = "ABSENT" => job[j].attempt = 0

(* How a row may change while its conversation is not purged. *)
Moves(a, b) ==
    \/ b = a
    \/ b.attempt = a.attempt /\ a.status \in Active /\ b.status \in Status
    \/ /\ b.attempt = a.attempt + 1
       /\ a.status \in {"ABSENT", "FAILED"} /\ b.status = "PENDING"

RowFollows(j) == Moves(job[j], job'[j]) \/ (job'[j] = NoRow /\ Forbidden(j)')

LEMMA OneMoves ==
    ASSUME job \in [Job -> Row], NEW k \in Job, NEW r, Moves(job[k], r),
           job' = [job EXCEPT ![k] = r], NEW j \in Job
    PROVE  RowFollows(j)
<1>1. job'[j] = IF j = k THEN r ELSE job[j]
  OBVIOUS
<1> QED BY <1>1 DEF RowFollows, Moves

LEMMA RowFollowsStays ==
    ASSUME UNCHANGED job, NEW j \in Job
    PROVE  RowFollows(j)
BY DEF RowFollows, Moves

LEMMA RequestMoves ==
    ASSUME PrivateInv, AbsentRows, NEW j \in Job, NEW k \in Key,
           Handle(k) \/ \E request \in Request : Acquire(k, request)
    PROVE  RowFollows(j)
<1>0. /\ job \in [Job -> Row] /\ record \in [Key -> Record]
      /\ message \in [Chat -> Seq({"USER", "ASSISTANT"})]
  BY DEF PrivateInv, DataInv, DataTyped, RequestsTyped
<1>1. NewJob.status = "PENDING" /\ NewJob.attempt = 1
  BY DEF NewJob
<1>2. CASE RequestSummary(k)
  <2> DEFINE r == SummaryOf(record[k].request.range)
  <2>1. r \in Job
    <3>1. record[k].request.kind = "summary" /\ record[k].request \in Request \cup {NoRequest}
      BY <1>0, <1>2 DEF RequestSummary, Record
    <3>2. record[k].request.range \in SourceRange
      BY <3>1 DEF Request, NoRequest
    <3> QED BY <3>2 DEF SummaryOf, Summary, Job
  <2>2. job' = IF job[r].status = "ABSENT" THEN [job EXCEPT ![r] = NewJob] ELSE job
    BY <1>2 DEF RequestSummary
  <2> HIDE DEF r
  <2>3. CASE job[r].status = "ABSENT"
    <3>1. Moves(job[r], NewJob)
      BY <1>1, <2>1, <2>3 DEF AbsentRows, Moves
    <3> QED BY <1>0, <2>1, <2>2, <2>3, <3>1, OneMoves
  <2>4. CASE job[r].status # "ABSENT"
    BY <2>2, <2>4, RowFollowsStays
  <2> QED BY <2>3, <2>4
<1>3. CASE CreateTurn(k)
  <2> DEFINE c == record[k].request.chat
             turn == <<c, Len(message[c]) + 1>>
  <2>1. /\ record[k].request.kind = "message" /\ Len(message[c]) + 1 < MaxMessage
        /\ job' = [job EXCEPT ![turn] = NewJob]
    BY <1>3 DEF CreateTurn
  <2>2. c \in Chat
    <3>1. record[k].request \in Request \cup {NoRequest}
      BY <1>0 DEF Record
    <3> QED BY <2>1, <3>1 DEF Request, NoRequest
  <2>3. Len(message[c]) \in Nat
    BY <1>0, <2>2
  <2> HIDE DEF c
  <2>4. turn \in Turn /\ turn[1] = c /\ turn[2] = Len(message[c]) + 1
    BY <2>1, <2>2, <2>3, PersonalBounds DEF Turn
  <2> HIDE DEF turn
  <2>5. turn \in Job /\ job[turn].status = "ABSENT" /\ job[turn].attempt = 0
    <3>1. turn \in Job /\ job[turn].status \in Status \cup {"ABSENT"}
      BY <1>0, <2>4, Jobs DEF Row
    <3>2. job[turn].status \notin Status
      BY <2>3, <2>4 DEF PrivateInv, DataInv, TurnsFit
    <3> QED BY <3>1, <3>2 DEF AbsentRows
  <2>6. Moves(job[turn], NewJob)
    BY <1>1, <2>5 DEF Moves
  <2> QED BY <1>0, <2>1, <2>5, <2>6, OneMoves
<1>4. CASE CreateChat(k) \/ Abort(k) \/ \E request \in Request : Acquire(k, request)
  <2>1. UNCHANGED job
    BY <1>4 DEF CreateChat, Abort, Acquire, data
  <2> QED BY <2>1, RowFollowsStays
<1> QED BY <1>2, <1>3, <1>4 DEF Handle

LEMMA EndMoves ==
    ASSUME PrivateInv, NEW j \in Job, EndClass
    PROVE  RowFollows(j)
<1>0. job \in [Job -> Row] /\ mode \in [Chat -> {"none", "LIVE", "REVIEW", "purged"}]
  BY DEF PrivateInv, DataInv, DataTyped
<1>1. /\ job' = Cleared(job, Summary \cup {i \in Turn : i[1] \in LiveChats}, NoRow)
      /\ mode' = Cleared(mode, LiveChats, "purged") /\ session' = "PROCESSING"
  BY DEF EndClass, PurgeLive
<1>2. CASE j \in Summary
  <2>1. job'[j] = NoRow
    BY <1>0, <1>1, <1>2 DEF Cleared
  <2>2. Forbidden(j)'
    BY <1>1, <1>2, Jobs DEF Forbidden
  <2> QED BY <2>1, <2>2 DEF RowFollows
<1>3. CASE j \in Turn /\ j[1] \in LiveChats
  <2>1. job'[j] = NoRow
    BY <1>0, <1>1, <1>3 DEF Cleared
  <2>2. mode'[j[1]] = "purged"
    BY <1>0, <1>1, <1>3 DEF Cleared, LiveChats
  <2>3. Forbidden(j)'
    BY <1>1, <2>2 DEF Forbidden
  <2> QED BY <2>1, <2>3 DEF RowFollows
<1>4. CASE j \notin Summary /\ ~(j \in Turn /\ j[1] \in LiveChats)
  <2>1. job'[j] = job[j]
    BY <1>0, <1>1, <1>4 DEF Cleared
  <2> QED BY <2>1 DEF RowFollows, Moves
<1> QED BY <1>2, <1>3, <1>4

LEMMA WorkerMoves ==
    ASSUME PrivateInv, NEW j \in Job, NEW w \in Worker, Work(w)
    PROVE  RowFollows(j)
<1> DEFINE k == run[w].job
<1>0. job \in [Job -> Row] /\ (run[w].at # "idle" => k \in Job)
  BY DEF PrivateInv, DataInv, DataTyped, RunsTyped
<1>1. ASSUME k \in Job, job[k].status \in Active, NEW st \in Status, NEW b,
             \/ job' = [job EXCEPT ![k].status = st]
             \/ job' = [job EXCEPT ![k].status = st, ![k].retryable = b]
      PROVE  RowFollows(j)
  <2>1. job[k] \in Row
    BY <1>0, <1>1
  <2>2. PICK r \in {[job[k] EXCEPT !.status = st], [job[k] EXCEPT !.status = st, !.retryable = b]} :
          job' = [job EXCEPT ![k] = r]
    BY <1>0, <1>1
  <2>3. r.status = st /\ r.attempt = job[k].attempt
    BY <2>1, <2>2 DEF Row
  <2>4. Moves(job[k], r)
    BY <1>1, <2>3 DEF Moves
  <2> HIDE DEF k
  <2> QED BY <1>0, <1>1, <2>2, <2>4, OneMoves
<1>2. "RUNNING" \in Active /\ {"RUNNING", "CANCELLED", "SUCCEEDED", "FAILED"} \subseteq Status
      /\ "PENDING" \in Active
  BY DEF Status, Active
<1>3. CASE UNCHANGED job
  BY <1>3, RowFollowsStays
<1>4. CASE Claim(w)
  <2>1. k \in Job
    BY <1>0, <1>4 DEF Claim
  <2>2. CASE job[k].status = "PENDING" /\ Current(k)
    <3>1. job' = [job EXCEPT ![k].status = "RUNNING"]
      BY <1>4, <2>2 DEF Claim
    <3> QED BY <1>1, <1>2, <2>1, <2>2, <3>1
  <2>3. CASE ~(job[k].status = "PENDING" /\ Current(k))
    <3>1. job' = [job EXCEPT ![k].status = IF @ \in Active /\ ~Current(k) THEN "CANCELLED" ELSE @]
      BY <1>4, <2>3 DEF Claim
    <3>2. CASE job[k].status \in Active /\ ~Current(k)
      <4>1. job' = [job EXCEPT ![k].status = "CANCELLED"]
        BY <3>1, <3>2
      <4> QED BY <1>1, <1>2, <2>1, <3>2, <4>1
    <3>3. CASE ~(job[k].status \in Active /\ ~Current(k))
      <4>1. job' = [job EXCEPT ![k].status = job[k].status]
        BY <3>1, <3>3
      <4>2. job[k] \in Row
        BY <1>0, <2>1
      <4>3. job' = job
        BY <1>0, <2>1, <4>1, <4>2 DEF Row
      <4> QED BY <1>3, <4>3
    <3> QED BY <3>2, <3>3
  <2> QED BY <2>2, <2>3
<1>5. CASE PersistSummary(w)
  <2>1. k \in Job
    BY <1>0, <1>5 DEF PersistSummary
  <2>2. CASE Fenced(w)
    <3>1. job[k].status \in Active
      BY <1>2, <2>2 DEF Fenced
    <3>2. \E st \in {"SUCCEEDED", "FAILED"} : job' = [job EXCEPT ![k].status = st]
      BY <1>5, <2>2 DEF PersistSummary, Succeed
    <3> QED BY <1>1, <1>2, <2>1, <3>1, <3>2
  <2>3. CASE ~Fenced(w)
    BY <1>3, <1>5, <2>3 DEF PersistSummary
  <2> QED BY <2>2, <2>3
<1>6. CASE PersistResponse(w)
  <2>1. k \in Job
    BY <1>0, <1>6 DEF PersistResponse
  <2>2. CASE Fenced(w) /\ Current(k) /\ RoomForAnswer(k)
    <3>1. job[k].status \in Active
      BY <1>2, <2>2 DEF Fenced
    <3>2. job' = [job EXCEPT ![k].status = "SUCCEEDED"]
      BY <1>6, <2>2 DEF PersistResponse, Succeed
    <3> QED BY <1>1, <1>2, <2>1, <3>1, <3>2
  <2>3. CASE ~(Fenced(w) /\ Current(k) /\ RoomForAnswer(k))
    BY <1>3, <1>6, <2>3 DEF PersistResponse
  <2> QED BY <2>2, <2>3
<1>7. CASE Fail(w)
  <2>1. k \in Job
    BY <1>0, <1>7 DEF Fail
  <2>2. CASE Fenced(w)
    <3>1. job[k].status \in Active
      BY <1>2, <2>2 DEF Fenced
    <3>2. job' = [job EXCEPT ![k].status = "FAILED", ![k].retryable = run[w].retryable]
      BY <1>7, <2>2 DEF Fail
    <3> QED BY <1>1, <1>2, <2>1, <3>1, <3>2
  <2>3. CASE ~Fenced(w)
    BY <1>3, <1>7, <2>3 DEF Fail
  <2> QED BY <2>2, <2>3
<1>8. CASE (\E i \in Job : Pick(w, i)) \/ Generate(w) \/ ProviderFails(w)
  BY <1>3, <1>8 DEF Pick, Generate, ProviderFails, data
<1> QED BY <1>4, <1>5, <1>6, <1>7, <1>8 DEF Work

LEMMA RowsFollow ==
    ASSUME PrivateInv, AbsentRows, [Next]_vars, NEW j \in Job
    PROVE  RowFollows(j)
<1>0. job \in [Job -> Row]
  BY DEF PrivateInv, DataInv, DataTyped
<1>1. ASSUME NEW k \in Job, Expire(k) PROVE RowFollows(j)
  <2> DEFINE r == [job[k] EXCEPT !.status = "FAILED", !.retryable = TRUE]
  <2>1. job' = [job EXCEPT ![k] = r] /\ job[k].status = "RUNNING"
    BY <1>0, <1>1 DEF Expire
  <2>2. r.status = "FAILED" /\ r.attempt = job[k].attempt
    BY <1>0 DEF Row
  <2> HIDE DEF r
  <2>3. Moves(job[k], r)
    BY <2>1, <2>2 DEF Moves, Active, Status
  <2> QED BY <1>0, <2>1, <2>3, OneMoves
<1>2. ASSUME NEW k \in Job, Retry(k) PROVE RowFollows(j)
  <2> DEFINE r == [status |-> "PENDING", attempt |-> job[k].attempt + 1, retryable |-> FALSE]
  <2>1. job' = [job EXCEPT ![k] = r] /\ job[k].status = "FAILED"
    BY <1>2 DEF Retry
  <2>2. Moves(job[k], r)
    BY <2>1 DEF Moves
  <2> HIDE DEF r
  <2> QED BY <1>0, <2>1, <2>2, OneMoves
<1>3. CASE ListRecords \/ EndRefused \/ Complete \/ UNCHANGED vars \/ \E w \in Worker : Crash(w)
  <2>1. UNCHANGED job
    BY <1>3 DEF ListRecords, EndRefused, Complete, Crash, vars, data
  <2> QED BY <2>1, RowFollowsStays
<1> QED BY <1>1, <1>2, <1>3, RequestMoves, EndMoves, WorkerMoves DEF Next, Poll

LEMMA AbsentNext ==
    ASSUME PrivateInv, AbsentRows, [Next]_vars
    PROVE  AbsentRows'
<1> SUFFICES ASSUME NEW j \in Job, job'[j].status = "ABSENT" PROVE job'[j].attempt = 0
  BY DEF AbsentRows
<1> QED BY RowsFollow, Statuses DEF RowFollows, Moves, NoRow, AbsentRows

LEMMA AbsentInvariant == Spec => []AbsentRows
<1>1. Init => AbsentRows
  BY DEF Init, AbsentRows, NoRow
<1>2. PrivateInv /\ AbsentRows /\ [Next]_vars => AbsentRows'
  BY AbsentNext
<1> QED BY <1>1, <1>2, PrivateInvariant, PTL DEF Spec

(* A conversation that was purged stays purged. *)
LEMMA ForbiddenStays ==
    ASSUME PrivateInv, [Next]_vars, NEW j \in Job, Forbidden(j)
    PROVE  Forbidden(j)'
<1>1. /\ session # "LIVE"
      /\ IsTurn(j) => mode[j[1]] = "purged" /\ j[1] \in Chat
      /\ mode \in [Chat -> {"none", "LIVE", "REVIEW", "purged"}]
  BY Jobs DEF Forbidden, PrivateInv, DataInv, DataTyped
<1>2. CASE UNCHANGED <<session, mode>>
  BY <1>1, <1>2 DEF Forbidden
<1>3. ASSUME NEW k \in Key, CreateChat(k) PROVE Forbidden(j)'
  BY <1>1, <1>3 DEF CreateChat, Forbidden
<1>4. CASE EndClass
  <2>1. /\ session' = "PROCESSING" /\ mode' = Cleared(mode, LiveChats, "purged")
    BY <1>4 DEF EndClass, PurgeLive
  <2>2. ASSUME IsTurn(j) PROVE mode'[j[1]] = "purged"
    <3>1. j[1] \in DOMAIN mode /\ mode[j[1]] = "purged"
      BY <1>1, <2>2
    <3> QED BY <2>1, <3>1 DEF Cleared
  <2> QED BY <2>1, <2>2 DEF Forbidden
<1>5. CASE Complete
  BY <1>1, <1>5 DEF Complete, Forbidden
<1>6. ASSUME NEW w \in Worker, Work(w) PROVE UNCHANGED <<session, mode>>
  BY <1>6 DEF Work, Pick, Claim, Generate, ProviderFails, PersistSummary, PersistResponse, Fail, data
<1> QED BY <1>2, <1>3, <1>4, <1>5, <1>6
    DEF Next, vars, data, Poll, Handle, Acquire, Abort, RequestSummary, CreateTurn, Retry,
        ListRecords, EndRefused, Expire, Crash

(* Such a step is one of the contract's, or leaves the job as it was. *)
LEMMA RowContract ==
    ASSUME PrivateInv, PrivateInv', AbsentRows, AbsentRows', NEW j \in Job,
           Forbidden(j) => Forbidden(j)', RowFollows(j)
    PROVE  [Outcome(j)!Next]_(Outcome(j)!vars)
<1> DEFINE a == job[j]
           b == job'[j]
           gone == Forbidden(j)
           gone1 == Forbidden(j)'
<1>1. /\ a \in Row /\ b \in Row
      /\ a.status = "ABSENT" => a.attempt = 0
      /\ b.status = "ABSENT" => b.attempt = 0
      /\ a.status \in Status \cup {"ABSENT"} /\ b.status \in Status \cup {"ABSENT"}
      /\ a.attempt \in Nat /\ b.attempt \in Nat
  BY PersonalBounds DEF PrivateInv, DataInv, DataTyped, AbsentRows, Row
<1>2. /\ gone => a.status = "ABSENT"
      /\ gone1 => b.status = "ABSENT"
      /\ gone => gone1
  BY <1>1, Jobs DEF PrivateInv, DataInv, NothingPrivateAfterEnd, Forbidden
<1>3. /\ AttemptOf(j) = a.attempt /\ AttemptOf(j)' = b.attempt
      /\ PhaseOf(j) = IF a.status = "ABSENT" THEN IF gone THEN "gone" ELSE "none"
                      ELSE IF a.status \in Active THEN "open" ELSE "settled"
      /\ PhaseOf(j)' = IF b.status = "ABSENT" THEN IF gone1 THEN "gone" ELSE "none"
                       ELSE IF b.status \in Active THEN "open" ELSE "settled"
      /\ ResultOf(j) = IF a.status = "SUCCEEDED" THEN {<<j, a.attempt>>} ELSE {}
      /\ ResultOf(j)' = IF b.status = "SUCCEEDED" THEN {<<j, b.attempt>>} ELSE {}
  BY DEF AttemptOf, PhaseOf, ResultOf, Active
<1>4. Moves(a, b) \/ gone1
  BY DEF RowFollows
<1>5. ASSUME AttemptOf(j)' = AttemptOf(j), PhaseOf(j)' = PhaseOf(j), ResultOf(j)' = ResultOf(j)
      PROVE  UNCHANGED Outcome(j)!vars
  BY <1>5 DEF Outcome!vars
<1> HIDE DEF a, b, gone, gone1
<1>6. CASE gone
  BY <1>1, <1>2, <1>3, <1>5, <1>6 DEF Active, Status
<1>7. CASE ~gone /\ gone1
  <2>1. PhaseOf(j) # "gone" /\ PhaseOf(j)' = "gone" /\ AttemptOf(j)' = 0 /\ ResultOf(j)' = {}
    BY <1>1, <1>2, <1>3, <1>7 DEF Active
  <2>2. {r \in ResultOf(j) : r[1] # j} = {}
    BY <1>3
  <2>3. Outcome(j)!Withdraw(j)
    BY <2>1, <2>2 DEF Outcome!Withdraw
  <2> QED BY <2>3 DEF Outcome!Next
<1>8. CASE ~gone /\ ~gone1 /\ b = a
  BY <1>3, <1>5, <1>8
<1>9. CASE ~gone /\ ~gone1 /\ b.attempt = a.attempt /\ a.status \in Active /\ b.status \in Status
  <2>1. CASE b.status \in Active
    BY <1>3, <1>5, <1>9, <2>1 DEF Active
  <2>2. CASE b.status = "SUCCEEDED"
    <3>1. Outcome(j)!Deliver(j)
      BY <1>3, <1>9, <2>2 DEF Outcome!Deliver, Active
    <3> QED BY <3>1 DEF Outcome!Next
  <2>3. CASE b.status \in {"FAILED", "CANCELLED"}
    <3>1. Outcome(j)!Abandon({j}, {})
      BY <1>3, <1>9, <2>3 DEF Outcome!Abandon, Active
    <3> QED BY <3>1 DEF Outcome!Next
  <2> QED BY <1>9, <2>1, <2>2, <2>3 DEF Status
<1>10. CASE /\ ~gone /\ ~gone1 /\ b.attempt = a.attempt + 1
            /\ a.status \in {"ABSENT", "FAILED"} /\ b.status = "PENDING"
  <2>1. Outcome(j)!Open(j)
    BY <1>3, <1>10 DEF Outcome!Open, Active
  <2> QED BY <2>1 DEF Outcome!Next
<1> QED BY <1>4, <1>6, <1>7, <1>8, <1>9, <1>10 DEF Moves

(* Every private job keeps the contract of the ledger's jobs, whatever      *)
(* expired leases, late workers, retries and requests do to it, and one of  *)
(* a purged conversation is never opened again (PersonalAIWorker,           *)
(* purge_live).                                                             *)
THEOREM JobsKeepContract == ASSUME NEW j \in Job PROVE Spec => JobKeepsContract(j)
<1>1. Init => Outcome(j)!Init
  <2> SUFFICES ASSUME Init PROVE Outcome(j)!Init
    OBVIOUS
  <2>1. job[j].status = "ABSENT" /\ job[j].attempt = 0 /\ ~Forbidden(j)
    BY DEF Init, NoRow, Forbidden
  <2>2. AttemptOf(j) = 0 /\ ResultOf(j) = {}
    BY <2>1 DEF AttemptOf, ResultOf
  <2>3. PhaseOf(j) = "none"
    BY <2>1 DEF PhaseOf, Active
  <2> QED BY <2>2, <2>3 DEF Outcome!Init
<1>2. PrivateInv /\ PrivateInv' /\ AbsentRows /\ AbsentRows' /\ [Next]_vars
      => [Outcome(j)!Next]_(Outcome(j)!vars)
  BY ForbiddenStays, RowsFollow, RowContract
<1> QED BY <1>1, <1>2, PrivateInvariant, AbsentInvariant, PTL
    DEF Spec, JobKeepsContract, Outcome!Spec
=============================================================================
