---------------------- MODULE QuestionClustering_proofs ----------------------
(***************************************************************************)
(* ClusteringInv is an inductive invariant of QuestionClustering, for any  *)
(* number of questions and attempts: the watermarks, the one row that      *)
(* answers for what is not applied, and the members of both generations.   *)
(***************************************************************************)
EXTENDS QuestionClustering, TLAPS

(* Sequences of rows. *)
LEMMA OneRowSet ==
    ASSUME NEW s \in Seq(Row), NEW i \in DOMAIN s, NEW x \in Row
    PROVE  /\ [s EXCEPT ![i] = x] \in Seq(Row)
           /\ Len([s EXCEPT ![i] = x]) = Len(s)
           /\ DOMAIN [s EXCEPT ![i] = x] = DOMAIN s
           /\ [s EXCEPT ![i] = x][i] = x
           /\ \A j \in DOMAIN s : j # i => [s EXCEPT ![i] = x][j] = s[j]
OBVIOUS

LEMMA RowAppended ==
    ASSUME NEW s \in Seq(Row), NEW x \in Row
    PROVE  /\ Append(s, x) \in Seq(Row)
           /\ Len(Append(s, x)) = Len(s) + 1
           /\ DOMAIN Append(s, x) = DOMAIN s \cup {Len(s) + 1}
           /\ Append(s, x)[Len(s) + 1] = x
           /\ \A j \in DOMAIN s : Append(s, x)[j] = s[j]
           /\ Len(s) + 1 \notin DOMAIN s
OBVIOUS

LEMMA RowsMapped ==
    ASSUME NEW s \in Seq(Row), NEW F, F \in [DOMAIN s -> Row]
    PROVE  F \in Seq(Row) /\ Len(F) = Len(s) /\ DOMAIN F = DOMAIN s
<1>1. DOMAIN F = 1 .. Len(s) /\ Len(s) \in Nat
  OBVIOUS
<1> QED BY <1>1

(* Rows. *)
LEMMA StatusSet ==
    ASSUME NEW x \in Row, NEW st \in Active \cup {"SUCCEEDED", "FAILED", "SUPERSEDED"}
    PROVE  /\ [x EXCEPT !.status = st] \in Row
           /\ [x EXCEPT !.status = st].status = st
           /\ [x EXCEPT !.status = st].mode = x.mode
           /\ [x EXCEPT !.status = st].attempt = x.attempt
           /\ [x EXCEPT !.status = st].through = x.through
           /\ [x EXCEPT !.status = st].base = x.base
           /\ [x EXCEPT !.status = st].due = x.due
BY DEF Row

LEMMA NextAttemptIs ==
    ASSUME NEW x \in Row, NEW d \in BOOLEAN
    PROVE  /\ NextAttempt(x, d) \in Row
           /\ NextAttempt(x, d).status = "PENDING" /\ NextAttempt(x, d).due = d
           /\ NextAttempt(x, d).mode = x.mode /\ NextAttempt(x, d).attempt = x.attempt + 1
           /\ NextAttempt(x, d).through = x.through /\ NextAttempt(x, d).base = x.base
<1>1. x.attempt + 1 \in Nat
  BY DEF Row
<1> QED BY <1>1 DEF NextAttempt, Row, Active

LEMMA InitHolds == Init => ClusteringInv
<1> SUFFICES ASSUME Init PROVE ClusteringInv
  OBVIOUS
<1> USE BoundsArePositive
<1>1. rows = <<>> /\ DOMAIN rows = {} /\ rows \in Seq(Row) /\ Len(rows) = 0
  BY DEF Init
<1>2. TypeOK
  BY <1>1 DEF Init, TypeOK, Worker, Idle, NoJob, Question
<1>3. Watermarks /\ ActiveLiveRows /\ FinalRow /\ Reservation /\ Owned /\ OneOwner
  BY <1>1 DEF Init, Watermarks, ActiveLiveRows, FinalRow, Reservation, Owned, OneOwner, ActiveRows
<1>4. CandidateHolds /\ RunHolds
  BY DEF Init, CandidateHolds, RunHolds, Idle
<1>5. ClusteredOnce /\ FinalIsTheClass
  BY DEF Init, ClusteredOnce, FinalIsTheClass, Question
<1> QED BY <1>2, <1>3, <1>4, <1>5 DEF ClusteringInv

LEMMA DueIs ==
    ASSUME NEW x \in Row
    PROVE  LET y == [x EXCEPT !.due = TRUE]
           IN /\ y \in Row /\ y.status = x.status /\ y.mode = x.mode
              /\ y.attempt = x.attempt /\ y.through = x.through /\ y.base = x.base
BY DEF Row

-----------------------------------------------------------------------------
(* Steps that leave the rows alone *)

Rest ==
    /\ UNCHANGED <<requested, applied, revision, current, final, retry, lastJob,
                   rows, live, closing>>
    /\ asked' \in asked .. MaxQuestion /\ (session = "LIVE" => asked' = asked)
    /\ \/ session' = session
       \/ session # "LIVE" /\ session' = "COMPLETED"

LEMMA RowsRest ==
    ASSUME ClusteringInv, Rest, worker' \in Worker, CandidateHolds', RunHolds'
    PROVE  ClusteringInv'
<1> USE DEF Rest
<1>1. TypeOK' /\ Watermarks'
  BY BoundsArePositive DEF ClusteringInv, TypeOK, Watermarks
<1>2. ActiveLiveRows' /\ FinalRow' /\ Reservation'
  BY DEF ClusteringInv, ActiveLiveRows, FinalRow, Reservation, ActiveRows, Requeueable
<1>3. Owned' /\ OneOwner'
  BY DEF ClusteringInv, Owned, OneOwner, Unowned, ActiveRows
<1>4. ClusteredOnce' /\ FinalIsTheClass'
  BY DEF ClusteringInv, ClusteredOnce, FinalIsTheClass
<1> QED BY <1>1, <1>2, <1>3, <1>4 DEF ClusteringInv

LEMMA IdleHolds ==
    ASSUME worker' = Idle
    PROVE  worker' \in Worker /\ CandidateHolds' /\ RunHolds'
BY DEF Idle, Worker, CandidateHolds, RunHolds

LEMMA WorkerKept ==
    ASSUME ClusteringInv, applied' = applied, rows' = rows, worker' = worker
    PROVE  worker' \in Worker /\ CandidateHolds' /\ RunHolds'
<1>1. worker' \in Worker
  BY DEF ClusteringInv, TypeOK
<1>2. CandidateHolds'
  BY DEF ClusteringInv, CandidateHolds, Claimable
<1>3. RunHolds'
  BY DEF ClusteringInv, RunHolds, IsCurrent
<1> QED BY <1>1, <1>2, <1>3

LEMMA QuietKeeps ==
    ASSUME ClusteringInv,
           AskAfterClass \/ Complete \/ LateReport \/ Crash \/ UNCHANGED vars
    PROVE  ClusteringInv'
<1>1. asked \in 0 .. MaxQuestion /\ MaxQuestion \in Nat
  BY BoundsArePositive DEF ClusteringInv, TypeOK
<1>2. Rest
  BY <1>1 DEF AskAfterClass, Complete, LateReport, Crash, vars, Rest, state, members
<1>3. CASE LateReport \/ Crash
  BY <1>2, <1>3, IdleHolds, RowsRest DEF LateReport, Crash
<1>4. CASE AskAfterClass \/ Complete \/ UNCHANGED vars
  <2>1. applied' = applied /\ rows' = rows /\ worker' = worker
    BY <1>4 DEF AskAfterClass, Complete, vars, state
  <2> QED BY <2>1, <1>2, WorkerKept, RowsRest
<1> QED BY <1>3, <1>4

LEMMA LookKeeps == ASSUME ClusteringInv, Look PROVE ClusteringInv'
<1>1. asked \in 0 .. MaxQuestion /\ MaxQuestion \in Nat /\ rows \in Seq(Row)
  BY BoundsArePositive DEF ClusteringInv, TypeOK
<1>0. Rest
  <2>1. UNCHANGED <<session, asked, state, rows, members>>
    BY DEF Look
  <2> QED BY <1>1, <2>1 DEF Rest, state, members
<1>2. CASE worker' = Idle
  BY <1>0, <1>2, IdleHolds, RowsRest
<1>3. ASSUME NEW i \in Ready,
             worker' = [Idle EXCEPT !.at = "claiming", !.row = i,
                               !.attempt = rows[i].attempt, !.through = rows[i].through]
      PROVE  ClusteringInv'
  <2>1. i \in DOMAIN rows /\ i \in Nat /\ rows[i] \in Row /\ i \in ActiveRows
    BY <1>1, <1>3 DEF Ready, ActiveRows, Active
  <2>2. rows[i].attempt \in Nat /\ rows[i].through \in Nat /\ rows[i].mode \in Mode
    BY <2>1 DEF Row
  <2>3. /\ worker' \in Worker /\ worker'.at = "claiming" /\ worker'.row = i
        /\ worker'.attempt = rows[i].attempt /\ worker'.through = rows[i].through
    BY <1>3, <2>1, <2>2 DEF Idle, Worker
  <2>4. rows[i].mode # "FINAL" => rows[i].through > applied
    BY <2>1, <2>2 DEF ClusteringInv, ActiveLiveRows, Mode
  <2>5. rows' = rows /\ applied' = applied
    BY <1>0 DEF Rest
  <2>6. CandidateHolds'
    BY <2>1, <2>2, <2>3, <2>4, <2>5 DEF CandidateHolds, Claimable
  <2>7. RunHolds'
    BY <2>3 DEF RunHolds
  <2> QED BY <1>0, <2>3, <2>6, <2>7, RowsRest
<1> QED BY <1>2, <1>3 DEF Look

-----------------------------------------------------------------------------
(* Steps on the rows that leave the worker alone *)

LEMMA AfterClass ==
    ASSUME ClusteringInv, session # "LIVE"
    PROVE  /\ retry = 0
           /\ \A i \in ActiveRows : rows[i].mode = "FINAL" /\ i = Len(rows)
<1>1. retry = 0
  BY DEF ClusteringInv, Reservation
<1>2. ASSUME NEW i \in ActiveRows PROVE i \in DOMAIN rows /\ rows[i].mode \in Mode
  <2>1. i \in DOMAIN rows /\ rows[i] \in Row
    BY DEF ClusteringInv, TypeOK, ActiveRows
  <2> QED BY <2>1 DEF Row
<1>3. \A i \in ActiveRows : rows[i].mode = "FINAL"
  BY <1>2 DEF ClusteringInv, ActiveLiveRows, Mode
<1> QED BY <1>1, <1>2, <1>3 DEF ClusteringInv, FinalRow

(* What a step on the rows alone leaves to be shown. *)
StateKept ==
    UNCHANGED <<asked, requested, applied, revision, current, final, live, closing>>

LEMMA StateStays ==
    ASSUME ClusteringInv, StateKept,
           session' \in {"LIVE", "PROCESSING", "COMPLETED"}, session' = "LIVE" => session = "LIVE",
           rows' \in Seq(Row), retry' \in 0 .. Len(rows'), lastJob'.row \in 0 .. Len(rows'),
           worker' \in Worker
    PROVE  TypeOK' /\ Watermarks' /\ ClusteredOnce' /\ FinalIsTheClass'
<1> USE DEF StateKept
<1>1. TypeOK'
  BY DEF ClusteringInv, TypeOK
<1>2. Watermarks'
  BY DEF ClusteringInv, Watermarks
<1>3. ClusteredOnce' /\ FinalIsTheClass'
  BY DEF ClusteringInv, ClusteredOnce, FinalIsTheClass
<1> QED BY <1>1, <1>2, <1>3

LEMMA TickKeeps == ASSUME ClusteringInv, Tick PROVE ClusteringInv'
<1>1. PICK i \in ActiveRows : rows' = [rows EXCEPT ![i].due = TRUE]
  BY DEF Tick
<1>2. StateKept /\ UNCHANGED <<session, retry, lastJob, worker>>
  BY DEF Tick, state, members, StateKept
<1>3. rows \in Seq(Row) /\ i \in DOMAIN rows /\ rows[i] \in Row
  BY DEF ClusteringInv, TypeOK, ActiveRows
<1>4. /\ rows' \in Seq(Row) /\ Len(rows') = Len(rows) /\ DOMAIN rows' = DOMAIN rows
      /\ \A j \in DOMAIN rows :
            /\ rows'[j].status = rows[j].status /\ rows'[j].mode = rows[j].mode
            /\ rows'[j].attempt = rows[j].attempt /\ rows'[j].through = rows[j].through
            /\ rows'[j].base = rows[j].base
  BY <1>1, <1>3, DueIs, OneRowSet
<1>5. worker.at # "claiming"
  BY DEF Tick
<1>6. TypeOK' /\ Watermarks' /\ ClusteredOnce' /\ FinalIsTheClass'
  BY <1>2, <1>4, StateStays DEF ClusteringInv, TypeOK
<1>7. ActiveRows' = ActiveRows /\ ActiveRows \subseteq DOMAIN rows
  BY <1>4 DEF ActiveRows
<1>8. ActiveLiveRows' /\ FinalRow'
  BY <1>2, <1>4, <1>7 DEF ClusteringInv, ActiveLiveRows, FinalRow, StateKept
<1>9. retry # 0 => retry \in DOMAIN rows
  BY DEF ClusteringInv, TypeOK
<1>10. Reservation'
  BY <1>2, <1>4, <1>9 DEF ClusteringInv, Reservation, Requeueable, StateKept
<1>11. Owned' /\ OneOwner'
  BY <1>2, <1>7 DEF ClusteringInv, Owned, OneOwner, Unowned, StateKept
<1>12. CandidateHolds' /\ RunHolds'
  BY <1>2, <1>4, <1>5 DEF ClusteringInv, CandidateHolds, RunHolds, IsCurrent, StateKept
<1> QED BY <1>6, <1>8, <1>10, <1>11, <1>12 DEF ClusteringInv

LEMMA ActiveEnded ==
    ASSUME ClusteringInv, NEW st \in {"FAILED", "SUPERSEDED"}
    PROVE  /\ EndActive(st) \in Seq(Row)
           /\ Len(EndActive(st)) = Len(rows) /\ DOMAIN EndActive(st) = DOMAIN rows
           /\ \A j \in DOMAIN rows :
                 /\ EndActive(st)[j].mode = rows[j].mode
                 /\ EndActive(st)[j].through = rows[j].through
                 /\ EndActive(st)[j].base = rows[j].base
                 /\ EndActive(st)[j].status \notin Active
                 /\ rows[j].status = "SUCCEEDED" => EndActive(st)[j].status = "SUCCEEDED"
<1>1. rows \in Seq(Row) /\ \A j \in DOMAIN rows : rows[j] \in Row
  BY DEF ClusteringInv, TypeOK
<1>2. \A j \in DOMAIN rows :
        /\ EndActive(st)[j] = IF j \in ActiveRows THEN [rows[j] EXCEPT !.status = st] ELSE rows[j]
        /\ EndActive(st)[j] \in Row
  BY <1>1, StatusSet DEF EndActive
<1>3. EndActive(st) \in [DOMAIN rows -> Row]
  BY <1>2 DEF EndActive
<1>4. ASSUME NEW j \in DOMAIN rows
      PROVE  /\ EndActive(st)[j].mode = rows[j].mode
             /\ EndActive(st)[j].through = rows[j].through
             /\ EndActive(st)[j].base = rows[j].base
             /\ EndActive(st)[j].status \notin Active
             /\ rows[j].status = "SUCCEEDED" => EndActive(st)[j].status = "SUCCEEDED"
  <2>1. CASE j \in ActiveRows
    <3>1. EndActive(st)[j] = [rows[j] EXCEPT !.status = st] /\ rows[j] \in Row
      BY <1>1, <1>2, <2>1
    <3>2. rows[j].status \in Active
      BY <2>1 DEF ActiveRows
    <3> QED BY <3>1, <3>2, StatusSet DEF Active
  <2>2. CASE j \notin ActiveRows
    BY <1>2, <2>2 DEF ActiveRows
  <2> QED BY <2>1, <2>2
<1> QED BY <1>1, <1>3, <1>4, RowsMapped

(* No row is left that a candidate or a run could be about. *)
LEMMA WorkerOutrun ==
    ASSUME ClusteringInv, worker' = worker, DOMAIN rows \subseteq DOMAIN rows',
           \A j \in DOMAIN rows : rows'[j].status # "RUNNING" /\ ~Claimable(j)'
    PROVE  worker' \in Worker /\ CandidateHolds' /\ RunHolds'
<1>1. worker' \in Worker
  BY DEF ClusteringInv, TypeOK
<1>2. CandidateHolds'
  BY DEF ClusteringInv, CandidateHolds
<1>3. RunHolds'
  BY DEF ClusteringInv, RunHolds, IsCurrent
<1> QED BY <1>1, <1>2, <1>3

LEMMA TimeoutKeeps == ASSUME ClusteringInv, Timeout PROVE ClusteringInv'
<1>1. /\ StateKept /\ UNCHANGED <<retry, lastJob, worker>>
      /\ session = "PROCESSING" /\ session' = "COMPLETED" /\ rows' = EndActive("FAILED")
  BY DEF Timeout, state, members, StateKept
<1>2. /\ rows' \in Seq(Row) /\ Len(rows') = Len(rows) /\ DOMAIN rows' = DOMAIN rows
      /\ \A j \in DOMAIN rows :
            /\ rows'[j].mode = rows[j].mode /\ rows'[j].through = rows[j].through
            /\ rows'[j].base = rows[j].base /\ rows'[j].status \notin Active
            /\ rows[j].status = "SUCCEEDED" => rows'[j].status = "SUCCEEDED"
  BY <1>1, ActiveEnded
<1>3. ActiveRows' = {} /\ \A j \in DOMAIN rows : ~Claimable(j)'
  BY <1>2 DEF ActiveRows, Claimable, Active
<1>4. worker' \in Worker /\ CandidateHolds' /\ RunHolds'
  BY <1>1, <1>2, <1>3, WorkerOutrun DEF Active
<1>5. TypeOK' /\ Watermarks' /\ ClusteredOnce' /\ FinalIsTheClass'
  BY <1>1, <1>2, <1>4, StateStays DEF ClusteringInv, TypeOK
<1>6. retry' = 0
  BY <1>1, AfterClass
<1>7. ActiveLiveRows' /\ OneOwner' /\ Reservation' /\ Owned'
  BY <1>1, <1>3, <1>6 DEF ActiveLiveRows, OneOwner, Reservation, Owned
<1>8. FinalRow'
  BY <1>1, <1>2 DEF ClusteringInv, FinalRow, StateKept
<1> QED BY <1>4, <1>5, <1>7, <1>8 DEF ClusteringInv

LEMMA RetryFinalKeeps == ASSUME ClusteringInv, RetryFinal PROVE ClusteringInv'
<1>1. PICK i \in DOMAIN rows :
        /\ rows[i].mode = "FINAL" /\ rows[i].status = "FAILED"
        /\ rows' = [rows EXCEPT ![i] = NextAttempt(rows[i], FALSE)]
  BY DEF RetryFinal
<1>2. StateKept /\ session = "COMPLETED" /\ UNCHANGED <<session, retry, lastJob, worker>>
  BY DEF RetryFinal, state, members, StateKept
<1>3. rows \in Seq(Row) /\ rows[i] \in Row
  BY DEF ClusteringInv, TypeOK
<1>4. /\ rows' \in Seq(Row) /\ Len(rows') = Len(rows) /\ DOMAIN rows' = DOMAIN rows
      /\ rows'[i].mode = "FINAL" /\ rows'[i].status = "PENDING" /\ ~rows'[i].due
      /\ rows'[i].through = rows[i].through /\ rows'[i].base = rows[i].base
      /\ \A j \in DOMAIN rows : j # i => rows'[j] = rows[j]
  BY <1>1, <1>3, OneRowSet, NextAttemptIs
<1>5. i = Len(rows)
  BY <1>1 DEF ClusteringInv, FinalRow
<1>6. i \notin ActiveRows
  BY <1>1 DEF ActiveRows, Active
<1>7. retry = 0 /\ ActiveRows = {}
  BY <1>2, <1>5, <1>6, AfterClass
<1>8. /\ ActiveRows' = {i}
      /\ \A j \in DOMAIN rows : rows'[j].status # "RUNNING" /\ ~Claimable(j)'
  BY <1>4, <1>7 DEF ActiveRows, Claimable, Active
<1>9. worker' \in Worker /\ CandidateHolds' /\ RunHolds'
  BY <1>2, <1>4, <1>8, WorkerOutrun
<1>10. TypeOK' /\ Watermarks' /\ ClusteredOnce' /\ FinalIsTheClass'
  BY <1>2, <1>4, <1>9, StateStays DEF ClusteringInv, TypeOK
<1>11. ActiveLiveRows' /\ OneOwner' /\ Reservation' /\ Owned'
  BY <1>2, <1>4, <1>7, <1>8 DEF ActiveLiveRows, OneOwner, Reservation, Owned
<1>12. FinalRow'
  BY <1>1, <1>2, <1>4 DEF ClusteringInv, FinalRow, StateKept
<1> QED BY <1>9, <1>10, <1>11, <1>12 DEF ClusteringInv

LEMMA InClass ==
    ASSUME ClusteringInv, session = "LIVE"
    PROVE  /\ asked = requested /\ final = 0
           /\ \A i \in DOMAIN rows : rows[i] \in Row /\ rows[i].mode = "LIVE_INCREMENTAL"
<1>1. ASSUME NEW i \in DOMAIN rows PROVE rows[i] \in Row /\ rows[i].mode = "LIVE_INCREMENTAL"
  <2>1. rows[i] \in Row
    BY DEF ClusteringInv, TypeOK
  <2>2. rows[i].mode # "FINAL"
    BY DEF ClusteringInv, FinalRow
  <2> QED BY <2>1, <2>2 DEF Row, Mode
<1> QED BY <1>1 DEF ClusteringInv, Watermarks

LEMMA EndKeeps == ASSUME ClusteringInv, End PROVE ClusteringInv'
<1> DEFINE fenced == EndActive("SUPERSEDED")
           frozen == NewRow("FINAL", requested, revision, FALSE)
<1>1. /\ StateKept /\ worker' = worker
      /\ session = "LIVE" /\ session' = "PROCESSING" /\ retry' = 0
  BY DEF End, members, StateKept
<1>2. /\ fenced \in Seq(Row) /\ Len(fenced) = Len(rows) /\ DOMAIN fenced = DOMAIN rows
      /\ \A j \in DOMAIN rows : fenced[j].mode = rows[j].mode /\ fenced[j].status \notin Active
  BY ActiveEnded
<1>3. requested \in Nat /\ revision \in Nat
  BY DEF ClusteringInv, TypeOK
<1>4. /\ frozen \in Row /\ frozen.mode = "FINAL" /\ frozen.status = "PENDING"
      /\ frozen.through = requested /\ frozen.base = revision
  <2>1. "FINAL" \in Mode /\ FALSE \in BOOLEAN
    BY DEF Mode
  <2> QED BY <1>3, <2>1 DEF NewRow, Row, Active
<1>5. \/ rows' = Append(fenced, frozen) /\ lastJob' = Last(Len(rows'), 1, "PENDING")
      \/ rows' = fenced /\ lastJob' = lastJob
  BY DEF End
<1> HIDE DEF fenced, frozen
<1>6. lastJob'.row \in 0 .. Len(rows') /\ rows' \in Seq(Row)
  <2>1. lastJob.row \in 0 .. Len(rows)
    BY DEF ClusteringInv, TypeOK
  <2>2. CASE rows' = fenced /\ lastJob' = lastJob
    BY <1>2, <2>1, <2>2
  <2>3. CASE rows' = Append(fenced, frozen) /\ lastJob' = Last(Len(rows'), 1, "PENDING")
    <3>1. rows' \in Seq(Row) /\ Len(rows') = Len(fenced) + 1 /\ Len(fenced) \in Nat
      BY <1>2, <1>4, <2>3, RowAppended
    <3> QED BY <2>3, <3>1 DEF Last
  <2> QED BY <1>5, <2>2, <2>3
<1>7. /\ DOMAIN rows \subseteq DOMAIN rows' /\ DOMAIN rows' \subseteq DOMAIN rows \cup {Len(rows')}
      /\ \A j \in DOMAIN rows : rows'[j].mode = rows[j].mode /\ rows'[j].status \notin Active
      /\ \A j \in DOMAIN rows' \ DOMAIN rows :
            rows'[j].mode = "FINAL" /\ rows'[j].through = requested
            /\ rows'[j].base = revision
  <2>1. CASE rows' = fenced
    BY <1>2, <2>1
  <2>2. CASE rows' = Append(fenced, frozen)
    <3>1. /\ DOMAIN rows' = DOMAIN fenced \cup {Len(rows')}
          /\ rows'[Len(rows')] = frozen /\ Len(rows') \notin DOMAIN fenced
          /\ \A j \in DOMAIN fenced : rows'[j] = fenced[j]
      BY <1>2, <1>4, <2>2, RowAppended
    <3> QED BY <1>2, <1>4, <3>1 DEF Active
  <2> QED BY <1>5, <2>1, <2>2
<1>8. worker' \in Worker /\ CandidateHolds' /\ RunHolds'
  BY <1>1, <1>7, WorkerOutrun DEF Claimable, Active
<1>9. TypeOK' /\ Watermarks' /\ ClusteredOnce' /\ FinalIsTheClass'
  BY <1>1, <1>6, <1>8, StateStays
<1>10. \A j \in DOMAIN rows : rows'[j].mode # "FINAL"
  BY <1>1, <1>7, InClass
<1>11. FinalRow'
  BY <1>1, <1>7, <1>10, InClass DEF FinalRow, StateKept
<1>12. ActiveRows' \subseteq {Len(rows')} /\ \A j \in ActiveRows' : rows'[j].mode = "FINAL"
  BY <1>7 DEF ActiveRows
<1>13. ActiveLiveRows' /\ OneOwner' /\ Reservation' /\ Owned'
  BY <1>1, <1>12 DEF ActiveLiveRows, OneOwner, Reservation, Owned
<1> QED BY <1>8, <1>9, <1>11, <1>13 DEF ClusteringInv

-----------------------------------------------------------------------------
(* Questions during class *)

(* What a question does to the rows there are: no more than raise one      *)
(* watermark.                                                              *)
RowsKept ==
    /\ rows' \in Seq(Row) /\ DOMAIN rows \subseteq DOMAIN rows'
    /\ Len(rows) <= Len(rows') /\ lastJob'.row \in 0 .. Len(rows')
    /\ \A j \in DOMAIN rows :
          /\ rows'[j].mode = rows[j].mode /\ rows'[j].status = rows[j].status
          /\ rows'[j].attempt = rows[j].attempt /\ rows'[j].base = rows[j].base
          /\ rows'[j].through \in {rows[j].through, requested'}
    /\ \A j \in DOMAIN rows' \ DOMAIN rows : rows'[j].mode = "LIVE_INCREMENTAL"

LEMMA AskKeeps ==
    ASSUME ClusteringInv, Ask, RowsKept,
           OneOwner', Unowned => \E j \in ActiveRows' : j \notin DOMAIN rows,
           ActiveLiveRows',
           retry # 0 => rows'[retry] = rows[retry]
    PROVE  ClusteringInv'
<1>1. /\ session = "LIVE" /\ asked < MaxQuestion
      /\ requested' = requested + 1 /\ asked' = requested'
      /\ UNCHANGED <<session, applied, revision, current, final, retry, live, closing, worker>>
  BY DEF Ask, members
<1>2. asked = requested /\ final = 0 /\ \A j \in DOMAIN rows : rows[j] \in Row
  BY <1>1, InClass
<1>3. requested \in Nat /\ applied \in 0 .. requested /\ asked \in Nat /\ MaxQuestion \in Nat
  BY BoundsArePositive DEF ClusteringInv, TypeOK
<1>4. TypeOK'
  BY <1>1, <1>2, <1>3 DEF ClusteringInv, TypeOK, RowsKept
<1>5. Watermarks'
  BY <1>1, <1>2, <1>3 DEF Watermarks
<1>6. ClusteredOnce' /\ FinalIsTheClass'
  BY <1>1, <1>2 DEF ClusteringInv, ClusteredOnce, FinalIsTheClass
<1>7. \A j \in DOMAIN rows' : rows'[j].mode = "LIVE_INCREMENTAL"
  BY <1>1, InClass DEF RowsKept
<1>8. FinalRow'
  BY <1>7 DEF FinalRow
<1>9. \A j \in DOMAIN rows : rows[j].through \in Nat /\ rows'[j].through \in Nat
  <2>1. ASSUME NEW j \in DOMAIN rows PROVE rows[j].through \in Nat /\ rows'[j].through \in Nat
    <3>1. rows[j] \in Row /\ j \in DOMAIN rows' /\ rows' \in Seq(Row)
      BY <1>2 DEF RowsKept
    <3>2. rows'[j] \in Row
      BY <3>1
    <3> QED BY <3>1, <3>2 DEF Row
  <2> QED BY <2>1
<1>10. Reservation'
  <2>1. CASE retry = 0
    BY <1>1, <2>1 DEF Reservation
  <2>2. CASE retry # 0
    <3>1. retry \in DOMAIN rows /\ rows'[retry] = rows[retry]
      BY <2>2 DEF ClusteringInv, TypeOK
    <3>2. Requeueable(retry) /\ rows[retry].through <= requested
      BY <2>2 DEF ClusteringInv, Reservation
    <3> QED BY <1>1, <1>3, <1>9, <3>1, <3>2 DEF Reservation, Requeueable
  <2> QED BY <2>1, <2>2
<1>11. Owned'
  <2>1. ASSUME ~Unowned PROVE ~Unowned'
    <3>1. CASE retry # 0
      BY <1>1, <3>1 DEF Unowned
    <3>2. CASE ActiveRows # {}
      BY <3>2 DEF ActiveRows, RowsKept, Unowned
    <3> QED BY <2>1, <3>1, <3>2 DEF Unowned
  <2>2. ~Unowned'
    BY <2>1 DEF Unowned
  <2> QED BY <2>2 DEF Owned
<1>12. \A j \in DOMAIN rows : rows[j].mode # "FINAL" /\ rows'[j].mode # "FINAL"
  BY <1>1, InClass DEF RowsKept
<1>13. \A j \in ActiveRows : rows[j].through <= rows'[j].through
  <2>1. ASSUME NEW j \in ActiveRows PROVE rows[j].through <= rows'[j].through
    <3>1. j \in DOMAIN rows /\ rows[j].through \in Nat
      BY <1>2 DEF ActiveRows, Row
    <3>2. rows[j].through <= requested
      BY <1>1, <3>1, InClass DEF ClusteringInv, ActiveLiveRows
    <3> QED BY <1>1, <1>3, <3>1, <3>2 DEF RowsKept
  <2> QED BY <2>1
<1>14. CandidateHolds'
  <2>1. CASE worker.at = "claiming"
    <3> DEFINE i == worker.row
    <3>1. i \in DOMAIN rows /\ i \in DOMAIN rows'
      BY <2>1 DEF ClusteringInv, CandidateHolds, RowsKept
    <3>2. ASSUME rows'[i].status = "PENDING"
          PROVE  /\ worker.attempt = rows'[i].attempt /\ worker.through <= rows'[i].through
                 /\ worker.through > applied
      <4>1. i \in ActiveRows /\ Claimable(i)
        BY <1>12, <3>1, <3>2 DEF ActiveRows, Active, Claimable, RowsKept
      <4>2. /\ worker.attempt = rows[i].attempt /\ worker.through <= rows[i].through
            /\ worker.through > applied
        BY <1>12, <2>1, <3>1, <4>1 DEF ClusteringInv, CandidateHolds
      <4>3. worker.through \in Nat /\ rows[i].through \in Nat /\ rows'[i].through \in Nat
        BY <1>9, <3>1 DEF ClusteringInv, TypeOK, Worker
      <4> QED BY <1>13, <3>1, <4>1, <4>2, <4>3 DEF RowsKept
    <3> QED BY <1>1, <1>12, <2>1, <3>1, <3>2 DEF CandidateHolds, Claimable
  <2> QED BY <1>1, <2>1 DEF CandidateHolds
<1>15. RunHolds'
  <2>1. CASE worker.at = "running"
    <3> DEFINE i == worker.row
    <3>1. i \in DOMAIN rows /\ i \in DOMAIN rows'
      BY <2>1 DEF ClusteringInv, RunHolds, RowsKept
    <3>2. ASSUME rows'[i].status = "RUNNING", rows'[i].attempt = worker.attempt
          PROVE  /\ applied < worker.through /\ worker.through <= rows'[i].through
                 /\ \A q \in Question :
                       q \in worker.inputs <=> q <= worker.through /\ q > applied
      <4>1. i \in ActiveRows /\ IsCurrent(worker)
        BY <3>1, <3>2 DEF ActiveRows, Active, IsCurrent, RowsKept
      <4>2. /\ applied < worker.through /\ worker.through <= rows[i].through
            /\ \A q \in Question :
                  q \in worker.inputs <=> q <= worker.through /\ q > applied
        BY <1>12, <2>1, <3>1, <4>1 DEF ClusteringInv, RunHolds
      <4>3. worker.through \in Nat /\ rows[i].through \in Nat /\ rows'[i].through \in Nat
        BY <1>9, <3>1 DEF ClusteringInv, TypeOK, Worker
      <4> QED BY <1>13, <4>1, <4>2, <4>3
    <3> QED BY <1>1, <1>12, <2>1, <3>1, <3>2 DEF RunHolds, IsCurrent
  <2> QED BY <1>1, <2>1 DEF RunHolds
<1> QED BY <1>4, <1>5, <1>6, <1>8, <1>10, <1>11, <1>14, <1>15 DEF ClusteringInv

LEMMA AskWaitsKeeps == ASSUME ClusteringInv, AskWaits PROVE ClusteringInv'
<1>1. Ask /\ ~Unowned /\ rows' = rows /\ lastJob' = lastJob
  BY DEF AskWaits
<1>2. requested' = requested + 1 /\ requested \in Nat
      /\ UNCHANGED <<session, applied, revision, retry>>
  BY <1>1 DEF Ask, ClusteringInv, TypeOK
<1>3. session = "LIVE" /\ \A j \in DOMAIN rows : rows[j] \in Row /\ rows[j].mode = "LIVE_INCREMENTAL"
  BY <1>1, InClass DEF Ask
<1>4. RowsKept
  BY <1>1 DEF RowsKept, ClusteringInv, TypeOK
<1>5. ActiveRows' = ActiveRows /\ ActiveRows \subseteq DOMAIN rows
  BY <1>1 DEF ActiveRows
<1>6. OneOwner'
  BY <1>2, <1>5 DEF ClusteringInv, OneOwner
<1>7. \A j \in ActiveRows : rows[j].through \in Nat
  BY <1>3, <1>5 DEF Row
<1>8. ActiveLiveRows'
  BY <1>1, <1>2, <1>5, <1>7 DEF ClusteringInv, ActiveLiveRows
<1> QED BY <1>1, <1>4, <1>6, <1>8, AskKeeps

LEMMA AskExtendsKeeps == ASSUME ClusteringInv, AskExtends PROVE ClusteringInv'
<1>1. PICK i \in ActiveRows, late \in BOOLEAN :
        /\ rows[i].status = "PENDING"
        /\ rows' = [rows EXCEPT ![i].through = requested', ![i].due = late]
  BY DEF AskExtends
<1>2. Ask /\ lastJob' = lastJob
  BY DEF AskExtends
<1>3. /\ session = "LIVE" /\ requested' = requested + 1 /\ requested \in Nat
      /\ applied \in Nat /\ applied <= requested
      /\ UNCHANGED <<session, applied, revision, retry>>
  BY <1>2 DEF Ask, ClusteringInv, TypeOK
<1>4. rows \in Seq(Row) /\ i \in DOMAIN rows /\ rows[i] \in Row /\ requested' \in Nat
  BY <1>3 DEF ClusteringInv, TypeOK, ActiveRows
<1> DEFINE y == [rows[i] EXCEPT !.through = requested', !.due = late]
<1>5. /\ y \in Row /\ y.through = requested' /\ y.status = rows[i].status
      /\ y.mode = rows[i].mode /\ y.attempt = rows[i].attempt /\ y.base = rows[i].base
  BY <1>4 DEF Row
<1>6. rows' = [rows EXCEPT ![i] = y]
  BY <1>1, <1>4
<1> HIDE DEF y
<1>7. /\ rows' \in Seq(Row) /\ Len(rows') = Len(rows) /\ DOMAIN rows' = DOMAIN rows
      /\ rows'[i] = y /\ \A j \in DOMAIN rows : j # i => rows'[j] = rows[j]
  BY <1>4, <1>5, <1>6, OneRowSet
<1>8. RowsKept
  BY <1>2, <1>5, <1>7 DEF RowsKept, ClusteringInv, TypeOK
<1>9. ActiveRows' = ActiveRows /\ ActiveRows = {i} /\ retry = 0 /\ ~Unowned
  <2>1. ActiveRows' = ActiveRows
    BY <1>5, <1>7 DEF ActiveRows
  <2> QED BY <2>1 DEF ClusteringInv, OneOwner, Unowned
<1>10. OneOwner'
  BY <1>3, <1>9 DEF OneOwner
<1>11. ActiveLiveRows'
  <2>1. rows[i].mode = "LIVE_INCREMENTAL"
    BY <1>3, <1>4, InClass
  <2>2. rows[i].base = revision
    BY <2>1 DEF ClusteringInv, ActiveLiveRows
  <2> QED BY <1>3, <1>5, <1>7, <1>9, <2>2 DEF ActiveLiveRows
<1> QED BY <1>2, <1>8, <1>9, <1>10, <1>11, AskKeeps

LEMMA AskEnqueuesKeeps == ASSUME ClusteringInv, AskEnqueues PROVE ClusteringInv'
<1>1. PICK late \in BOOLEAN :
        rows' = Append(rows, NewRow("LIVE_INCREMENTAL", requested', revision, late))
  BY DEF AskEnqueues
<1>2. Ask /\ Unowned /\ lastJob' = Last(Len(rows'), 1, "PENDING")
  BY DEF AskEnqueues
<1>3. /\ session = "LIVE" /\ requested' = requested + 1 /\ requested \in Nat
      /\ applied \in Nat /\ applied <= requested /\ revision \in Nat
      /\ UNCHANGED <<session, applied, revision, retry>>
  BY <1>2 DEF Ask, ClusteringInv, TypeOK
<1> DEFINE y == NewRow("LIVE_INCREMENTAL", requested', revision, late)
<1>4. /\ y \in Row /\ y.mode = "LIVE_INCREMENTAL" /\ y.status = "PENDING"
      /\ y.through = requested' /\ y.base = revision
  <2>1. requested' \in Nat
    BY <1>3
  <2> QED BY <1>3, <2>1 DEF NewRow, Row, Mode, Active
<1>5. rows \in Seq(Row) /\ rows' = Append(rows, y)
  BY <1>1 DEF ClusteringInv, TypeOK
<1> HIDE DEF y
<1> DEFINE n == Len(rows) + 1
<1>6. /\ rows' \in Seq(Row) /\ Len(rows') = n /\ DOMAIN rows' = DOMAIN rows \cup {n}
      /\ rows'[n] = y /\ n \notin DOMAIN rows
      /\ \A j \in DOMAIN rows : rows'[j] = rows[j]
  BY <1>4, <1>5, RowAppended
<1>7. Len(rows) \in Nat /\ n \in Nat
  BY <1>5
<1>8. lastJob'.row \in 0 .. Len(rows')
  BY <1>2, <1>6, <1>7 DEF Last
<1>9. RowsKept
  BY <1>4, <1>6, <1>7, <1>8 DEF RowsKept
<1>10. ActiveRows' = {n} /\ retry = 0
  BY <1>2, <1>4, <1>6 DEF ActiveRows, Active, Unowned
<1>11. OneOwner'
  BY <1>3, <1>10 DEF OneOwner
<1>12. ActiveLiveRows'
  BY <1>3, <1>4, <1>6, <1>10 DEF ActiveLiveRows
<1> QED BY <1>2, <1>6, <1>9, <1>10, <1>11, <1>12, AskKeeps

-----------------------------------------------------------------------------
(* The worker *)

LEMMA RequeueKeeps == ASSUME ClusteringInv, Requeue PROVE ClusteringInv'
<1>1. worker.at = "idle" /\ worker' = [worker EXCEPT !.at = "looking"]
  BY DEF Requeue
<1>2. StateKept /\ session' = session
  BY DEF Requeue, members, StateKept
<1>3. worker' \in Worker /\ CandidateHolds' /\ RunHolds'
  <2>1. worker \in Worker
    BY DEF ClusteringInv, TypeOK
  <2>2. worker' \in Worker /\ worker'.at = "looking"
    BY <1>1, <2>1 DEF Worker
  <2> QED BY <2>2 DEF CandidateHolds, RunHolds
<1>4. CASE UNCHANGED <<rows, retry, lastJob>>
  <2>1. Rest
    BY <1>2, <1>4 DEF Rest, StateKept, ClusteringInv, TypeOK
  <2> QED BY <1>3, <2>1, RowsRest
<1>5. CASE /\ retry # 0 /\ Requeueable(retry)
           /\ rows' = [rows EXCEPT ![retry] = NextAttempt(rows[retry], TRUE)]
           /\ retry' = 0
           /\ lastJob' = Last(retry, rows[retry].attempt + 1, "PENDING")
  <2>1. rows \in Seq(Row) /\ retry \in DOMAIN rows /\ rows[retry] \in Row
    BY <1>5 DEF ClusteringInv, TypeOK
  <2>2. session = "LIVE" /\ rows[retry].through <= requested /\ rows[retry].base = revision
        /\ rows[retry].through > applied /\ rows[retry].mode = "LIVE_INCREMENTAL"
    BY <1>5 DEF ClusteringInv, Reservation, Requeueable
  <2> DEFINE y == NextAttempt(rows[retry], TRUE)
  <2>3. /\ y \in Row /\ y.status = "PENDING" /\ y.mode = "LIVE_INCREMENTAL"
        /\ y.through = rows[retry].through /\ y.base = revision
    <3>1. rows[retry].attempt + 1 \in Nat
      BY <2>1 DEF Row
    <3> QED BY <2>1, <2>2, <3>1 DEF NextAttempt, Row, Active
  <2>4. rows' = [rows EXCEPT ![retry] = y]
    BY <1>5
  <2> HIDE DEF y
  <2>5. /\ rows' \in Seq(Row) /\ Len(rows') = Len(rows) /\ DOMAIN rows' = DOMAIN rows
        /\ rows'[retry] = y /\ \A j \in DOMAIN rows : j # retry => rows'[j] = rows[j]
    BY <2>1, <2>3, <2>4, OneRowSet
  <2>6. ActiveRows = {}
    BY <1>5 DEF ClusteringInv, OneOwner
  <2>7. ActiveRows' = {retry}
    BY <2>1, <2>3, <2>5, <2>6 DEF ActiveRows, Active
  <2>8. lastJob'.row \in 0 .. Len(rows') /\ retry' \in 0 .. Len(rows')
    BY <1>5, <2>1, <2>5 DEF Last
  <2>9. TypeOK' /\ Watermarks' /\ ClusteredOnce' /\ FinalIsTheClass'
    BY <1>2, <1>3, <2>2, <2>5, <2>8, StateStays
  <2>10. ActiveLiveRows'
    BY <1>2, <2>2, <2>3, <2>5, <2>7 DEF ActiveLiveRows, StateKept
  <2>11. FinalRow'
    BY <2>2, <2>3, <2>5, InClass DEF FinalRow
  <2>12. Reservation' /\ OneOwner' /\ Owned'
    BY <1>5, <2>7 DEF Reservation, OneOwner, Owned, Unowned
  <2> QED BY <1>3, <2>9, <2>10, <2>11, <2>12 DEF ClusteringInv
<1>6. CASE retry # 0 /\ session # "LIVE"
  BY <1>6, AfterClass
<1> QED BY <1>4, <1>5, <1>6 DEF Requeue

(* A row that may run belongs to the mode the Session is in. *)
LEMMA ActiveIsAllowed ==
    ASSUME ClusteringInv, NEW i \in ActiveRows
    PROVE  Allows(rows[i].mode) /\ rows[i].base = revision
<1>1. i \in DOMAIN rows /\ rows[i].status \in Active
  BY DEF ActiveRows
<1>2. rows[i].mode \in Mode
  <2>1. rows[i] \in Row
    BY <1>1 DEF ClusteringInv, TypeOK
  <2> QED BY <2>1 DEF Row
<1>3. CASE rows[i].mode = "LIVE_INCREMENTAL"
  BY <1>3 DEF ClusteringInv, ActiveLiveRows, Allows
<1>4. CASE rows[i].mode = "FINAL"
  BY <1>1, <1>4 DEF ClusteringInv, FinalRow, Allows, Active
<1> QED BY <1>2, <1>3, <1>4 DEF Mode

LEMMA CurrentIsActive ==
    ASSUME ClusteringInv, worker.at = "running", IsCurrent(worker)
    PROVE  worker.row \in ActiveRows /\ ~Obsolete(worker)
<1>1. worker.row \in ActiveRows
  BY DEF ClusteringInv, RunHolds, IsCurrent, ActiveRows, Active
<1> QED BY <1>1, ActiveIsAllowed DEF Obsolete

LEMMA ActiveIsAlone ==
    ASSUME ClusteringInv, NEW i \in ActiveRows
    PROVE  /\ ActiveRows = {i} /\ retry = 0
           /\ rows \in Seq(Row) /\ i \in DOMAIN rows /\ rows[i] \in Row
<1>1. ActiveRows = {i} /\ retry = 0
  BY DEF ClusteringInv, OneOwner
<1> QED BY <1>1 DEF ClusteringInv, TypeOK, ActiveRows

LEMMA StatusOfOne ==
    ASSUME ClusteringInv, NEW i \in ActiveRows,
           NEW st \in Active \cup {"SUCCEEDED", "FAILED", "SUPERSEDED"}
    PROVE  /\ Set(i, st) \in Seq(Row)
           /\ Len(Set(i, st)) = Len(rows) /\ DOMAIN Set(i, st) = DOMAIN rows
           /\ Set(i, st)[i].status = st
           /\ Set(i, st)[i].mode = rows[i].mode
           /\ Set(i, st)[i].attempt = rows[i].attempt
           /\ Set(i, st)[i].through = rows[i].through
           /\ Set(i, st)[i].base = rows[i].base
           /\ \A j \in DOMAIN rows : j # i => Set(i, st)[j] = rows[j]
<1>1. rows \in Seq(Row) /\ i \in DOMAIN rows /\ rows[i] \in Row
  BY ActiveIsAlone
<1> DEFINE y == [rows[i] EXCEPT !.status = st]
<1>2. /\ y \in Row /\ y.status = st /\ y.mode = rows[i].mode
      /\ y.attempt = rows[i].attempt /\ y.through = rows[i].through
      /\ y.base = rows[i].base
  BY <1>1, StatusSet
<1>3. Set(i, st) = [rows EXCEPT ![i] = y]
  BY <1>1 DEF Set
<1> HIDE DEF y
<1> QED BY <1>1, <1>2, <1>3, OneRowSet

LEMMA ClaimKeeps == ASSUME ClusteringInv, Claim PROVE ClusteringInv'
<1> DEFINE i == worker.row
<1>1. worker.at = "claiming" /\ i \in DOMAIN rows /\ worker \in Worker
  BY DEF Claim, ClusteringInv, CandidateHolds, TypeOK
<1>2. StateKept /\ UNCHANGED <<session, retry>>
  BY DEF Claim, members, StateKept
<1>3. CASE worker' = Idle /\ rows' = rows /\ lastJob' = lastJob
  <2>1. Rest
    BY <1>2, <1>3 DEF Rest, StateKept, ClusteringInv, TypeOK
  <2> QED BY <1>3, <2>1, IdleHolds, RowsRest
<1>4. CASE ~Allows(rows[i].mode)
  <2>1. i \notin ActiveRows
    BY <1>4, ActiveIsAllowed
  <2>2. worker' = Idle /\ rows' = rows /\ lastJob' = lastJob
    BY <1>4, <2>1 DEF Claim, Superseded
  <2> QED BY <1>3, <2>2
<1>5. CASE Allows(rows[i].mode) /\ i \in Ready
  <2>1. /\ rows' = Set(i, "RUNNING") /\ lastJob' = Last(i, worker.attempt, "RUNNING")
        /\ worker' = [worker EXCEPT !.at = "running",
                          !.inputs = Inputs(rows[i].mode, worker.through)]
    BY <1>5 DEF Claim
  <2>2. i \in ActiveRows
    BY <1>5 DEF Ready, ActiveRows, Active
  <2>3. ActiveRows = {i} /\ retry = 0 /\ rows \in Seq(Row) /\ rows[i] \in Row
    BY <2>2, ActiveIsAlone
  <2>4. /\ rows' \in Seq(Row) /\ Len(rows') = Len(rows) /\ DOMAIN rows' = DOMAIN rows
        /\ rows'[i].status = "RUNNING" /\ rows'[i].mode = rows[i].mode
        /\ rows'[i].attempt = rows[i].attempt /\ rows'[i].through = rows[i].through
        /\ rows'[i].base = rows[i].base
        /\ \A j \in DOMAIN rows : j # i => rows'[j] = rows[j]
    BY <2>1, <2>2, StatusOfOne DEF Active
  <2>5. ActiveRows' = {i}
    BY <1>1, <2>3, <2>4 DEF ActiveRows, Active
  <2>6. /\ rows[i].mode \in Mode /\ rows[i].through \in Nat /\ worker.through \in Nat
        /\ requested \in Nat /\ applied \in Nat /\ asked \in Nat /\ asked <= MaxQuestion
        /\ MaxQuestion \in Nat /\ requested <= asked
    BY <1>1, <2>3, BoundsArePositive DEF Row, Worker, ClusteringInv, TypeOK, Watermarks
  <2>7. /\ worker.attempt = rows[i].attempt /\ worker.through <= rows[i].through
        /\ IF rows[i].mode = "FINAL" THEN worker.through = rows[i].through
           ELSE worker.through > applied
    BY <1>1, <1>5 DEF ClusteringInv, CandidateHolds, Claimable, Ready
  <2>8. rows[i].through <= requested
    <3>1. CASE rows[i].mode = "FINAL"
      BY <1>1, <2>6, <3>1 DEF ClusteringInv, FinalRow
    <3>2. CASE rows[i].mode = "LIVE_INCREMENTAL"
      BY <2>2, <3>2 DEF ClusteringInv, ActiveLiveRows
    <3> QED BY <2>6, <3>1, <3>2 DEF Mode
  <2>9. Inputs(rows[i].mode, worker.through) \in SUBSET Question
    BY <2>6 DEF Inputs, Question
  <2>10. \A q \in Question :
            q \in Inputs(rows[i].mode, worker.through) <=>
                q <= worker.through /\ (rows[i].mode = "FINAL" \/ q > applied)
    BY <2>6, <2>7, <2>8 DEF Inputs, Question
  <2>11. /\ worker' \in Worker /\ worker'.at = "running" /\ worker'.row = i
         /\ worker'.attempt = worker.attempt /\ worker'.through = worker.through
         /\ worker'.inputs = Inputs(rows[i].mode, worker.through)
    BY <1>1, <2>1, <2>9 DEF Worker
  <2>12. CandidateHolds'
    BY <2>11 DEF CandidateHolds
  <2>13. RunHolds'
    BY <1>1, <1>2, <2>4, <2>6, <2>7, <2>10, <2>11 DEF RunHolds, StateKept
  <2>14. lastJob'.row \in 0 .. Len(rows')
    BY <1>1, <2>1, <2>3, <2>4 DEF Last
  <2>15. TypeOK' /\ Watermarks' /\ ClusteredOnce' /\ FinalIsTheClass'
    BY <1>2, <2>4, <2>11, <2>14, StateStays DEF ClusteringInv, TypeOK
  <2>16. ActiveLiveRows'
    BY <1>2, <2>2, <2>4, <2>5 DEF ClusteringInv, ActiveLiveRows, StateKept
  <2>17. FinalRow'
    <3>1. rows[i].status # "SUCCEEDED"
      BY <2>2 DEF ActiveRows, Active
    <3> QED BY <1>1, <1>2, <2>4, <3>1 DEF ClusteringInv, FinalRow, StateKept
  <2>18. Reservation' /\ OneOwner' /\ Owned'
    BY <1>2, <2>3, <2>5 DEF Reservation, OneOwner, Owned, Unowned
  <2> QED BY <2>12, <2>13, <2>15, <2>16, <2>17, <2>18 DEF ClusteringInv
<1>6. CASE Allows(rows[i].mode) /\ i \notin Ready
  BY <1>3, <1>6 DEF Claim
<1> QED BY <1>4, <1>5, <1>6

LEMMA ApplyFinalKeeps ==
    ASSUME ClusteringInv, Succeed, ~Obsolete(worker), rows[worker.row].mode = "FINAL"
    PROVE  ClusteringInv'
<1> DEFINE i == worker.row
<1>1. /\ worker.at = "running" /\ IsCurrent(worker) /\ worker' = Idle
      /\ ApplyFinal /\ asked' = asked
  BY DEF Succeed
<1>2. i \in ActiveRows
  BY <1>1, CurrentIsActive
<1>3. ActiveRows = {i} /\ retry = 0 /\ i \in DOMAIN rows /\ Len(rows) \in Nat
  BY <1>2, ActiveIsAlone
<1>4. session # "LIVE" /\ i = Len(rows) /\ rows[i].through = requested /\ final = 0
  BY <1>2, <1>3 DEF ClusteringInv, FinalRow, ActiveRows, Active
<1>5. /\ rows' = Set(i, "SUCCEEDED") /\ lastJob' = Last(i, worker.attempt, "SUCCEEDED")
      /\ closing' = Counted(closing, worker.inputs)
      /\ revision' = revision + 1 /\ final' = current'
      /\ current' = (IF current > final THEN current ELSE final) + 1
      /\ MayComplete /\ UNCHANGED <<requested, applied, retry, live>>
  BY <1>1 DEF ApplyFinal
<1>6. /\ rows' \in Seq(Row) /\ Len(rows') = Len(rows) /\ DOMAIN rows' = DOMAIN rows
      /\ rows'[i].status = "SUCCEEDED" /\ rows'[i].through = rows[i].through
      /\ \A j \in DOMAIN rows : j # i => rows'[j] = rows[j]
  BY <1>2, <1>5, StatusOfOne
<1>7. ActiveRows' = {}
  BY <1>3, <1>6 DEF ActiveRows, Active
<1>8. session' \in {"PROCESSING", "COMPLETED"}
  BY <1>4, <1>5 DEF MayComplete, ClusteringInv, TypeOK
<1>9. current' \in Nat /\ current' # 0
  BY <1>4, <1>5 DEF ClusteringInv, TypeOK
<1>10. \A q \in Question : q \in worker.inputs <=> q <= requested
  BY <1>1, <1>4 DEF ClusteringInv, RunHolds
<1>11. \A q \in Question : closing[q] = 0 /\ closing'[q] = IF q \in worker.inputs THEN 1 ELSE 0
  BY <1>4, <1>5 DEF ClusteringInv, FinalIsTheClass, Counted
<1>12. FinalIsTheClass'
  BY <1>5, <1>9, <1>10, <1>11 DEF FinalIsTheClass
<1>13. closing' \in [Question -> Nat]
  BY <1>5 DEF ClusteringInv, TypeOK, Counted
<1>14. worker' \in Worker /\ CandidateHolds' /\ RunHolds'
  BY <1>1, IdleHolds
<1>15. lastJob'.row \in 0 .. Len(rows')
  BY <1>3, <1>4, <1>5, <1>6 DEF Last
<1>16. TypeOK'
  BY <1>1, <1>3, <1>5, <1>6, <1>8, <1>9, <1>13, <1>14, <1>15 DEF ClusteringInv, TypeOK
<1>17. Watermarks' /\ Owned' /\ Reservation'
  BY <1>1, <1>3, <1>5, <1>8 DEF ClusteringInv, Watermarks, Owned, Reservation
<1>18. ActiveLiveRows' /\ OneOwner'
  BY <1>7 DEF ActiveLiveRows, OneOwner
<1>19. FinalRow'
  BY <1>4, <1>5, <1>6, <1>8 DEF ClusteringInv, FinalRow
<1>20. ClusteredOnce'
  BY <1>5 DEF ClusteringInv, ClusteredOnce
<1> QED BY <1>12, <1>14, <1>16, <1>17, <1>18, <1>19, <1>20 DEF ClusteringInv

LEMMA ReserveKeeps ==
    ASSUME ClusteringInv, Fail, ~Obsolete(worker)
    PROVE  ClusteringInv'
<1> DEFINE i == worker.row
<1>1. /\ worker.at = "running" /\ IsCurrent(worker) /\ worker' = Idle
      /\ Reserve /\ asked' = asked
  BY DEF Fail
<1>2. i \in ActiveRows
  BY <1>1, CurrentIsActive
<1>3. ActiveRows = {i} /\ retry = 0 /\ i \in DOMAIN rows /\ rows \in Seq(Row) /\ rows[i] \in Row
  BY <1>2, ActiveIsAlone
<1>4. /\ rows' = Set(i, "FAILED") /\ lastJob' = Last(i, worker.attempt, "FAILED")
      /\ UNCHANGED <<requested, applied, revision, current, final, live, closing>>
  BY <1>1 DEF Reserve, members
<1>5. /\ rows' \in Seq(Row) /\ Len(rows') = Len(rows) /\ DOMAIN rows' = DOMAIN rows
      /\ rows'[i].status = "FAILED" /\ rows'[i].mode = rows[i].mode
      /\ rows'[i].through = rows[i].through /\ rows'[i].base = rows[i].base
      /\ \A j \in DOMAIN rows : j # i => rows'[j] = rows[j]
  BY <1>2, <1>4, StatusOfOne
<1>6. ActiveRows' = {}
  BY <1>3, <1>5 DEF ActiveRows, Active
<1>7. StateKept
  BY <1>1, <1>4 DEF StateKept
<1>8. worker' \in Worker /\ CandidateHolds' /\ RunHolds'
  BY <1>1, IdleHolds
<1>9. lastJob'.row \in 0 .. Len(rows') /\ i \in 0 .. Len(rows') /\ i # 0
  BY <1>3, <1>4, <1>5 DEF Last
<1>10. ActiveLiveRows'
  BY <1>6 DEF ActiveLiveRows
<1>11. ASSUME session' = "LIVE" => session = "LIVE" PROVE FinalRow'
  <2>1. rows[i].status # "SUCCEEDED"
    BY <1>2 DEF ActiveRows, Active
  <2>2. session # "LIVE" => session' # "LIVE"
    BY <1>11
  <2> QED BY <1>3, <1>4, <1>5, <2>1, <2>2 DEF ClusteringInv, FinalRow
<1>12. CASE rows[i].mode = "FINAL"
  <2>1. MayComplete /\ retry' = retry
    BY <1>1, <1>12 DEF Reserve
  <2>2. session # "LIVE"
    BY <1>3, <1>12 DEF ClusteringInv, FinalRow
  <2>3. session' \in {"PROCESSING", "COMPLETED"}
    BY <2>1, <2>2 DEF MayComplete, ClusteringInv, TypeOK
  <2>4. retry' \in 0 .. Len(rows')
    BY <1>3, <1>5, <2>1
  <2>5. TypeOK' /\ Watermarks' /\ ClusteredOnce' /\ FinalIsTheClass'
    BY <1>5, <1>7, <1>8, <1>9, <2>3, <2>4, StateStays
  <2>6. FinalRow'
    BY <1>11, <2>3
  <2>7. Reservation' /\ OneOwner' /\ Owned'
    BY <1>3, <1>6, <2>1, <2>3 DEF Reservation, OneOwner, Owned
  <2> QED BY <1>8, <1>10, <2>5, <2>6, <2>7 DEF ClusteringInv
<1>13. CASE rows[i].mode # "FINAL"
  <2>1. retry' = i /\ session' = session
    BY <1>1, <1>13 DEF Reserve
  <2>2. rows[i].mode = "LIVE_INCREMENTAL"
    BY <1>3, <1>13 DEF Row, Mode
  <2>3. /\ session = "LIVE" /\ rows[i].base = revision
        /\ applied < rows[i].through /\ rows[i].through <= requested
    BY <1>2, <2>2 DEF ClusteringInv, ActiveLiveRows
  <2>4. retry' \in 0 .. Len(rows')
    BY <1>9, <2>1
  <2>5. TypeOK' /\ Watermarks' /\ ClusteredOnce' /\ FinalIsTheClass'
    BY <1>5, <1>7, <1>8, <1>9, <2>1, <2>3, <2>4, StateStays
  <2>6. FinalRow'
    BY <1>11, <2>1
  <2>7. /\ rows'[retry'].status = "FAILED" /\ rows'[retry'].mode = "LIVE_INCREMENTAL"
        /\ rows'[retry'].base = revision' /\ rows'[retry'].through > applied'
    BY <1>4, <1>5, <2>1, <2>2, <2>3
  <2>8. Requeueable(retry)'
    BY <2>7 DEF Requeueable
  <2>9. Reservation'
    BY <1>4, <1>5, <2>1, <2>3, <2>8 DEF Reservation
  <2>10. OneOwner' /\ Owned'
    BY <1>6, <1>9, <2>1 DEF OneOwner, Owned, Unowned
  <2> QED BY <1>8, <1>10, <2>5, <2>6, <2>9, <2>10 DEF ClusteringInv
<1> QED BY <1>12, <1>13

LEMMA ApplyLiveKeeps ==
    ASSUME ClusteringInv, Succeed, ~Obsolete(worker), rows[worker.row].mode # "FINAL"
    PROVE  ClusteringInv'
<1> DEFINE i == worker.row
<1>1. /\ worker.at = "running" /\ IsCurrent(worker) /\ worker' = Idle
      /\ ApplyLive /\ asked' = asked
  BY DEF Succeed
<1>2. i \in ActiveRows
  BY <1>1, CurrentIsActive
<1>3. /\ ActiveRows = {i} /\ retry = 0 /\ i \in DOMAIN rows
      /\ rows \in Seq(Row) /\ rows[i] \in Row
  BY <1>2, ActiveIsAlone
<1>4. rows[i].mode = "LIVE_INCREMENTAL"
  BY <1>3 DEF Row, Mode
<1>5. /\ session = "LIVE" /\ applied < rows[i].through /\ rows[i].through <= requested
      /\ final = 0 /\ requested = asked
  BY <1>2, <1>4 DEF ClusteringInv, ActiveLiveRows, Watermarks
<1>6. /\ applied < worker.through /\ worker.through <= rows[i].through
      /\ \A q \in Question : q \in worker.inputs <=> q <= worker.through /\ q > applied
  BY <1>1, <1>4 DEF ClusteringInv, RunHolds
<1>7. /\ requested \in Nat /\ applied \in Nat /\ revision \in Nat /\ current \in Nat
      /\ worker.through \in Nat /\ rows[i].through \in Nat
  BY <1>3 DEF ClusteringInv, TypeOK, Worker, Row
<1>8. /\ live' = Counted(live, worker.inputs) /\ applied' = worker.through
      /\ revision' = revision + 1 /\ current' = current + 1 /\ retry' = 0
      /\ EnqueueNext(Set(i, "SUCCEEDED"))
      /\ UNCHANGED <<session, requested, final, closing>>
  BY <1>1 DEF ApplyLive, Watermark
<1> DEFINE done == Set(i, "SUCCEEDED")
<1>9. /\ done \in Seq(Row) /\ Len(done) = Len(rows) /\ DOMAIN done = DOMAIN rows
      /\ done[i].status = "SUCCEEDED" /\ done[i].mode = rows[i].mode
      /\ \A j \in DOMAIN rows : j # i => done[j] = rows[j]
  BY <1>2, StatusOfOne
<1>10. ASSUME NEW j \in DOMAIN rows
       PROVE  done[j].mode # "FINAL" /\ done[j].status \notin Active
  <2>1. rows[j].mode = "LIVE_INCREMENTAL"
    BY <1>5, InClass
  <2>2. j # i => rows[j].status \notin Active
    BY <1>3 DEF ActiveRows
  <2> QED BY <1>4, <1>9, <2>1, <2>2 DEF Active
<1>11. applied' \in 0 .. requested' /\ revision' \in Nat /\ current' \in Nat
  BY <1>5, <1>6, <1>7, <1>8
<1>12. live' \in [Question -> Nat]
  BY <1>8 DEF ClusteringInv, TypeOK, Counted
<1>13. ClusteredOnce'
  <2>1. ASSUME NEW q \in Question
        PROVE  live'[q] = IF q <= applied' THEN 1 ELSE 0
    <3>1. live[q] = (IF q <= applied THEN 1 ELSE 0) /\ q \in Nat
      BY BoundsArePositive DEF ClusteringInv, ClusteredOnce, Question
    <3>2. live'[q] = IF q \in worker.inputs THEN live[q] + 1 ELSE live[q]
      BY <1>8 DEF Counted
    <3> QED BY <1>6, <1>7, <1>8, <3>1, <3>2
  <2> QED BY <2>1 DEF ClusteredOnce
<1>14. FinalIsTheClass' /\ Watermarks'
  BY <1>1, <1>8 DEF ClusteringInv, FinalIsTheClass, Watermarks
<1>15. worker' \in Worker /\ CandidateHolds' /\ RunHolds'
  BY <1>1, IdleHolds
<1>16. Reservation'
  BY <1>8 DEF Reservation
<1>17. ASSUME rows' \in Seq(Row), lastJob'.row \in 0 .. Len(rows') PROVE TypeOK'
  <2>1. Len(rows') \in Nat
    BY <1>17
  <2> QED BY <1>1, <1>5, <1>8, <1>11, <1>12, <1>15, <1>17, <2>1 DEF ClusteringInv, TypeOK
<1> HIDE DEF done
<1>18. CASE requested > applied'
  <2> DEFINE y == NewRow("LIVE_INCREMENTAL", requested, revision', FALSE)
             n == Len(rows) + 1
  <2>1. /\ y \in Row /\ y.mode = "LIVE_INCREMENTAL" /\ y.status = "PENDING"
        /\ y.through = requested /\ y.base = revision'
    BY <1>7, <1>11 DEF NewRow, Row, Mode, Active
  <2>2. rows' = Append(done, y) /\ lastJob' = Last(Len(rows'), 1, "PENDING")
    BY <1>8, <1>18 DEF EnqueueNext, done
  <2> HIDE DEF y
  <2>3. /\ rows' \in Seq(Row) /\ Len(rows') = n /\ DOMAIN rows' = DOMAIN rows \cup {n}
        /\ rows'[n] = y /\ \A j \in DOMAIN rows : rows'[j] = done[j]
    BY <1>9, <2>1, <2>2, RowAppended
  <2>4. Len(rows) \in Nat
    BY <1>3
  <2>5. lastJob'.row \in 0 .. Len(rows')
    BY <2>2, <2>3, <2>4 DEF Last
  <2>6. TypeOK'
    BY <1>17, <2>3, <2>5
  <2>7. ActiveRows' = {n}
    BY <1>10, <2>1, <2>3 DEF ActiveRows, Active
  <2>8. ActiveLiveRows'
    BY <1>5, <1>7, <1>8, <1>11, <1>18, <2>1, <2>3, <2>7 DEF ActiveLiveRows
  <2>9. FinalRow'
    BY <1>10, <2>1, <2>3 DEF FinalRow
  <2>10. OneOwner' /\ Owned'
    BY <1>8, <2>7 DEF OneOwner, Owned, Unowned
  <2> QED BY <1>13, <1>14, <1>15, <1>16, <2>6, <2>8, <2>9, <2>10 DEF ClusteringInv
<1>19. CASE ~(requested > applied')
  <2>1. rows' = done /\ lastJob' = Last(i, worker.attempt, "SUCCEEDED")
    BY <1>8, <1>19 DEF EnqueueNext, done
  <2>2. lastJob'.row \in 0 .. Len(rows')
    BY <1>3, <1>9, <2>1 DEF Last
  <2>3. TypeOK'
    BY <1>9, <1>17, <2>1, <2>2
  <2>4. ActiveRows' = {}
    BY <1>9, <1>10, <2>1 DEF ActiveRows
  <2>5. requested' = applied'
    BY <1>7, <1>8, <1>11, <1>19
  <2>6. ActiveLiveRows' /\ OneOwner' /\ Owned'
    BY <1>8, <2>4, <2>5 DEF ActiveLiveRows, OneOwner, Owned
  <2>7. FinalRow'
    BY <1>9, <1>10, <2>1 DEF FinalRow
  <2> QED BY <1>13, <1>14, <1>15, <1>16, <2>3, <2>6, <2>7 DEF ClusteringInv
<1> QED BY <1>18, <1>19

-----------------------------------------------------------------------------
(* The specification *)

LEMMA StepKeeps == ClusteringInv /\ [Next]_vars => ClusteringInv'
<1> SUFFICES ASSUME ClusteringInv, Next \/ UNCHANGED vars PROVE ClusteringInv'
  OBVIOUS
<1>1. CASE AskExtends \/ AskWaits \/ AskEnqueues \/ AskAfterClass
  BY <1>1, AskExtendsKeeps, AskWaitsKeeps, AskEnqueuesKeeps, QuietKeeps
<1>2. CASE End \/ Complete \/ Timeout \/ RetryFinal
  BY <1>2, EndKeeps, QuietKeeps, TimeoutKeeps, RetryFinalKeeps
<1>3. CASE Requeue \/ Look \/ Claim
  BY <1>3, RequeueKeeps, LookKeeps, ClaimKeeps
<1>4. CASE Succeed
  <2>1. ~Obsolete(worker)
    BY <1>4, CurrentIsActive DEF Succeed
  <2> QED BY <1>4, <2>1, ApplyFinalKeeps, ApplyLiveKeeps
<1>5. CASE Fail
  <2>1. ~Obsolete(worker)
    BY <1>5, CurrentIsActive DEF Fail
  <2> QED BY <1>5, <2>1, ReserveKeeps
<1>6. CASE Tick \/ LateReport \/ Crash \/ UNCHANGED vars
  BY <1>6, TickKeeps, QuietKeeps
<1> QED BY <1>1, <1>2, <1>3, <1>4, <1>5, <1>6 DEF Next, RunOnce

(* The rows, the watermarks, what the worker has read, and the members of  *)
(* both generations fit together in every reachable state.                 *)
THEOREM ClusteringInvariant == Spec => []ClusteringInv
BY InitHolds, StepKeeps, PTL DEF Spec

(* The state satisfies the check constraints of question_clustering_states *)
(* (applied <= requested, final NULL or current) after every step.         *)
THEOREM TypesCorrect == Spec => []TypeOK
<1>1. ClusteringInv => TypeOK
  BY DEF ClusteringInv
<1> QED BY <1>1, ClusteringInvariant, PTL

(* During class some row answers for every question that is not applied.   *)
THEOREM QuestionsNotForgotten == Spec => []NothingForgotten
<1>1. ClusteringInv => NothingForgotten
  <2> SUFFICES ASSUME ClusteringInv, session = "LIVE", requested > applied
               PROVE  \/ \E i \in ActiveRows : rows[i].base = revision /\ rows[i].through > applied
                      \/ retry # 0 /\ Requeueable(retry)
    BY DEF NothingForgotten
  <2>1. requested \in Nat /\ applied \in Nat
    BY DEF ClusteringInv, TypeOK
  <2>2. ActiveRows # {} \/ retry # 0
    BY <2>1 DEF ClusteringInv, Owned, Unowned
  <2>3. CASE retry # 0
    BY <2>3 DEF ClusteringInv, Reservation
  <2>4. ASSUME NEW i \in ActiveRows
        PROVE  rows[i].base = revision /\ rows[i].through > applied
    <3>1. i \in DOMAIN rows /\ rows[i] \in Row
      BY ActiveIsAlone
    <3>2. rows[i].mode = "LIVE_INCREMENTAL"
      BY <3>1, InClass
    <3> QED BY <2>1, <3>1, <3>2 DEF ClusteringInv, ActiveLiveRows, Row
  <2> QED BY <2>2, <2>3, <2>4
<1> QED BY <1>1, ClusteringInvariant, PTL

(* A question is never claimed by two rows, nor by a row and a reservation. *)
THEOREM QuestionsHaveOneOwner == Spec => []OneOwner
<1>1. ClusteringInv => OneOwner
  BY DEF ClusteringInv
<1> QED BY <1>1, ClusteringInvariant, PTL

(* No question is lost or counted twice in the LIVE generation, whatever   *)
(* the worker had read before the lock.                                    *)
THEOREM QuestionsClusteredOnce == Spec => []ClusteredOnce
<1>1. ClusteringInv => ClusteredOnce
  BY DEF ClusteringInv
<1> QED BY <1>1, ClusteringInvariant, PTL

(* The FINAL generation holds the questions of the class and no other.     *)
THEOREM FinalGenerationIsTheClass == Spec => []FinalIsTheClass
<1>1. ClusteringInv => FinalIsTheClass
  BY DEF ClusteringInv
<1> QED BY <1>1, ClusteringInvariant, PTL

(* The Session and the revision cannot move under a run that is current:   *)
(* the supersede branches of _succeed and _fail are never taken.           *)
THEOREM CurrentRunsStayUsable == Spec => []CurrentRunIsUsable
<1>1. ClusteringInv => CurrentRunIsUsable
  BY CurrentIsActive DEF CurrentRunIsUsable
<1> QED BY <1>1, ClusteringInvariant, PTL

-----------------------------------------------------------------------------
(* Every row is a job of the ledger *)

(* What a step may do to a row: create it, end its active attempt or leave *)
(* it open, or open the next attempt of a FAILED one.                      *)
RowStep(i) ==
    IF i \in DOMAIN rows
    THEN /\ i \in DOMAIN rows'
         /\ \/ /\ rows'[i].attempt = rows[i].attempt
               /\ rows'[i].status = rows[i].status \/ rows[i].status \in Active
            \/ /\ rows[i].status = "FAILED" /\ rows'[i].status = "PENDING"
               /\ rows'[i].attempt = rows[i].attempt + 1
    ELSE i \in DOMAIN rows' => rows'[i].status = "PENDING" /\ rows'[i].attempt = 1

LEMMA RowsUnmoved == ASSUME rows' = rows, NEW i PROVE RowStep(i)
BY DEF RowStep

LEMMA ActiveRowMoves ==
    ASSUME ClusteringInv, NEW k \in ActiveRows,
           NEW st \in Active \cup {"SUCCEEDED", "FAILED", "SUPERSEDED"},
           rows' = Set(k, st), NEW i
    PROVE  RowStep(i)
<1>1. k \in DOMAIN rows /\ rows[k].status \in Active
  BY DEF ActiveRows
<1> QED BY <1>1, StatusOfOne DEF RowStep

LEMMA FailedRowMoves ==
    ASSUME ClusteringInv, NEW k \in DOMAIN rows, rows[k].status = "FAILED", NEW d \in BOOLEAN,
           rows' = [rows EXCEPT ![k] = NextAttempt(rows[k], d)], NEW i
    PROVE  RowStep(i)
<1>1. rows \in Seq(Row) /\ rows[k] \in Row
  BY DEF ClusteringInv, TypeOK
<1>2. /\ NextAttempt(rows[k], d) \in Row /\ NextAttempt(rows[k], d).status = "PENDING"
      /\ NextAttempt(rows[k], d).attempt = rows[k].attempt + 1
  BY <1>1, NextAttemptIs
<1>3. /\ DOMAIN rows' = DOMAIN rows /\ rows'[k] = NextAttempt(rows[k], d)
      /\ \A j \in DOMAIN rows : j # k => rows'[j] = rows[j]
  BY <1>1, <1>2, OneRowSet
<1> QED BY <1>2, <1>3 DEF RowStep

LEMMA ActiveRowsEnd ==
    ASSUME ClusteringInv, NEW st \in {"FAILED", "SUPERSEDED"}, NEW i \in DOMAIN rows
    PROVE  /\ i \in DOMAIN EndActive(st)
           /\ EndActive(st)[i].attempt = rows[i].attempt
           /\ EndActive(st)[i].status = rows[i].status \/ rows[i].status \in Active
<1>1. rows[i] \in Row
  BY DEF ClusteringInv, TypeOK
<1>2. /\ i \in DOMAIN EndActive(st)
      /\ EndActive(st)[i] = IF i \in ActiveRows THEN [rows[i] EXCEPT !.status = st] ELSE rows[i]
  BY DEF EndActive
<1>3. CASE i \in ActiveRows
  BY <1>1, <1>2, <1>3, StatusSet DEF ActiveRows
<1> QED BY <1>2, <1>3

(* A row appended to rows whose active ones may have ended is a new job. *)
LEMMA RowCreated ==
    ASSUME NEW s \in Seq(Row), Len(s) = Len(rows), DOMAIN s = DOMAIN rows,
           \A j \in DOMAIN rows :
               /\ s[j].attempt = rows[j].attempt
               /\ s[j].status = rows[j].status \/ rows[j].status \in Active,
           NEW x \in Row, x.status = "PENDING", x.attempt = 1,
           rows' = s \/ rows' = Append(s, x), NEW i
    PROVE  RowStep(i)
<1>1. CASE rows' = s
  BY <1>1 DEF RowStep
<1>2. CASE rows' = Append(s, x)
  <2>1. /\ DOMAIN rows' = DOMAIN rows \cup {Len(s) + 1} /\ Len(s) + 1 \notin DOMAIN rows
        /\ rows'[Len(s) + 1] = x /\ \A j \in DOMAIN rows : rows'[j] = s[j]
    BY <1>2, RowAppended
  <2> QED BY <2>1 DEF RowStep
<1> QED BY <1>1, <1>2

LEMMA NewRowIs ==
    ASSUME NEW m \in Mode, NEW t \in Nat, NEW b \in Nat, NEW d \in BOOLEAN
    PROVE  /\ NewRow(m, t, b, d) \in Row
           /\ NewRow(m, t, b, d).status = "PENDING" /\ NewRow(m, t, b, d).attempt = 1
BY DEF NewRow, Row, Active

LEMMA RowsStep == ASSUME ClusteringInv, Next, NEW i PROVE RowStep(i)
<1>0. /\ requested \in Nat /\ revision \in Nat /\ rows \in Seq(Row)
      /\ retry \in 0 .. Len(rows)
  BY DEF ClusteringInv, TypeOK
<1>1. CASE AskExtends
  <2>1. PICK k \in ActiveRows, late \in BOOLEAN :
          rows' = [rows EXCEPT ![k].through = requested', ![k].due = late]
    BY <1>1 DEF AskExtends
  <2>2. k \in DOMAIN rows /\ rows[k] \in Row /\ requested' \in Nat
    BY <1>0, <1>1 DEF AskExtends, Ask, ActiveRows
  <2> DEFINE y == [rows[k] EXCEPT !.through = requested', !.due = late]
  <2>3. y \in Row /\ y.status = rows[k].status /\ y.attempt = rows[k].attempt
    BY <2>2 DEF Row
  <2>4. rows' = [rows EXCEPT ![k] = y]
    BY <2>1, <2>2
  <2> HIDE DEF y
  <2> QED BY <1>0, <2>2, <2>3, <2>4, OneRowSet DEF RowStep
<1>2. CASE AskEnqueues
  <2>1. PICK late \in BOOLEAN :
          rows' = Append(rows, NewRow("LIVE_INCREMENTAL", requested', revision, late))
    BY <1>2 DEF AskEnqueues
  <2>2. requested' \in Nat /\ "LIVE_INCREMENTAL" \in Mode
    BY <1>0, <1>2 DEF AskEnqueues, Ask, Mode
  <2> QED BY <1>0, <2>1, <2>2, NewRowIs, RowCreated
<1>3. CASE End
  <2>1. /\ EndActive("SUPERSEDED") \in Seq(Row)
        /\ Len(EndActive("SUPERSEDED")) = Len(rows) /\ DOMAIN EndActive("SUPERSEDED") = DOMAIN rows
    BY ActiveEnded
  <2>2. \/ rows' = EndActive("SUPERSEDED")
        \/ rows' = Append(EndActive("SUPERSEDED"), NewRow("FINAL", requested, revision, FALSE))
    BY <1>3 DEF End
  <2>3. "FINAL" \in Mode
    BY DEF Mode
  <2> QED BY <1>0, <2>1, <2>2, <2>3, ActiveRowsEnd, NewRowIs, RowCreated
<1>4. CASE Timeout
  <2>1. rows' = EndActive("FAILED") /\ DOMAIN EndActive("FAILED") = DOMAIN rows
    BY <1>4 DEF Timeout, EndActive
  <2> QED BY <2>1, ActiveRowsEnd DEF RowStep
<1>5. CASE RetryFinal
  <2>1. PICK k \in DOMAIN rows :
          rows[k].status = "FAILED" /\ rows' = [rows EXCEPT ![k] = NextAttempt(rows[k], FALSE)]
    BY <1>5 DEF RetryFinal
  <2> QED BY <2>1, FailedRowMoves
<1>6. CASE Tick
  <2>1. PICK k \in ActiveRows : rows' = [rows EXCEPT ![k].due = TRUE]
    BY <1>6 DEF Tick
  <2>2. k \in DOMAIN rows /\ rows[k] \in Row
    BY <1>0 DEF ActiveRows
  <2> QED BY <1>0, <2>1, <2>2, DueIs, OneRowSet DEF RowStep
<1>7. CASE Requeue
  <2>1. CASE retry # 0 /\ session # "LIVE"
    BY <2>1, AfterClass
  <2>2. CASE ~(retry # 0 /\ session # "LIVE") /\ retry # 0 /\ Requeueable(retry)
    <3>1. retry \in DOMAIN rows /\ rows[retry].status = "FAILED"
      BY <1>0, <2>2 DEF Requeueable
    <3>2. rows' = [rows EXCEPT ![retry] = NextAttempt(rows[retry], TRUE)]
      BY <1>7, <2>2 DEF Requeue
    <3> QED BY <3>1, <3>2, FailedRowMoves
  <2> QED BY <1>7, <2>1, <2>2, RowsUnmoved DEF Requeue
<1>8. CASE Claim
  <2>1. CASE rows' = rows
    BY <2>1, RowsUnmoved
  <2>2. CASE ~Allows(rows[worker.row].mode)
    BY <1>8, <2>1, <2>2, ActiveIsAllowed DEF Claim, Superseded
  <2>3. CASE worker.row \in Ready /\ rows' = Set(worker.row, "RUNNING")
    BY <2>3, ActiveRowMoves DEF Ready, ActiveRows, Active
  <2> QED BY <1>8, <2>1, <2>2, <2>3 DEF Claim
<1>9. CASE Succeed
  <2>1. worker.row \in ActiveRows /\ ~Obsolete(worker)
    BY <1>9, CurrentIsActive DEF Succeed
  <2>2. CASE rows' = Set(worker.row, "SUCCEEDED")
    BY <2>1, <2>2, ActiveRowMoves
  <2>3. CASE rows' = Append(Set(worker.row, "SUCCEEDED"),
                            NewRow("LIVE_INCREMENTAL", requested, revision', FALSE))
             /\ revision' = revision + 1
    <3> DEFINE s == Set(worker.row, "SUCCEEDED")
    <3>1. /\ s \in Seq(Row) /\ Len(s) = Len(rows) /\ DOMAIN s = DOMAIN rows
          /\ s[worker.row].attempt = rows[worker.row].attempt
          /\ \A j \in DOMAIN rows : j # worker.row => s[j] = rows[j]
      BY <2>1, StatusOfOne
    <3>2. rows[worker.row].status \in Active
      BY <2>1 DEF ActiveRows
    <3>3. revision' \in Nat /\ "LIVE_INCREMENTAL" \in Mode
      BY <1>0, <2>3 DEF Mode
    <3>4. rows' = Append(s, NewRow("LIVE_INCREMENTAL", requested, revision', FALSE))
      BY <2>3
    <3> HIDE DEF s
    <3> QED BY <1>0, <3>1, <3>2, <3>3, <3>4, NewRowIs, RowCreated
  <2> QED BY <1>9, <2>1, <2>2, <2>3 DEF Succeed, ApplyFinal, ApplyLive, EnqueueNext
<1>10. CASE Fail
  <2>1. worker.row \in ActiveRows /\ ~Obsolete(worker)
    BY <1>10, CurrentIsActive DEF Fail
  <2> QED BY <1>10, <2>1, ActiveRowMoves DEF Fail, Reserve
<1>11. CASE AskWaits \/ AskAfterClass \/ Complete \/ Look \/ LateReport \/ Crash
  <2>1. rows' = rows
    <3>1. CASE AskWaits \/ AskAfterClass \/ Complete
      BY <3>1 DEF AskWaits, AskAfterClass, Complete
    <3>2. CASE Look
      BY <3>2 DEF Look
    <3>3. CASE LateReport \/ Crash
      BY <3>3 DEF LateReport, Crash
    <3> QED BY <1>11, <3>1, <3>2, <3>3
  <2> QED BY <2>1, RowsUnmoved
<1> QED BY <1>1, <1>2, <1>3, <1>4, <1>5, <1>6, <1>7, <1>8, <1>9, <1>10, <1>11
        DEF Next, RunOnce

(* Such a step is one of the contract's, or leaves the job as it was. *)
LEMMA RowContract ==
    ASSUME NEW i, RowStep(i), TypeOK, TypeOK'
    PROVE  [Outcome(i)!Next]_(Outcome(i)!vars)
<1>1. ASSUME AttemptOf(i)' = AttemptOf(i), PhaseOf(i)' = PhaseOf(i), ResultOf(i)' = ResultOf(i)
      PROVE  UNCHANGED Outcome(i)!vars
  BY <1>1 DEF Outcome!vars
<1>2. CASE i \in DOMAIN rows
  <2>1. /\ i \in DOMAIN rows' /\ rows[i].attempt \in Nat
        /\ rows[i].status \in Active \cup {"SUCCEEDED", "FAILED", "SUPERSEDED"}
        /\ rows'[i].status \in Active \cup {"SUCCEEDED", "FAILED", "SUPERSEDED"}
    <3>1. i \in DOMAIN rows' /\ rows[i] \in Row /\ rows'[i] \in Row
      BY <1>2 DEF RowStep, TypeOK
    <3> QED BY <3>1 DEF Row
  <2>2. /\ AttemptOf(i) = rows[i].attempt /\ AttemptOf(i)' = rows'[i].attempt
        /\ PhaseOf(i) = IF rows[i].status \in Active THEN "open" ELSE "settled"
        /\ PhaseOf(i)' = IF rows'[i].status \in Active THEN "open" ELSE "settled"
        /\ ResultOf(i) = IF rows[i].status = "SUCCEEDED" THEN {<<i, rows[i].attempt>>} ELSE {}
        /\ ResultOf(i)' = IF rows'[i].status = "SUCCEEDED" THEN {<<i, rows'[i].attempt>>} ELSE {}
    BY <1>2, <2>1 DEF AttemptOf, PhaseOf, ResultOf
  <2>3. CASE /\ rows'[i].attempt = rows[i].attempt
             /\ \/ rows'[i].status = rows[i].status
                \/ rows[i].status \in Active /\ rows'[i].status \in Active
    BY <1>1, <2>2, <2>3 DEF Active
  <2>4. CASE /\ rows'[i].attempt = rows[i].attempt
             /\ rows[i].status \in Active /\ rows'[i].status = "SUCCEEDED"
    <3>1. Outcome(i)!Deliver(i)
      BY <2>2, <2>4 DEF Outcome!Deliver, Active
    <3> QED BY <3>1 DEF Outcome!Next
  <2>5. CASE /\ rows'[i].attempt = rows[i].attempt
             /\ rows[i].status \in Active /\ rows'[i].status \in {"FAILED", "SUPERSEDED"}
    <3>1. Outcome(i)!Abandon({i}, {})
      BY <2>2, <2>5 DEF Outcome!Abandon, Active
    <3> QED BY <3>1 DEF Outcome!Next
  <2>6. CASE /\ rows[i].status = "FAILED" /\ rows'[i].status = "PENDING"
             /\ rows'[i].attempt = rows[i].attempt + 1
    <3>1. Outcome(i)!Open(i)
      BY <2>2, <2>6 DEF Outcome!Open, Active
    <3> QED BY <3>1 DEF Outcome!Next
  <2> QED BY <1>2, <2>1, <2>3, <2>4, <2>5, <2>6 DEF RowStep
<1>3. CASE i \notin DOMAIN rows
  <2>1. AttemptOf(i) = 0 /\ PhaseOf(i) = "none" /\ ResultOf(i) = {}
    BY <1>3 DEF AttemptOf, PhaseOf, ResultOf
  <2>2. CASE i \notin DOMAIN rows'
    BY <1>1, <2>1, <2>2 DEF AttemptOf, PhaseOf, ResultOf
  <2>3. CASE i \in DOMAIN rows'
    <3>1. rows'[i].status = "PENDING" /\ rows'[i].attempt = 1
      BY <1>3, <2>3 DEF RowStep
    <3>2. AttemptOf(i)' = 1 /\ PhaseOf(i)' = "open" /\ ResultOf(i)' = {}
      BY <2>3, <3>1 DEF AttemptOf, PhaseOf, ResultOf, Active
    <3>3. AttemptOf(i)' = AttemptOf(i) + 1
      BY <2>1, <3>2
    <3>4. Outcome(i)!Open(i)
      BY <2>1, <3>2, <3>3 DEF Outcome!Open
    <3> QED BY <3>4 DEF Outcome!Next
  <2> QED BY <2>2, <2>3
<1> QED BY <1>2, <1>3

(* Every row there ever is keeps the contract of the ledger's jobs: one    *)
(* attempt open at a time, each ending once, and none opened after one     *)
(* that succeeded, whoever asks, ends the class, retries or reports late.  *)
THEOREM RowsKeepContract == ASSUME NEW i PROVE Spec => RowKeepsContract(i)
<1>1. Init => Outcome(i)!Init
  BY DEF Init, Outcome!Init, AttemptOf, PhaseOf, ResultOf
<1>2. ClusteringInv /\ ClusteringInv' /\ [Next]_vars => [Outcome(i)!Next]_(Outcome(i)!vars)
  <2> SUFFICES ASSUME ClusteringInv, ClusteringInv', Next \/ UNCHANGED vars
               PROVE  [Outcome(i)!Next]_(Outcome(i)!vars)
    OBVIOUS
  <2>1. RowStep(i)
    BY RowsStep, RowsUnmoved DEF vars
  <2> QED BY <2>1, RowContract DEF ClusteringInv
<1> QED BY <1>1, <1>2, ClusteringInvariant, PTL DEF Spec, RowKeepsContract, Outcome!Spec

=============================================================================
