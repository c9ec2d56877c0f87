-------------------------- MODULE JobLedger_proofs --------------------------
(* Theorems about JobLedger, for every set of jobs and workers. *)
EXTENDS JobLedger, TLAPS

-----------------------------------------------------------------------------
(* What the row transitions produce *)

LEMMA EmptyRowShape ==
    ASSUME NEW s \in NoRow \cup Status
    PROVE  /\ EmptyRow(s) \in Row
           /\ EmptyRow(s).status = s /\ EmptyRow(s).attempt = 0
           /\ EmptyRow(s).version = 0 /\ EmptyRow(s).token = 0
           /\ EmptyRow(s).lease = "none"
BY DEF EmptyRow, IdleRow, Row, Lease

LEMMA NewRowShape ==
    ASSUME NEW s \in Status, NEW b \in BOOLEAN
    PROVE  /\ NewRow(s, b) \in Row
           /\ NewRow(s, b).status = s /\ NewRow(s, b).attempt = 1
           /\ NewRow(s, b).version = 1 /\ NewRow(s, b).token = 0
           /\ NewRow(s, b).lease = "none"
BY DEF NewRow, IdleRow, Row, Lease

LEMMA PendingAgainShape ==
    ASSUME NEW r \in Row
    PROVE  /\ PendingAgain(r) \in Row
           /\ PendingAgain(r).status = "PENDING"
           /\ PendingAgain(r).attempt = r.attempt + 1
           /\ PendingAgain(r).version = r.version + 1
           /\ PendingAgain(r).token = 0
           /\ PendingAgain(r).lease = "none"
BY DEF PendingAgain, IdleRow, Row, Lease, Status, Active

LEMMA TouchedShape ==
    ASSUME NEW r \in Row, NEW n \in Nat
    PROVE  /\ [r EXCEPT !.retryable = FALSE, !.version = n] \in Row
           /\ [r EXCEPT !.lease = "live", !.version = n] \in Row
<1>1. [r EXCEPT !.retryable = FALSE, !.version = n] \in Row
  BY DEF Row
<1>2. [r EXCEPT !.lease = "live", !.version = n] \in Row
  BY DEF Row, Lease
<1> QED
  BY <1>1, <1>2

LEMMA EndedShape ==
    ASSUME NEW r \in Row, NEW s \in Terminal, NEW b \in BOOLEAN
    PROVE  /\ Ended(r, s, b) \in Row
           /\ Ended(r, s, b).status = s
           /\ Ended(r, s, b).attempt = r.attempt
           /\ Ended(r, s, b).version = r.version + 1
           /\ Ended(r, s, b).token = 0
           /\ Ended(r, s, b).lease = "none"
BY DEF Ended, IdleRow, Row, Lease, Status

LEMMA ClaimedShape ==
    ASSUME NEW r \in Row, NEW t \in Nat
    PROVE  /\ Claimed(r, t) \in Row
           /\ Claimed(r, t).status = "RUNNING"
           /\ Claimed(r, t).attempt = r.attempt
           /\ Claimed(r, t).version = r.version + 1
           /\ Claimed(r, t).token = t
           /\ Claimed(r, t).lease = "live"
BY DEF Claimed, Row, Lease, Status, Active

-----------------------------------------------------------------------------
(* The inductive invariant *)

LEMMA InitLedger == Init => LedgerInv
<1> SUFFICES ASSUME Init PROVE LedgerInv OBVIOUS
<1> USE DEF Init
<1>1. \A j \in Job : /\ row[j] \in Row /\ row[j].status = "ABSENT" /\ row[j].attempt = 0
                     /\ row[j].version = 0
                     /\ row[j].token = 0 /\ row[j].lease = "none"
  BY EmptyRowShape DEF NoRow
<1>2. TypeOK
  BY <1>1 DEF TypeOK, Event
<1>3. ResultsNotAhead /\ RunsNotAhead /\ AbsentRows
  BY <1>1 DEF ResultsNotAhead, RunsNotAhead, AbsentRows, Holds
<1>4. ResultIffSucceeded /\ OneRunPerAttempt
  BY <1>1 DEF ResultIffSucceeded, OneRunPerAttempt, Holds
<1>5. EventShowsRow
  BY <1>1, JobKinds DEF EventShowsRow
<1> QED
  BY <1>2, <1>3, <1>4, <1>5 DEF LedgerInv

(* Enqueue inserts a row nobody has seen. *)
LEMMA EnqueueStep ==
    ASSUME LedgerInv, NEW j \in Job, NEW b \in BOOLEAN, Enqueue(j, b)
    PROVE  LedgerInv'
<1> USE DEF Enqueue, LedgerInv
<1>1. /\ row' = [row EXCEPT ![j] = NewRow("PENDING", b)]
      /\ NewRow("PENDING", b) \in Row
      /\ row'[j] = NewRow("PENDING", b)
      /\ row'[j].status = "PENDING" /\ row'[j].attempt = 1 /\ row'[j].version = 1
      /\ row'[j].token = 0 /\ row'[j].lease = "none"
  BY NewRowShape DEF TypeOK, Status, Active
<1>2. \A i \in Job \ {j} : row'[i] = row[i]
  BY DEF TypeOK
<1>3. event' = [i \in Job |-> IF i \in {j} \cap Shared
                              THEN [status |-> row'[i].status, version |-> row'[i].version]
                              ELSE event[i]]
  BY DEF Emit
<1>4. TypeOK'
  BY <1>1, <1>2, <1>3 DEF TypeOK, Event, Row, Status, Active
<1>5. ResultsNotAhead'
  BY <1>1, <1>2 DEF ResultsNotAhead, TypeOK, ClaimedJob, Status, Active, Terminal
<1>6. RunsNotAhead'
  BY <1>1, <1>2 DEF RunsNotAhead, TypeOK, ClaimedJob, Holds, Row, AbsentRows, NoRow
<1>7. AbsentRows'
  BY <1>1, <1>2 DEF AbsentRows, NoRow
<1>8. ResultIffSucceeded'
  BY <1>1, <1>2 DEF ResultIffSucceeded, ResultsNotAhead, TypeOK, ClaimedJob, Status, Active, Terminal
<1>9. OneRunPerAttempt'
  BY DEF OneRunPerAttempt, Holds
<1>10. EventShowsRow'
  BY <1>1, <1>2, <1>3, JobKinds DEF EventShowsRow, TypeOK
<1> QED
  BY <1>4, <1>5, <1>6, <1>7, <1>8, <1>9, <1>10
(* Active rows in S end without a result and rows in M are inserted ended; *)
(* a worker may let go of its run.  Every way to end a row but Succeed.    *)
LEMMA EndStep ==
    ASSUME LedgerInv,
           NEW S \in SUBSET Job, NEW M \in SUBSET Job,
           \A j \in S : row[j].status \in Active,
           \A j \in M : row[j].status = "ABSENT",
           NEW s \in Terminal \ {"SUCCEEDED"}, NEW b \in BOOLEAN,
           row' = [j \in Job |-> IF j \in M THEN NewRow("FAILED", TRUE)
                                 ELSE IF j \in S THEN Ended(row[j], s, b) ELSE row[j]],
           Emit(S \cup M), issued' = issued, accepted' = accepted,
           run' \in [Worker -> ClaimedJob \cup {NoRun}],
           \A w \in Worker : run'[w] \in {run[w], NoRun}
    PROVE  LedgerInv'
<1> USE DEF LedgerInv
<1>1. ASSUME NEW j \in M
      PROVE  /\ row'[j] \in Row /\ row'[j].status = "FAILED" /\ row'[j].attempt = 1
             /\ row'[j].version = 1 /\ row'[j].token = 0 /\ row'[j].lease = "none"
  BY <1>1, NewRowShape DEF Status, Terminal
<1>2. ASSUME NEW j \in S \ M
      PROVE  /\ row'[j] \in Row /\ row'[j].status = s /\ row'[j].attempt = row[j].attempt
             /\ row'[j].version = row[j].version + 1 /\ row'[j].token = 0
             /\ row'[j].lease = "none"
  BY <1>2, EndedShape DEF TypeOK
<1>3. \A j \in Job \ (S \cup M) : row'[j] = row[j]
  OBVIOUS
<1>4. /\ row' = [j \in Job |-> row'[j]]
      /\ event' = [i \in Job |-> IF i \in (S \cup M) \cap Shared
                                 THEN [status |-> row'[i].status, version |-> row'[i].version]
                                 ELSE event[i]]
  BY DEF Emit
<1>5. \A j \in Job : row'[j] \in Row
  BY <1>1, <1>2, <1>3 DEF TypeOK
<1>6. TypeOK'
  <2>1. row' \in [Job -> Row]
    BY <1>4, <1>5
  <2>2. event' \in [Job -> Event]
    <3> SUFFICES ASSUME NEW i \in Job PROVE event'[i] \in Event
      BY <1>4
    <3>1. CASE i \in (S \cup M) \cap Shared
      <4>1. row'[i].status \in Status /\ row'[i].version \in Nat
        BY <3>1, <1>1, <1>2, <1>5 DEF Row, Status, Terminal
      <4> QED
        BY <3>1, <4>1, <1>4 DEF Event
    <3>2. CASE i \notin (S \cup M) \cap Shared
      BY <3>2, <1>4 DEF TypeOK
    <3> QED
      BY <3>1, <3>2
  <2>3. \A j \in Job : /\ row'[j].status = "RUNNING" <=> row'[j].token # 0
                       /\ row'[j].status = "RUNNING" <=> row'[j].lease # "none"
    BY <1>1, <1>2, <1>3 DEF TypeOK, Terminal
  <2> QED
    BY <2>1, <2>2, <2>3 DEF TypeOK
<1>7. ResultsNotAhead'
  <2> SUFFICES ASSUME NEW r \in accepted
               PROVE  row'[r.job].status \in Status /\ r.attempt <= row'[r.job].attempt
    BY DEF ResultsNotAhead
  <2>1. r.job \in Job \ M /\ row[r.job].status \in Status /\ r.attempt <= row[r.job].attempt
    BY DEF ResultsNotAhead, TypeOK, ClaimedJob, Status, Active, Terminal
  <2>2. CASE r.job \in S
    BY <2>1, <2>2, <1>2 DEF Status
  <2>3. CASE r.job \notin S
    BY <2>1, <2>3, <1>3
  <2> QED
    BY <2>2, <2>3
<1>8. RunsNotAhead'
  <2> SUFFICES ASSUME NEW w \in Worker, Holds(w)'
               PROVE  \/ row'[run[w].job].status = "PURGED"
                      \/ run[w].attempt < row'[run[w].job].attempt
                      \/ /\ run[w].attempt = row'[run[w].job].attempt
                         /\ row'[run[w].job].status \notin {"ABSENT", "PENDING"}
    BY DEF RunsNotAhead, Holds
  <2>1. /\ Holds(w) /\ run[w] \in ClaimedJob /\ run[w].job \in Job
    BY DEF Holds, TypeOK, ClaimedJob
  <2>2. CASE run[w].job \in M
    BY <2>1, <2>2, <1>1 DEF RunsNotAhead, AbsentRows, NoRow, ClaimedJob
  <2>3. CASE run[w].job \in S \ M
    BY <2>1, <2>3, <1>2 DEF RunsNotAhead, Active, Terminal
  <2>4. CASE run[w].job \notin S \cup M
    BY <2>1, <2>4, <1>3 DEF RunsNotAhead
  <2> QED
    BY <2>2, <2>3, <2>4
<1>9. AbsentRows'
  BY <1>1, <1>2, <1>3 DEF AbsentRows, NoRow, Terminal
<1>10. ResultIffSucceeded'
  <2> SUFFICES ASSUME NEW j \in Job
               PROVE  row'[j].status = "SUCCEEDED" <=>
                         \E r \in accepted : r.job = j /\ r.attempt = row'[j].attempt
    BY DEF ResultIffSucceeded
  <2>1. CASE j \in M
    <3>1. row'[j].status = "FAILED" /\ row[j].status = "ABSENT"
      BY <2>1, <1>1
    <3>2. "ABSENT" \notin Status
      BY DEF Status, Active, Terminal
    <3>3. \A r \in accepted : r.job # j
      BY <3>1, <3>2 DEF ResultsNotAhead
    <3> QED
      BY <3>1, <3>3
  <2>2. CASE j \in S \ M
    <3>1. row[j].status # "SUCCEEDED"
      BY <2>2 DEF Active
    <3>2. row'[j].status # "SUCCEEDED" /\ row'[j].attempt = row[j].attempt
      BY <2>2, <1>2
    <3>3. ~ \E r \in accepted : r.job = j /\ r.attempt = row[j].attempt
      BY <3>1 DEF ResultIffSucceeded
    <3> QED
      BY <3>2, <3>3
  <2>3. CASE j \notin S \cup M
    BY <2>3, <1>3 DEF ResultIffSucceeded
  <2> QED
    BY <2>1, <2>2, <2>3
<1>11. OneRunPerAttempt'
  BY DEF OneRunPerAttempt, Holds
<1>12. EventShowsRow'
  <2> SUFFICES ASSUME NEW j \in Shared
               PROVE  /\ row'[j].status = "ABSENT" <=> event'[j].status = "none"
                      /\ row'[j].status # "ABSENT" => event'[j].status = row'[j].status
                      /\ event'[j].version <= row'[j].version
    BY DEF EventShowsRow
  <2>1. j \in Job
    BY JobKinds
  <2>2. CASE j \in S \cup M
    <3>1. event'[j].status = row'[j].status /\ event'[j].version = row'[j].version
      BY <2>1, <2>2, <1>4
    <3>2. row'[j].version \in Nat /\ row'[j].status \in Terminal
      BY <2>1, <2>2, <1>1, <1>2, <1>5 DEF Row, Terminal
    <3>3. row'[j].status # "ABSENT" /\ row'[j].status # "none"
      BY <3>2 DEF Terminal
    <3>4. event'[j].version <= row'[j].version
      <4>1. \A m, n \in Nat : m = n => m <= n
        OBVIOUS
      <4> QED
        BY <3>1, <3>2, <4>1
    <3> QED
      BY <3>1, <3>3, <3>4
  <2>3. CASE j \notin S \cup M
    BY <2>1, <2>3, <1>3, <1>4 DEF EventShowsRow
  <2> QED
    BY <2>2, <2>3
<1> QED
  BY <1>6, <1>7, <1>8, <1>9, <1>10, <1>11, <1>12

(* An ended row goes back to PENDING with its next attempt number. *)
LEMMA PendingStep ==
    ASSUME LedgerInv, NEW j \in Job, row[j].status \in Terminal,
           row' = [row EXCEPT ![j] = PendingAgain(row[j])], Emit({j}),
           UNCHANGED <<run, issued, accepted>>
    PROVE  LedgerInv'
<1> USE DEF LedgerInv
<1>1. /\ row'[j] \in Row /\ row'[j].status = "PENDING"
      /\ row'[j].attempt = row[j].attempt + 1 /\ row'[j].version = row[j].version + 1
      /\ row'[j].token = 0 /\ row'[j].lease = "none"
  BY PendingAgainShape DEF TypeOK
<1>2. \A i \in Job \ {j} : row'[i] = row[i]
  BY DEF TypeOK
<1>3. event' = [i \in Job |-> IF i \in {j} \cap Shared
                              THEN [status |-> row'[i].status, version |-> row'[i].version]
                              ELSE event[i]]
  BY DEF Emit
<1>4. TypeOK'
  <2>1. row' \in [Job -> Row]
    BY <1>1 DEF TypeOK
  <2>2. event' \in [Job -> Event]
    BY <1>1, <1>3 DEF TypeOK, Event, Status, Active, Row
  <2> QED
    BY <1>1, <1>2, <2>1, <2>2 DEF TypeOK
<1>5. ResultsNotAhead'
  BY <1>1, <1>2 DEF ResultsNotAhead, TypeOK, ClaimedJob, Row, Status, Active
<1>6. RunsNotAhead'
  <2> SUFFICES ASSUME NEW w \in Worker, Holds(w), run[w].job = j
               PROVE  run[w].attempt < row'[j].attempt
    BY <1>2 DEF RunsNotAhead, Holds, TypeOK, ClaimedJob
  <2>1. run[w].attempt \in Nat /\ row[j].attempt \in Nat
    BY DEF TypeOK, ClaimedJob, Holds, Row
  <2>2. run[w].attempt <= row[j].attempt
    BY <2>1 DEF RunsNotAhead, Terminal
  <2> QED
    BY <1>1, <2>1, <2>2
<1>7. AbsentRows'
  BY <1>1, <1>2 DEF AbsentRows, NoRow
<1>8. ResultIffSucceeded'
  <2>1. \A r \in accepted : r.job = j => r.attempt # row'[j].attempt
    BY <1>1 DEF ResultsNotAhead, TypeOK, ClaimedJob, Row
  <2> QED
    BY <1>1, <1>2, <2>1 DEF ResultIffSucceeded
<1>9. OneRunPerAttempt'
  BY DEF OneRunPerAttempt, Holds
<1>10. EventShowsRow'
  BY <1>1, <1>2, <1>3, JobKinds DEF EventShowsRow, TypeOK, Row
<1> QED
  BY <1>4, <1>5, <1>6, <1>7, <1>8, <1>9, <1>10

(* A row keeps its status, attempt and token and no event is written. *)
LEMMA TouchStep ==
    ASSUME LedgerInv, NEW j \in Job, NEW x \in Row,
           row' = [row EXCEPT ![j] = x],
           x.status = row[j].status, x.attempt = row[j].attempt, x.token = row[j].token,
           x.lease = "none" <=> row[j].lease = "none", row[j].version <= x.version,
           row[j].status \in Status,
           UNCHANGED <<run, issued, event, accepted>>
    PROVE  LedgerInv'
<1> USE DEF LedgerInv
<1>1. row'[j] = x /\ \A i \in Job \ {j} : row'[i] = row[i]
  BY DEF TypeOK
<1>2. TypeOK'
  BY <1>1 DEF TypeOK
<1>3. ResultsNotAhead' /\ RunsNotAhead' /\ AbsentRows'
  <2>1. \A i \in Job : row'[i].status = row[i].status /\ row'[i].attempt = row[i].attempt
    BY <1>1
  <2>2. ResultsNotAhead'
    BY <2>1 DEF ResultsNotAhead, TypeOK, ClaimedJob
  <2>3. RunsNotAhead'
    BY <2>1 DEF RunsNotAhead, TypeOK, ClaimedJob, Holds
  <2>4. AbsentRows'
    BY <1>1, <2>1 DEF AbsentRows, NoRow, Status, Active, Terminal
  <2> QED
    BY <2>2, <2>3, <2>4
<1>4. ResultIffSucceeded'
  BY <1>1 DEF ResultIffSucceeded
<1>5. OneRunPerAttempt'
  BY DEF OneRunPerAttempt, Holds
<1>6. EventShowsRow'
  BY <1>1, JobKinds DEF EventShowsRow, TypeOK, Row, Event
<1> QED
  BY <1>2, <1>3, <1>4, <1>5, <1>6

(* Only worker w changes, and it lets go of its run. *)
LEMMA ReleaseStep ==
    ASSUME LedgerInv, NEW w \in Worker, Release(w),
           UNCHANGED <<row, issued, event, accepted>>
    PROVE  LedgerInv'
<1> USE DEF LedgerInv, Release
<1>1. /\ run' \in [Worker -> ClaimedJob \cup {NoRun}]
      /\ \A v \in Worker : run'[v] \in {run[v], NoRun}
  BY DEF TypeOK
<1>2. TypeOK'
  BY <1>1 DEF TypeOK
<1>3. ResultsNotAhead' /\ RunsNotAhead' /\ AbsentRows'
  BY <1>1 DEF ResultsNotAhead, RunsNotAhead, AbsentRows, Holds
<1>4. ResultIffSucceeded' /\ OneRunPerAttempt' /\ EventShowsRow'
  BY <1>1 DEF ResultIffSucceeded, OneRunPerAttempt, EventShowsRow, Holds
<1> QED
  BY <1>2, <1>3, <1>4

(* A free worker takes a PENDING row under a token nobody has seen. *)
LEMMA ClaimStep ==
    ASSUME LedgerInv, NEW w \in Worker, NEW j \in Job, Claim(w, j)
    PROVE  LedgerInv'
<1> USE DEF LedgerInv, Claim
<1>1. /\ row'[j] \in Row /\ row'[j].status = "RUNNING"
      /\ row'[j].attempt = row[j].attempt /\ row'[j].version = row[j].version + 1
      /\ row'[j].token = issued + 1 /\ row'[j].lease = "live"
  BY ClaimedShape DEF TypeOK
<1>2. \A i \in Job \ {j} : row'[i] = row[i]
  BY DEF TypeOK
<1>3. /\ row[j] \in Row /\ row[j].attempt \in Nat /\ row[j].version \in Nat
      /\ row[j].status = "PENDING" /\ issued \in Nat
  BY DEF TypeOK, Row
<1>4. event' = [i \in Job |-> IF i \in {j} \cap Shared
                              THEN [status |-> row'[i].status, version |-> row'[i].version]
                              ELSE event[i]]
  BY DEF Emit
<1>5. /\ run'[w] = [job |-> j, attempt |-> row[j].attempt, token |-> issued + 1]
      /\ run'[w] \in ClaimedJob
      /\ \A v \in Worker \ {w} : run'[v] = run[v]
  BY <1>3 DEF TypeOK, ClaimedJob
<1>6. TypeOK'
  <2>1. row' \in [Job -> Row]
    BY <1>1 DEF TypeOK
  <2>2. event' \in [Job -> Event]
    BY <1>1, <1>4 DEF TypeOK, Event, Status, Active, Row
  <2>3. run' \in [Worker -> ClaimedJob \cup {NoRun}]
    BY <1>5 DEF TypeOK
  <2> QED
    BY <1>1, <1>2, <1>3, <2>1, <2>2, <2>3 DEF TypeOK
<1>7. ResultsNotAhead'
  BY <1>1, <1>2 DEF ResultsNotAhead, TypeOK, ClaimedJob, Status, Active
<1>8. RunsNotAhead'
  <2> SUFFICES ASSUME NEW v \in Worker, Holds(v)'
               PROVE  \/ row'[run'[v].job].status = "PURGED"
                      \/ run'[v].attempt < row'[run'[v].job].attempt
                      \/ /\ run'[v].attempt = row'[run'[v].job].attempt
                         /\ row'[run'[v].job].status \notin {"ABSENT", "PENDING"}
    BY DEF RunsNotAhead, Holds
  <2>1. CASE v = w
    BY <2>1, <1>1, <1>5
  <2>2. CASE v # w
    <3>1. Holds(v) /\ run'[v] = run[v] /\ run[v].job \in Job
      BY <2>2, <1>5 DEF Holds, TypeOK, ClaimedJob
    <3>2. CASE run[v].job = j
      BY <3>1, <3>2, <1>1, <1>3 DEF RunsNotAhead
    <3>3. CASE run[v].job # j
      BY <3>1, <3>3, <1>2 DEF RunsNotAhead
    <3> QED
      BY <3>2, <3>3
  <2> QED
    BY <2>1, <2>2
<1>9. AbsentRows'
  BY <1>1, <1>2 DEF AbsentRows, NoRow
<1>10. ResultIffSucceeded'
  <2>1. row'[j].status # "SUCCEEDED" /\ row[j].status # "SUCCEEDED"
    BY <1>1
  <2> QED
    BY <1>1, <1>2, <2>1 DEF ResultIffSucceeded
<1>11. OneRunPerAttempt'
  <2>1. ASSUME NEW v \in Worker \ {w}, Holds(v), run[v].job = j, run[v].attempt = row[j].attempt
        PROVE  FALSE
    <3>1. run[v].attempt \in Nat
      BY <2>1 DEF TypeOK, ClaimedJob, Holds
    <3> QED
      BY <2>1, <3>1, <1>3 DEF RunsNotAhead
  <2>2. \A v \in Worker \ {w} : Holds(v)' => ~(run[v].job = j /\ run[v].attempt = row[j].attempt)
    BY <2>1, <1>5 DEF Holds
  <2>3. run'[w].job = j /\ run'[w].attempt = row[j].attempt
    BY <1>5
  <2> SUFFICES ASSUME NEW u \in Worker, NEW v \in Worker, Holds(u)', Holds(v)', u # v,
                      run'[u].job = run'[v].job, run'[u].attempt = run'[v].attempt
               PROVE  FALSE
    BY DEF OneRunPerAttempt, Holds
  <2>4. CASE u # w /\ v # w
    BY <2>4, <1>5 DEF OneRunPerAttempt, Holds
  <2>5. CASE u = w
    BY <2>5, <2>2, <2>3, <1>5
  <2>6. CASE v = w
    BY <2>6, <2>2, <2>3, <1>5
  <2> QED
    BY <2>4, <2>5, <2>6
<1>12. EventShowsRow'
  BY <1>1, <1>2, <1>3, <1>4, JobKinds DEF EventShowsRow, TypeOK, Row
<1> QED
  BY <1>6, <1>7, <1>8, <1>9, <1>10, <1>11, <1>12

(* The fenced run publishes: it is the only result of its attempt. *)
LEMMA SucceedStep ==
    ASSUME LedgerInv, NEW w \in Worker, Succeed(w), NEW j, j = run[w].job
    PROVE  LedgerInv'
<1> USE DEF LedgerInv
<1>1. /\ run[w] \in ClaimedJob /\ j \in Job /\ row[j] \in Row
      /\ row[j].status = "RUNNING" /\ row[j].attempt = run[w].attempt
  BY DEF Succeed, Holds, TypeOK, ClaimedJob, RunConditions
<1>2. /\ row' = [row EXCEPT ![j] = Ended(row[j], "SUCCEEDED", FALSE)]
      /\ row'[j] \in Row /\ row'[j].status = "SUCCEEDED"
      /\ row'[j].attempt = row[j].attempt /\ row'[j].version = row[j].version + 1
      /\ row'[j].token = 0 /\ row'[j].lease = "none"
  <2> DEFINE x == Ended(row[j], "SUCCEEDED", FALSE)
  <2>1. row' = [row EXCEPT ![j] = x]
    BY DEF Succeed
  <2>2. row'[j] = x
    BY <2>1, <1>1 DEF TypeOK
  <2>3. /\ x \in Row /\ x.status = "SUCCEEDED" /\ x.attempt = row[j].attempt
        /\ x.version = row[j].version + 1 /\ x.token = 0 /\ x.lease = "none"
    BY <1>1, EndedShape DEF Terminal
  <2> HIDE DEF x
  <2>4. /\ row'[j] \in Row /\ row'[j].status = "SUCCEEDED"
        /\ row'[j].attempt = row[j].attempt /\ row'[j].version = row[j].version + 1
        /\ row'[j].token = 0 /\ row'[j].lease = "none"
    BY <2>2, <2>3
  <2> QED
    BY <2>1, <2>4 DEF x
<1>3. \A i \in Job \ {j} : row'[i] = row[i]
  BY <1>2 DEF TypeOK
<1>4. event' = [i \in Job |-> IF i \in {j} \cap Shared
                              THEN [status |-> row'[i].status, version |-> row'[i].version]
                              ELSE event[i]]
  BY DEF Succeed, Emit
<1>5. accepted' = accepted \cup {run[w]}
  BY DEF Succeed
<1>6. \A r \in accepted : ~(r.job = j /\ r.attempt = run[w].attempt)
  BY <1>1 DEF ResultIffSucceeded
<1>7. /\ run' \in [Worker -> ClaimedJob \cup {NoRun}]
      /\ \A v \in Worker : run'[v] \in {run[v], NoRun}
  BY DEF Succeed, TypeOK, Release
<1>8. TypeOK'
  <2>1. row' \in [Job -> Row]
    BY <1>1, <1>2 DEF TypeOK
  <2>2. event' \in [Job -> Event]
    BY <1>1, <1>2, <1>4 DEF TypeOK, Event, Status, Terminal, Row
  <2>3. issued' \in Nat
    BY DEF Succeed, TypeOK
  <2>4. accepted' \subseteq ClaimedJob
    BY <1>1, <1>5 DEF TypeOK
  <2> QED
    BY <1>2, <1>3, <1>7, <2>1, <2>2, <2>3, <2>4 DEF TypeOK
<1>9. ResultsNotAhead'
  <2>1. \A i \in Job : i # j => row'[i] = row[i]
    BY <1>3
  <2>2. row[j].attempt \in Nat
    BY <1>1 DEF Row
  <2> SUFFICES ASSUME NEW r \in accepted'
               PROVE  row'[r.job].status \in Status /\ r.attempt <= row'[r.job].attempt
    BY DEF ResultsNotAhead
  <2>4. CASE r = run[w]
    <3>1. r.job = j /\ r.attempt = row'[j].attempt
      BY <2>4, <1>1, <1>2
    <3>2. row'[j].status \in Status /\ row'[j].attempt \in Nat
      BY <1>2, <2>2 DEF Status, Terminal
    <3>3. \A m, n \in Nat : m = n => m <= n
      OBVIOUS
    <3> QED
      BY <3>1, <3>2, <3>3
  <2>5. CASE r \in accepted
    <3>1. r.job \in Job /\ row[r.job].status \in Status /\ r.attempt <= row[r.job].attempt
      BY <2>5 DEF ResultsNotAhead, TypeOK, ClaimedJob
    <3>2. CASE r.job = j
      BY <3>1, <3>2, <1>2 DEF Status, Terminal
    <3>3. CASE r.job # j
      BY <3>1, <3>3, <2>1
    <3> QED
      BY <3>2, <3>3
  <2> QED
    BY <2>4, <2>5, <1>5
<1>10. RunsNotAhead'
  <2> SUFFICES ASSUME NEW v \in Worker, Holds(v), run'[v] = run[v]
               PROVE  \/ row'[run[v].job].status = "PURGED"
                      \/ run[v].attempt < row'[run[v].job].attempt
                      \/ /\ run[v].attempt = row'[run[v].job].attempt
                         /\ row'[run[v].job].status \notin {"ABSENT", "PENDING"}
    BY <1>7 DEF RunsNotAhead, Holds
  <2>1. run[v].job \in Job
    BY DEF Holds, TypeOK, ClaimedJob
  <2>2. CASE run[v].job = j
    BY <2>2, <1>1, <1>2 DEF RunsNotAhead
  <2>3. CASE run[v].job # j
    BY <2>1, <2>3, <1>3 DEF RunsNotAhead
  <2> QED
    BY <2>2, <2>3
<1>11. AbsentRows'
  BY <1>2, <1>3 DEF AbsentRows, NoRow
<1>12. ResultIffSucceeded'
  <2>2. \A i \in Job : row'[i].status = "SUCCEEDED" <=>
           \E r \in accepted' : r.job = i /\ r.attempt = row'[i].attempt
    <3> SUFFICES ASSUME NEW i \in Job
                 PROVE  row'[i].status = "SUCCEEDED" <=>
                           \E r \in accepted' : r.job = i /\ r.attempt = row'[i].attempt
      OBVIOUS
    <3>1. CASE i = j
      BY <3>1, <1>1, <1>2, <1>5
    <3>2. CASE i # j
      BY <3>2, <1>3, <1>5 DEF ResultIffSucceeded
    <3> QED
      BY <3>1, <3>2
  <2>1. \A r, s \in accepted' : r.job = s.job /\ r.attempt = s.attempt => r = s
    BY <1>5, <1>6 DEF ResultIffSucceeded
  <2> QED
    BY <2>1, <2>2 DEF ResultIffSucceeded
<1>13. OneRunPerAttempt'
  BY <1>7 DEF OneRunPerAttempt, Holds
<1>14. EventShowsRow'
  <2> SUFFICES ASSUME NEW i \in Shared
               PROVE  /\ row'[i].status = "ABSENT" <=> event'[i].status = "none"
                      /\ row'[i].status # "ABSENT" => event'[i].status = row'[i].status
                      /\ event'[i].version <= row'[i].version
    BY DEF EventShowsRow
  <2>1. i \in Job
    BY JobKinds
  <2>2. CASE i = j
    <3>1. event'[j].status = row'[j].status /\ event'[j].version = row'[j].version
      BY <2>1, <2>2, <1>4
    <3>2. row'[j].version \in Nat
      BY <1>2 DEF Row
    <3>3. \A m, n \in Nat : m = n => m <= n
      OBVIOUS
    <3> QED
      BY <2>2, <3>1, <3>2, <3>3, <1>2
  <2>3. CASE i # j
    BY <2>1, <2>3, <1>3, <1>4 DEF EventShowsRow
  <2> QED
    BY <2>2, <2>3
<1> QED
  BY <1>8, <1>9, <1>10, <1>11, <1>12, <1>13, <1>14

(* A private row goes with its results; stale runs of it find nothing. *)
LEMMA PurgeStep ==
    ASSUME LedgerInv, NEW j \in Job, Purge(j)
    PROVE  LedgerInv'
<1> USE DEF LedgerInv, Purge
<1>1. /\ row'[j] \in Row /\ row'[j].status = "PURGED" /\ row'[j].attempt = 0
      /\ row'[j].version = 0 /\ row'[j].token = 0 /\ row'[j].lease = "none"
  BY EmptyRowShape DEF TypeOK, NoRow
<1>2. \A i \in Job \ {j} : row'[i] = row[i]
  BY DEF TypeOK
<1>3. TypeOK'
  BY <1>1, <1>2 DEF TypeOK
<1>4. ResultsNotAhead'
  BY <1>2 DEF ResultsNotAhead, TypeOK, ClaimedJob
<1>5. RunsNotAhead'
  BY <1>1, <1>2 DEF RunsNotAhead, TypeOK, ClaimedJob, Holds
<1>6. AbsentRows'
  BY <1>1, <1>2 DEF AbsentRows, NoRow
<1>7. ResultIffSucceeded'
  BY <1>1, <1>2 DEF ResultIffSucceeded
<1>8. OneRunPerAttempt'
  BY DEF OneRunPerAttempt, Holds
<1>9. EventShowsRow'
  BY <1>2, JobKinds DEF EventShowsRow
<1> QED
  BY <1>3, <1>4, <1>5, <1>6, <1>7, <1>8, <1>9

(* Watchdogs: the rows they pick are RUNNING, or blocking and not ended. *)
LEMMA WatchdogStep ==
    ASSUME LedgerInv, Watchdog
    PROVE  LedgerInv'
<1> USE DEF LedgerInv
<1>1. /\ run \in [Worker -> ClaimedJob \cup {NoRun}]
      /\ \A w \in Worker : run[w] \in {run[w], NoRun}
      /\ "FAILED" \in Terminal \ {"SUCCEEDED"}
  BY DEF TypeOK, Terminal
<1>2. ASSUME FailExpiredShared PROVE LedgerInv'
  <2>1. PICK S \in SUBSET {j \in Job : LostShared(j)} : FailAll(S) /\ Emit(S)
    BY <1>2 DEF FailExpiredShared
  <2>2. S \in SUBSET Job /\ \A j \in S : row[j].status \in Active
    BY DEF LostShared, Active
  <2>3. /\ row' = [j \in Job |-> IF j \in {} THEN NewRow("FAILED", TRUE)
                                 ELSE IF j \in S THEN Ended(row[j], "FAILED", TRUE) ELSE row[j]]
        /\ Emit(S \cup {})
    BY <2>1 DEF FailAll, Emit
  <2>4. UNCHANGED <<run, issued, accepted>>
    BY <1>2 DEF FailExpiredShared
  <2> QED
    BY <1>1, <2>2, <2>3, <2>4, EndStep
<1>3. ASSUME FailExpiredRequesterOnly PROVE LedgerInv'
  <2>1. PICK S \in SUBSET {j \in Job : LostRequesterOnly(j)} : FailAll(S)
    BY <1>3 DEF FailExpiredRequesterOnly
  <2>2. S \in SUBSET Job /\ \A j \in S : row[j].status \in Active /\ j \notin Shared
    BY DEF LostRequesterOnly, Active
  <2>3. row' = [j \in Job |-> IF j \in {} THEN NewRow("FAILED", TRUE)
                              ELSE IF j \in S THEN Ended(row[j], "FAILED", TRUE) ELSE row[j]]
    BY <2>1 DEF FailAll
  <2>4. UNCHANGED <<run, issued, event, accepted>>
    BY <1>3 DEF FailExpiredRequesterOnly
  <2>5. Emit(S \cup {})
    BY <2>2, <2>4 DEF Emit, TypeOK
  <2> QED
    BY <1>1, <2>2, <2>3, <2>4, <2>5, EndStep
<1>4. ASSUME ForceTimeout PROVE LedgerInv'
  <2> DEFINE S == {j \in Blocking : row[j].status \in Active}
  <2>1. PICK M \in SUBSET {j \in Blocking : row[j].status = "ABSENT"} :
           /\ row' = [j \in Job |-> CASE j \in M -> NewRow("FAILED", TRUE)
                                      [] j \in S -> Ended(row[j], "FAILED", TRUE)
                                      [] OTHER   -> row[j]]
           /\ Emit(S \cup M)
    BY <1>4 DEF ForceTimeout
  <2>2. /\ S \in SUBSET Job /\ M \in SUBSET Job
        /\ \A j \in S : row[j].status \in Active
        /\ \A j \in M : row[j].status = "ABSENT"
    BY JobKinds
  <2>3. S \cap M = {}
    BY DEF Active
  <2>4. row' = [j \in Job |-> IF j \in M THEN NewRow("FAILED", TRUE)
                              ELSE IF j \in S THEN Ended(row[j], "FAILED", TRUE) ELSE row[j]]
    <3> HIDE DEF S
    <3> QED
      BY <2>1, <2>3
  <2>5. UNCHANGED <<run, issued, accepted>>
    BY <1>4 DEF ForceTimeout
  <2> HIDE DEF S
  <2> QED
    BY <1>1, <2>1, <2>2, <2>4, <2>5, EndStep
<1> QED
  BY <1>2, <1>3, <1>4 DEF Watchdog

(* A row ends: by id, or by the worker that holds the fence. *)
LEMMA FinishStep ==
    ASSUME LedgerInv, NEW j \in Job, row[j].status \in Active,
           NEW s \in Terminal \ {"SUCCEEDED"}, NEW b \in BOOLEAN,
           row' = [row EXCEPT ![j] = Ended(row[j], s, b)], Emit({j}),
           issued' = issued, accepted' = accepted,
           run' \in [Worker -> ClaimedJob \cup {NoRun}],
           \A w \in Worker : run'[w] \in {run[w], NoRun}
    PROVE  LedgerInv'
<1>1. row \in [Job -> Row]
  BY DEF LedgerInv, TypeOK
<1>2. PICK S \in SUBSET Job, M \in SUBSET Job : S = {j} /\ M = {}
  OBVIOUS
<1>3. row' = [i \in Job |-> IF i \in M THEN NewRow("FAILED", TRUE)
                            ELSE IF i \in S THEN Ended(row[i], s, b) ELSE row[i]]
  BY <1>1, <1>2
<1>4. Emit(S \cup M)
  BY <1>2 DEF Emit
<1>5. /\ \A i \in S : row[i].status \in Active
      /\ \A i \in M : row[i].status = "ABSENT"
  BY <1>2
<1>6. CASE b = TRUE
  <2>1. row' = [i \in Job |-> IF i \in M THEN NewRow("FAILED", TRUE)
                              ELSE IF i \in S THEN Ended(row[i], s, TRUE) ELSE row[i]]
    BY <1>3, <1>6
  <2> QED
    BY <2>1, <1>4, <1>5, EndStep
<1>7. CASE b = FALSE
  <2>1. row' = [i \in Job |-> IF i \in M THEN NewRow("FAILED", TRUE)
                              ELSE IF i \in S THEN Ended(row[i], s, FALSE) ELSE row[i]]
    BY <1>3, <1>7
  <2> QED
    BY <2>1, <1>4, <1>5, EndStep
<1> QED
  BY <1>6, <1>7

LEMMA JobStep ==
    ASSUME LedgerInv, NEW j \in Job, JobNext(j)
    PROVE  LedgerInv'
<1>1. /\ row \in [Job -> Row] /\ row[j] \in Row
      /\ run \in [Worker -> ClaimedJob \cup {NoRun}]
      /\ \A w \in Worker : run[w] \in {run[w], NoRun}
  BY DEF LedgerInv, TypeOK
<1>2. ASSUME NEW b \in BOOLEAN, Enqueue(j, b) PROVE LedgerInv'
  BY <1>2, EnqueueStep
<1>3. ASSUME NEW s \in {"CANCELLED", "SUPERSEDED"}, FinishById(j, s) PROVE LedgerInv'
  <2>1. s \in Terminal \ {"SUCCEEDED"} /\ FALSE \in BOOLEAN
    BY DEF Terminal
  <2>2. /\ row[j].status \in Active /\ Emit({j})
        /\ row' = [row EXCEPT ![j] = Ended(row[j], s, FALSE)]
        /\ UNCHANGED <<run, issued, accepted>>
    BY <1>3, <1>1 DEF FinishById
  <2> QED
    BY <1>1, <2>1, <2>2, FinishStep
<1>4. ASSUME RetryFailed(j) PROVE LedgerInv'
  BY <1>1, <1>4, PendingStep DEF RetryFailed, Terminal
<1>5. ASSUME RequeueCoordinator(j) PROVE LedgerInv'
  BY <1>1, <1>5, PendingStep DEF RequeueCoordinator
<1>6. ASSUME DetachFailed(j) PROVE LedgerInv'
  <2> DEFINE x == [row[j] EXCEPT !.retryable = FALSE, !.version = row[j].version + 1]
  <2>1. /\ x.status = row[j].status /\ x.attempt = row[j].attempt
        /\ x.token = row[j].token /\ x.lease = row[j].lease
    BY <1>1 DEF Row
  <2>3. row[j].version <= x.version
    BY <1>1 DEF Row
  <2>4. x \in Row
    <3>1. row[j].version + 1 \in Nat
      BY <1>1 DEF Row
    <3> QED
      BY <3>1, <1>1, TouchedShape
  <2>2. /\ row' = [row EXCEPT ![j] = x] /\ UNCHANGED <<run, issued, event, accepted>>
        /\ row[j].status \in Status
    BY <1>6, <1>1 DEF DetachFailed, Row, Status, Active, Terminal
  <2> HIDE DEF x
  <2> QED
    BY <2>1, <2>2, <2>3, <2>4, TouchStep
<1>7. ASSUME Purge(j) PROVE LedgerInv'
  BY <1>7, PurgeStep
<1>8. ASSUME LeaseExpires(j) PROVE LedgerInv'
  <2> DEFINE x == [row[j] EXCEPT !.lease = "expired"]
  <2>1. /\ x \in Row /\ x.status = row[j].status /\ x.attempt = row[j].attempt
        /\ x.token = row[j].token /\ x.lease = "expired" /\ x.version = row[j].version
        /\ row[j].version <= x.version /\ row[j].lease # "none"
    BY <1>1, <1>8 DEF Row, Lease, LeaseExpires
  <2>2. /\ row' = [row EXCEPT ![j] = x] /\ UNCHANGED <<run, issued, event, accepted>>
        /\ row[j].status \in Status
    BY <1>8, <1>1 DEF LeaseExpires, Row, Status, Active, Terminal
  <2> HIDE DEF x
  <2> QED
    BY <2>1, <2>2, TouchStep
<1>9. ASSUME RunsOverdue(j) PROVE LedgerInv'
  <2> DEFINE x == [row[j] EXCEPT !.overdue = TRUE]
  <2>1. /\ x \in Row /\ x.status = row[j].status /\ x.attempt = row[j].attempt
        /\ x.token = row[j].token /\ x.lease = row[j].lease
    BY <1>1 DEF Row
  <2>3. row[j].version <= x.version
    BY <1>1 DEF Row
  <2>2. /\ row' = [row EXCEPT ![j] = x] /\ UNCHANGED <<run, issued, event, accepted>>
        /\ row[j].status \in Status
    BY <1>9, <1>1 DEF RunsOverdue, Row, Status, Active, Terminal
  <2> HIDE DEF x
  <2> QED
    BY <2>1, <2>2, <2>3, TouchStep
<1>10. ASSUME ExtendPending(j) PROVE LedgerInv'
  <2> DEFINE x == [row[j] EXCEPT !.version = row[j].version + 1]
  <2>1. /\ x.status = row[j].status /\ x.attempt = row[j].attempt
        /\ x.token = row[j].token /\ x.lease = row[j].lease
    BY <1>1 DEF Row
  <2>3. row[j].version <= x.version
    BY <1>1 DEF Row
  <2>4. x \in Row
    BY <1>1 DEF Row
  <2>2. /\ row' = [row EXCEPT ![j] = x] /\ UNCHANGED <<run, issued, event, accepted>>
        /\ row[j].status \in Status
    BY <1>10, <1>1 DEF ExtendPending, Row, Status, Active
  <2> HIDE DEF x
  <2> QED
    BY <2>1, <2>2, <2>3, <2>4, TouchStep
<1> QED
  BY <1>2, <1>3, <1>4, <1>5, <1>6, <1>7, <1>8, <1>9, <1>10 DEF JobNext

LEMMA WorkerStep ==
    ASSUME LedgerInv, NEW w \in Worker, WorkerNext(w)
    PROVE  LedgerInv'
<1>1. /\ row \in [Job -> Row] /\ run \in [Worker -> ClaimedJob \cup {NoRun}]
      /\ Holds(w) => run[w] \in ClaimedJob /\ run[w].job \in Job
  BY DEF LedgerInv, TypeOK, Holds, ClaimedJob
<1>2. ASSUME NEW j \in Job, Claim(w, j) PROVE LedgerInv'
  BY <1>2, ClaimStep
<1>3. ASSUME Heartbeat(w) PROVE LedgerInv'
  <2>1. PICK j \in Job : j = run[w].job
    BY <1>1, <1>3 DEF Heartbeat
  <2> DEFINE x == [row[j] EXCEPT !.lease = "live", !.version = row[j].version + 1]
  <2>2. /\ x.status = row[j].status /\ x.attempt = row[j].attempt
        /\ x.token = row[j].token /\ x.lease = "live"
    BY <1>1 DEF Row
  <2>6. x \in Row
    <3>1. row[j].version + 1 \in Nat
      BY <1>1 DEF Row
    <3> QED
      BY <3>1, <1>1, TouchedShape
  <2>5. row[j].version <= x.version
    BY <1>1 DEF Row
  <2>3. row[j].lease # "none" /\ row[j].status \in Status
    BY <1>3, <2>1 DEF Heartbeat, RunConditions, LedgerInv, TypeOK, Status, Active
  <2>4. row' = [row EXCEPT ![j] = x] /\ UNCHANGED <<run, issued, event, accepted>>
    BY <1>3, <1>1, <2>1 DEF Heartbeat, Row
  <2> HIDE DEF x
  <2> QED
    BY <2>2, <2>3, <2>4, <2>5, <2>6, TouchStep
<1>4. ASSUME Succeed(w) PROVE LedgerInv'
  BY <1>4, SucceedStep
<1>5. ASSUME NEW b \in BOOLEAN, Fail(w, b) PROVE LedgerInv'
  <2>1. PICK j \in Job : j = run[w].job
    BY <1>1, <1>5 DEF Fail
  <2>2. /\ row[j].status \in Active /\ Emit({j})
        /\ row' = [row EXCEPT ![j] = Ended(row[j], "FAILED", b)]
        /\ issued' = issued /\ accepted' = accepted
    BY <1>1, <1>5, <2>1 DEF Fail, RunConditions, Active
  <2>3. /\ run' \in [Worker -> ClaimedJob \cup {NoRun}]
        /\ \A v \in Worker : run'[v] \in {run[v], NoRun}
    BY <1>1, <1>5 DEF Fail, Release
  <2>4. "FAILED" \in Terminal \ {"SUCCEEDED"}
    BY DEF Terminal
  <2> QED
    BY <2>2, <2>3, <2>4, FinishStep
<1>6. ASSUME DiscardLate(w) PROVE LedgerInv'
  BY <1>6, ReleaseStep DEF DiscardLate
<1>7. ASSUME Crash(w) PROVE LedgerInv'
  BY <1>7, ReleaseStep DEF Crash
<1> QED
  BY <1>2, <1>3, <1>4, <1>5, <1>6, <1>7 DEF WorkerNext

LEMMA StutterStep ==
    ASSUME LedgerInv, UNCHANGED vars
    PROVE  LedgerInv'
BY DEF LedgerInv, vars, TypeOK, ResultsNotAhead, RunsNotAhead, AbsentRows,
       ResultIffSucceeded, OneRunPerAttempt, EventShowsRow, Holds

(* The invariant of the ledger is inductive. *)
THEOREM LedgerInvariant == Spec => []LedgerInv
<1>1. Init => LedgerInv
  BY InitLedger
<1>2. LedgerInv /\ [Next]_vars => LedgerInv'
  <2> SUFFICES ASSUME LedgerInv, [Next]_vars PROVE LedgerInv'
    OBVIOUS
  <2>1. ASSUME NEW j \in Job, JobNext(j) PROVE LedgerInv'
    BY <2>1, JobStep
  <2>2. ASSUME NEW w \in Worker, WorkerNext(w) PROVE LedgerInv'
    BY <2>2, WorkerStep
  <2>3. CASE Watchdog
    BY <2>3, WatchdogStep
  <2>4. CASE UNCHANGED vars
    BY <2>4, StutterStep
  <2> QED
    BY <2>1, <2>2, <2>3, <2>4 DEF Next
<1> QED
  BY <1>1, <1>2, PTL DEF Spec

(* Every row, run, event and result is well typed, and a row carries a run *)
(* token and a lease exactly while it is RUNNING.                          *)
THEOREM TypeCorrect == Spec => []TypeOK
<1>1. LedgerInv => TypeOK
  BY DEF LedgerInv
<1> QED
  BY <1>1, LedgerInvariant, PTL

(* A late result of an earlier attempt is never accepted and an accepted   *)
(* result is never unrecorded, for any number of jobs and workers.         *)
THEOREM ResultsAreFenced == Spec => []ResultIffSucceeded
<1>1. LedgerInv => ResultIffSucceeded
  BY DEF LedgerInv
<1> QED
  BY <1>1, LedgerInvariant, PTL

(* No two workers ever hold the same attempt of a job. *)
THEOREM AttemptsHaveOneRun == Spec => []OneRunPerAttempt
<1>1. LedgerInv => OneRunPerAttempt
  BY DEF LedgerInv
<1> QED
  BY <1>1, LedgerInvariant, PTL

(* The last job.updated of a shared row always shows its current status. *)
THEOREM EventsShowRows == Spec => []EventShowsRow
<1>1. LedgerInv => EventShowsRow
  BY DEF LedgerInv
<1> QED
  BY <1>1, LedgerInvariant, PTL

(* Rows that reach the outbox do so under a higher version. *)
LEMMA EmitGrows ==
    ASSUME LedgerInv, NEW S \in SUBSET Job, Emit(S),
           \A j \in S : row'[j].version = row[j].version + 1
    PROVE  EventsGrow
<1> SUFFICES ASSUME NEW j \in Shared, event'[j] # event[j]
             PROVE  event'[j].version > event[j].version
  BY DEF EventsGrow
<1>1. j \in Job /\ j \in S
  BY JobKinds DEF Emit
<1>2. event'[j].version = row[j].version + 1
  BY <1>1 DEF Emit
<1>3. /\ event[j].version \in Nat /\ row[j].version \in Nat
      /\ event[j].version <= row[j].version
  BY <1>1 DEF LedgerInv, TypeOK, EventShowsRow, Row, Event
<1> QED
  BY <1>2, <1>3

LEMMA SilentGrows ==
    ASSUME event' = event
    PROVE  EventsGrow
BY DEF EventsGrow

LEMMA StepGrows ==
    ASSUME LedgerInv, Next
    PROVE  EventsGrow
<1>1. /\ row \in [Job -> Row] /\ \A j \in Job : row[j] \in Row
      /\ run \in [Worker -> ClaimedJob \cup {NoRun}]
      /\ AbsentRows
  BY DEF LedgerInv, TypeOK
<1>2. ASSUME NEW j \in Job, JobNext(j) PROVE EventsGrow
  <2>1. ASSUME NEW b \in BOOLEAN, Enqueue(j, b) PROVE EventsGrow
    <3>1. row'[j].version = 1 /\ row[j].version = 0 /\ Emit({j})
      BY <1>1, <2>1, NewRowShape DEF Enqueue, AbsentRows, NoRow, Status, Active
    <3> QED
      BY <3>1, EmitGrows
  <2>2. ASSUME NEW s \in {"CANCELLED", "SUPERSEDED"}, FinishById(j, s) PROVE EventsGrow
    <3>1. row'[j].version = row[j].version + 1 /\ Emit({j})
      BY <1>1, <2>2 DEF FinishById, Ended, IdleRow
    <3> QED
      BY <3>1, EmitGrows
  <2>3. ASSUME RetryFailed(j) \/ RequeueCoordinator(j) PROVE EventsGrow
    <3>1. row'[j].version = row[j].version + 1 /\ Emit({j})
      BY <1>1, <2>3 DEF RetryFailed, RequeueCoordinator, PendingAgain, IdleRow
    <3> QED
      BY <3>1, EmitGrows
  <2>4. ASSUME \/ DetachFailed(j) \/ ExtendPending(j) \/ Purge(j)
               \/ LeaseExpires(j) \/ RunsOverdue(j)
        PROVE  EventsGrow
    BY <2>4, SilentGrows DEF DetachFailed, ExtendPending, Purge, LeaseExpires, RunsOverdue
  <2> QED
    BY <1>2, <2>1, <2>2, <2>3, <2>4 DEF JobNext
<1>3. ASSUME NEW w \in Worker, WorkerNext(w) PROVE EventsGrow
  <2>1. ASSUME NEW j \in Job, Claim(w, j) PROVE EventsGrow
    <3>1. row'[j].version = row[j].version + 1 /\ Emit({j})
      BY <1>1, <2>1 DEF Claim, Claimed
    <3> QED
      BY <3>1, EmitGrows
  <2>2. ASSUME Heartbeat(w) \/ DiscardLate(w) \/ Crash(w) PROVE EventsGrow
    BY <2>2, SilentGrows DEF Heartbeat, DiscardLate, Crash
  <2>3. ASSUME Succeed(w) \/ \E b \in BOOLEAN : Fail(w, b) PROVE EventsGrow
    <3>1. PICK j \in Job : j = run[w].job
      BY <1>1, <2>3 DEF Succeed, Fail, Holds, ClaimedJob
    <3>2. PICK s, b : row' = [row EXCEPT ![j] = Ended(row[j], s, b)]
      BY <1>1, <2>3, <3>1 DEF Succeed, Fail
    <3>3. row'[j].version = row[j].version + 1
      BY <1>1, <3>2 DEF Ended, IdleRow
    <3>4. Emit({j})
      BY <2>3, <3>1 DEF Succeed, Fail
    <3> QED
      BY <3>3, <3>4, EmitGrows
  <2> QED
    BY <1>3, <2>1, <2>2, <2>3 DEF WorkerNext
<1>4. ASSUME FailExpiredShared PROVE EventsGrow
  <2>1. PICK S \in SUBSET {j \in Job : LostShared(j)} : FailAll(S) /\ Emit(S)
    BY <1>4 DEF FailExpiredShared
  <2>2. S \in SUBSET Job /\ \A j \in S : row'[j].version = row[j].version + 1
    BY <2>1 DEF FailAll, Ended, IdleRow
  <2> QED
    BY <2>1, <2>2, EmitGrows
<1>5. ASSUME FailExpiredRequesterOnly PROVE EventsGrow
  BY <1>5, SilentGrows DEF FailExpiredRequesterOnly
<1>6. ASSUME ForceTimeout PROVE EventsGrow
  <2> DEFINE S == {j \in Blocking : row[j].status \in Active}
  <2>1. PICK M \in SUBSET {j \in Blocking : row[j].status = "ABSENT"} :
           /\ row' = [j \in Job |-> CASE j \in M -> NewRow("FAILED", TRUE)
                                      [] j \in S -> Ended(row[j], "FAILED", TRUE)
                                      [] OTHER   -> row[j]]
           /\ Emit(S \cup M)
    BY <1>6 DEF ForceTimeout
  <2>2. S \cup M \in SUBSET Job /\ S \cap M = {}
    BY JobKinds DEF Active
  <2>3. \A j \in M : row[j].version = 0
    BY <1>1, JobKinds DEF AbsentRows, NoRow
  <2> HIDE DEF S
  <2>4. \A j \in S \cup M : row'[j].version = row[j].version + 1
    BY <2>1, <2>2, <2>3 DEF NewRow, Ended, IdleRow
  <2> QED
    BY <2>1, <2>2, <2>4, EmitGrows
<1> QED
  BY <1>2, <1>3, <1>4, <1>5, <1>6 DEF Next, Watchdog

(* No job.updated event ever carries a version its row published before,   *)
(* across retries, requeues and watchdog sweeps.                           *)
THEOREM EventVersionsOnlyGrow == Spec => EventVersionsGrow
<1>1. LedgerInv /\ [Next]_vars => [EventsGrow]_vars
  BY StepGrows
<1> QED
  BY <1>1, LedgerInvariant, PTL DEF Spec, EventVersionsGrow

-----------------------------------------------------------------------------
(* Every step of the ledger is a step of AttemptOutcome, or none. *)

LEMMA PhaseTable ==
    /\ PhaseOf("ABSENT") = "none" /\ PhaseOf("PURGED") = "gone"
    /\ \A s \in Active : PhaseOf(s) = "open"
    /\ \A s \in Terminal : PhaseOf(s) = "settled"
BY DEF PhaseOf, Active, Terminal

LEMMA InitRefines == Init => Outcome!Init
<1> SUFFICES ASSUME Init PROVE Outcome!Init OBVIOUS
<1>1. attemptOf = [j \in Job |-> 0]
  BY DEF Init, attemptOf, EmptyRow, IdleRow
<1>2. phaseOf = [j \in Job |-> "none"]
  BY PhaseTable DEF Init, phaseOf, EmptyRow, IdleRow
<1>3. resultOf = {}
  BY DEF Init, resultOf
<1> QED
  BY <1>1, <1>2, <1>3 DEF Outcome!Init

(* A step that changes no status and no attempt, and publishes nothing. *)
LEMMA InvisibleStep ==
    ASSUME \A j \in Job : /\ PhaseOf(row'[j].status) = PhaseOf(row[j].status)
                          /\ row'[j].attempt = row[j].attempt,
           accepted' = accepted
    PROVE  UNCHANGED Outcome!vars
BY DEF Outcome!vars, attemptOf, phaseOf, resultOf

(* A row whose result is not published, or may be rebuilt, opens the next  *)
(* attempt.                                                                *)
LEMMA OpenRefines ==
    ASSUME NEW j \in Job, row \in [Job -> Row],
           PhaseOf(row[j].status) \in {"none", "settled"},
           j \in Coordinator \/ \A r \in accepted : ~(r.job = j /\ r.attempt = row[j].attempt),
           row'[j].status = "PENDING", row'[j].attempt = row[j].attempt + 1,
           \A i \in Job \ {j} : row'[i] = row[i],
           accepted' = accepted
    PROVE  Outcome!Open(j)
<1>1. /\ attemptOf' = [attemptOf EXCEPT ![j] = attemptOf[j] + 1]
      /\ attemptOf[j] = row[j].attempt
  BY DEF attemptOf
<1>2. /\ phaseOf' = [phaseOf EXCEPT ![j] = "open"]
      /\ phaseOf[j] = PhaseOf(row[j].status)
  BY PhaseTable DEF phaseOf, Active
<1>3. resultOf' = resultOf
  BY DEF resultOf
<1>4. j \in Coordinator \/ <<j, attemptOf[j]>> \notin resultOf
  BY <1>1 DEF resultOf
<1> QED
  BY <1>1, <1>2, <1>3, <1>4 DEF Outcome!Open

LEMMA AbandonRefines ==
    ASSUME LedgerInv, NEW S \in SUBSET Job, NEW M \in SUBSET Job, S \cup M # {},
           \A j \in S : row[j].status \in Active,
           \A j \in M : row[j].status = "ABSENT",
           \A j \in S \ M : row'[j].status \in Terminal /\ row'[j].attempt = row[j].attempt,
           \A j \in M : row'[j].status \in Terminal /\ row'[j].attempt = 1,
           \A j \in Job \ (S \cup M) : row'[j] = row[j],
           accepted' = accepted
    PROVE  Outcome!Next
<1>1. /\ \A j \in S : phaseOf[j] = "open"
      /\ \A j \in M : phaseOf[j] = "none"
  BY PhaseTable DEF phaseOf
<1>2. phaseOf' = [j \in Job |-> IF j \in S \cup M THEN "settled" ELSE phaseOf[j]]
  BY PhaseTable DEF phaseOf
<1>3. attemptOf' = [j \in Job |-> IF j \in M THEN 1 ELSE attemptOf[j]]
  BY DEF attemptOf
<1>4. resultOf' = resultOf
  BY DEF resultOf
<1> QED
  BY <1>1, <1>2, <1>3, <1>4 DEF Outcome!Next, Outcome!Abandon

-----------------------------------------------------------------------------

LEMMA JobRefines ==
    ASSUME LedgerInv, NEW j \in Job, JobNext(j)
    PROVE  [Outcome!Next]_(Outcome!vars)
<1>1. /\ row \in [Job -> Row] /\ row[j] \in Row
      /\ ResultsNotAhead /\ ResultIffSucceeded /\ AbsentRows /\ accepted \subseteq ClaimedJob
  BY DEF LedgerInv, TypeOK
<1>2. ASSUME NEW b \in BOOLEAN, Enqueue(j, b) PROVE Outcome!Next
  <2>1. row[j].status = "ABSENT" /\ row[j].attempt = 0 /\ accepted' = accepted
    BY <1>1, <1>2 DEF Enqueue, AbsentRows, NoRow
  <2>2. \A r \in accepted : r.job # j
    BY <1>1, <2>1 DEF ResultsNotAhead, Status, Active, Terminal
  <2>3. /\ row'[j].status = "PENDING" /\ row'[j].attempt = row[j].attempt + 1
        /\ \A i \in Job \ {j} : row'[i] = row[i]
    BY <1>1, <1>2, <2>1, NewRowShape DEF Enqueue, Status, Active
  <2> QED
    BY <1>1, <2>1, <2>2, <2>3, PhaseTable, OpenRefines DEF Outcome!Next
<1>3. ASSUME NEW s \in {"CANCELLED", "SUPERSEDED"}, FinishById(j, s) PROVE Outcome!Next
  <2>1. s \in Terminal /\ row[j].status \in Active /\ accepted' = accepted
    BY <1>3 DEF Terminal, FinishById
  <2>2. /\ row'[j].status \in Terminal /\ row'[j].attempt = row[j].attempt
        /\ \A i \in Job \ {j} : row'[i] = row[i]
    BY <1>1, <1>3, <2>1, EndedShape DEF FinishById
  <2>3. PICK S \in SUBSET Job, M \in SUBSET Job : S = {j} /\ M = {}
    OBVIOUS
  <2> QED
    BY <2>1, <2>2, <2>3, AbandonRefines
<1>4. ASSUME row[j].status \in Terminal,
             j \in Coordinator \/ row[j].status = "FAILED",
             row' = [row EXCEPT ![j] = PendingAgain(row[j])], accepted' = accepted
      PROVE  Outcome!Next
  <2>1. /\ row'[j].status = "PENDING" /\ row'[j].attempt = row[j].attempt + 1
        /\ \A i \in Job \ {j} : row'[i] = row[i]
    BY <1>1, <1>4, PendingAgainShape
  <2>2. j \in Coordinator \/ \A r \in accepted : ~(r.job = j /\ r.attempt = row[j].attempt)
    BY <1>1, <1>4 DEF ResultIffSucceeded
  <2>3. PhaseOf(row[j].status) \in {"none", "settled"}
    BY <1>4, PhaseTable
  <2> QED
    BY <1>1, <1>4, <2>1, <2>2, <2>3, OpenRefines DEF Outcome!Next
<1>5. ASSUME RetryFailed(j) PROVE Outcome!Next
  BY <1>1, <1>4, <1>5 DEF RetryFailed, Terminal
<1>6. ASSUME RequeueCoordinator(j) PROVE Outcome!Next
  BY <1>1, <1>4, <1>6 DEF RequeueCoordinator
<1>7. ASSUME DetachFailed(j) \/ ExtendPending(j) \/ LeaseExpires(j) \/ RunsOverdue(j)
      PROVE  UNCHANGED Outcome!vars
  <2>1. \A i \in Job : row'[i].status = row[i].status /\ row'[i].attempt = row[i].attempt
    BY <1>1, <1>7 DEF DetachFailed, ExtendPending, LeaseExpires, RunsOverdue, Row
  <2>2. accepted' = accepted
    BY <1>7 DEF DetachFailed, ExtendPending, LeaseExpires, RunsOverdue
  <2> QED
    BY <2>1, <2>2, InvisibleStep
<1>8. ASSUME Purge(j) PROVE Outcome!Next
  <2>1. /\ row'[j].status = "PURGED" /\ row'[j].attempt = 0
        /\ \A i \in Job \ {j} : row'[i] = row[i]
    BY <1>1, <1>8, EmptyRowShape DEF Purge, NoRow
  <2>2. phaseOf[j] \in {"open", "settled"}
    BY <1>8, PhaseTable DEF Purge, Status, phaseOf
  <2>3. phaseOf' = [phaseOf EXCEPT ![j] = "gone"]
    BY <2>1, PhaseTable DEF phaseOf
  <2>4. attemptOf' = [attemptOf EXCEPT ![j] = 0]
    BY <2>1 DEF attemptOf
  <2>5. resultOf' = {r \in resultOf : r[1] # j}
    BY <1>8 DEF Purge, resultOf
  <2> QED
    BY <2>2, <2>3, <2>4, <2>5 DEF Outcome!Next, Outcome!Withdraw
<1> QED
  BY <1>2, <1>3, <1>5, <1>6, <1>7, <1>8 DEF JobNext

LEMMA WorkerRefines ==
    ASSUME LedgerInv, NEW w \in Worker, WorkerNext(w)
    PROVE  [Outcome!Next]_(Outcome!vars)
<1>1. /\ row \in [Job -> Row] /\ accepted \subseteq ClaimedJob
      /\ Holds(w) => run[w] \in ClaimedJob /\ run[w].job \in Job
  BY DEF LedgerInv, TypeOK, Holds, ClaimedJob
<1>2. ASSUME NEW j \in Job, Claim(w, j) PROVE UNCHANGED Outcome!vars
  <2>1. /\ row[j].status \in Active /\ row'[j].status \in Active
        /\ row'[j].attempt = row[j].attempt
        /\ \A i \in Job \ {j} : row'[i] = row[i]
    BY <1>1, <1>2 DEF Claim, Claimed, Active
  <2>2. \A i \in Job : /\ PhaseOf(row'[i].status) = PhaseOf(row[i].status)
                       /\ row'[i].attempt = row[i].attempt
    BY <2>1, PhaseTable
  <2>3. accepted' = accepted
    BY <1>2 DEF Claim
  <2> QED
    BY <2>2, <2>3, InvisibleStep
<1>3. ASSUME Heartbeat(w) \/ DiscardLate(w) \/ Crash(w) PROVE UNCHANGED Outcome!vars
  <2>1. \A i \in Job : row'[i].status = row[i].status /\ row'[i].attempt = row[i].attempt
    BY <1>1, <1>3 DEF Heartbeat, DiscardLate, Crash, Row
  <2>2. accepted' = accepted
    BY <1>3 DEF Heartbeat, DiscardLate, Crash
  <2> QED
    BY <2>1, <2>2, InvisibleStep
<1>4. ASSUME Succeed(w) PROVE Outcome!Next
  <2>1. PICK j \in Job : j = run[w].job
    BY <1>1, <1>4 DEF Succeed
  <2>2. row[j].status \in Active /\ run[w].attempt = row[j].attempt /\ row[j] \in Row
    BY <1>1, <1>4, <2>1 DEF Succeed, RunConditions, Active
  <2>3. /\ row'[j].status \in Terminal /\ row'[j].attempt = row[j].attempt
        /\ \A i \in Job \ {j} : row'[i] = row[i]
    BY <1>1, <1>4, <2>1 DEF Succeed, Ended, IdleRow, Terminal
  <2>4. phaseOf[j] = "open" /\ attemptOf[j] = row[j].attempt
    BY <2>2, PhaseTable DEF phaseOf, attemptOf
  <2>5. phaseOf' = [phaseOf EXCEPT ![j] = "settled"]
    BY <2>3, PhaseTable DEF phaseOf
  <2>6. attemptOf' = attemptOf
    BY <2>3 DEF attemptOf
  <2>7. resultOf' = resultOf \cup {<<j, attemptOf[j]>>}
    BY <1>4, <2>1, <2>2, <2>4 DEF Succeed, resultOf
  <2> QED
    BY <2>4, <2>5, <2>6, <2>7 DEF Outcome!Next, Outcome!Deliver
<1>5. ASSUME NEW b \in BOOLEAN, Fail(w, b) PROVE Outcome!Next
  <2>1. PICK j \in Job : j = run[w].job
    BY <1>1, <1>5 DEF Fail
  <2>2. row[j].status \in Active /\ accepted' = accepted
    BY <1>1, <1>5, <2>1 DEF Fail, RunConditions, Active
  <2>3. /\ row'[j].status \in Terminal /\ row'[j].attempt = row[j].attempt
        /\ \A i \in Job \ {j} : row'[i] = row[i]
    BY <1>1, <1>5, <2>1 DEF Fail, Ended, IdleRow, Terminal
  <2>4. PICK S \in SUBSET Job, M \in SUBSET Job : S = {j} /\ M = {}
    OBVIOUS
  <2> QED
    BY <2>2, <2>3, <2>4, AbandonRefines
<1> QED
  BY <1>2, <1>3, <1>4, <1>5 DEF WorkerNext

LEMMA WatchdogRefines ==
    ASSUME LedgerInv, Watchdog
    PROVE  Outcome!Next
<1>1. row \in [Job -> Row]
  BY DEF LedgerInv, TypeOK
<1>2. ASSUME NEW S \in SUBSET Job, S # {}, \A j \in S : row[j].status = "RUNNING",
             FailAll(S), accepted' = accepted
      PROVE  Outcome!Next
  <2>1. \A j \in S : row'[j].status \in Terminal /\ row'[j].attempt = row[j].attempt
    BY <1>2 DEF FailAll, Ended, IdleRow, Terminal
  <2>2. \A j \in Job \ S : row'[j] = row[j]
    BY <1>2 DEF FailAll
  <2>3. PICK M \in SUBSET Job : M = {}
    OBVIOUS
  <2>4. /\ \A j \in S : row[j].status \in Active
        /\ \A j \in M : row[j].status = "ABSENT"
    BY <1>2, <2>3 DEF Active
  <2>5. S \cup M # {} /\ S \cup M = S /\ S \ M = S
    BY <1>2, <2>3
  <2>6. /\ \A j \in S \ M : row'[j].status \in Terminal /\ row'[j].attempt = row[j].attempt
        /\ \A j \in M : row'[j].status \in Terminal /\ row'[j].attempt = 1
        /\ \A j \in Job \ (S \cup M) : row'[j] = row[j]
    BY <2>1, <2>2, <2>3, <2>5
  <2>7. accepted' = accepted
    BY <1>2
  <2> QED
    BY <2>4, <2>5, <2>6, <2>7, AbandonRefines
<1>3. ASSUME FailExpiredShared PROVE Outcome!Next
  <2>1. PICK S \in SUBSET {j \in Job : LostShared(j)} : S # {} /\ FailAll(S)
    BY <1>3 DEF FailExpiredShared
  <2> QED
    BY <1>2, <1>3, <2>1 DEF FailExpiredShared, LostShared
<1>4. ASSUME FailExpiredRequesterOnly PROVE Outcome!Next
  <2>1. PICK S \in SUBSET {j \in Job : LostRequesterOnly(j)} : S # {} /\ FailAll(S)
    BY <1>4 DEF FailExpiredRequesterOnly
  <2> QED
    BY <1>2, <1>4, <2>1 DEF FailExpiredRequesterOnly, LostRequesterOnly
<1>5. ASSUME ForceTimeout PROVE Outcome!Next
  <2> DEFINE S == {j \in Blocking : row[j].status \in Active}
  <2>1. PICK M \in SUBSET {j \in Blocking : row[j].status = "ABSENT"} :
           /\ S \cup M # {}
           /\ row' = [j \in Job |-> CASE j \in M -> NewRow("FAILED", TRUE)
                                      [] j \in S -> Ended(row[j], "FAILED", TRUE)
                                      [] OTHER   -> row[j]]
    BY <1>5 DEF ForceTimeout
  <2>2. /\ S \in SUBSET Job /\ M \in SUBSET Job
        /\ \A j \in S : row[j].status \in Active
        /\ \A j \in M : row[j].status = "ABSENT"
    BY JobKinds
  <2>3. S \cap M = {}
    BY DEF Active
  <2> HIDE DEF S
  <2>4. \A j \in S \ M : row'[j].status \in Terminal /\ row'[j].attempt = row[j].attempt
    BY <2>1, <2>2, <2>3 DEF Ended, IdleRow, Terminal
  <2>5. \A j \in M : row'[j].status \in Terminal /\ row'[j].attempt = 1
    BY <2>1, <2>2, <2>3 DEF NewRow, IdleRow, Terminal
  <2>6. \A j \in Job \ (S \cup M) : row'[j] = row[j]
    BY <2>1
  <2>7. accepted' = accepted
    BY <1>5 DEF ForceTimeout
  <2> QED
    BY <2>1, <2>2, <2>4, <2>5, <2>6, <2>7, AbandonRefines
<1> QED
  BY <1>3, <1>4, <1>5 DEF Watchdog

(* The ledger opens, settles and withdraws attempts exactly as             *)
(* AttemptOutcome allows: one open attempt at a time, settled once.        *)
THEOREM LedgerImplementsOutcome == Spec => ImplementsAttemptOutcome
<1>1. Init => Outcome!Init
  BY InitRefines
<1>2. LedgerInv /\ [Next]_vars => [Outcome!Next]_(Outcome!vars)
  <2> SUFFICES ASSUME LedgerInv, [Next]_vars PROVE [Outcome!Next]_(Outcome!vars)
    OBVIOUS
  <2>1. ASSUME NEW j \in Job, JobNext(j) PROVE [Outcome!Next]_(Outcome!vars)
    BY <2>1, JobRefines
  <2>2. ASSUME NEW w \in Worker, WorkerNext(w) PROVE [Outcome!Next]_(Outcome!vars)
    BY <2>2, WorkerRefines
  <2>3. CASE Watchdog
    BY <2>3, WatchdogRefines
  <2>4. CASE UNCHANGED vars
    BY <2>4, InvisibleStep DEF vars
  <2> QED
    BY <2>1, <2>2, <2>3, <2>4 DEF Next
<1> QED
  BY <1>1, <1>2, LedgerInvariant, PTL DEF Spec, ImplementsAttemptOutcome, Outcome!Spec

=============================================================================
