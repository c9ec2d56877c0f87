----------------------------- MODULE MCJobLedger -----------------------------
(* Instances of JobLedger for TLC. *)
EXTENDS JobLedger, TLC

CONSTANTS
    coordinator,   \* the SESSION_POSTPROCESSING row of a Session
    material,      \* a MATERIAL_PROCESSING row
    clustering,    \* a QUESTION_CLUSTERING row
    personal,      \* a REQUESTER_ONLY row
    w1, w2         \* workers

(* Rows meet only in the hands of the workers and in the sweeps of shared  *)
(* rows: two shared rows together, a live and a private one alone.         *)
Used == {j \in Job : row[j].status # "ABSENT"}
Together == \E S \in {{coordinator, material}, {clustering}, {personal}} : Used \subseteq S

(* The workers are alike: w2 claims only while w1 holds a row.             *)
SecondWhileFirst == Holds(w1) \/ run'[w2] \in {run[w2], NoRun}

PairSpec == Init /\ [][Next /\ Together' /\ SecondWhileFirst]_vars /\ Fairness

(* The Session watchdog is given more than the code gives it: it sweeps    *)
(* blocking rows whenever there is one, not once per Session.              *)
SweptSpec == FairSpec /\ WF_vars(ForceTimeout)

=============================================================================
