--------------------------- MODULE AttemptOutcome ---------------------------
(***************************************************************************)
(* What the AIJob ledger promises, without tokens, leases, workers or      *)
(* versions.  A job runs through numbered attempts.  One attempt is open   *)
(* at a time, an open attempt settles exactly once, with a result or       *)
(* without, and a result that was published stays published: a late answer *)
(* of an earlier attempt is never added.  An attempt that published a      *)
(* result is followed by another one only for a job that may be rebuilt.   *)
(***************************************************************************)
EXTENDS Naturals

CONSTANTS
    Job,          \* identities of AIJob rows
    Rebuildable   \* those of Job whose published result may be rebuilt later

VARIABLES
    attempt,   \* [Job -> Nat], the number of the last attempt opened
    phase,     \* [Job -> Phase]
    result     \* the <<job, attempt>> pairs that published a result

vars == <<attempt, phase, result>>

Phase == {"none", "open", "settled", "gone"}

Init ==
    /\ attempt = [j \in Job |-> 0]
    /\ phase = [j \in Job |-> "none"]
    /\ result = {}

(* The next attempt of a job is opened. *)
Open(j) ==
    /\ phase[j] \in {"none", "settled"}
    /\ j \in Rebuildable \/ <<j, attempt[j]>> \notin result
    /\ attempt' = [attempt EXCEPT ![j] = @ + 1]
    /\ phase' = [phase EXCEPT ![j] = "open"]
    /\ UNCHANGED result

(* The open attempt publishes its result. *)
Deliver(j) ==
    /\ phase[j] = "open"
    /\ phase' = [phase EXCEPT ![j] = "settled"]
    /\ result' = result \cup {<<j, attempt[j]>>}
    /\ UNCHANGED attempt

(* Open attempts in S settle with nothing to show; jobs in M are recorded  *)
(* as having had such an attempt although none was ever opened.            *)
Abandon(S, M) ==
    /\ S \cup M # {}
    /\ \A j \in S : phase[j] = "open"
    /\ \A j \in M : phase[j] = "none"
    /\ phase' = [j \in Job |-> IF j \in S \cup M THEN "settled" ELSE phase[j]]
    /\ attempt' = [j \in Job |-> IF j \in M THEN 1 ELSE attempt[j]]
    /\ UNCHANGED result

(* A job, were it only a possible one, and everything it published is      *)
(* withdrawn for good.                                                     *)
Withdraw(j) ==
    /\ phase[j] # "gone"
    /\ phase' = [phase EXCEPT ![j] = "gone"]
    /\ attempt' = [attempt EXCEPT ![j] = 0]
    /\ result' = {r \in result : r[1] # j}

Next ==
    \/ \E j \in Job : Open(j) \/ Deliver(j) \/ Withdraw(j)
    \/ \E S, M \in SUBSET Job : Abandon(S, M)

Spec == Init /\ [][Next]_vars

=============================================================================
