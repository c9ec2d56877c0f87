--------------------------- MODULE MCKnowledgeIndex ---------------------------
(* The instances that TLC checks.                                           *)
EXTENDS KnowledgeIndex, TLC

CONSTANTS m1

Materials == {m1}
TwoPages == <<1, 1>>

(* Two texts that begin alike, one with a chunk more.                       *)
Texts == {<<"a", "b">>, <<"a", "c", "d">>}

(* At most one row fails or is lost in a behaviour.                         *)
Failed(row) == row.status = "FAILED" \/ row.attempt > 1
Failing == {at \in {"failing", "refused"} : at = indexer.at}
OneFailure ==
    crashes + Cardinality(Failing)
            + Cardinality({j \in DOMAIN jobs : Failed(jobs[j])})
            + Cardinality({m \in Material : Failed(material[m].job)}) <= 1

MCNext == Next /\ OneFailure'
MCSpec == Init /\ [][MCNext]_vars
MCFairSpec == MCSpec /\ WF_vars(IndexerWorks)

(* RowKeepsContract of every row, as TLC reads it. *)
RowsStartContract == \A w \in Work : Outcome(w)!Init
RowsKeepContract == [][\A w \in Work : [Outcome(w)!Next]_(Outcome(w)!vars)]_vars
=============================================================================
