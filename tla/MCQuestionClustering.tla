------------------------ MODULE MCQuestionClustering ------------------------
(* QuestionClustering for TLC: the bounds are given in the configurations. *)
EXTENDS QuestionClustering

RowsStartContract == \A i \in 1 .. MaxQuestion + 1 : Outcome(i)!Init
RowsKeepContract == [][\A i \in 1 .. MaxQuestion + 1 : [Outcome(i)!Next]_(Outcome(i)!vars)]_vars
=============================================================================
