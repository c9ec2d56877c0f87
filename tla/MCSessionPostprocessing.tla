----------------------- MODULE MCSessionPostprocessing -----------------------
(* Instances of SessionPostprocessing for TLC. *)
EXTENDS SessionPostprocessing

(* JobKeepsContract of every row but the coordinator's, as TLC reads it. *)
JobsStartContract == \A j \in Job \ {Coordinator} : Outcome(j)!Init
JobsKeepContract == [][\A j \in Job \ {Coordinator} : [Outcome(j)!Next]_(Outcome(j)!vars)]_vars

==============================================================================
