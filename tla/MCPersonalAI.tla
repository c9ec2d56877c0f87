----------------------------- MODULE MCPersonalAI -----------------------------
(* The instances that TLC checks.                                           *)
EXTENDS PersonalAI, TLC

CONSTANTS r1, c1, w1, w2

Ranges == {r1}
Chats == {c1}
Workers == {w1, w2}
BothModes == {"LIVE", "REVIEW"}
Keys == 1 .. 3

(* Keys are interchangeable: they are first sent in order.                  *)
InOrder == \A k \in Keys : record[k].state # "none" => \A n \in 1 .. k : record[n].state # "none"
MCFairSpec == Init /\ [][Next /\ InOrder']_vars /\ Fairness
MCSpec == Init /\ [][Next /\ InOrder']_vars

(* JobKeepsContract of every row, as TLC reads it. *)
JobsStartContract == \A j \in Job : Outcome(j)!Init
JobsKeepContract == [][\A j \in Job : [Outcome(j)!Next]_(Outcome(j)!vars)]_vars
=============================================================================
