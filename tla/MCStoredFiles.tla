---------------------------- MODULE MCStoredFiles ----------------------------
(* The instances that TLC checks.                                           *)
EXTENDS StoredFiles, TLC

CONSTANTS r1, r2, d1, d2

Requests == {r1, r2}
Deleters == {d1, d2}
AllFaults == {"restart", "rollback", "storage", "network"}
NoFaults == {}

(* Handlers and workers are interchangeable: no definition chooses one.     *)
Interchangeable == Permutations(Requests) \cup Permutations(Deleters)

(* A behaviour uploads a recording or a PDF: they share the worker and its  *)
(* ledger, which does not tell one object from another.                     *)
OneFile == Init /\ (browser.at = "off" <=> material.status = "gone")

OneFileSpec == OneFile /\ [][Next]_vars
OneFileFairSpec == OneFileSpec /\ Fairness
=============================================================================
