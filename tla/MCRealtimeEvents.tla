--------------------------- MODULE MCRealtimeEvents ---------------------------
(* The instances that TLC checks.                                           *)
EXTENDS RealtimeEvents, TLC

CONSTANTS w1, w2, c1

Writers == {w1, w2}
Clients == {c1}
NoEvents == {}
First == {1}
FirstTwo == {1, 2}
Last == {MaxEvent}

(* The writers are alike: the second is used only while the first is.      *)
SecondWhileFirst == began[w2] = 0 /\ began'[w2] # 0 => began[w1] # 0

(* One answer that no event cancels is under way at a time.                 *)
OneLateAnswer == \A c \in Client : Cardinality(client'[c].late) <= 1

(* What a page reads of itself, as against what an event or a resync asks   *)
(* for, is asked for before the first event: it may arrive at any time.  An *)
(* answer that no event cancels is asked for, or comes of the page's own    *)
(* change, before the page connects, and is there before it connects again. *)
EarlyReads ==
    \A c \in Client :
        /\ Poll(c) => clock = 0
        /\ client'[c].late \ client[c].late # {} => client[c].connects = 0
        /\ ReadRecord(c) => clock = 0
        /\ client'[c].late # {} => client'[c].connects < MaxConnect

MCSpec == Init /\ [][Next /\ SecondWhileFirst /\ OneLateAnswer]_vars
MCFairSpec ==
    Init /\ [][Next /\ SecondWhileFirst /\ OneLateAnswer /\ EarlyReads]_vars /\ Fairness
=============================================================================
