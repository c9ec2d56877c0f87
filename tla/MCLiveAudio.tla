------------------------------ MODULE MCLiveAudio ------------------------------
(* The instances that TLC checks.                                           *)
EXTENDS LiveAudio, TLC

CONSTANTS t1, t2, k1, k2

Tabs == {t1, t2}
Sockets == {k1, k2}

(* Handlers are interchangeable.                                            *)
SocketSymmetry == Permutations(Sockets)
=============================================================================
