---------------------------- MODULE MCNodeServer -----------------------------
(* Instances of NodeServer for TLC.                                          *)
EXTENDS NodeServer, TLC

CONSTANTS w1, w2, w3, p1, p2

TwoWorkers == {w1, w2}
ThreeWorkers == {w1, w2, w3}
OnePod == {p1}
TwoPods == {p1, p2}

(* Workers and pods are interchangeable. *)
Symmetric == Permutations(Workers) \cup Permutations(Pods)
=============================================================================
