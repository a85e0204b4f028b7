----------------------------- MODULE MCSnapshots -----------------------------
(* Instances of Snapshots for TLC.                                           *)
EXTENDS Snapshots

CONSTANTS w1, w2, s1, s2, c1

TwoWorkers == {w1, w2}
OneSnapshot == {s1}
TwoSnapshots == {s1, s2}
OneClone == {c1}
=============================================================================
