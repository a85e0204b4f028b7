----------------------------- MODULE MCScheduler -----------------------------
(* An instance of Scheduler for TLC: integers of 8 bits, a MiB of 4 bytes, a *)
(* node with two stores and a node with one; clusters of half a MiB, two MiB *)
(* and one MiB.                                                              *)
EXTENDS Scheduler, TLC

CONSTANTS nodeA, nodeB, a1, a2, b1

TwoNodes == {nodeA, nodeB}
ThreeStores == {a1, a2, b1}
Layout == nodeA :> <<a1, a2>> @@ nodeB :> <<b1>>
Sizes == a1 :> 2 @@ a2 :> 8 @@ b1 :> 4
Totals == a1 :> 5 @@ a2 :> 2 @@ b1 :> 3

(* Around every multiple of a MiB that some store can hold, and around the   *)
(* largest integer.                                                          *)
Requests == 0..17 \cup 121..127
SnapshotBytes == {4, 8}
=============================================================================
