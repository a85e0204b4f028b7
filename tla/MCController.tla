---------------------------- MODULE MCController -----------------------------
(* Instances of Controller for TLC.                                          *)
EXTENDS Controller, TLC

CONSTANTS w1, w2, w3, n1, n2, nodeA, nodeB, sA, sB, l1, l2, l3

OneNode == {nodeA}
OneStore == {sA}
OneStoreOf == sA :> nodeA

TwoNodes == {nodeA, nodeB}
TwoStores == {sA, sB}
TwoStoresOf == sA :> nodeA @@ sB :> nodeB

TwoWorkers == {w1, w2}
ThreeWorkers == {w1, w2, w3}
OneName == {n1}
TwoNames == {n1, n2}
TwoLvols == {l1, l2}
ThreeLvols == {l1, l2, l3}

(* Workers, lvols and names are interchangeable; stores are not listed,      *)
(* because NodeOf tells them apart.                                          *)
Symmetric == Permutations(Workers) \cup Permutations(Lvols) \cup Permutations(Names)
=============================================================================
