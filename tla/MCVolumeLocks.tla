---------------------------- MODULE MCVolumeLocks ----------------------------
(* Three goroutines, two ids; enough mutexes that a goroutine never lacks    *)
(* memory for a new one: one per id in the map and one per goroutine.        *)
EXTENDS VolumeLocks

CONSTANTS c1, c2, c3, i1, i2, m1, m2, m3, m4, m5

MCClients == {c1, c2, c3}
MCIds == {i1, i2}
MCMutexes == {m1, m2, m3, m4, m5}

=============================================================================
