--------------------------- MODULE MCXpuInitiator ----------------------------
(* An instance of XpuInitiator for TLC.                                      *)
EXTENDS XpuInitiator

CONSTANTS v1, v2

TwoVolumes == {v1, v2}

(* Repeated NodeStageVolume calls succeed in the end: stated for one volume, *)
(* since the specification treats all alike.                                 *)
StageIsCompleted == StageCompletes(v1)
=============================================================================
