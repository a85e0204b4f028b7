---------------------------- MODULE MCIscsiTarget ----------------------------
(* Instances of IscsiTarget for TLC.                                         *)
EXTENDS IscsiTarget

CONSTANTS n1, n2

TwoNames == {n1, n2}
=============================================================================
