--------------------------- MODULE MCDiskRestart ---------------------------
(* Instances of DiskRestart for TLC: pages of one and of two bytes in a     *)
(* tier of two.                                                            *)
EXTENDS DiskRestart, TLC

CONSTANTS k1, k2, k3

MCKeys == {k1, k2, k3}
MCSizeOf == (k1 :> 1) @@ (k2 :> 2) @@ (k3 :> 2)
=============================================================================
