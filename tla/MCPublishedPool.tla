-------------------------- MODULE MCPublishedPool --------------------------
(* Instances of PublishedPool for TLC.                                     *)
EXTENDS PublishedPool, TLC

CONSTANTS k1, k2, k3

MCKeys == {k1, k2, k3}

(* Pages of three lengths, of which one is larger than the region.         *)
MixedLengths == {1, 2, 5}

KeySymmetry == Permutations(MCKeys)
=============================================================================
