----------------------------- MODULE MCSlotMap -----------------------------
(* Instances of SlotMap for TLC: three keys that fit and one that does not,*)
(* in a bucket of two ways.                                                *)
EXTENDS SlotMap, TLC

CONSTANTS k1, k2, k3, big, c1, c2, o1, o2

MCKeys == {k1, k2, k3, big}
MCOversized == {big}
TwoClients == {c1, c2}
TwoOwners == {o1, o2}
MCReaders == {c2, o2}
OneOrTwo == {<<k>> : k \in MCKeys} \cup {b \in {k1, k2, k3} \X {k1, k2, k3} : b[1] # b[2]}
MCSettings == {<<"clean", {o1}>>, <<"clean", {o1, o2}>>, <<"clean", {c1}>>, <<"clean", {c1, c2}>>,
               <<"lossy", {c1}>>, <<"torn", {c1}>>}

SlotSymmetry == Permutations({k1, k2, k3})
=============================================================================
