---------------------------- MODULE MCMembership ----------------------------
(* Instances of Membership for TLC: three nodes, the first of them the     *)
(* head, two masters.                                                      *)
EXTENDS Membership, TLC

Three == 1 .. 3
MCSeeds == <<1>>
MCPoints == (1 :> {2, 5} @@ 2 :> {3, 8} @@ 3 :> {6, 9})
MCKeyPos == (1 :> 1 @@ 2 :> 4 @@ 3 :> 7)

LastNode == {3}
MCSettings == {{"boot"}, {"boot", "hang"}, {"crash", "moved"}, {"crash", "quick", "moved"}, {"stop", "moved"}}

(* A host vanishes from an established cluster and does not refuse calls.  *)
Vanishing == {{"crash", "hang"}}

(* A node comes back on other ports before the others missed it.           *)
Returning == {{"crash", "quick", "moved"}}
=============================================================================
