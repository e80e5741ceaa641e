------------------------ MODULE MCConnectionManager ------------------------
(* Instances of ConnectionManager for TLC: two pools, of which the first is *)
(* on rail 0.                                                              *)
EXTENDS ConnectionManager, TLC

CONSTANTS c1, c2, c3, h1, h2, h3, h4

TwoCallers == {c1, c2}
ThreeCallers == {c1, c2, c3}
TwoPools == {1, 2}
FirstPool == {1}
TwoChannels == {h1, h2}
FourChannels == {h1, h2, h3, h4}

ChannelSymmetry == Permutations(FourChannels) \cup Permutations(ThreeCallers)
=============================================================================
