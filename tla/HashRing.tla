------------------------------ MODULE HashRing ------------------------------
(***************************************************************************)
(* The consistent-hash ring (python/peercache/hashring.py) of a set of     *)
(* nodes.  The hash function is given by where it puts the nodes and the   *)
(* keys.  set_nodes replaces the ring in several steps without a lock; the *)
(* modules that use this one change it where no other thread looks, and a  *)
(* lookup of another thread in between is not modelled.                    *)
(***************************************************************************)
EXTENDS Sorting, FiniteSetsExt, Functions

CONSTANTS
  Points,   \* the positions of each node's virtual nodes
  KeyPos    \* the position of each key

ASSUME RingAssumption ==
  \A n \in DOMAIN Points :
    /\ Points[n] \subseteq Nat /\ IsFiniteSet(Points[n]) /\ Points[n] # {}
    /\ \A m \in DOMAIN Points \ {n} : Points[m] \cap Points[n] = {}

(* _sorted_keys after set_nodes(nodes), and what _ring has at a position.  *)
Positions(nodes) == UNION {Points[n] : n \in nodes}
NodeAt(nodes, p) == CHOOSE n \in nodes : p \in Points[n]

(* get_node: the node at the first position after the key's, or round.     *)
GetNode(nodes, key) ==
  LET after == {p \in Positions(nodes) : p > KeyPos[key]}
  IN  NodeAt(nodes, Min(IF after = {} THEN Positions(nodes) ELSE after))

(* The walk of get_nodes: the positions after the key's, then round.        *)
Clockwise(nodes, key) ==
  LET after == {p \in Positions(nodes) : p > KeyPos[key]}
      walk  == Ascending(after) \o Ascending(Positions(nodes) \ after)
  IN  [i \in DOMAIN walk |-> NodeAt(nodes, walk[i])]

(* The first n different elements of a sequence, in order.                 *)
FirstDistinct(s, n) ==
  LET firsts == Ascending({i \in DOMAIN s : \A j \in 1 .. (i - 1) : s[j] # s[i]})
  IN  [i \in 1 .. Min({n, Len(firsts)}) |-> s[firsts[i]]]

(* get_nodes: up to n different nodes.                                     *)
GetNodes(nodes, key, n) == FirstDistinct(Clockwise(nodes, key), n)
=============================================================================
