------------------------------ MODULE Sorting ------------------------------
(***************************************************************************)
(* Ordered collections: Python's sorted() and its list comprehensions.     *)
(***************************************************************************)
EXTENDS Integers, Sequences, FiniteSets

(* sorted(S), for a set of numbers: the m-th is the one with m numbers up  *)
(* to it.                                                                  *)
Ascending(S) ==
  [m \in 1 .. Cardinality(S) |-> CHOOSE x \in S : Cardinality({y \in S : y <= x}) = m]

(* [x for x in s if x in S].                                               *)
OnlyIn(s, S) ==
  LET at == Ascending({i \in DOMAIN s : s[i] \in S})
  IN  [m \in DOMAIN at |-> s[at[m]]]

(* [x for s in lists for x in s].                                          *)
Joined(lists) ==
  LET upTo[n \in 0 .. Len(lists)] == IF n = 0 THEN <<>> ELSE upTo[n - 1] \o lists[n]
  IN  upTo[Len(lists)]

(* Every element of the list s occurs in it once.                          *)
NoRepeats(s) == \A i, j \in 1 .. Len(s) : s[i] = s[j] => i = j
=============================================================================
