-------------------------- MODULE CollectionLemmas --------------------------
(***************************************************************************)
(* Lemmas about the lists and sorted sets the modules are built from.      *)
(***************************************************************************)
EXTENDS Integers, Sequences, FiniteSets, FiniteSetsExt, Functions, Sorting,
        FiniteSetTheorems, WellFoundedInduction, TLAPS

(* What is in Seq(S): a function on 1 .. Len(s), with values in S.         *)
LEMMA LenFacts ==
  ASSUME NEW S, NEW s \in Seq(S)
  PROVE  Len(s) \in Nat /\ DOMAIN s = 1 .. Len(s) /\ s \in [1 .. Len(s) -> S]
OBVIOUS

(* An element of a sequence.                                               *)
LEMMA ElementFacts ==
  ASSUME NEW S, NEW s \in Seq(S), NEW i \in 1 .. Len(s)
  PROVE  s[i] \in S
OBVIOUS

(* The empty sequence is the one of length 0.                              *)
LEMMA EmptyFacts ==
  ASSUME NEW S
  PROVE  /\ <<>> \in Seq(S)
         /\ Len(<<>>) = 0
         /\ \A s \in Seq(S) : s # <<>> => Len(s) \in Nat \ {0}
<1>1. <<>> \in Seq(S) /\ Len(<<>>) = 0
  OBVIOUS
<1>2. \A s \in Seq(S) : s # <<>> => Len(s) \in Nat \ {0}
  OBVIOUS
<1> QED BY <1>1, <1>2

(* Appending an element.                                                   *)
LEMMA AppendedFacts ==
  ASSUME NEW S, NEW s \in Seq(S), NEW e \in S
  PROVE  /\ Append(s, e) \in Seq(S) /\ Append(s, e) # <<>>
         /\ Len(Append(s, e)) = Len(s) + 1
         /\ Append(s, e)[Len(s) + 1] = e
         /\ \A i \in 1 .. Len(s) : Append(s, e)[i] = s[i]
OBVIOUS

(* The head and the tail.                                                  *)
LEMMA HeadTailFacts ==
  ASSUME NEW S, NEW s \in Seq(S), s # <<>>
  PROVE  /\ Head(s) \in S
         /\ Tail(s) \in Seq(S)
         /\ Len(Tail(s)) = Len(s) - 1
         /\ \A i \in 1 .. Len(Tail(s)) : Tail(s)[i] = s[i + 1]
OBVIOUS

(* A part of a sequence.                                                   *)
LEMMA SubSeqFacts ==
  ASSUME NEW S, NEW s, NEW m \in Int, NEW n \in Int, \A i \in m .. n : s[i] \in S
  PROVE  /\ SubSeq(s, m, n) \in Seq(S)
         /\ Len(SubSeq(s, m, n)) = IF m <= n THEN n - m + 1 ELSE 0
         /\ \A i \in 1 .. (n - m + 1) : SubSeq(s, m, n)[i] = s[m + i - 1]
OBVIOUS

(* A nonempty set of naturals has a least element.                         *)
LEMMA MinIsLeast ==
  ASSUME NEW S \in SUBSET Nat, S # {}
  PROVE  Min(S) \in S /\ \A y \in S : Min(S) <= y
<1>1. PICK x \in S : \A y \in S : ~ (<<y, x>> \in OpToRel(<, Nat))
  BY Zenon, NatLessThanWellFounded, WFMin
<1>2. \A y \in S : x <= y
  <2>1. TAKE y \in S
  <2>2. CASE y < x
    <3>1. <<y, x>> \in OpToRel(<, Nat)
      BY <2>2 DEF OpToRel
    <3>2. QED
      BY Zenon, <1>1, <3>1
  <2>3. QED
    BY <2>2
<1>3. QED
  BY Zenon, <1>2 DEF Min

(* A function on 1 .. n is a sequence of that length.                      *)
LEMMA FunctionIsSeq ==
  ASSUME NEW n \in Nat, NEW S, NEW f \in [1 .. n -> S]
  PROVE  f \in Seq(S) /\ Len(f) = n /\ DOMAIN f = 1 .. n
<1>1. f \in Seq(S)
  OBVIOUS
<1>2. QED
  BY <1>1, LenFacts

(* The range of a sequence is finite, and a sequence without repetitions   *)
(* has as many elements as its range.                                      *)
LEMMA DistinctSeqSize ==
  ASSUME NEW S, NEW s \in Seq(S)
  PROVE  /\ IsFiniteSet(Range(s))
         /\ (\A i, j \in DOMAIN s : s[i] = s[j] => i = j)
              <=> Cardinality(Range(s)) = Len(s)
<1>1. Len(s) \in Nat /\ DOMAIN s = 1 .. Len(s) /\ s \in [1 .. Len(s) -> Range(s)]
  BY LenFacts DEF Range
<1>2. s \in Surjection(1 .. Len(s), Range(s))
  BY <1>1 DEF Surjection, Range
<1>3. IsFiniteSet(1 .. Len(s)) /\ Cardinality(1 .. Len(s)) = Len(s)
  BY <1>1, FS_Interval
<1>4. /\ IsFiniteSet(Range(s))
      /\ Cardinality(Range(s)) = Len(s) <=> s \in Injection(1 .. Len(s), Range(s))
  BY <1>2, <1>3, FS_Surjection
<1>5. s \in Injection(1 .. Len(s), Range(s))
        <=> \A i, j \in DOMAIN s : s[i] = s[j] => i = j
  BY <1>1 DEF Injection, IsInjective
<1>6. QED
  BY <1>4, <1>5

-----------------------------------------------------------------------------
(* Sorted sets, and lists filtered by a condition.                         *)

(* How many elements of S are at most x.                                   *)
Rank(S, x) == Cardinality({y \in S : y <= x})

(* The numbers of a finite set have different ranks, in their order.       *)
LEMMA RankGrows ==
  ASSUME NEW S \in SUBSET Int, IsFiniteSet(S), NEW x \in S, NEW z \in S, x < z
  PROVE  Rank(S, x) \in Nat /\ Rank(S, z) \in Nat /\ Rank(S, x) < Rank(S, z)
<1> DEFINE X == {y \in S : y <= x}
           Z == {y \in S : y <= z}
<1>1. X \in SUBSET S /\ Z \in SUBSET S /\ X \in SUBSET Z /\ z \in Z /\ z \notin X
  <2>1. x \in Int /\ z \in Int /\ \A y \in S : y \in Int
    OBVIOUS
  <2>2. X \in SUBSET S /\ Z \in SUBSET S
    OBVIOUS
  <2>3. z \in Z /\ z \notin X
    BY <2>1
  <2>4. \A y \in S : y <= x => y <= z
    BY <2>1
  <2>5. QED
    BY Zenon, <2>2, <2>3, <2>4
<1> HIDE DEF X, Z
<1>2. IsFiniteSet(X) /\ IsFiniteSet(Z)
  BY Zenon, <1>1, FS_Subset
<1>3. /\ Cardinality(X) \in Nat /\ Cardinality(Z) \in Nat
      /\ Cardinality(X) <= Cardinality(Z) /\ Cardinality(X) # Cardinality(Z)
  BY Zenon, <1>1, <1>2, FS_CardinalityType, FS_Subset
<1>4. Rank(S, x) = Cardinality(X) /\ Rank(S, z) = Cardinality(Z)
  BY DEF Rank, X, Z
<1>5. QED
  BY <1>3, <1>4

(* Every number up to the size of a finite set is the rank of one element. *)
LEMMA RankOnto ==
  ASSUME NEW S \in SUBSET Int, IsFiniteSet(S)
  PROVE  /\ Cardinality(S) \in Nat
         /\ \A x \in S : Rank(S, x) \in 1 .. Cardinality(S)
         /\ \A x, z \in S : Rank(S, x) = Rank(S, z) => x = z
         /\ \A m \in 1 .. Cardinality(S) : \E x \in S : Rank(S, x) = m
<1> DEFINE n == Cardinality(S)
           r == [x \in S |-> Rank(S, x)]
<1>1. n \in Nat
  BY FS_CardinalityType
<1>2. ASSUME NEW x \in S PROVE Rank(S, x) \in 1 .. n
  <2> DEFINE X == {y \in S : y <= x}
  <2>1. X \in SUBSET S /\ x \in X
    OBVIOUS
  <2> HIDE DEF X
  <2>2. IsFiniteSet(X) /\ Cardinality(X) <= n
    BY Zenon, <2>1, FS_Subset
  <2>3. Cardinality(X) \in Nat /\ Cardinality(X) # 0
    BY <2>1, <2>2, FS_CardinalityType, FS_EmptySet
  <2>4. Rank(S, x) = Cardinality(X)
    BY DEF Rank, X
  <2>5. QED
    BY <1>1, <2>2, <2>3, <2>4
<1>3. ASSUME NEW x \in S, NEW z \in S, Rank(S, x) = Rank(S, z) PROVE x = z
  <2>1. CASE x < z
    BY <1>3, <2>1, RankGrows
  <2>2. CASE z < x
    BY <1>3, <2>2, RankGrows
  <2>3. QED
    BY <2>1, <2>2
<1>4. r \in Injection(S, 1 .. n)
  BY <1>2, <1>3 DEF Injection, IsInjective
<1>5. IsFiniteSet(1 .. n) /\ Cardinality(1 .. n) = n
  BY <1>1, FS_Interval
<1> HIDE DEF r
<1>6. r \in Surjection(S, 1 .. n)
  BY <1>4, <1>5, FS_Injection
<1>7. \A m \in 1 .. n : \E x \in S : r[x] = m
  BY <1>6 DEF Surjection
<1>8. QED
  BY <1>1, <1>2, <1>3, <1>7 DEF r

(* sorted() lists the elements of a finite set of numbers, each once, in   *)
(* increasing order.                                                       *)
LEMMA AscendingFacts ==
  ASSUME NEW S \in SUBSET Int, IsFiniteSet(S)
  PROVE  /\ Ascending(S) \in Seq(S)
         /\ Len(Ascending(S)) = Cardinality(S) /\ Cardinality(S) \in Nat
         /\ DOMAIN Ascending(S) = 1 .. Cardinality(S)
         /\ \A m \in 1 .. Cardinality(S) : Ascending(S)[m] \in S
         /\ \A x \in S : \E m \in 1 .. Cardinality(S) : Ascending(S)[m] = x
         /\ \A i, j \in 1 .. Cardinality(S) : i < j => Ascending(S)[i] < Ascending(S)[j]
<1> DEFINE n == Cardinality(S)
           a == Ascending(S)
<1>1. /\ n \in Nat
      /\ \A x \in S : Rank(S, x) \in 1 .. n
      /\ \A x, z \in S : Rank(S, x) = Rank(S, z) => x = z
      /\ \A m \in 1 .. n : \E x \in S : Rank(S, x) = m
  BY RankOnto
<1>2. a = [m \in 1 .. n |-> CHOOSE x \in S : Rank(S, x) = m]
  BY DEF Ascending, Rank
<1> HIDE DEF a
<1>3. \A m \in 1 .. n : a[m] \in S /\ Rank(S, a[m]) = m
  BY <1>1, <1>2
<1>4. a \in [1 .. n -> S]
  BY <1>2, <1>3
<1>5. a \in Seq(S) /\ Len(a) = n /\ DOMAIN a = 1 .. n
  BY <1>1, <1>4, FunctionIsSeq
<1>6. \A x \in S : \E m \in 1 .. n : a[m] = x
  BY Zenon, <1>1, <1>3
<1>7. ASSUME NEW i \in 1 .. n, NEW j \in 1 .. n, i < j PROVE a[i] < a[j]
  <2>1. a[i] \in S /\ a[j] \in S /\ Rank(S, a[i]) = i /\ Rank(S, a[j]) = j
    BY <1>3
  <2>2. a[i] # a[j]
    BY <1>7, <2>1
  <2>3. CASE a[j] < a[i]
    <3>1. Rank(S, a[j]) < Rank(S, a[i])
      BY Zenon, <2>1, <2>3, RankGrows
    <3>2. QED
      BY <1>1, <1>7, <2>1, <3>1
  <2>4. a[i] \in Int /\ a[j] \in Int
    BY Zenon, <2>1
  <2>5. QED
    BY <2>2, <2>3, <2>4
<1>8. QED
  BY <1>1, <1>3, <1>5, <1>6, <1>7 DEF a

(* A filtered list has the elements of the list that meet the condition;   *)
(* it has no repetition if the list has none.                              *)
LEMMA OnlyInFacts ==
  ASSUME NEW T, NEW s \in Seq(T), NEW S
  PROVE  /\ OnlyIn(s, S) \in Seq(T \cap S)
         /\ Range(OnlyIn(s, S)) = Range(s) \cap S
         /\ (\A i, j \in 1 .. Len(s) : s[i] = s[j] => i = j)
              => \A i, j \in 1 .. Len(OnlyIn(s, S)) : OnlyIn(s, S)[i] = OnlyIn(s, S)[j] => i = j
<1> DEFINE P == {i \in DOMAIN s : s[i] \in S}
           n == Cardinality(P)
           at == Ascending(P)
           o == OnlyIn(s, S)
<1>1. Len(s) \in Nat /\ DOMAIN s = 1 .. Len(s) /\ \A i \in 1 .. Len(s) : s[i] \in T
  BY LenFacts, ElementFacts
<1>2. P \in SUBSET (1 .. Len(s)) /\ P \in SUBSET Int
  BY <1>1
<1>3. IsFiniteSet(1 .. Len(s))
  BY <1>1, FS_Interval
<1> HIDE DEF P
<1>4. IsFiniteSet(P)
  BY Zenon, <1>2, <1>3, FS_Subset
<1>5. /\ n \in Nat /\ DOMAIN at = 1 .. n /\ \A m \in 1 .. n : at[m] \in P
      /\ \A x \in P : \E m \in 1 .. n : at[m] = x
      /\ \A i, j \in 1 .. n : i < j => at[i] < at[j]
  BY <1>2, <1>4, AscendingFacts
<1>6. o = [m \in 1 .. n |-> s[at[m]]]
  BY <1>5 DEF OnlyIn, P
<1> HIDE DEF at, n, o
<1>7. \A m \in 1 .. n : at[m] \in 1 .. Len(s) /\ s[at[m]] \in T \cap S
  BY <1>1, <1>2, <1>5 DEF P
<1>8. o \in [1 .. n -> T \cap S]
  BY <1>6, <1>7
<1>9. o \in Seq(T \cap S) /\ Len(o) = n /\ DOMAIN o = 1 .. n
  BY <1>5, <1>8, FunctionIsSeq
<1>10. Range(o) = Range(s) \cap S
  <2>1. ASSUME NEW m \in 1 .. n PROVE o[m] \in Range(s) \cap S
    BY <1>1, <1>6, <1>7 DEF Range
  <2>2. ASSUME NEW i \in 1 .. Len(s), s[i] \in S PROVE \E m \in 1 .. n : o[m] = s[i]
    <3>1. i \in P
      BY <1>1, <2>2 DEF P
    <3>2. QED
      BY <1>5, <1>6, <3>1
  <2>3. Range(o) \subseteq Range(s) \cap S
    BY <1>9, <2>1 DEF Range
  <2>4. Range(s) \cap S \subseteq Range(o)
    <3> SUFFICES ASSUME NEW i \in DOMAIN s, s[i] \in S PROVE \E m \in DOMAIN o : o[m] = s[i]
      BY DEF Range
    <3>1. QED
      BY <1>1, <1>9, <2>2
  <2>5. QED
    BY <2>3, <2>4
<1>11. ASSUME \A i, j \in 1 .. Len(s) : s[i] = s[j] => i = j,
              NEW i \in 1 .. n, NEW j \in 1 .. n, o[i] = o[j]
       PROVE  i = j
  <2>1. at[i] = at[j] /\ at[i] \in Int
    BY <1>6, <1>7, <1>11
  <2>2. i < j => FALSE
    BY <1>5, <2>1
  <2>3. j < i => FALSE
    BY <1>5, <2>1
  <2>4. QED
    BY <1>5, <2>2, <2>3
<1>12. QED
  BY <1>9, <1>10, <1>11 DEF o

(* Concatenation.                                                          *)
LEMMA ConcatFacts ==
  ASSUME NEW S, NEW s \in Seq(S), NEW t \in Seq(S)
  PROVE  /\ s \o t \in Seq(S)
         /\ Len(s \o t) = Len(s) + Len(t)
         /\ \A i \in 1 .. Len(s) + Len(t) :
              (s \o t)[i] = IF i <= Len(s) THEN s[i] ELSE t[i - Len(s)]
OBVIOUS

(* g is the function Joined defines by recursion.                          *)
IsJoining(g, seqs) ==
  g = [i \in 0 .. Len(seqs) |-> IF i = 0 THEN <<>> ELSE g[i - 1] \o seqs[i]]

(* There is such a function.                                               *)
LEMMA JoiningExists ==
  ASSUME NEW T, NEW seqs \in Seq(Seq(T))
  PROVE  \E g : IsJoining(g, seqs)
<1> DEFINE Eq(g, i) == g[i] = IF i = 0 THEN <<>> ELSE g[i - 1] \o seqs[i]
           Good(n) == \E g : g = [i \in 0 .. n |-> g[i]] /\ \A i \in 0 .. n : Eq(g, i)
           Bad == {n \in 0 .. Len(seqs) : ~ Good(n)}
<1>1. Len(seqs) \in Nat
  BY LenFacts
<1>2. Bad = {}
  <2>1. SUFFICES ASSUME Bad # {} PROVE FALSE
    OBVIOUS
  <2>2. PICK m \in Bad : \A n \in Bad : m <= n
    <3>1. Bad \in SUBSET Nat
      BY <1>1
    <3> HIDE DEF Bad
    <3>2. QED
      BY Zenon, <2>1, <3>1, MinIsLeast
  <2>3. m \in Nat /\ m <= Len(seqs)
    BY <1>1
  <2>4. CASE m = 0
    <3> DEFINE g == [i \in 0 .. 0 |-> <<>>]
    <3>1. g = [i \in 0 .. 0 |-> g[i]] /\ \A i \in 0 .. 0 : Eq(g, i)
      OBVIOUS
    <3> HIDE DEF g
    <3>2. QED
      BY Zenon, <2>4, <3>1
  <2>5. CASE m # 0
    <3>1. m - 1 \in 0 .. Len(seqs) /\ m - 1 \notin Bad
      <4>1. m - 1 \in 0 .. Len(seqs) /\ ~ (m <= m - 1)
        BY <1>1, <2>3, <2>5
      <4> HIDE DEF Bad
      <4>2. QED
        BY <2>2, <4>1
    <3>2. PICK h : h = [i \in 0 .. (m - 1) |-> h[i]] /\ \A i \in 0 .. (m - 1) : Eq(h, i)
      BY <3>1
    <3> DEFINE g == [i \in 0 .. m |-> IF i = 0 THEN <<>> ELSE h[i - 1] \o seqs[i]]
    <3>3. ASSUME NEW i \in 0 .. (m - 1) PROVE i \in 0 .. m /\ g[i] = h[i]
      <4>1. i \in 0 .. m
        BY <2>3
      <4>2. h[i] = IF i = 0 THEN <<>> ELSE h[i - 1] \o seqs[i]
        BY Zenon, <3>2
      <4>3. QED
        BY <4>1, <4>2
    <3>4. \A i \in 0 .. m : i # 0 => i - 1 \in 0 .. (m - 1)
      BY <2>3
    <3>5. \A i \in 0 .. m : Eq(g, i)
      BY Zenon, <3>3, <3>4
    <3>6. g = [i \in 0 .. m |-> g[i]]
      OBVIOUS
    <3> HIDE DEF g
    <3>7. QED
      BY Zenon, <3>5, <3>6
  <2>6. QED
    BY <2>4, <2>5
<1>3. Good(Len(seqs))
  <2> HIDE DEF Good
  <2>1. Len(seqs) \in 0 .. Len(seqs)
    BY <1>1
  <2>2. QED
    BY <1>2, <2>1
<1>4. QED
  BY Zenon, <1>3 DEF IsJoining

(* Joined gives a list of the elements of the lists.                       *)
LEMMA JoinedFacts ==
  ASSUME NEW T, NEW seqs \in Seq(Seq(T))
  PROVE  /\ Joined(seqs) \in Seq(T)
         /\ \A i \in 1 .. Len(seqs) : Range(seqs[i]) \subseteq Range(Joined(seqs))
<1> DEFINE n == Len(seqs)
<1>1. n \in Nat /\ \A i \in 1 .. n : seqs[i] \in Seq(T)
  BY LenFacts, ElementFacts
<1>2. PICK g : IsJoining(g, seqs) /\ Joined(seqs) = g[n]
  <2> DEFINE g == CHOOSE g : IsJoining(g, seqs)
  <2>1. IsJoining(g, seqs)
    BY JoiningExists
  <2>2. Joined(seqs) = g[n]
    BY DEF Joined, IsJoining
  <2>3. QED
    BY Zenon, <2>1, <2>2
<1> DEFINE Good(i) == g[i] \in Seq(T) /\ \A j \in 1 .. i : Range(seqs[j]) \subseteq Range(g[i])
           Bad == {i \in 0 .. n : ~ Good(i)}
<1>3. \A i \in 0 .. n : g[i] = IF i = 0 THEN <<>> ELSE g[i - 1] \o seqs[i]
  BY Zenon, <1>2 DEF IsJoining
<1>4. Bad = {}
  <2>1. SUFFICES ASSUME Bad # {} PROVE FALSE
    BY Zenon
  <2>2. PICK m \in Bad : \A i \in Bad : m <= i
    <3>1. Bad \in SUBSET Nat
      BY <1>1
    <3> HIDE DEF Bad
    <3>2. QED
      BY Zenon, <2>1, <3>1, MinIsLeast
  <2>3. m \in 0 .. n /\ ~ Good(m)
    OBVIOUS
  <2>4. CASE m = 0
    <3>1. g[m] = <<>> /\ 1 .. m = {}
      BY <1>3, <2>3, <2>4
    <3>2. g[m] \in Seq(T)
      BY <3>1
    <3>3. QED
      BY Zenon, <2>3, <3>1, <3>2
  <2>5. CASE m # 0
    <3>1. m - 1 \in 0 .. n /\ m \in 1 .. n /\ ~ (m <= m - 1)
      BY <1>1, <2>3, <2>5
    <3>2. Good(m - 1)
      <4>1. m - 1 \notin Bad
        <5> HIDE DEF Bad
        <5>1. QED
          BY <2>2, <3>1
      <4>2. QED
        BY <3>1, <4>1
    <3>3. g[m] = g[m - 1] \o seqs[m] /\ g[m - 1] \in Seq(T) /\ seqs[m] \in Seq(T)
      BY Zenon, <1>1, <1>3, <2>3, <2>5, <3>1, <3>2
    <3>4. /\ g[m] \in Seq(T)
          /\ Range(g[m - 1]) \subseteq Range(g[m]) /\ Range(seqs[m]) \subseteq Range(g[m])
      <4> DEFINE u == g[m - 1]
                 v == seqs[m]
                 w == g[m]
      <4>1. u \in Seq(T) /\ v \in Seq(T) /\ w = u \o v
        BY <3>3
      <4> HIDE DEF u, v, w
      <4>2. /\ w \in Seq(T) /\ Len(w) = Len(u) + Len(v)
            /\ DOMAIN u = 1 .. Len(u) /\ DOMAIN v = 1 .. Len(v) /\ DOMAIN w = 1 .. Len(w)
            /\ Len(u) \in Nat /\ Len(v) \in Nat
            /\ \A i \in 1 .. Len(u) : w[i] = u[i]
            /\ \A i \in 1 .. Len(v) : w[Len(u) + i] = v[i]
        BY <4>1, LenFacts, ConcatFacts
      <4>3. \A i \in DOMAIN u : i \in DOMAIN w /\ w[i] = u[i]
        BY <4>2
      <4>4. \A i \in DOMAIN v : Len(u) + i \in DOMAIN w /\ w[Len(u) + i] = v[i]
        BY <4>2
      <4>5. Range(u) \subseteq Range(w)
        BY <4>3 DEF Range
      <4>6. Range(v) \subseteq Range(w)
        BY <4>4 DEF Range
      <4>7. QED
        BY <4>2, <4>5, <4>6 DEF u, v, w
    <3>5. \A j \in 1 .. m : j = m \/ j \in 1 .. (m - 1)
      BY <2>3
    <3>6. Good(m)
      BY Zenon, <3>2, <3>4, <3>5
    <3>7. QED
      BY <2>3, <3>6
  <2>6. QED
    BY <2>4, <2>5
<1>5. n \in 0 .. n /\ Good(n)
  <2> HIDE DEF Good
  <2>1. n \in 0 .. n
    BY <1>1
  <2>2. QED
    BY <1>4, <2>1
<1>6. QED
  BY <1>2, <1>5
=============================================================================
