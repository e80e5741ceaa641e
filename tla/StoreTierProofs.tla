-------------------------- MODULE StoreTierProofs ---------------------------
(***************************************************************************)
(* Proofs about the tiers of one node, for any set of keys, any page sizes *)
(* and any capacities: the pool, and the disk tier over crashes and        *)
(* restarts.                                                               *)
(*                                                                         *)
(* Both count bytes with MapThenSumSet, of which the provers know nothing: *)
(* it is defined by recursion over the subsets of a set.  Its laws are     *)
(* derived here from the definition, by induction on the number of elements*)
(* (the set of sizes with a counterexample has no least element).          *)
(***************************************************************************)
EXTENDS PublishedPool, DiskRestart, CollectionLemmas

-----------------------------------------------------------------------------
(* Sums over finite sets.                                                  *)

(* The element a sum takes first.                                          *)
Some(s) == CHOOSE x \in s : TRUE

(* g is the function MapThenSumSet defines by recursion.                   *)
IsFold(g, f, S) ==
  g = [s \in SUBSET S |-> IF s = {} THEN 0 ELSE f[Some(s)] + g[s \ {Some(s)}]]

(* Taking an element out of a nonempty subset leaves a smaller one.        *)
LEMMA SomeSmaller ==
  ASSUME NEW S, IsFiniteSet(S), NEW s \in SUBSET S, s # {}
  PROVE  /\ Some(s) \in s /\ s \ {Some(s)} \in SUBSET S
         /\ Cardinality(s) \in Nat /\ Cardinality(s) - 1 \in Nat
         /\ \A x \in s : Cardinality(s \ {x}) = Cardinality(s) - 1
<1>1. Some(s) \in s
  BY DEF Some
<1>2. IsFiniteSet(s)
  BY FS_Subset
<1>3. Cardinality(s) \in Nat /\ Cardinality(s) # 0
  BY <1>2, FS_CardinalityType, FS_EmptySet
<1>4. \A x \in s : Cardinality(s \ {x}) = Cardinality(s) - 1
  BY Zenon, <1>2, FS_RemoveElement
<1>5. QED
  BY <1>1, <1>3, <1>4

(* There is a function that sums f over the subsets of a finite set.       *)
LEMMA FoldExists ==
  ASSUME NEW S, IsFiniteSet(S), NEW f, \A x \in S : f[x] \in Int
  PROVE  \E g \in [SUBSET S -> Int] : IsFold(g, f, S)
<1> DEFINE Below(n) == {s \in SUBSET S : Cardinality(s) <= n}
           Eq(g, s) == g[s] = IF s = {} THEN 0 ELSE f[Some(s)] + g[s \ {Some(s)}]
           Bad == {n \in Nat : ~ \E g \in [Below(n) -> Int] : \A s \in Below(n) : Eq(g, s)}
<1>1. \A s \in SUBSET S : Cardinality(s) \in Nat /\ (Cardinality(s) = 0 <=> s = {})
  BY FS_Subset, FS_CardinalityType, FS_EmptySet
<1>2. Bad = {}
  <2>1. SUFFICES ASSUME Bad # {} PROVE FALSE
    BY Zenon
  <2>2. PICK m \in Bad : \A n \in Bad : m <= n
    <3>1. Bad \in SUBSET Nat
      OBVIOUS
    <3> HIDE DEF Bad
    <3>2. QED
      BY Zenon, <2>1, <3>1, MinIsLeast
  <2>3. m \in Nat
    OBVIOUS
  <2>4. CASE m = 0
    <3>1. \A s \in Below(m) : s = {}
      BY <1>1, <2>4
    <3> DEFINE g == [s \in Below(m) |-> 0]
    <3>2. g \in [Below(m) -> Int] /\ \A s \in Below(m) : Eq(g, s)
      BY <3>1
    <3>3. QED
      BY Zenon, <3>2
  <2>5. CASE m # 0
    <3>1. m - 1 \in Nat /\ m - 1 \notin Bad
      <4> HIDE DEF Bad
      <4>1. QED
        BY <2>2, <2>3, <2>5
    <3>2. PICK h \in [Below(m - 1) -> Int] : \A s \in Below(m - 1) : Eq(h, s)
      BY Zenon, <3>1
    <3> DEFINE g == [s \in Below(m) |-> IF s = {} THEN 0 ELSE f[Some(s)] + h[s \ {Some(s)}]]
    <3>3. ASSUME NEW s \in Below(m), s # {}
          PROVE  s \ {Some(s)} \in Below(m - 1) /\ f[Some(s)] \in Int
      BY <2>3, <3>3, <1>1, SomeSmaller
    <3>4. g \in [Below(m) -> Int]
      BY <3>2, <3>3
    <3>5. \A s \in Below(m - 1) : s \in Below(m)
      BY <1>1, <2>3
    <3>6. \A s \in Below(m - 1) : g[s] = h[s]
      BY <3>2, <3>5
    <3>7. \A s \in Below(m) : Eq(g, s)
      BY Zenon, <3>3, <3>6
    <3>8. QED
      BY Zenon, <3>4, <3>7
  <2>6. QED
    BY <2>4, <2>5
<1>3. Cardinality(S) \in Nat /\ Below(Cardinality(S)) = SUBSET S
  BY <1>1, FS_Subset, FS_CardinalityType
<1>4. PICK g \in [SUBSET S -> Int] : \A s \in SUBSET S : Eq(g, s)
  <2>1. \E g \in [Below(Cardinality(S)) -> Int] : \A s \in Below(Cardinality(S)) : Eq(g, s)
    <3> HIDE DEF Below, Eq
    <3>1. QED
      BY Zenon, <1>2, <1>3
  <2> HIDE DEF Below, Eq
  <2>2. QED
    BY <1>3, <2>1
<1>5. IsFold(g, f, S)
  BY <1>4 DEF IsFold
<1>6. QED
  BY <1>5

(* f and e are the same on U.                                              *)
AgreeOn(f, S, e, T, U) == U \in SUBSET S /\ U \in SUBSET T /\ \A x \in U : f[x] = e[x]

(* Two such functions agree on the subsets on which their summands do.     *)
LEMMA FoldsAgree ==
  ASSUME NEW S, IsFiniteSet(S), NEW f, NEW g, IsFold(g, f, S),
         NEW T, IsFiniteSet(T), NEW e, NEW h, IsFold(h, e, T),
         NEW U, AgreeOn(f, S, e, T, U)
  PROVE  \A s \in SUBSET U : g[s] = h[s]
<1> USE DEF AgreeOn
<1> DEFINE Bad == {n \in Nat : \E s \in SUBSET U : Cardinality(s) = n /\ g[s] # h[s]}
<1>1. SUFFICES ASSUME Bad # {} PROVE FALSE
  <2>1. \A s \in SUBSET U : Cardinality(s) \in Nat
    BY FS_Subset, FS_CardinalityType
  <2>2. QED
    BY <2>1
<1>2. PICK m \in Bad : \A n \in Bad : m <= n
  <2>1. Bad \in SUBSET Nat
    OBVIOUS
  <2> HIDE DEF Bad
  <2>2. QED
    BY Zenon, <1>1, <2>1, MinIsLeast
<1>3. PICK s \in SUBSET U : Cardinality(s) = m /\ g[s] # h[s]
  OBVIOUS
<1>4. s \in SUBSET S /\ s \in SUBSET T
  OBVIOUS
<1>5. CASE s = {}
  BY <1>3, <1>4, <1>5 DEF IsFold
<1>6. CASE s # {}
  <2> DEFINE r == s \ {Some(s)}
  <2>1. Some(s) \in s /\ r \in SUBSET U /\ m \in Nat /\ Cardinality(r) = m - 1 /\ m - 1 \in Nat
    <3>1. /\ Some(s) \in s /\ Cardinality(s) \in Nat /\ Cardinality(s) - 1 \in Nat
          /\ \A x \in s : Cardinality(s \ {x}) = Cardinality(s) - 1
      BY <1>4, <1>6, SomeSmaller
    <3>2. QED
      BY <1>3, <3>1
  <2>2. g[s] = f[Some(s)] + g[r] /\ h[s] = e[Some(s)] + h[r]
    BY Zenon, <1>4, <1>6 DEF IsFold
  <2>3. f[Some(s)] = e[Some(s)]
    BY <2>1
  <2>4. m - 1 \notin Bad
    <3> HIDE DEF Bad
    <3>1. QED
      BY <1>2, <2>1
  <2>5. g[r] = h[r]
    BY <2>1, <2>4
  <2>6. QED
    BY <1>3, <2>2, <2>3, <2>5
<1>7. QED
  BY <1>5, <1>6

(* A sum of integers.                                                      *)
IntFold(g, f, S) ==
  /\ IsFiniteSet(S) /\ \A x \in S : f[x] \in Int
  /\ g \in [SUBSET S -> Int] /\ IsFold(g, f, S)

(* Its elements may be taken out in any order.                             *)
AnyOrder(g, f, S) == \A s \in SUBSET S : \A x \in s : g[s] = f[x] + g[s \ {x}]

(* The elements may be taken out in any order.                             *)
LEMMA FoldAnyElement ==
  ASSUME NEW S, NEW f, NEW g, IntFold(g, f, S)
  PROVE  AnyOrder(g, f, S)
<1> USE DEF IntFold, AnyOrder
<1> DEFINE Bad == {n \in Nat : \E s \in SUBSET S : Cardinality(s) = n /\
                                \E x \in s : g[s] # f[x] + g[s \ {x}]}
<1>1. SUFFICES ASSUME Bad # {} PROVE FALSE
  <2>1. \A s \in SUBSET S : Cardinality(s) \in Nat
    BY FS_Subset, FS_CardinalityType
  <2>2. QED
    BY Zenon, <2>1
<1>2. PICK m \in Bad : \A n \in Bad : m <= n
  <2>1. Bad \in SUBSET Nat
    OBVIOUS
  <2> HIDE DEF Bad
  <2>2. QED
    BY Zenon, <1>1, <2>1, MinIsLeast
<1>3. PICK s \in SUBSET S : Cardinality(s) = m /\ \E x \in s : g[s] # f[x] + g[s \ {x}]
  OBVIOUS
<1>4. PICK x \in s : g[s] # f[x] + g[s \ {x}]
  BY Zenon, <1>3
<1> DEFINE c == Some(s)
<1>5. /\ c \in s /\ m \in Nat /\ m - 1 \in Nat
      /\ Cardinality(s \ {x}) = m - 1 /\ Cardinality(s \ {c}) = m - 1
  <2>1. /\ Some(s) \in s /\ Cardinality(s) \in Nat /\ Cardinality(s) - 1 \in Nat
        /\ \A y \in s : Cardinality(s \ {y}) = Cardinality(s) - 1
    BY <1>4, SomeSmaller
  <2>2. QED
    BY <1>3, <2>1
<1>6. g[s] = f[c] + g[s \ {c}]
  BY Zenon, <1>4 DEF IsFold
<1>7. x # c
  BY Zenon, <1>4, <1>6
<1>8. m - 1 \notin Bad
  <2> HIDE DEF Bad, c
  <2>1. QED
    BY <1>2, <1>5
<1>9. g[s \ {c}] = f[x] + g[(s \ {c}) \ {x}]
  BY Zenon, <1>5, <1>7, <1>8
<1>10. g[s \ {x}] = f[c] + g[(s \ {x}) \ {c}]
  BY Zenon, <1>5, <1>7, <1>8
<1>11. (s \ {c}) \ {x} = (s \ {x}) \ {c}
  OBVIOUS
<1>12. /\ f[c] \in Int /\ f[x] \in Int /\ (s \ {c}) \ {x} \in SUBSET S
       /\ g[(s \ {c}) \ {x}] \in Int
  BY <1>5
<1> HIDE DEF c
<1>13. \A a, b, d \in Int : a + (b + d) = b + (a + d)
  OBVIOUS
<1>14. f[c] + (f[x] + g[(s \ {c}) \ {x}]) = f[x] + (f[c] + g[(s \ {c}) \ {x}])
  BY <1>12, <1>13
<1>15. QED
  BY <1>4, <1>6, <1>9, <1>10, <1>11, <1>14, Zenon

(* The sum of f over S.                                                    *)
SumOver(f, S) == MapThenSumSet(LAMBDA k : f[k], S)

(* MapThenSumSet is that function.                                         *)
LEMMA SumIsFold ==
  ASSUME NEW S, IsFiniteSet(S), NEW f, NEW g, IsFold(g, f, S)
  PROVE  SumOver(f, S) = g[S]
<1> DEFINE it == CHOOSE h : h = [s \in SUBSET S |->
                   IF s = {} THEN 0
                   ELSE f[CHOOSE x \in s : TRUE] + h[s \ {CHOOSE x \in s : TRUE}]]
<1>1. SumOver(f, S) = it[S]
  BY DEF SumOver, MapThenSumSet, MapThenFoldSet
<1>2. IsFold(it, f, S)
  BY Zenon DEF IsFold, Some
<1> HIDE DEF it
<1>3. AgreeOn(f, S, f, S, S)
  BY DEF AgreeOn
<1>4. \A s \in SUBSET S : it[s] = g[s]
  BY <1>2, <1>3, FoldsAgree
<1>5. QED
  BY <1>1, <1>4

(* What the sums below are over: finitely many whole numbers.              *)
Summable(f, S) == IsFiniteSet(S) /\ \A x \in S : f[x] \in Int

(* What can be summed can be summed in part.                               *)
LEMMA SummableSubset ==
  ASSUME NEW S, NEW f, Summable(f, S), NEW T \in SUBSET S
  PROVE  Summable(f, T)
  BY FS_Subset DEF Summable

(* All the sums over subsets come from one function.                       *)
LEMMA SumByFold ==
  ASSUME NEW S, NEW f, Summable(f, S)
  PROVE  \E g : IntFold(g, f, S) /\ \A s \in SUBSET S : SumOver(f, s) = g[s]
<1> USE DEF Summable
<1>1. PICK g \in [SUBSET S -> Int] : IsFold(g, f, S)
  BY Zenon, FoldExists
<1>2. ASSUME NEW s \in SUBSET S PROVE SumOver(f, s) = g[s]
  <2>1. IsFiniteSet(s) /\ \A x \in s : f[x] \in Int
    BY FS_Subset
  <2>2. PICK h \in [SUBSET s -> Int] : IsFold(h, f, s)
    BY Zenon, <2>1, FoldExists
  <2>3. SumOver(f, s) = h[s]
    BY <2>1, <2>2, SumIsFold
  <2>4. AgreeOn(f, s, f, S, s)
    BY DEF AgreeOn
  <2>5. \A u \in SUBSET s : h[u] = g[u]
    BY <1>1, <2>1, <2>2, <2>4, FoldsAgree
  <2>6. QED
    BY <2>3, <2>5
<1>3. IntFold(g, f, S)
  BY <1>1 DEF IntFold
<1>4. QED
  BY <1>2, <1>3

(* The empty sum.                                                          *)
LEMMA SumOfNone == \A f : SumOver(f, {}) = 0
<1>1. SUFFICES ASSUME NEW f PROVE SumOver(f, {}) = 0
  OBVIOUS
<1>2. Summable(f, {})
  BY FS_EmptySet DEF Summable
<1>3. PICK g : IntFold(g, f, {}) /\ \A s \in SUBSET {} : SumOver(f, s) = g[s]
  BY <1>2, SumByFold
<1>4. {} \in SUBSET {} /\ g[{}] = 0
  BY <1>3 DEF IntFold, IsFold
<1>5. QED
  BY <1>3, <1>4

(* A sum is an integer.                                                    *)
LEMMA SumType ==
  ASSUME NEW S, NEW f, Summable(f, S)
  PROVE  SumOver(f, S) \in Int
<1>1. PICK g : IntFold(g, f, S) /\ \A s \in SUBSET S : SumOver(f, s) = g[s]
  BY SumByFold
<1>2. S \in SUBSET S
  OBVIOUS
<1>3. QED
  BY <1>1, <1>2 DEF IntFold

(* A sum over one element less.                                            *)
LEMMA SumRemove ==
  ASSUME NEW S, NEW f, Summable(f, S), NEW x \in S
  PROVE  SumOver(f, S) = f[x] + SumOver(f, S \ {x})
<1>1. PICK g : IntFold(g, f, S) /\ \A s \in SUBSET S : SumOver(f, s) = g[s]
  BY SumByFold
<1>2. AnyOrder(g, f, S)
  BY <1>1, FoldAnyElement
<1>3. S \in SUBSET S /\ S \ {x} \in SUBSET S
  OBVIOUS
<1>4. g[S] = f[x] + g[S \ {x}]
  BY <1>2, <1>3 DEF AnyOrder
<1>5. QED
  BY <1>1, <1>3, <1>4, Zenon

(* A sum over one element more.                                            *)
LEMMA SumAdd ==
  ASSUME NEW S, NEW f, Summable(f, S), NEW x, x \notin S, f[x] \in Int
  PROVE  SumOver(f, S \cup {x}) = f[x] + SumOver(f, S)
<1>1. Summable(f, S \cup {x})
  BY FS_AddElement DEF Summable
<1>2. (S \cup {x}) \ {x} = S /\ x \in S \cup {x}
  OBVIOUS
<1> DEFINE T == S \cup {x}
<1> HIDE DEF T
<1>3. SumOver(f, T) = f[x] + SumOver(f, T \ {x})
  BY <1>1, <1>2, SumRemove DEF T
<1>4. QED
  BY <1>2, <1>3 DEF T

(* A sum depends on the summands of its own set only.                      *)
LEMMA SumAgree ==
  ASSUME NEW S, NEW f, Summable(f, S), NEW e, \A x \in S : e[x] = f[x]
  PROVE  SumOver(e, S) = SumOver(f, S)
<1>1. Summable(e, S)
  BY DEF Summable
<1>2. PICK g : IntFold(g, f, S) /\ \A s \in SUBSET S : SumOver(f, s) = g[s]
  BY SumByFold
<1>3. PICK h : IntFold(h, e, S) /\ \A s \in SUBSET S : SumOver(e, s) = h[s]
  BY <1>1, SumByFold
<1>4. AgreeOn(f, S, e, S, S)
  BY DEF AgreeOn
<1>5. IsFold(g, f, S) /\ IsFold(h, e, S) /\ IsFiniteSet(S)
  BY <1>2, <1>3 DEF IntFold
<1>6. \A s \in SUBSET S : g[s] = h[s]
  BY <1>4, <1>5, FoldsAgree
<1>7. S \in SUBSET S
  OBVIOUS
<1>8. QED
  BY <1>2, <1>3, <1>6, <1>7

(* A sum is the sum over a part and the sum over the rest.                 *)
LEMMA SumSplit ==
  ASSUME NEW S, NEW f, Summable(f, S), NEW T \in SUBSET S
  PROVE  SumOver(f, S) = SumOver(f, T) + SumOver(f, S \ T)
<1> DEFINE Whole == SumOver(f, S)
           Part(t) == SumOver(f, t)
           Splits(t) == Whole = Part(t) + Part(S \ t)
           Bad == {n \in Nat : \E t \in SUBSET S : Cardinality(t) = n /\ ~ Splits(t)}
<1>1. \A t \in SUBSET S : Summable(f, t) /\ Summable(f, S \ t) /\ IsFiniteSet(t)
                          /\ Cardinality(t) \in Nat /\ Part(t) \in Int
  <2>1. ASSUME NEW t \in SUBSET S PROVE Summable(f, t) /\ Summable(f, S \ t)
    <3>1. S \ t \in SUBSET S
      OBVIOUS
    <3>2. QED
      BY <3>1, SummableSubset
  <2>2. QED
    BY <2>1, FS_CardinalityType, SumType DEF Summable
<1>2. SUFFICES ASSUME Bad # {} PROVE FALSE
  <2> HIDE DEF Part, Whole
  <2>1. Bad = {} => Splits(T)
    BY Zenon, <1>1
  <2>2. QED
    BY <2>1 DEF Part, Whole
<1>3. PICK m \in Bad : \A n \in Bad : m <= n
  <2>1. Bad \in SUBSET Nat
    OBVIOUS
  <2> HIDE DEF Bad
  <2>2. QED
    BY Zenon, <1>2, <2>1, MinIsLeast
<1>4. PICK t \in SUBSET S : Cardinality(t) = m /\ ~ Splits(t)
  BY <1>3
<1>5. t # {}
  <2>1. Part({}) = 0 /\ Whole \in Int /\ Whole = Part(S \ {})
    <3>1. S \ {} = S
      OBVIOUS
    <3>2. QED
      BY <3>1, SumOfNone, SumType
  <2> HIDE DEF Part, Whole
  <2>2. QED
    BY <1>4, <2>1
<1>6. PICK x \in t : TRUE
  BY <1>5
<1> DEFINE r == t \ {x}
<1>7. r \in SUBSET S /\ S \ t = (S \ r) \ {x} /\ x \in S \ r
  OBVIOUS
<1>8. Part(t) = f[x] + Part(r)
  BY Zenon, <1>1, SumRemove
<1>9. Part(S \ r) = f[x] + Part(S \ t)
  <2>1. Summable(f, S \ r)
    BY Zenon, <1>1, <1>7
  <2> HIDE DEF r
  <2>2. Part(S \ r) = f[x] + Part((S \ r) \ {x})
    BY <1>7, <2>1, SumRemove
  <2>3. QED
    BY <1>7, <2>2
<1>10. Cardinality(r) = m - 1 /\ m \in Nat /\ m - 1 \in Nat
  <2>1. Cardinality(r) = m - 1 /\ m \in Nat /\ IsFiniteSet(t)
    BY Zenon, <1>1, <1>4, FS_RemoveElement
  <2>2. m # 0
    BY <1>4, <1>5, <2>1, FS_EmptySet
  <2>3. QED
    BY <2>1, <2>2
<1>11. m - 1 \notin Bad
  <2> HIDE DEF Bad
  <2>1. QED
    BY <1>3, <1>10
<1>12. Splits(r)
  <2> HIDE DEF Part, Whole, r
  <2>1. QED
    BY <1>7, <1>10, <1>11
<1>13. Part(r) \in Int /\ Part(S \ t) \in Int /\ f[x] \in Int
  <2>1. S \ t \in SUBSET S
    OBVIOUS
  <2>2. QED
    BY Zenon, <1>1, <1>7, <2>1 DEF Summable
<1> HIDE DEF Part, Whole, r
<1>14. QED
  BY <1>4, <1>8, <1>9, <1>12, <1>13

(* A sum of numbers that are not negative is not negative.                 *)
LEMMA SumNotNegative ==
  ASSUME NEW S, NEW f, Summable(f, S), \A x \in S : f[x] >= 0
  PROVE  SumOver(f, S) >= 0
<1> DEFINE Part(t) == SumOver(f, t)
           Bad == {n \in Nat : \E t \in SUBSET S : Cardinality(t) = n /\ ~ (Part(t) >= 0)}
<1>1. \A t \in SUBSET S : Summable(f, t) /\ IsFiniteSet(t) /\ Cardinality(t) \in Nat
                          /\ Part(t) \in Int
  BY SummableSubset, FS_CardinalityType, SumType DEF Summable
<1>2. SUFFICES ASSUME Bad # {} PROVE FALSE
  <2> HIDE DEF Part
  <2>1. S \in SUBSET S
    OBVIOUS
  <2>2. Bad = {} => Part(S) >= 0
    BY Zenon, <1>1, <2>1
  <2>3. QED
    BY <2>2 DEF Part
<1>3. PICK m \in Bad : \A n \in Bad : m <= n
  <2>1. Bad \in SUBSET Nat
    OBVIOUS
  <2> HIDE DEF Bad
  <2>2. QED
    BY Zenon, <1>2, <2>1, MinIsLeast
<1>4. PICK t \in SUBSET S : Cardinality(t) = m /\ ~ (Part(t) >= 0)
  BY <1>3
<1>5. t # {}
  <2>1. Part({}) = 0
    BY SumOfNone
  <2> HIDE DEF Part
  <2>2. QED
    BY <1>4, <2>1
<1>6. PICK x \in t : TRUE
  BY <1>5
<1> DEFINE r == t \ {x}
<1>7. r \in SUBSET S /\ f[x] \in Int /\ f[x] >= 0
  BY DEF Summable
<1>8. Part(t) = f[x] + Part(r)
  BY Zenon, <1>1, SumRemove
<1>9. Cardinality(r) = m - 1 /\ m \in Nat /\ m - 1 \in Nat
  <2>1. Cardinality(r) = m - 1 /\ m \in Nat /\ IsFiniteSet(t)
    BY Zenon, <1>1, <1>4, FS_RemoveElement
  <2>2. m # 0
    BY <1>4, <1>5, <2>1, FS_EmptySet
  <2>3. QED
    BY <2>1, <2>2
<1> HIDE DEF Part, r
<1>10. ~ (Part(r) >= 0)
  BY <1>1, <1>4, <1>7, <1>8
<1>11. m - 1 \in Bad
  BY <1>7, <1>9, <1>10
<1>12. QED
  BY <1>3, <1>9, <1>11

(* The sum over a part is at most the whole.                               *)
LEMMA SumOfPart ==
  ASSUME NEW S, NEW f, Summable(f, S), \A x \in S : f[x] >= 0, NEW T \in SUBSET S
  PROVE  SumOver(f, T) <= SumOver(f, S)
<1>1. Summable(f, T) /\ Summable(f, S \ T)
  BY SummableSubset
<1>2. SumOver(f, T) \in Int /\ SumOver(f, S \ T) \in Int
  BY <1>1, SumType
<1>3. SumOver(f, S \ T) >= 0
  BY <1>1, SumNotNegative
<1>4. SumOver(f, S) = SumOver(f, T) + SumOver(f, S \ T)
  BY SumSplit
<1>5. QED
  BY <1>2, <1>3, <1>4

-----------------------------------------------------------------------------
(* Lists without repetitions, and the prefix to drop from one.             *)

(* A list has the elements at its positions, and finitely many.            *)
LEMMA ListFacts ==
  ASSUME NEW T, NEW s \in Seq(T)
  PROVE  /\ Len(s) \in Nat /\ DOMAIN s = 1 .. Len(s)
         /\ Range(s) = {s[i] : i \in 1 .. Len(s)} /\ Range(s) \subseteq T
         /\ \A i \in 1 .. Len(s) : s[i] \in Range(s)
         /\ IsFiniteSet(Range(s))
<1>1. Len(s) \in Nat /\ DOMAIN s = 1 .. Len(s)
  BY LenFacts
<1>2. \A i \in 1 .. Len(s) : s[i] \in T
  BY ElementFacts
<1>3. IsFiniteSet(Range(s))
  BY DistinctSeqSize
<1>4. QED
  BY <1>1, <1>2, <1>3 DEF Range

(* Appending an element that is new keeps a list free of repetitions.      *)
LEMMA AppendNew ==
  ASSUME NEW T, NEW s \in Seq(T), NoRepeats(s), NEW x \in T, x \notin Range(s)
  PROVE  /\ Append(s, x) \in Seq(T) /\ NoRepeats(Append(s, x))
         /\ Range(Append(s, x)) = Range(s) \cup {x}
         /\ Len(Append(s, x)) = Len(s) + 1 /\ Append(s, x)[Len(s) + 1] = x
<1> DEFINE a == Append(s, x)
           n == Len(s)
<1>1. n \in Nat /\ Range(s) = {s[i] : i \in 1 .. n}
  BY ListFacts
<1>2. /\ a \in Seq(T) /\ Len(a) = n + 1 /\ a[n + 1] = x
      /\ \A i \in 1 .. n : a[i] = s[i]
  BY AppendedFacts
<1>3. Range(a) = {a[i] : i \in 1 .. (n + 1)}
  BY Zenon, <1>2, ListFacts
<1> HIDE DEF a, n
<1>4. \A i \in 1 .. (n + 1) : i = n + 1 \/ i \in 1 .. n
  BY <1>1
<1>5. Range(a) = Range(s) \cup {x}
  <2>1. n + 1 \in 1 .. (n + 1) /\ \A i \in 1 .. n : i \in 1 .. (n + 1)
    BY <1>1
  <2>2. QED
    BY Zenon, <1>1, <1>2, <1>3, <1>4, <2>1
<1>6. \A i \in 1 .. n : a[i] # x
  BY <1>1, <1>2
<1>7. \A i, j \in 1 .. n : a[i] = a[j] => i = j
  BY <1>2 DEF NoRepeats, n
<1>8. NoRepeats(a)
  BY <1>2, <1>4, <1>6, <1>7 DEF NoRepeats
<1>9. QED
  BY <1>2, <1>5, <1>8 DEF a, n

(* Taking the first element off the queue.                                 *)
LEMMA TakeFirst ==
  ASSUME NEW T, NEW s \in Seq(T), s # <<>>, NoRepeats(s)
  PROVE  /\ Head(s) \in Range(s) /\ Tail(s) \in Seq(T) /\ NoRepeats(Tail(s))
         /\ Range(Tail(s)) = Range(s) \ {Head(s)}
<1> DEFINE t == Tail(s)
           n == Len(s)
<1>1. n \in Nat \ {0} /\ Range(s) = {s[i] : i \in 1 .. n} /\ Head(s) = s[1]
  BY ListFacts, EmptyFacts
<1>2. t \in Seq(T) /\ Len(t) = n - 1 /\ \A i \in 1 .. (n - 1) : t[i] = s[i + 1]
  BY HeadTailFacts
<1>3. Range(t) = {t[i] : i \in 1 .. (n - 1)}
  BY Zenon, <1>2, ListFacts
<1>4. \A i, j \in 1 .. n : s[i] = s[j] => i = j
  BY DEF NoRepeats
<1> HIDE DEF t, n
<1>5. 1 \in 1 .. n /\ \A i \in 1 .. (n - 1) : i + 1 \in 1 .. n /\ i + 1 # 1
  BY <1>1
<1>6. \A i \in 1 .. n : i = 1 \/ (i - 1 \in 1 .. (n - 1) /\ s[i] = t[i - 1])
  BY <1>1, <1>2
<1>7. Range(t) \subseteq Range(s) \ {s[1]}
  <2>1. ASSUME NEW i \in 1 .. (n - 1) PROVE t[i] \in Range(s) /\ t[i] # s[1]
    <3>1. i + 1 \in 1 .. n /\ i + 1 # 1 /\ t[i] = s[i + 1]
      BY <1>2, <1>5
    <3>2. QED
      BY <1>1, <1>4, <1>5, <3>1
  <2>2. QED
    BY Zenon, <1>3, <2>1
<1>8. Range(s) \ {s[1]} \subseteq Range(t)
  <2>1. ASSUME NEW i \in 1 .. n, s[i] # s[1] PROVE s[i] \in Range(t)
    <3>1. i - 1 \in 1 .. (n - 1) /\ s[i] = t[i - 1]
      BY Zenon, <1>6, <2>1
    <3>2. QED
      BY Zenon, <1>3, <3>1
  <2>2. QED
    BY Zenon, <1>1, <2>1
<1>9. ASSUME NEW i \in 1 .. (n - 1), NEW j \in 1 .. (n - 1), t[i] = t[j] PROVE i = j
  <2>1. i + 1 = j + 1
    BY <1>2, <1>4, <1>5, <1>9
  <2>2. QED
    BY <1>1, <2>1
<1>10. QED
  BY <1>1, <1>2, <1>5, <1>7, <1>8, <1>9 DEF NoRepeats, t

(* A list cut in two.                                                      *)
LEMMA CutInTwo ==
  ASSUME NEW T, NEW s \in Seq(T), NoRepeats(s), NEW n \in 0 .. Len(s)
  PROVE  /\ SubSeq(s, 1, n) \in Seq(T) /\ Len(SubSeq(s, 1, n)) = n
         /\ SubSeq(s, n + 1, Len(s)) \in Seq(T) /\ NoRepeats(SubSeq(s, n + 1, Len(s)))
         /\ Range(SubSeq(s, 1, n)) \subseteq Range(s)
         /\ Range(SubSeq(s, n + 1, Len(s))) = Range(s) \ Range(SubSeq(s, 1, n))
         /\ (Len(s) - n = 1 => Range(SubSeq(s, n + 1, Len(s))) = {s[Len(s)]})
<1> DEFINE u == SubSeq(s, 1, n)
           v == SubSeq(s, n + 1, Len(s))
           m == Len(s)
<1>1. m \in Nat /\ Range(s) = {s[i] : i \in 1 .. m} /\ n \in Nat /\ n <= m
  BY ListFacts
<1>2. \A i \in 1 .. m : s[i] \in T
  BY ElementFacts
<1>3. u \in Seq(T) /\ Len(u) = n /\ \A i \in 1 .. n : u[i] = s[i]
  <2>1. u = [i \in 1 .. n |-> s[i]]
    BY <1>1
  <2> HIDE DEF u
  <2>2. u \in [1 .. n -> T]
    BY <1>1, <1>2, <2>1
  <2>3. QED
    BY <1>1, <2>1, <2>2, FunctionIsSeq
<1>4. v \in Seq(T) /\ Len(v) = m - n /\ \A i \in 1 .. (m - n) : v[i] = s[n + i]
  <2>1. v = [i \in 1 .. (m - n) |-> s[n + i]]
    BY <1>1
  <2>2. \A i \in 1 .. (m - n) : n + i \in 1 .. m
    BY <1>1
  <2> HIDE DEF v
  <2>3. v \in [1 .. (m - n) -> T]
    BY <1>2, <2>1, <2>2
  <2>4. m - n \in Nat
    BY <1>1
  <2>5. QED
    BY <2>1, <2>3, <2>4, FunctionIsSeq
<1> HIDE DEF u, v
<1>5. Range(u) = {u[i] : i \in 1 .. n} /\ Range(v) = {v[i] : i \in 1 .. (m - n)}
  BY Zenon, <1>3, <1>4, ListFacts
<1>6. \A i, j \in 1 .. m : s[i] = s[j] => i = j
  BY DEF NoRepeats
<1> HIDE DEF m
<1>7. /\ \A i \in 1 .. n : i \in 1 .. m
      /\ \A i \in 1 .. (m - n) : n + i \in 1 .. m /\ n + i \notin 1 .. n
      /\ \A i \in 1 .. m : i \in 1 .. n \/ (i - n \in 1 .. (m - n) /\ n + (i - n) = i)
  BY <1>1
<1>8. Range(u) \subseteq Range(s)
  BY <1>1, <1>3, <1>5, <1>7
<1>9. \A i \in 1 .. (m - n) : v[i] \in Range(s) \ Range(u)
  <2>1. SUFFICES ASSUME NEW i \in 1 .. (m - n) PROVE v[i] \in Range(s) /\ v[i] \notin Range(u)
    BY Zenon
  <2>2. n + i \in 1 .. m /\ n + i \notin 1 .. n /\ v[i] = s[n + i]
    BY <1>4, <1>7
  <2>3. \A j \in 1 .. n : u[j] # v[i]
    BY Zenon, <1>3, <1>6, <1>7, <2>2
  <2>4. QED
    BY Zenon, <1>1, <1>5, <2>2, <2>3
<1>10. \A i \in 1 .. m : s[i] \in Range(u) \/ s[i] \in Range(v)
  <2>1. SUFFICES ASSUME NEW i \in 1 .. m, i \notin 1 .. n PROVE s[i] \in Range(v)
    BY <1>3, <1>5
  <2>2. i - n \in 1 .. (m - n) /\ n + (i - n) = i
    BY <1>7, <2>1
  <2>3. v[i - n] = s[i]
    BY <1>4, <2>2
  <2>4. QED
    BY Zenon, <1>5, <2>2, <2>3
<1>11. Range(v) = Range(s) \ Range(u)
  BY Zenon, <1>1, <1>5, <1>9, <1>10
<1>12. NoRepeats(v)
  <2>1. ASSUME NEW i \in 1 .. (m - n), NEW j \in 1 .. (m - n), v[i] = v[j] PROVE i = j
    <3>1. n + i = n + j
      BY <1>4, <1>6, <1>7, <2>1
    <3>2. QED
      BY <1>1, <3>1
  <2>2. QED
    BY <1>4, <2>1 DEF NoRepeats
<1>13. ASSUME m - n = 1 PROVE Range(v) = {s[m]}
  <2>1. 1 .. (m - n) = {1} /\ n + 1 = m
    BY <1>1, <1>13
  <2>2. v[1] = s[m]
    BY <1>4, <2>1
  <2>3. QED
    BY Zenon, <1>5, <2>1, <2>2
<1>14. QED
  BY <1>3, <1>4, <1>8, <1>11, <1>12, <1>13 DEF u, v, m

(* The shortest prefix to take off the list s so that the rest, sized by   *)
(* f, is within cap or down to one element.                                *)
PrefixToDrop(f, cap, s) ==
  Min({i \in 0 .. Len(s) : \/ SumOver(f, Range(s)) - SumOver(f, Range(SubSeq(s, 1, i))) <= cap
                           \/ Len(s) - i <= 1})

(* It leaves the last element, and drops nothing from a list that fits.    *)
LEMMA PrefixFacts ==
  ASSUME NEW T, NEW f, \A x \in T : f[x] \in Int, NEW s \in Seq(T), Len(s) # 0, NEW cap,
         NEW n, n = PrefixToDrop(f, cap, s)
  PROVE  /\ n \in 0 .. Len(s) /\ n <= Len(s) - 1
         /\ \/ SumOver(f, Range(s)) - SumOver(f, Range(SubSeq(s, 1, n))) <= cap
            \/ Len(s) - n = 1
         /\ SumOver(f, Range(s)) <= cap => n = 0
<1> DEFINE L == Len(s)
           left(i) == SumOver(f, Range(s)) - SumOver(f, Range(SubSeq(s, 1, i)))
           N == {i \in 0 .. L : left(i) <= cap \/ L - i <= 1}
<1>1. n = Min(N)
  BY DEF PrefixToDrop
<1>2. L \in Nat \ {0}
  BY ListFacts
<1>3. left(0) = SumOver(f, Range(s))
  <2>1. SubSeq(s, 1, 0) = <<>> /\ Range(<<>>) = {}
    BY DEF Range
  <2>2. IsFiniteSet(Range(s)) /\ Range(s) \subseteq T
    BY ListFacts
  <2>3. Summable(f, Range(s))
    BY <2>2 DEF Summable
  <2>4. SumOver(f, Range(s)) \in Int
    BY <2>3, SumType
  <2>5. SumOver(f, Range(SubSeq(s, 1, 0))) = 0
    BY Zenon, <2>1, SumOfNone
  <2> HIDE DEF L
  <2>6. QED
    BY <2>4, <2>5
<1> HIDE DEF left, L
<1>4. N \in SUBSET Nat /\ L - 1 \in N
  BY <1>2
<1>5. n \in N /\ \A i \in N : n <= i
  <2> HIDE DEF N
  <2>1. QED
    BY <1>1, <1>4, MinIsLeast
<1>6. n \in 0 .. L /\ n <= L - 1 /\ (left(n) <= cap \/ L - n <= 1)
  BY <1>4, <1>5
<1>7. L - n <= 1 => L - n = 1
  BY <1>2, <1>6
<1>8. left(0) <= cap => n = 0
  <2>1. left(0) <= cap => 0 \in N
    BY <1>2
  <2>2. 0 \in N => n <= 0
    BY <1>5
  <2>3. QED
    BY <1>6, <2>1, <2>2
<1>9. QED
  BY <1>3, <1>6, <1>7, <1>8 DEF L, left

-----------------------------------------------------------------------------
(* The pool.                                                               *)

(* The eviction loop pops a prefix of the order; when some entry has the   *)
(* right length the last one popped has it.                                *)
LEMMA PopCountInRange ==
  ASSUME PoolTypeOK, NEW len \in Lengths
  PROVE  /\ PopCount(len) \in 0 .. Len(lru)
         /\ SameLength(len) # {} =>
              /\ PopCount(len) \in DOMAIN lru
              /\ entries[lru[PopCount(len)]].len = len
<1>1. lru \in Seq(Keys) /\ Len(lru) \in Nat /\ DOMAIN lru = 1 .. Len(lru)
  BY LenFacts DEF PoolTypeOK
<1>2. CASE SameLength(len) = {}
  BY <1>1, <1>2 DEF PopCount
<1>3. CASE SameLength(len) # {}
  <2>1. SameLength(len) \in SUBSET Nat
    BY <1>1 DEF SameLength
  <2>2. Min(SameLength(len)) \in SameLength(len)
    BY <1>3, <2>1, MinIsLeast
  <2>3. PopCount(len) \in SameLength(len)
    BY Zenon, <1>3, <2>2 DEF PopCount
  <2>4. PopCount(len) \in DOMAIN lru /\ entries[lru[PopCount(len)]].len = len
    BY Zenon, <2>3 DEF SameLength
  <2>5. \A i \in 1 .. Len(lru) : i \in 0 .. Len(lru)
    BY <1>1
  <2>6. QED
    BY Zenon, <1>1, <2>4, <2>5
<1>4. QED
  BY <1>2, <1>3

(* Arithmetic: between n and n + 1 there is no room.                       *)
LEMMA NothingBeyond ==
  ASSUME NEW m \in Nat, NEW n \in Nat, n <= m, ~ (n + 1 <= m)
  PROVE  m - n = 0
  OBVIOUS

(* Popping the first n entries and appending a new key keeps the order and *)
(* the mapping of the OrderedDict in step.                                 *)
LEMMA InsertKeepsOrder ==
  ASSUME PoolTypeOK, OrderListsEntries,
         NEW key \in Keys, key \notin Live,
         NEW len \in Lengths, NEW off \in 0 .. Capacity,
         NEW n \in 0 .. Len(lru), NEW victims,
         victims = {lru[i] : i \in 1 .. n},
         Insert(key, off, len, victims, n)
  PROVE  /\ entries' \in [Keys -> Block \cup {NoEntry}]
         /\ lru' \in Seq(Keys)
         /\ OrderListsEntries'
         /\ Live' = (Live \ victims) \cup {key}
<1>1. lru \in Seq(Keys) /\ Len(lru) \in Nat /\ DOMAIN lru = 1 .. Len(lru)
  BY LenFacts DEF PoolTypeOK
<1>2. /\ n \in Nat /\ n <= Len(lru)
      /\ \A i \in 1 .. Len(lru) : lru[i] \in Live
  BY <1>1 DEF OrderListsEntries
<1> DEFINE rest == SubSeq(lru, n + 1, Len(lru))
<1>3. /\ rest \in Seq(Keys)
      /\ Len(rest) = Len(lru) - n
      /\ \A i \in 1 .. (Len(lru) - n) : rest[i] = lru[n + i]
  <2>1. \A i \in (n + 1) .. Len(lru) : lru[i] \in Keys
    BY <1>1
  <2>2. /\ rest \in Seq(Keys)
        /\ Len(rest) = IF n + 1 <= Len(lru) THEN Len(lru) - (n + 1) + 1 ELSE 0
        /\ \A i \in 1 .. (Len(lru) - (n + 1) + 1) : rest[i] = lru[n + 1 + i - 1]
    BY <1>1, <2>1, SubSeqFacts
  <2> HIDE DEF rest
  <2>3. Len(rest) = Len(lru) - n
    <3>1. CASE n + 1 <= Len(lru)
      <4>1. Len(rest) = Len(lru) - (n + 1) + 1
        BY <2>2, <3>1
      <4>2. Len(lru) - (n + 1) + 1 = Len(lru) - n
        BY <1>1
      <4>3. QED
        BY <4>1, <4>2
    <3>2. CASE ~ (n + 1 <= Len(lru))
      <4>1. Len(rest) = 0
        BY <2>2, <3>2
      <4>2. Len(lru) - n = 0
        BY Zenon, <1>1, <1>2, <3>2, NothingBeyond
      <4>3. QED
        BY <4>1, <4>2
    <3>3. QED
      BY <3>1, <3>2
  <2>4. ASSUME NEW i \in 1 .. (Len(lru) - n) PROVE rest[i] = lru[n + i]
    <3>1. i \in 1 .. (Len(lru) - (n + 1) + 1) /\ n + 1 + i - 1 = n + i
      BY <1>1
    <3>2. rest[i] = lru[n + 1 + i - 1]
      BY <2>2, <3>1
    <3>3. QED
      BY <3>1, <3>2
  <2>5. QED
    BY <2>2, <2>3, <2>4
<1> HIDE DEF rest
<1>4. lru' = Append(rest, key)
  BY DEF Insert, rest
<1>5. /\ lru' \in Seq(Keys)
      /\ Len(lru') = Len(lru) - n + 1
      /\ DOMAIN lru' = 1 .. (Len(lru) - n + 1)
      /\ \A i \in 1 .. (Len(lru) - n) : lru'[i] = lru[n + i]
      /\ lru'[Len(lru) - n + 1] = key
  BY <1>1, <1>3, <1>4, AppendedFacts, LenFacts
<1>6. entries' \in [Keys -> Block \cup {NoEntry}]
  BY DEF Insert, PoolTypeOK, Block
<1>7. Live' = (Live \ victims) \cup {key}
  BY PoolAssumption DEF Insert, PoolTypeOK, Block, Live
<1>8. \A i, j \in DOMAIN lru' : lru'[i] = lru'[j] => i = j
  <2> SUFFICES ASSUME NEW i \in DOMAIN lru', NEW j \in DOMAIN lru', lru'[i] = lru'[j]
               PROVE  i = j
    OBVIOUS
  <2>1. CASE i <= Len(lru) - n /\ j <= Len(lru) - n
    <3>0. i \in 1 .. (Len(lru) - n) /\ j \in 1 .. (Len(lru) - n)
      BY <1>1, <1>5, <2>1
    <3>1. n + i \in DOMAIN lru /\ n + j \in DOMAIN lru /\ lru[n + i] = lru[n + j]
      <4>1. lru'[i] = lru[n + i] /\ lru'[j] = lru[n + j]
        BY <1>5, <3>0
      <4>2. n + i \in 1 .. Len(lru) /\ n + j \in 1 .. Len(lru)
        BY <1>1, <3>0
      <4>3. QED
        BY Zenon, <1>1, <4>1, <4>2
    <3>2. n + i = n + j
      BY <3>1 DEF OrderListsEntries
    <3>3. QED
      BY <1>1, <1>5, <3>2
  <2>2. CASE i = Len(lru) - n + 1 /\ j <= Len(lru) - n
    BY <1>1, <1>2, <1>5, <2>2
  <2>3. CASE j = Len(lru) - n + 1 /\ i <= Len(lru) - n
    BY <1>1, <1>2, <1>5, <2>3
  <2>4. QED
    BY <1>1, <1>5, <2>1, <2>2, <2>3
<1>9. Live' = {lru'[i] : i \in DOMAIN lru'}
  <2>1. ASSUME NEW k \in Live' PROVE k \in {lru'[i] : i \in DOMAIN lru'}
    <3>1. CASE k = key
      BY <1>1, <1>5, <3>1
    <3>2. CASE k \in Live \ victims
      <4>1. PICK i \in DOMAIN lru : k = lru[i]
        BY <3>2 DEF OrderListsEntries
      <4>2. i > n
        BY <1>1, <3>2, <4>1
      <4>3. i - n \in 1 .. (Len(lru) - n) /\ lru'[i - n] = lru[n + (i - n)]
        BY <1>1, <1>5, <4>2
      <4>4. QED
        BY <1>1, <1>5, <4>1, <4>3
    <3>3. QED
      BY <1>7, <2>1, <3>1, <3>2
  <2>2. ASSUME NEW i \in DOMAIN lru' PROVE lru'[i] \in Live'
    <3>1. CASE i = Len(lru) - n + 1
      BY <1>5, <1>7, <3>1
    <3>2. CASE i <= Len(lru) - n
      <4>1. lru'[i] = lru[n + i] /\ n + i \in DOMAIN lru /\ n + i > n
        BY <1>1, <1>5, <3>2
      <4>2. lru[n + i] \notin victims
        BY <1>1, <4>1 DEF OrderListsEntries
      <4>3. QED
        BY <1>1, <1>2, <1>7, <4>1, <4>2
    <3>3. QED
      BY <1>1, <1>5, <3>1, <3>2
  <2>3. QED
    BY <2>1, <2>2
<1>10. QED
  BY Zenon, <1>5, <1>6, <1>7, <1>8, <1>9 DEF OrderListsEntries

(* The position a resident key has in the order.                           *)
LEMMA PositionOf ==
  ASSUME PoolTypeOK, OrderListsEntries, NEW key \in Live,
         NEW i, i = CHOOSE j \in DOMAIN lru : lru[j] = key
  PROVE  /\ Len(lru) \in Nat
         /\ DOMAIN lru = 1 .. Len(lru)
         /\ \A j \in 1 .. Len(lru) : lru[j] \in Keys
         /\ i \in 1 .. Len(lru)
         /\ lru[i] = key
<1>1. lru \in Seq(Keys) /\ Len(lru) \in Nat /\ DOMAIN lru = 1 .. Len(lru)
  BY LenFacts DEF PoolTypeOK
<1>2. \E j \in DOMAIN lru : lru[j] = key
  BY DEF OrderListsEntries
<1>3. QED
  BY <1>1, <1>2, ElementFacts

(* move_to_end permutes the order.                                         *)
LEMMA TouchKeepsOrder ==
  ASSUME PoolTypeOK, OrderListsEntries, NEW key \in Keys, Touch(key)
  PROVE  /\ lru' \in Seq(Keys)
         /\ OrderListsEntries'
<1> DEFINE i == CHOOSE j \in DOMAIN lru : lru[j] = key
           n == Len(lru)
<1>1. /\ n \in Nat /\ DOMAIN lru = 1 .. n
      /\ \A j \in 1 .. n : lru[j] \in Keys
      /\ i \in 1 .. n /\ lru[i] = key
  BY PositionOf DEF Touch
<1>2. lru' = [j \in 1 .. n |-> IF j < i THEN lru[j] ELSE IF j < n THEN lru[j + 1] ELSE key]
  BY <1>1 DEF Touch, MoveToEnd
<1>3. \A j, k \in 1 .. n : lru[j] = lru[k] => j = k
  BY <1>1 DEF OrderListsEntries
<1>4. Live = {lru[j] : j \in 1 .. n} /\ Live' = Live
  BY <1>1 DEF OrderListsEntries, Touch, Live
<1> HIDE DEF i, n
<1>5. lru' \in [1 .. n -> Keys]
  BY <1>1, <1>2
<1>6. lru' \in Seq(Keys) /\ DOMAIN lru' = 1 .. n
  BY <1>1, <1>5, FunctionIsSeq
<1>7. ASSUME NEW j \in 1 .. n, NEW k \in 1 .. n, lru'[j] = lru'[k]
      PROVE  j = k
  <2>1. \A x \in 1 .. n : x # n => x + 1 \in 1 .. n
    BY <1>1
  <2>2. ASSUME NEW x \in 1 .. n, x < n
        PROVE  lru'[x] = (IF x < i THEN lru[x] ELSE lru[x + 1]) /\ lru'[x] # key
    BY <1>1, <1>2, <1>3, <2>1, <2>2
  <2>3. lru'[n] = key
    BY <1>1, <1>2
  <2>4. CASE j < n /\ k < n
    BY <1>1, <1>3, <1>7, <2>1, <2>2, <2>4
  <2>5. CASE j = n \/ k = n
    BY <1>1, <1>7, <2>2, <2>3, <2>5
  <2>6. QED
    BY <1>1, <2>4, <2>5
<1>8. ASSUME NEW k \in Live PROVE \E j \in 1 .. n : lru'[j] = k
  <2>1. PICK x \in 1 .. n : lru[x] = k
    BY <1>4
  <2>2. CASE x < i
    BY <1>1, <1>2, <2>1, <2>2
  <2>3. CASE x = i
    BY <1>1, <1>2, <2>1, <2>3
  <2>4. CASE x > i
    <3>1. x - 1 \in 1 .. n /\ ~ (x - 1 < i) /\ x - 1 < n /\ (x - 1) + 1 = x
      BY <1>1, <2>4
    <3>2. lru'[x - 1] = lru[x]
      BY <1>2, <3>1
    <3>3. QED
      BY <2>1, <3>1, <3>2
  <2>5. QED
    BY <1>1, <2>2, <2>3, <2>4
<1>9. \A j \in 1 .. n : lru'[j] \in Live
  BY <1>1, <1>2, <1>4
<1>10. Live' = {lru'[j] : j \in DOMAIN lru'}
  BY Zenon, <1>4, <1>6, <1>8, <1>9
<1>11. QED
  BY <1>6, <1>7, <1>10 DEF OrderListsEntries

(* remove takes one key out of the order and out of the mapping.           *)
LEMMA RemoveKeepsOrder ==
  ASSUME PoolTypeOK, OrderListsEntries, NEW key \in Keys, Remove(key)
  PROVE  /\ lru' \in Seq(Keys)
         /\ OrderListsEntries'
         /\ Live' = Live \ {key}
<1> DEFINE i == CHOOSE j \in DOMAIN lru : lru[j] = key
           n == Len(lru)
<1>1. /\ n \in Nat /\ DOMAIN lru = 1 .. n
      /\ \A j \in 1 .. n : lru[j] \in Keys
      /\ i \in 1 .. n /\ lru[i] = key
  BY PositionOf DEF Remove
<1>2. lru' = [j \in 1 .. (n - 1) |-> IF j < i THEN lru[j] ELSE lru[j + 1]]
  BY DEF Remove
<1>3. \A j, k \in 1 .. n : lru[j] = lru[k] => j = k
  BY <1>1 DEF OrderListsEntries
<1>4. Live = {lru[j] : j \in 1 .. n} /\ Live' = Live \ {key}
  BY Zenon, <1>1 DEF OrderListsEntries, Remove, Live, PoolTypeOK
<1> HIDE DEF i, n
<1>5. /\ n - 1 \in Nat
      /\ \A j \in 1 .. (n - 1) : j \in 1 .. n /\ j + 1 \in 1 .. n
  BY <1>1
<1>6. lru' \in [1 .. (n - 1) -> Keys]
  BY <1>1, <1>2, <1>5
<1>7. lru' \in Seq(Keys) /\ DOMAIN lru' = 1 .. (n - 1)
  BY <1>5, <1>6, FunctionIsSeq
<1>8. ASSUME NEW j \in 1 .. (n - 1)
      PROVE  lru'[j] = (IF j < i THEN lru[j] ELSE lru[j + 1]) /\ lru'[j] # key
  BY <1>1, <1>2, <1>3, <1>5
<1>9. ASSUME NEW j \in 1 .. (n - 1), NEW k \in 1 .. (n - 1), lru'[j] = lru'[k]
      PROVE  j = k
  BY <1>1, <1>3, <1>5, <1>8, <1>9
<1>10. ASSUME NEW k \in Live \ {key} PROVE \E j \in 1 .. (n - 1) : lru'[j] = k
  <2>1. PICK x \in 1 .. n : lru[x] = k
    BY <1>4
  <2>2. CASE x < i
    BY <1>1, <1>2, <2>1, <2>2
  <2>3. CASE x > i
    <3>1. x - 1 \in 1 .. (n - 1) /\ ~ (x - 1 < i) /\ (x - 1) + 1 = x
      BY <1>1, <2>3
    <3>2. lru'[x - 1] = lru[x]
      BY <1>2, <3>1
    <3>3. QED
      BY <2>1, <3>1, <3>2
  <2>4. QED
    BY <1>1, <1>10, <2>1, <2>2, <2>3
<1>11. \A j \in 1 .. (n - 1) : lru'[j] \in Live \ {key}
  BY <1>1, <1>4, <1>5, <1>8
<1>12. Live' = {lru'[j] : j \in DOMAIN lru'}
  BY Zenon, <1>4, <1>7, <1>10, <1>11
<1>13. QED
  BY Zenon, <1>4, <1>7, <1>9, <1>12 DEF OrderListsEntries

(* The fields of a block.                                                  *)
LEMMA BlockFields ==
  ASSUME NEW b \in Block
  PROVE  /\ b.off \in 0 .. Capacity /\ b.off \in Nat
         /\ b.len \in Lengths /\ b.len \in Nat \ {0}
<1>1. b.off \in 0 .. Capacity /\ b.len \in Lengths
  BY DEF Block
<1>2. b.off \in Nat
  BY <1>1
<1>3. b.len \in Nat \ {0}
  BY <1>1, PoolAssumption, Zenon
<1>4. QED
  BY <1>1, <1>2, <1>3

(* An empty pool.                                                          *)
LEMMA InitPoolInv == PoolInit => PoolInv
<1> SUFFICES ASSUME PoolInit PROVE PoolInv
  OBVIOUS
<1>1. Live = {} /\ FreeBlocks = {}
  BY PoolAssumption DEF PoolInit, Live, FreeBlocks, Block
<1>2. PoolTypeOK
  BY PoolAssumption, EmptyFacts DEF PoolInit, PoolTypeOK
<1>3. DOMAIN lru = {}
  BY DEF PoolInit
<1>4. QED
  BY <1>1, <1>2, <1>3 DEF PoolInv, OrderListsEntries, NoOverlap

-----------------------------------------------------------------------------
(* What the two kinds of step do to the blocks of the region.              *)

(* key is given the block nb while the keys in victims lose theirs.  nb is *)
(* apart from every page that stays and every block that stays free; what  *)
(* is free afterwards was free or a victim's before; and no block is lost. *)
Places(key, nb, victims) ==
  /\ key \in Keys \ Live /\ nb \in Block /\ victims \subseteq Live
  /\ nextOffset' \in 0 .. Capacity
  /\ nextOffset <= nextOffset'
  /\ nb.off + nb.len <= nextOffset'
  /\ Live' = (Live \ victims) \cup {key}
  /\ entries'[key] = nb
  /\ \A k \in Live \ victims : entries'[k] = entries[k] /\ Apart(entries[k], nb)
  /\ \A b \in FreeBlocks' :
       Apart(nb, b) /\ (b \in FreeBlocks \/ \E v \in victims : b = entries[v])
  /\ \A b \in FreeBlocks : b = nb \/ b \in FreeBlocks'
  /\ \A v \in victims : entries[v] = nb \/ entries[v] \in FreeBlocks'
  /\ \A x \in nextOffset .. (nextOffset' - 1) : x \in Bytes(nb)

(* The keys in victims lose their blocks to the free lists.                *)
Frees(victims) ==
  /\ victims \subseteq Live
  /\ nextOffset' = nextOffset
  /\ Live' = Live \ victims
  /\ \A k \in Live \ victims : entries'[k] = entries[k]
  /\ \A b \in FreeBlocks' : b \in FreeBlocks \/ \E v \in victims : b = entries[v]
  /\ FreeBlocks \subseteq FreeBlocks'
  /\ \A v \in victims : entries[v] \in FreeBlocks'

(* Placing a page in a block that was free, or its victims', overlaps with *)
(* nothing.                                                                *)
LEMMA PlacingKeepsNoOverlap ==
  ASSUME PoolInv, NEW key, NEW nb, NEW victims, Places(key, nb, victims)
  PROVE  NoOverlap'
<1>1. \A k \in Live : entries[k] \in Block
  BY DEF PoolInv, PoolTypeOK, Live
<1>2. \A b \in Block : b.off \in Nat /\ b.len \in Nat
  BY BlockFields
<1>3. nextOffset \in Nat /\ nextOffset' \in Nat /\ \A b \in FreeBlocks : b \in Block
  BY DEF PoolInv, PoolTypeOK, Places, FreeBlocks
<1>4. \A k \in Live' : entries'[k].off + entries'[k].len <= nextOffset'
  BY <1>1, <1>2, <1>3 DEF PoolInv, NoOverlap, Places
<1>5. \A b \in FreeBlocks' : b.off + b.len <= nextOffset'
  BY <1>1, <1>2, <1>3 DEF PoolInv, NoOverlap, Places
<1>6. \A j, k \in Live' : j # k => Apart(entries'[j], entries'[k])
  BY <1>1, <1>2 DEF PoolInv, NoOverlap, Apart, Places
<1>7. \A k \in Live', b \in FreeBlocks' : Apart(entries'[k], b)
  BY <1>1, <1>2 DEF PoolInv, NoOverlap, Apart, Places
<1>8. \A a, b \in FreeBlocks' : a # b => Apart(a, b)
  BY <1>1, <1>2, <1>3 DEF PoolInv, NoOverlap, Apart, Places
<1>9. QED
  BY <1>4, <1>5, <1>6, <1>7, <1>8 DEF NoOverlap, Apart

(* Turning pages into free blocks overlaps with nothing.                   *)
LEMMA FreeingKeepsNoOverlap ==
  ASSUME PoolInv, NEW victims, Frees(victims)
  PROVE  NoOverlap'
<1>1. \A k \in Live : entries[k] \in Block
  BY DEF PoolInv, PoolTypeOK, Live
<1>2. \A b \in Block : b.off \in Nat /\ b.len \in Nat
  BY BlockFields
<1>3. /\ \A k \in Live' : entries'[k].off + entries'[k].len <= nextOffset'
      /\ \A b \in FreeBlocks' : b.off + b.len <= nextOffset'
  BY <1>1, <1>2 DEF PoolInv, NoOverlap, Frees
<1>4. \A j, k \in Live' : j # k => Apart(entries'[j], entries'[k])
  BY <1>1, <1>2 DEF PoolInv, NoOverlap, Apart, Frees
<1>5. \A k \in Live', b \in FreeBlocks' : Apart(entries'[k], b)
  BY <1>1, <1>2 DEF PoolInv, NoOverlap, Apart, Frees
<1>6. \A a, b \in FreeBlocks' : a # b => Apart(a, b)
  BY <1>1, <1>2 DEF PoolInv, NoOverlap, Apart, Frees
<1>7. QED
  BY <1>3, <1>4, <1>5, <1>6 DEF NoOverlap, Apart

(* The shape every allocation leaves the state in.                         *)
Shape ==
  /\ free \in [Lengths -> SUBSET (0 .. Capacity)]
  /\ entries \in [Keys -> Block \cup {NoEntry}]
  /\ lru \in Seq(Keys)
  /\ OrderListsEntries

(* _alloc from a free list places the page.                                *)
LEMMA TakeFreePlaces ==
  ASSUME PoolInv, NEW key \in Keys, key \notin Live, NEW len \in Lengths,
         TakeFree(key, len)
  PROVE  Shape' /\ \E nb, victims : Places(key, nb, victims)
<1>1. PICK off \in free[len] :
        /\ free' = [free EXCEPT ![len] = @ \ {off}]
        /\ Insert(key, off, len, {}, 0)
  BY Zenon DEF TakeFree
<1> DEFINE nb == [off |-> off, len |-> len]
<1>2. off \in 0 .. Capacity /\ nb \in Block /\ nb \in FreeBlocks
  BY DEF PoolInv, PoolTypeOK, Block, FreeBlocks
<1>3. 0 \in 0 .. Len(lru) /\ {} = {lru[i] : i \in 1 .. 0}
  BY LenFacts DEF PoolInv, PoolTypeOK
<1>4. /\ entries' \in [Keys -> Block \cup {NoEntry}]
      /\ lru' \in Seq(Keys) /\ OrderListsEntries'
      /\ Live' = (Live \ {}) \cup {key}
  BY <1>1, <1>2, <1>3, InsertKeepsOrder DEF PoolInv
<1>5. free' \in [Lengths -> SUBSET (0 .. Capacity)]
  BY <1>1 DEF PoolInv, PoolTypeOK
<1>6. entries'[key] = nb /\ \A k \in Live : entries'[k] = entries[k]
  BY <1>1 DEF Insert, Live
<1>7. FreeBlocks' = FreeBlocks \ {nb}
  BY <1>1, <1>2, PoolAssumption DEF PoolInv, PoolTypeOK, FreeBlocks, Block
<1>8. \A k \in Live : Apart(entries[k], nb)
  BY <1>2 DEF PoolInv, NoOverlap
<1>9. \A b \in FreeBlocks' : Apart(nb, b)
  BY <1>2, <1>7 DEF PoolInv, NoOverlap
<1>10. nextOffset' = nextOffset /\ nextOffset \in 0 .. Capacity
  BY DEF TakeFree, PoolInv, PoolTypeOK
<1>11. nb.off + nb.len <= nextOffset
  BY <1>2 DEF PoolInv, NoOverlap
<1> HIDE DEF nb
<1>12. nextOffset .. (nextOffset - 1) = {}
  BY <1>10
<1>13. Places(key, nb, {})
  BY <1>2, <1>4, <1>6, <1>7, <1>8, <1>9, <1>10, <1>11, <1>12 DEF Places
<1>14. QED
  BY <1>4, <1>5, <1>13 DEF Shape

(* _alloc by bumping the high-water mark places the page.                  *)
LEMMA BumpPlaces ==
  ASSUME PoolInv, NEW key \in Keys, key \notin Live, NEW len \in Lengths,
         Bump(key, len)
  PROVE  Shape' /\ \E nb, victims : Places(key, nb, victims)
<1> DEFINE nb == [off |-> nextOffset, len |-> len]
<1>1. nextOffset \in 0 .. Capacity /\ len \in Nat \ {0}
  BY PoolAssumption DEF PoolInv, PoolTypeOK
<1>2. nb \in Block
  BY <1>1 DEF Block
<1>3. 0 \in 0 .. Len(lru) /\ {} = {lru[i] : i \in 1 .. 0}
  BY LenFacts DEF PoolInv, PoolTypeOK
<1>4. /\ entries' \in [Keys -> Block \cup {NoEntry}]
      /\ lru' \in Seq(Keys) /\ OrderListsEntries'
      /\ Live' = (Live \ {}) \cup {key}
  BY <1>1, <1>3, InsertKeepsOrder DEF PoolInv, Bump
<1>5. free' \in [Lengths -> SUBSET (0 .. Capacity)] /\ FreeBlocks' = FreeBlocks
  BY DEF PoolInv, PoolTypeOK, Bump, FreeBlocks
<1>6. entries'[key] = nb /\ \A k \in Live : entries'[k] = entries[k]
  BY DEF Insert, Live, Bump
<1>7. \A k \in Live : Apart(entries[k], nb)
  BY Zenon DEF PoolInv, NoOverlap, Apart
<1>8. \A b \in FreeBlocks : Apart(nb, b)
  BY DEF PoolInv, NoOverlap, Apart
<1>9. nextOffset' \in 0 .. Capacity /\ nextOffset <= nextOffset' /\ nb.off + nb.len <= nextOffset'
  BY <1>1, PoolAssumption DEF Bump
<1>10. \A x \in nextOffset .. (nextOffset' - 1) : x \in Bytes(nb)
  BY <1>1 DEF Bump, Bytes
<1> HIDE DEF nb
<1>11. Places(key, nb, {})
  BY Zenon, <1>2, <1>4, <1>5, <1>6, <1>7, <1>8, <1>9, <1>10 DEF Places
<1>12. QED
  BY <1>4, <1>5, <1>11 DEF Shape

(* What popping resident keys adds to the free lists.                      *)
LEMMA FreedByBlocks ==
  ASSUME PoolInv, NEW victims \in SUBSET Live
  PROVE  /\ FreedBy(victims) \in [Lengths -> SUBSET (0 .. Capacity)]
         /\ \A b \in Block : b.off \in FreedBy(victims)[b.len]
              <=> b \in FreeBlocks \/ \E v \in victims : b = entries[v]
<1>1. \A k \in Live : entries[k] \in Block
  BY DEF PoolInv, PoolTypeOK, Live
<1>2. \A v \in victims : entries[v].off \in 0 .. Capacity
  BY <1>1, BlockFields
<1>3. FreedBy(victims) \in [Lengths -> SUBSET (0 .. Capacity)]
  BY <1>2 DEF FreedBy, PoolInv, PoolTypeOK
<1>4. ASSUME NEW b \in Block
      PROVE  b.off \in FreedBy(victims)[b.len]
               <=> b \in FreeBlocks \/ \E v \in victims : b = entries[v]
  <2>1. b.len \in Lengths
    BY BlockFields
  <2>2. b.off \in FreedBy(victims)[b.len]
          <=> \/ b.off \in free[b.len]
              \/ \E v \in victims : entries[v].len = b.len /\ entries[v].off = b.off
    BY <2>1 DEF FreedBy
  <2>3. \A v \in victims : entries[v].len = b.len /\ entries[v].off = b.off <=> b = entries[v]
    BY <1>1 DEF Block
  <2>4. QED
    BY <2>2, <2>3 DEF FreeBlocks
<1>5. QED
  BY <1>3, <1>4

(* The victims of the eviction loop are resident.                          *)
LEMMA VictimsLive ==
  ASSUME PoolInv, NEW len \in Lengths
  PROVE  /\ PopCount(len) \in 0 .. Len(lru)
         /\ Victims(len) = {lru[i] : i \in 1 .. PopCount(len)}
         /\ Victims(len) \subseteq Live
<1>1. PopCount(len) \in 0 .. Len(lru)
  BY PopCountInRange DEF PoolInv
<1>2. Len(lru) \in Nat /\ DOMAIN lru = 1 .. Len(lru)
  BY LenFacts DEF PoolInv, PoolTypeOK
<1>3. \A i \in 1 .. PopCount(len) : i \in DOMAIN lru
  BY <1>1, <1>2
<1>4. QED
  BY <1>1, <1>3 DEF Victims, PoolInv, OrderListsEntries

(* _alloc by evicting, in order of use, until a block of the length is     *)
(* free places the page.                                                   *)
LEMMA EvictAndReusePlaces ==
  ASSUME PoolInv, NEW key \in Keys, key \notin Live, NEW len \in Lengths,
         EvictAndReuse(key, len)
  PROVE  Shape' /\ \E nb, victims : Places(key, nb, victims)
<1> DEFINE n == PopCount(len)
           last == lru[n]
           nb == entries[last]
           victims == Victims(len)
<1>1. /\ n \in 0 .. Len(lru)
      /\ victims = {lru[i] : i \in 1 .. n}
      /\ victims \subseteq Live
  BY VictimsLive
<1>2. n \in DOMAIN lru /\ nb.len = len
  BY PopCountInRange DEF PoolInv, EvictAndReuse
<1>3. last \in victims
  <2>1. n \in 1 .. n
    BY <1>2, LenFacts DEF PoolInv, PoolTypeOK
  <2>2. QED
    BY <1>1, <2>1
<1>4. nb \in Block /\ nb.off \in 0 .. Capacity
  BY <1>1, <1>3, BlockFields DEF PoolInv, PoolTypeOK, Live
<1>5. /\ free' = [FreedBy(victims) EXCEPT ![len] = @ \ {nb.off}]
      /\ Insert(key, nb.off, len, victims, n)
      /\ nextOffset' = nextOffset
  BY DEF EvictAndReuse
<1> HIDE DEF n, last, nb, victims
<1>6. /\ entries' \in [Keys -> Block \cup {NoEntry}]
      /\ lru' \in Seq(Keys) /\ OrderListsEntries'
      /\ Live' = (Live \ victims) \cup {key}
  BY Zenon, <1>1, <1>4, <1>5, InsertKeepsOrder DEF PoolInv
<1>7. /\ FreedBy(victims) \in [Lengths -> SUBSET (0 .. Capacity)]
      /\ \A b \in Block : b.off \in FreedBy(victims)[b.len]
              <=> b \in FreeBlocks \/ \E v \in victims : b = entries[v]
  BY <1>1, FreedByBlocks
<1>8. free' \in [Lengths -> SUBSET (0 .. Capacity)]
  BY <1>5, <1>7
<1>9. entries'[key] = nb
  <2>1. entries'[key] = [off |-> nb.off, len |-> len]
    BY <1>5 DEF Insert
  <2>2. nb = [off |-> nb.off, len |-> len]
    BY <1>2, <1>4 DEF Block
  <2>3. QED
    BY <2>1, <2>2
<1>10. \A k \in Live \ victims : entries'[k] = entries[k] /\ Apart(entries[k], nb)
  BY <1>1, <1>3, <1>5 DEF PoolInv, NoOverlap, Insert, Live, nb
<1>11. \A b \in FreeBlocks' :
         b # nb /\ (b \in FreeBlocks \/ \E v \in victims : b = entries[v])
  <2>1. SUFFICES ASSUME NEW b \in FreeBlocks'
                 PROVE  b # nb /\ b.off \in FreedBy(victims)[b.len] /\ b \in Block
    BY <1>7
  <2>2. b \in Block /\ b.off \in free'[b.len] /\ b.len \in Lengths
    BY BlockFields DEF FreeBlocks
  <2>3. QED
    BY <1>2, <1>5, <1>7, <2>2
<1>12. \A b \in FreeBlocks' : Apart(nb, b)
  <2>1. SUFFICES ASSUME NEW b \in FreeBlocks' PROVE Apart(nb, b)
    OBVIOUS
  <2>2. CASE b \in FreeBlocks
    BY <1>1, <1>3, <2>2 DEF PoolInv, NoOverlap, nb
  <2>3. CASE \E v \in victims : b = entries[v]
    BY <1>1, <1>3, <1>11, <2>3 DEF PoolInv, NoOverlap, nb
  <2>4. QED
    BY <1>11, <2>2, <2>3
<1>13. ASSUME NEW b \in Block, b \in FreeBlocks \/ \E v \in victims : b = entries[v]
       PROVE  b = nb \/ b \in FreeBlocks'
  <2>1. b.off \in FreedBy(victims)[b.len] /\ b.len \in Lengths
    BY <1>7, <1>13, BlockFields
  <2>2. CASE b.len = len /\ b.off = nb.off
    BY <1>2, <1>4, <2>2 DEF Block
  <2>3. CASE ~ (b.len = len /\ b.off = nb.off)
    BY <1>5, <1>7, <2>1, <2>3 DEF FreeBlocks
  <2>4. QED
    BY <2>2, <2>3
<1>14. /\ \A b \in FreeBlocks : b = nb \/ b \in FreeBlocks'
       /\ \A v \in victims : entries[v] = nb \/ entries[v] \in FreeBlocks'
  <2>1. \A b \in FreeBlocks : b \in Block
    BY DEF FreeBlocks
  <2>2. \A v \in victims : entries[v] \in Block
    BY <1>1 DEF PoolInv, PoolTypeOK, Live
  <2>3. QED
    BY <1>13, <2>1, <2>2
<1>15. nextOffset \in 0 .. Capacity /\ nb.off + nb.len <= nextOffset
  BY <1>1, <1>3 DEF PoolInv, PoolTypeOK, NoOverlap, nb
<1>16. nextOffset .. (nextOffset - 1) = {}
  BY <1>15
<1>17. Places(key, nb, victims)
  BY <1>1, <1>4, <1>5, <1>6, <1>9, <1>10, <1>11, <1>12, <1>14, <1>15, <1>16 DEF Places
<1>18. QED
  BY <1>6, <1>8, <1>17 DEF Shape

(* A failed allocation either finds the page too large or pops everything. *)
LEMMA FailedAllocationFrees ==
  ASSUME PoolInv, NEW key \in Keys, NEW len \in Lengths, AllocateFails(key, len)
  PROVE  /\ Shape' /\ mem' = mem
         /\ \E victims : Frees(victims)
<1>1. CASE UNCHANGED poolVars
  <2>1. Shape' /\ mem' = mem
    BY <1>1 DEF PoolInv, PoolTypeOK, Shape, OrderListsEntries, Live, poolVars
  <2>2. Frees({})
    BY Zenon, <1>1 DEF Frees, poolVars, Live, FreeBlocks
  <2>3. QED
    BY <2>1, <2>2
<1>2. CASE /\ SameLength(len) = {}
           /\ free' = FreedBy(Victims(len))
           /\ entries' = [k \in Keys |-> IF k \in Victims(len) THEN NoEntry ELSE entries[k]]
           /\ lru' = <<>>
           /\ UNCHANGED <<nextOffset, mem>>
  <2> DEFINE victims == Victims(len)
  <2>1. Len(lru) \in Nat /\ DOMAIN lru = 1 .. Len(lru)
    BY LenFacts DEF PoolInv, PoolTypeOK
  <2>2. victims = {lru[i] : i \in DOMAIN lru}
    BY Zenon, <1>2, <2>1 DEF Victims, PopCount
  <2>3. victims = Live
    BY Zenon, <2>2 DEF PoolInv, OrderListsEntries
  <2> HIDE DEF victims
  <2>4. /\ free' = FreedBy(victims)
        /\ entries' = [k \in Keys |-> IF k \in victims THEN NoEntry ELSE entries[k]]
    BY <1>2 DEF victims
  <2>5. Live' = {} /\ entries' \in [Keys -> Block \cup {NoEntry}]
    BY <2>3, <2>4 DEF Live, PoolInv, PoolTypeOK
  <2>6. lru' \in Seq(Keys) /\ OrderListsEntries'
    BY <1>2, <2>5, EmptyFacts DEF OrderListsEntries
  <2>7. /\ FreedBy(victims) \in [Lengths -> SUBSET (0 .. Capacity)]
        /\ \A b \in Block : b.off \in FreedBy(victims)[b.len]
             <=> b \in FreeBlocks \/ \E v \in victims : b = entries[v]
    BY <2>3, FreedByBlocks
  <2>8. \A b \in Block : b \in FreeBlocks'
             <=> b \in FreeBlocks \/ \E v \in victims : b = entries[v]
    BY <2>4, <2>7 DEF FreeBlocks
  <2>9. /\ \A b \in FreeBlocks : b \in Block
        /\ \A b \in FreeBlocks' : b \in Block
        /\ \A v \in victims : entries[v] \in Block
    BY <2>3 DEF FreeBlocks, Live, PoolInv, PoolTypeOK
  <2>10. Frees(victims)
    BY <1>2, <2>3, <2>5, <2>8, <2>9 DEF Frees
  <2>11. QED
    BY Zenon, <1>2, <2>4, <2>5, <2>6, <2>7, <2>10 DEF Shape
<1>3. QED
  BY Zenon, <1>1, <1>2 DEF AllocateFails

(* remove turns the page into a free block, with the size it has, and      *)
(* touches no memory.                                                      *)
LEMMA RemoveFrees ==
  ASSUME PoolInv, NEW key \in Keys, Remove(key)
  PROVE  /\ Shape' /\ mem' = mem
         /\ \E victims : Frees(victims)
<1> DEFINE b == entries[key]
<1>1. key \in Live /\ b \in Block /\ b.off \in 0 .. Capacity /\ b.len \in Lengths
  BY BlockFields DEF Remove, Live, PoolInv, PoolTypeOK
<1>2. /\ free' = [free EXCEPT ![b.len] = @ \cup {b.off}]
      /\ entries' = [entries EXCEPT ![key] = NoEntry]
      /\ nextOffset' = nextOffset /\ mem' = mem
  BY DEF Remove
<1>3. lru' \in Seq(Keys) /\ OrderListsEntries' /\ Live' = Live \ {key}
  BY RemoveKeepsOrder DEF PoolInv
<1> HIDE DEF b
<1>10. entries' \in [Keys -> Block \cup {NoEntry}]
  BY <1>2 DEF PoolInv, PoolTypeOK
<1>4. free' \in [Lengths -> SUBSET (0 .. Capacity)]
  BY <1>1, <1>2 DEF PoolInv, PoolTypeOK
<1>5. \A c \in Block : c \in FreeBlocks' <=> c \in FreeBlocks \/ c = b
  <2>1. SUFFICES ASSUME NEW c \in Block
                 PROVE  c.off \in free'[c.len] <=> c.off \in free[c.len] \/ c = b
    BY DEF FreeBlocks
  <2>2. c = b <=> c.off = b.off /\ c.len = b.len
    BY <1>1 DEF Block
  <2>3. c.len \in Lengths
    BY BlockFields
  <2>4. QED
    BY <1>1, <1>2, <2>2, <2>3 DEF PoolInv, PoolTypeOK
<1>6. /\ \A c \in FreeBlocks : c \in Block
      /\ \A c \in FreeBlocks' : c \in Block
  BY DEF FreeBlocks
<1>7. \A k \in Live \ {key} : entries'[k] = entries[k]
  BY <1>2 DEF PoolInv, PoolTypeOK, Live
<1>8. Frees({key})
  BY <1>1, <1>2, <1>3, <1>5, <1>6, <1>7 DEF Frees, b
<1>9. QED
  BY <1>2, <1>3, <1>4, <1>8, <1>10 DEF Shape

(* A touch reorders and does nothing else.                                 *)
LEMMA TouchKeepsPages ==
  ASSUME PoolInv, NEW key \in Keys, Touch(key)
  PROVE  Shape' /\ Frees({}) /\ mem' = mem
<1>1. /\ lru' \in Seq(Keys) /\ OrderListsEntries'
  BY TouchKeepsOrder DEF PoolInv
<1>2. /\ entries' = entries /\ free' = free /\ nextOffset' = nextOffset /\ mem' = mem
  BY DEF Touch
<1>3. Live' = Live /\ FreeBlocks' = FreeBlocks
  BY <1>2 DEF Live, FreeBlocks
<1>4. QED
  BY <1>1, <1>2, <1>3 DEF Shape, Frees, PoolInv, PoolTypeOK

(* Every step of the pool either places one page, and copies nothing but   *)
(* that page, or moves blocks to the free lists and copies nothing.        *)
LEMMA StepPlacesOrFrees ==
  ASSUME PoolInv, PoolNext
  PROVE  /\ Shape'
         /\ \/ \E key, nb, victims :
                 Places(key, nb, victims) /\ (mem' = mem \/ CopyInto(key))
            \/ mem' = mem /\ \E victims : Frees(victims)
<1>1. PICK key \in Keys :
        AddressOf(key) \/ Remove(key) \/ \E l \in Lengths : Publish(key, l) \/ Reserve(key, l)
  BY DEF PoolNext
<1>2. CASE AddressOf(key)
  BY <1>2, TouchKeepsPages DEF AddressOf
<1>3. CASE Remove(key)
  BY <1>3, RemoveFrees
<1>4. ASSUME NEW l \in Lengths, Publish(key, l) \/ Reserve(key, l)
      PROVE  /\ Shape'
             /\ \/ \E k, nb, victims :
                     Places(k, nb, victims) /\ (mem' = mem \/ CopyInto(k))
                \/ mem' = mem /\ \E victims : Frees(victims)
  <2>1. CASE Touch(key)
    BY <2>1, TouchKeepsPages
  <2>2. CASE AllocateFails(key, l)
    BY <2>2, FailedAllocationFrees
  <2>3. CASE key \notin Live /\ Allocate(key, l) /\ (mem' = mem \/ CopyInto(key))
    <3>1. Shape' /\ \E nb, victims : Places(key, nb, victims)
      BY <2>3, TakeFreePlaces, BumpPlaces, EvictAndReusePlaces DEF Allocate
    <3>2. QED
      BY <2>3, <3>1
  <2>4. QED
    BY <1>4, <2>1, <2>2, <2>3 DEF Publish, Reserve
<1>5. QED
  BY <1>1, <1>2, <1>3, <1>4

-----------------------------------------------------------------------------
(* The inductive step and what follows from it.                            *)

(* Copying a page in leaves memory typed.                                  *)
LEMMA MemStaysTyped ==
  ASSUME PoolInv, NEW key \in Keys, mem' = mem \/ CopyInto(key)
  PROVE  mem' \in [0 .. (Capacity - 1) -> Keys \cup {NoKey}]
  BY DEF PoolInv, PoolTypeOK, CopyInto

(* Every operation of the pool keeps the pool invariant.                   *)
LEMMA StepPoolInv ==
  ASSUME PoolInv, [PoolNext]_poolVars
  PROVE  PoolInv'
<1>1. CASE UNCHANGED poolVars
  <2>1. /\ nextOffset' = nextOffset /\ free' = free /\ entries' = entries
        /\ lru' = lru /\ used' = used /\ mem' = mem
    BY <1>1 DEF poolVars
  <2>2. Live' = Live /\ FreeBlocks' = FreeBlocks
    BY <2>1 DEF Live, FreeBlocks
  <2>3. PoolTypeOK'
    BY <2>1 DEF PoolInv, PoolTypeOK
  <2>4. OrderListsEntries'
    BY <2>1, <2>2 DEF PoolInv, OrderListsEntries
  <2>5. NoOverlap'
    BY <2>1, <2>2 DEF PoolInv, NoOverlap
  <2>6. QED
    BY <2>3, <2>4, <2>5 DEF PoolInv
<1>2. CASE PoolNext
  <2>1. Shape'
    BY <1>2, StepPlacesOrFrees
  <2>2. CASE mem' = mem /\ \E victims : Frees(victims)
    <3>1. NoOverlap'
      BY <2>2, FreeingKeepsNoOverlap
    <3>2. nextOffset' \in 0 .. Capacity
      BY <2>2 DEF Frees, PoolInv, PoolTypeOK
    <3>3. mem' \in [0 .. (Capacity - 1) -> Keys \cup {NoKey}]
      BY <2>2 DEF PoolInv, PoolTypeOK
    <3>4. QED
      BY <2>1, <3>1, <3>2, <3>3 DEF PoolInv, PoolTypeOK, Shape
  <2>3. ASSUME NEW key, NEW nb, NEW victims, Places(key, nb, victims),
               mem' = mem \/ CopyInto(key)
        PROVE  PoolInv'
    <3>1. NoOverlap'
      BY <2>3, PlacingKeepsNoOverlap
    <3>2. nextOffset' \in 0 .. Capacity /\ key \in Keys
      BY <2>3 DEF Places
    <3>3. mem' \in [0 .. (Capacity - 1) -> Keys \cup {NoKey}]
      BY <2>3, <3>2, MemStaysTyped
    <3>4. QED
      BY <2>1, <3>1, <3>2, <3>3 DEF PoolInv, PoolTypeOK, Shape
  <2>4. QED
    BY <1>2, <2>2, <2>3, StepPlacesOrFrees
<1>3. QED
  BY <1>1, <1>2

(* PoolInv is an invariant of the pool.                                    *)
THEOREM PoolInvariance == PoolSpec => []PoolInv
  BY InitPoolInv, StepPoolInv, PTL DEF PoolSpec

(* For every region size, set of lengths and set of keys, the pool's state *)
(* keeps its type.                                                         *)
THEOREM TypeCorrect == PoolSpec => []PoolTypeOK
<1>1. PoolInv => PoolTypeOK
  BY DEF PoolInv
<1>2. QED
  BY <1>1, PoolInvariance, PTL

(* The order of the OrderedDict lists exactly the resident keys, after any *)
(* sequence of publish, reserve, address_of and remove.                    *)
THEOREM OrderCorrect == PoolSpec => []OrderListsEntries
<1>1. PoolInv => OrderListsEntries
  BY DEF PoolInv
<1>2. QED
  BY <1>1, PoolInvariance, PTL

(* _allocate never hands out a byte that a resident page or a free list    *)
(* holds, for every mix of page lengths.                                   *)
THEOREM NothingOverlaps == PoolSpec => []NoOverlap
<1>1. PoolInv => NoOverlap
  BY DEF PoolInv
<1>2. QED
  BY <1>1, PoolInvariance, PTL

-----------------------------------------------------------------------------
(* The accounting.                                                         *)

(* The sum BytesOf takes is a sum of a function of the keys.               *)
LEMMA SumOfLengths ==
  ASSUME NEW e, NEW V, IsFiniteSet(V), \A k \in V : e[k].len \in Int
  PROVE  MapThenSumSet(LAMBDA k : e[k].len, V) = SumOver([k \in V |-> e[k].len], V)
<1> DEFINE f == [k \in V |-> e[k].len]
           it == CHOOSE h : h = [s \in SUBSET V |->
                   IF s = {} THEN 0
                   ELSE e[CHOOSE x \in s : TRUE].len + h[s \ {CHOOSE x \in s : TRUE}]]
<1>1. MapThenSumSet(LAMBDA k : e[k].len, V) = it[V]
  BY DEF MapThenSumSet, MapThenFoldSet
<1>2. PICK g \in [SUBSET V -> Int] : IsFold(g, f, V)
  <2>1. \A k \in V : f[k] \in Int
    OBVIOUS
  <2> HIDE DEF f
  <2>2. QED
    BY Zenon, <2>1, FoldExists
<1>3. \A s \in SUBSET V : s # {} => f[Some(s)] = e[Some(s)].len
  BY DEF Some
<1>4. g = [s \in SUBSET V |-> IF s = {} THEN 0 ELSE e[Some(s)].len + g[s \ {Some(s)}]]
  <2> HIDE DEF f
  <2>1. g = [s \in SUBSET V |-> IF s = {} THEN 0 ELSE f[Some(s)] + g[s \ {Some(s)}]]
    BY Zenon, <1>2 DEF IsFold
  <2>2. QED
    BY Zenon, <1>3, <2>1
<1>5. it = [s \in SUBSET V |-> IF s = {} THEN 0 ELSE e[Some(s)].len + it[s \ {Some(s)}]]
  BY Zenon, <1>4 DEF Some
<1> HIDE DEF it
<1>6. IsFold(it, f, V)
  <2> HIDE DEF f
  <2>1. QED
    BY Zenon, <1>3, <1>5 DEF IsFold
<1> HIDE DEF f
<1>7. SumOver(f, V) = it[V]
  BY <1>6, SumIsFold
<1>8. QED
  BY <1>1, <1>7 DEF f

(* What is resident is finite and has lengths.                             *)
LEMMA LiveSummable ==
  ASSUME PoolInv
  PROVE  Summable([k \in Live |-> entries[k].len], Live)
<1>1. Live = Range(lru) /\ lru \in Seq(Keys)
  BY DEF PoolInv, PoolTypeOK, OrderListsEntries, Range
<1>2. IsFiniteSet(Live)
  BY <1>1, DistinctSeqSize
<1>3. \A k \in Live : entries[k].len \in Int
  BY BlockFields DEF PoolInv, PoolTypeOK, Live
<1>4. QED
  BY <1>2, <1>3 DEF Summable

(* The bytes of some resident pages, as a sum of lengths.                  *)
LEMMA BytesOfIsSum ==
  ASSUME PoolInv, NEW V \in SUBSET Live
  PROVE  BytesOf(V) = SumOver([k \in Live |-> entries[k].len], V)
<1> DEFINE f == [k \in Live |-> entries[k].len]
           h == [k \in V |-> entries[k].len]
<1>1. Summable(f, V)
  <2>1. Summable(f, Live)
    BY LiveSummable
  <2> HIDE DEF f
  <2>2. QED
    BY <2>1, SummableSubset
<1>2. IsFiniteSet(V) /\ \A k \in V : entries[k].len \in Int
  BY Zenon, <1>1 DEF Summable
<1>3. BytesOf(V) = SumOver(h, V)
  BY Zenon, <1>2, SumOfLengths DEF BytesOf
<1>4. \A k \in V : h[k] = f[k]
  OBVIOUS
<1> HIDE DEF f, h
<1>5. SumOver(h, V) = SumOver(f, V)
  BY <1>1, <1>4, SumAgree
<1>6. QED
  BY <1>3, <1>5 DEF f

(* The same of all the resident pages.                                     *)
LEMMA LiveBytes ==
  ASSUME PoolInv
  PROVE  BytesOf(Live) = SumOver([k \in Live |-> entries[k].len], Live)
  BY BytesOfIsSum

(* Dropping the keys of V and adding those of N, at most one, moves the    *)
(* resident bytes by exactly what `used' is moved.                         *)
LEMMA AccountingStep ==
  ASSUME PoolInv, PoolInv', UsedIsResidentBytes,
         NEW V \in SUBSET Live, NEW N, N \cap Live = {},
         Live' = (Live \ V) \cup N,
         \A k \in Live \ V : entries'[k] = entries[k],
         \/ N = {} /\ used' = used - BytesOf(V)
         \/ \E key : N = {key} /\ used' = used - BytesOf(V) + entries'[key].len
  PROVE  UsedIsResidentBytes'
<1> DEFINE f == [k \in Live |-> entries[k].len]
           R == Live \ V
           L == Live'
           g == [k \in L |-> entries'[k].len]
<1>1. /\ Summable(f, Live)
      /\ BytesOf(V) = SumOver(f, V) /\ used = SumOver(f, Live)
  BY LiveSummable, BytesOfIsSum DEF UsedIsResidentBytes
<1>2. Summable(g, L)
  <2>1. PoolInv' => Summable([k \in Live |-> entries[k].len], Live)'
    BY LiveSummable, PTL
  <2>2. QED
    BY <2>1
<1>3. BytesOf(Live)' = SumOver(g, L)
  <2>1. PoolInv' => (BytesOf(Live) = SumOver([k \in Live |-> entries[k].len], Live))'
    BY LiveBytes, PTL
  <2>2. QED
    BY <2>1
<1>4. R \in SUBSET Live /\ R \in SUBSET L /\ L = R \cup N /\ R \cap N = {}
      /\ \A k \in R : g[k] = f[k]
  OBVIOUS
<1>5. N # {} => \E key : N = {key} /\ key \in L /\ key \notin R /\ L \ {key} = R
                          /\ g[key] = entries'[key].len
                          /\ used' = used - BytesOf(V) + g[key]
  <2>1. ASSUME NEW key, N = {key}
        PROVE  key \in L /\ key \notin R /\ L \ {key} = R /\ g[key] = entries'[key].len
    BY <2>1
  <2>2. QED
    BY <2>1
<1> HIDE DEF f, g, L
<1>6. SumOver(f, Live) = SumOver(f, V) + SumOver(f, R)
  BY <1>1, SumSplit
<1> HIDE DEF R
<1>7. Summable(f, R) /\ Summable(f, V) /\ Summable(g, R)
  BY <1>1, <1>2, <1>4, SummableSubset
<1>8. SumOver(g, R) = SumOver(f, R)
  BY <1>4, <1>7, SumAgree
<1>9. SumOver(f, R) \in Int /\ SumOver(f, V) \in Int
  BY <1>7, SumType
<1>10. CASE N = {}
  <2>1. L = R /\ used' = used - BytesOf(V)
    BY <1>4, <1>10
  <2>2. QED
    BY <1>1, <1>3, <1>6, <1>8, <1>9, <2>1 DEF UsedIsResidentBytes
<1>11. CASE N # {}
  <2>1. PICK key : /\ N = {key} /\ key \in L /\ key \notin R /\ L \ {key} = R
                   /\ used' = used - BytesOf(V) + g[key]
    BY <1>5, <1>11
  <2>2. SumOver(g, L) = g[key] + SumOver(g, R)
    BY <1>2, <2>1, SumRemove
  <2>3. g[key] \in Int
    BY <1>2, <2>1 DEF Summable
  <2>4. QED
    BY <1>1, <1>3, <1>6, <1>8, <1>9, <2>1, <2>2, <2>3 DEF UsedIsResidentBytes
<1>12. QED
  BY <1>10, <1>11

(* An allocation's insertion keeps the account.                            *)
LEMMA InsertAccounts ==
  ASSUME PoolInv, PoolInv', UsedIsResidentBytes,
         NEW key \in Keys, key \notin Live, NEW off \in 0 .. Capacity, NEW len \in Lengths,
         NEW V \in SUBSET Live, NEW n, Insert(key, off, len, V, n)
  PROVE  UsedIsResidentBytes'
<1>1. [off |-> off, len |-> len] \in Block
  BY DEF Block
<1>2. \A k \in Keys : entries'[k] = IF k = key THEN [off |-> off, len |-> len]
                                    ELSE IF k \in V THEN NoEntry ELSE entries[k]
  BY DEF Insert
<1>3. [off |-> off, len |-> len] # NoEntry
  BY <1>1, PoolAssumption
<1>4. Live' = (Live \ V) \cup {key} /\ \A k \in Live \ V : entries'[k] = entries[k]
  BY Zenon, <1>2, <1>3 DEF Live
<1>5. used' = used - BytesOf(V) + entries'[key].len
  BY <1>2 DEF Insert
<1>6. {key} \cap Live = {}
  OBVIOUS
<1>7. QED
  BY Zenon, <1>4, <1>5, <1>6, AccountingStep

(* Every operation keeps bytes_used equal to the bytes of the resident     *)
(* pages.                                                                  *)
LEMMA StepAccounts ==
  ASSUME PoolInv, PoolInv', UsedIsResidentBytes, [PoolNext]_poolVars
  PROVE  UsedIsResidentBytes'
<1>1. CASE UNCHANGED <<entries, used>>
  <2>1. {} \in SUBSET Live /\ {} \cap Live = {} /\ Live' = (Live \ {}) \cup {}
    BY <1>1 DEF Live
  <2>2. \A k \in Live \ {} : entries'[k] = entries[k]
    BY <1>1
  <2>3. BytesOf({}) = 0 /\ used \in Int
    BY <2>1, BytesOfIsSum, SumOfNone, LiveSummable, LiveBytes, SumType
       DEF UsedIsResidentBytes
  <2>4. used' = used - BytesOf({})
    BY <1>1, <2>3
  <2>5. QED
    BY <2>1, <2>2, <2>4, AccountingStep
<1>2. ASSUME NEW key \in Keys, Remove(key) PROVE UsedIsResidentBytes'
  <2>1. {key} \in SUBSET Live /\ {} \cap Live = {}
    BY <1>2 DEF Remove
  <2>2. Live' = (Live \ {key}) \cup {} /\ \A k \in Live \ {key} : entries'[k] = entries[k]
    BY <1>2 DEF Remove, Live, PoolInv, PoolTypeOK
  <2>3. BytesOf({key}) = entries[key].len
    <3> DEFINE f == [k \in Live |-> entries[k].len]
    <3>1. BytesOf({key}) = SumOver(f, {key}) /\ Summable(f, Live) /\ f[key] = entries[key].len
      BY <2>1, BytesOfIsSum, LiveSummable
    <3> HIDE DEF f
    <3>2. Summable(f, {key}) /\ {key} \ {key} = {} /\ f[key] \in Int
      BY <2>1, <3>1, SummableSubset DEF Summable
    <3>3. SumOver(f, {key}) = f[key] + SumOver(f, {key} \ {key})
      BY <3>2, SumRemove
    <3>4. QED
      BY <3>1, <3>2, <3>3, SumOfNone
  <2>4. used' = used - BytesOf({key})
    BY <1>2, <2>3 DEF Remove
  <2>5. QED
    BY Zenon, <2>1, <2>2, <2>4, AccountingStep
<1>3. ASSUME NEW key \in Keys, NEW len \in Lengths, key \notin Live, Allocate(key, len)
      PROVE  UsedIsResidentBytes'
  <2>1. CASE TakeFree(key, len)
    <3>1. PICK off \in 0 .. Capacity : Insert(key, off, len, {}, 0)
      BY <2>1 DEF TakeFree, PoolInv, PoolTypeOK
    <3>2. {} \in SUBSET Live
      OBVIOUS
    <3>3. QED
      BY <1>3, <3>1, <3>2, InsertAccounts
  <2>2. CASE Bump(key, len)
    <3>1. nextOffset \in 0 .. Capacity /\ Insert(key, nextOffset, len, {}, 0)
      BY <2>2 DEF Bump, PoolInv, PoolTypeOK
    <3>2. {} \in SUBSET Live
      OBVIOUS
    <3>3. QED
      BY <1>3, <3>1, <3>2, InsertAccounts
  <2>3. CASE EvictAndReuse(key, len)
    <3> DEFINE n == PopCount(len)
               off == entries[lru[n]].off
    <3>1. n \in DOMAIN lru /\ Victims(len) \in SUBSET Live
      BY <2>3, PopCountInRange, VictimsLive DEF EvictAndReuse, PoolInv
    <3>2. off \in 0 .. Capacity
      <4>1. lru[n] \in Live
        BY <3>1 DEF PoolInv, OrderListsEntries
      <4>2. entries[lru[n]] \in Block
        BY <4>1 DEF PoolInv, PoolTypeOK, Live
      <4>3. QED
        BY <4>2 DEF Block
    <3>3. Insert(key, off, len, Victims(len), n)
      BY <2>3 DEF EvictAndReuse
    <3> HIDE DEF off, n
    <3>4. QED
      BY <1>3, <3>1, <3>2, <3>3, InsertAccounts
  <2>4. QED
    BY <1>3, <2>1, <2>2, <2>3 DEF Allocate
<1>4. ASSUME NEW key \in Keys, NEW len \in Lengths, AllocateFails(key, len)
      PROVE  UsedIsResidentBytes'
  <2>1. CASE UNCHANGED poolVars
    BY <1>1, <2>1 DEF poolVars
  <2>2. CASE ~ UNCHANGED poolVars
    <3>1. /\ entries' = [k \in Keys |-> IF k \in Victims(len) THEN NoEntry ELSE entries[k]]
          /\ used' = used - BytesOf(Victims(len))
      BY <1>4, <2>2 DEF AllocateFails
    <3>2. Victims(len) \in SUBSET Live /\ {} \cap Live = {}
      BY VictimsLive
    <3>3. /\ Live' = (Live \ Victims(len)) \cup {}
          /\ \A k \in Live \ Victims(len) : entries'[k] = entries[k]
      BY <3>1 DEF Live
    <3>4. QED
      BY Zenon, <3>1, <3>2, <3>3, AccountingStep
  <2>3. QED
    BY <2>1, <2>2
<1>5. ASSUME NEW key \in Keys, Touch(key) PROVE UsedIsResidentBytes'
  BY <1>1, <1>5 DEF Touch
<1>6. QED
  BY <1>1, <1>2, <1>3, <1>4, <1>5 DEF PoolNext, AddressOf, Publish, Reserve, poolVars

(* For every region size, set of lengths and set of keys: `_used', which   *)
(* publish, reserve, remove and eviction each adjust by what they add and  *)
(* drop, is always the number of bytes of the resident pages.              *)
THEOREM AccountingExact == PoolSpec => []UsedIsResidentBytes
<1>1. PoolInit => UsedIsResidentBytes
  <2>1. SUFFICES ASSUME PoolInit PROVE used = BytesOf(Live)
    BY DEF UsedIsResidentBytes
  <2>2. PoolInv /\ Live = {} /\ used = 0
    BY <2>1, InitPoolInv DEF PoolInit, Live
  <2>3. BytesOf({}) = SumOver([k \in Live |-> entries[k].len], {})
    BY <2>2, BytesOfIsSum
  <2>4. QED
    BY <2>2, <2>3, SumOfNone
<1>2. PoolInv /\ PoolInv' /\ UsedIsResidentBytes /\ [PoolNext]_poolVars
        => UsedIsResidentBytes'
  BY StepAccounts
<1>3. QED
  BY <1>1, <1>2, PoolInvariance, PTL DEF PoolSpec

(* Arithmetic: an interval cut in two.                                     *)
LEMMA RangeSplits ==
  ASSUME NEW m \in Nat, NEW n \in Nat, NEW x \in 0 .. (n - 1)
  PROVE  x \in 0 .. (m - 1) \/ x \in m .. (n - 1)
  OBVIOUS

(* Every operation keeps all bytes below the high-water mark in a page or  *)
(* a free block.                                                           *)
LEMMA StepNoLeak ==
  ASSUME PoolInv, NoLeak, [PoolNext]_poolVars
  PROVE  NoLeak'
<1>1. CASE UNCHANGED poolVars
  BY <1>1 DEF NoLeak, Live, FreeBlocks, Bytes, poolVars
<1>2. ASSUME NEW victims, Frees(victims)
      PROVE  NoLeak'
  <2>1. SUFFICES ASSUME NEW x \in 0 .. (nextOffset - 1)
                 PROVE  \/ \E k \in Live' : x \in Bytes(entries'[k])
                        \/ \E b \in FreeBlocks' : x \in Bytes(b)
    BY <1>2 DEF NoLeak, Frees, Bytes
  <2>2. \/ \E k \in Live : x \in Bytes(entries[k])
        \/ \E b \in FreeBlocks : x \in Bytes(b)
    BY DEF NoLeak
  <2>3. QED
    BY <1>2, <2>2 DEF Frees
<1>3. ASSUME NEW key, NEW nb, NEW victims, Places(key, nb, victims)
      PROVE  NoLeak'
  <2>1. SUFFICES ASSUME NEW x, x \in 0 .. (nextOffset' - 1)
                 PROVE  \/ \E k \in Live' : x \in Bytes(entries'[k])
                        \/ \E b \in FreeBlocks' : x \in Bytes(b)
    BY DEF NoLeak, Bytes
  <2>2. CASE x \in 0 .. (nextOffset - 1)
    <3>1. \/ \E k \in Live : x \in Bytes(entries[k])
          \/ \E b \in FreeBlocks : x \in Bytes(b)
      BY <2>2 DEF NoLeak
    <3>2. QED
      BY <1>3, <3>1 DEF Places
  <2>3. CASE x \in nextOffset .. (nextOffset' - 1)
    BY Zenon, <1>3, <2>3 DEF Places
  <2>4. nextOffset \in Nat /\ nextOffset' \in Nat
    BY <1>3 DEF Places, PoolInv, PoolTypeOK
  <2>5. x \in 0 .. (nextOffset - 1) \/ x \in nextOffset .. (nextOffset' - 1)
    BY Zenon, <2>1, <2>4, RangeSplits
  <2>6. QED
    BY <2>2, <2>3, <2>5
<1>4. QED
  BY <1>1, <1>2, <1>3, StepPlacesOrFrees

(* Every byte below the bump pointer is in a resident page or in a free    *)
(* block: no sequence of evictions, removals or failed allocations loses   *)
(* memory.                                                                 *)
THEOREM NothingLeaks == PoolSpec => []NoLeak
<1>1. PoolInit => NoLeak
  BY DEF PoolInit, NoLeak
<1>2. QED
  BY <1>1, StepNoLeak, PoolInvariance, PTL DEF PoolSpec

(* Blocks that lie apart share no byte.                                    *)
LEMMA ApartBytes ==
  ASSUME NEW a \in Block, NEW b \in Block, Apart(a, b), NEW x \in Bytes(a)
  PROVE  x \notin Bytes(b) /\ x \in Int
  BY BlockFields DEF Apart, Bytes

(* A page that stays resident stays where it is, with its bytes.           *)
LEMMA StepKeepsPages ==
  ASSUME PoolInv, PoolNext, NEW k \in Keys, entries[k] # NoEntry, entries'[k] # NoEntry
  PROVE  /\ entries'[k] = entries[k]
         /\ \A x \in Bytes(entries[k]) : mem'[x] = mem[x]
<1>1. k \in Live /\ k \in Live' /\ entries[k] \in Block
  BY DEF Live, PoolInv, PoolTypeOK
<1>2. CASE mem' = mem /\ \E victims : Frees(victims)
  BY Zenon, <1>1, <1>2 DEF Frees
<1>3. ASSUME NEW key, NEW nb, NEW victims, Places(key, nb, victims),
             mem' = mem \/ CopyInto(key)
      PROVE  /\ entries'[k] = entries[k]
             /\ \A x \in Bytes(entries[k]) : mem'[x] = mem[x]
  <2>1. /\ entries'[k] = entries[k] /\ Apart(entries[k], nb)
        /\ nb \in Block /\ entries'[key] = nb
    BY <1>1, <1>3 DEF Places
  <2>6. entries[k].off \in Nat /\ entries[k].len \in Nat
    BY <1>1, BlockFields
  <2>7. nextOffset \in Nat /\ nextOffset <= Capacity
    BY DEF PoolInv, PoolTypeOK
  <2>8. entries[k].off + entries[k].len <= nextOffset
    BY <1>1 DEF PoolInv, NoOverlap
  <2>2. entries[k].off + entries[k].len <= Capacity
    BY <2>6, <2>7, <2>8, PoolAssumption
  <2>3. \A x \in Bytes(entries[k]) : x \in DOMAIN mem
    BY <1>1, <2>2, BlockFields, PoolAssumption DEF Bytes, PoolInv, PoolTypeOK
  <2>4. \A x \in Bytes(entries[k]) : x \notin Bytes(entries'[key])
    BY <1>1, <2>1, ApartBytes
  <2>5. QED
    BY <1>3, <2>1, <2>3, <2>4 DEF CopyInto
<1>4. QED
  BY Zenon, <1>2, <1>3, StepPlacesOrFrees

(* The address, the length and the bytes of a page stay what they are as   *)
(* long as its key stays resident, whatever else the pool does.            *)
THEOREM PublishedStaysValid == PoolSpec => ValidUntilEvicted
<1>1. PoolInv /\ [PoolNext]_poolVars =>
        [\A k \in Keys :
           entries[k] # NoEntry /\ entries'[k] # NoEntry =>
             /\ entries'[k] = entries[k]
             /\ \A b \in Bytes(entries[k]) : mem'[b] = mem[b]]_poolVars
  BY StepKeepsPages
<1>2. QED
  BY <1>1, PoolInvariance, PTL DEF PoolSpec, ValidUntilEvicted

(* While all blocks have one length, a page of that length is never        *)
(* refused: the exact-size free lists do not fragment.                     *)
THEOREM UniformAlwaysRoom == PoolSpec => []RoomWhileUniform
<1>1. PoolInv /\ NoLeak => RoomWhileUniform
  <2>1. SUFFICES ASSUME PoolInv, NoLeak, NEW l \in Lengths, l <= Capacity,
                        \A b \in FreeBlocks : b.len = l,
                        free[l] = {}, ~ (nextOffset + l <= Capacity)
                 PROVE  Live # {}
    BY DEF RoomWhileUniform
  <2>2. 0 \in 0 .. (nextOffset - 1)
    BY <2>1, PoolAssumption DEF PoolInv, PoolTypeOK
  <2>3. FreeBlocks = {}
    BY <2>1 DEF FreeBlocks
  <2>4. QED
    BY <2>1, <2>2, <2>3 DEF NoLeak
<1>2. QED
  BY <1>1, PoolInvariance, NothingLeaks, PTL

-----------------------------------------------------------------------------
(* The pool implements PageRegion.                                         *)

(* Freeing pages drops them from the region.                               *)
LEMMA FreeingIsDrop ==
  ASSUME PoolInv, Shape', mem' = mem, NEW victims, Frees(victims)
  PROVE  Region!RegionNext
<1>1. Region!Owners = Live
  BY DEF Region!Owners, Live
<1>2. \A k \in Keys : entries'[k] = IF k \in victims THEN NoEntry ELSE entries[k]
  BY DEF Frees, Live
<1>3. entries' = [k \in Keys |-> IF k \in victims THEN NoEntry ELSE entries[k]]
  BY <1>2 DEF Shape
<1>4. Region!Drop(victims)
  BY <1>3 DEF Region!Drop
<1>5. victims \in SUBSET Region!Owners
  BY <1>1 DEF Frees
<1>6. QED
  BY <1>4, <1>5 DEF Region!RegionNext

(* Placing a page gives it its addresses in the region.                    *)
LEMMA PlacingIsGive ==
  ASSUME PoolInv, Shape', NEW key, NEW nb, NEW victims, Places(key, nb, victims),
         mem' = mem \/ CopyInto(key)
  PROVE  Region!RegionNext
<1>1. Region!Owners = Live
  BY DEF Region!Owners, Live
<1>2. key \in Keys \ Live /\ nb \in Block /\ victims \subseteq Live /\ entries'[key] = nb
  BY DEF Places
<1>3. \A k \in Keys : entries'[k] = IF k = key THEN nb
                                    ELSE IF k \in victims THEN NoEntry ELSE entries[k]
  BY <1>2 DEF Places, Live
<1>4. entries' = [k \in Keys |-> IF k = key THEN nb
                                 ELSE IF k \in victims THEN NoEntry ELSE entries[k]]
  BY <1>3 DEF Shape
<1>5. nb \in Region!InRegion
  <2>1. nb.off \in Nat /\ nb.len \in Nat
    BY <1>2, BlockFields
  <2>2. nextOffset' \in Nat /\ nextOffset' <= Capacity /\ nb.off + nb.len <= nextOffset'
    BY DEF Places
  <2>3. nb.off + nb.len <= Capacity
    BY <2>1, <2>2, PoolAssumption
  <2>4. QED
    BY <1>2, <2>3 DEF Region!InRegion, Block
<1>6. \A k \in Live \ victims : Region!Disjoint(entries[k], nb)
  BY DEF Places, Apart, Region!Disjoint
<1>7. mem' = mem \/ mem' = [x \in DOMAIN mem |->
                              IF x \in Region!Span(nb) THEN key ELSE mem[x]]
  BY <1>2 DEF CopyInto, Region!Span, Bytes
<1>8. Region!Give(key, nb, victims)
  BY <1>1, <1>2, <1>4, <1>6, <1>7 DEF Region!Give
<1>9. victims \in SUBSET Region!Owners
  BY <1>1, <1>2
<1>10. QED
  BY <1>2, <1>5, <1>8, <1>9 DEF Region!RegionNext

(* The pool is an implementation of PageRegion for every region size and   *)
(* every mix of page lengths: a key's block is its own, byte for byte,     *)
(* from publish or reserve to eviction or remove.                          *)
THEOREM PoolImplementsRegion == PoolSpec => ImplementsRegion
<1>1. PoolInit => Region!RegionInit
  BY DEF PoolInit, Region!RegionInit
<1>2. PoolInv /\ [PoolNext]_poolVars => [Region!RegionNext]_(Region!regionVars)
  <2>1. SUFFICES ASSUME PoolInv, [PoolNext]_poolVars
                 PROVE  [Region!RegionNext]_(Region!regionVars)
    OBVIOUS
  <2>2. CASE UNCHANGED poolVars
    BY <2>2 DEF poolVars, Region!regionVars
  <2>3. CASE PoolNext
    BY <2>1, <2>3, StepPlacesOrFrees, FreeingIsDrop, PlacingIsGive
  <2>4. QED
    BY <2>1, <2>2, <2>3
<1>3. QED
  BY <1>1, <1>2, PoolInvariance, PTL DEF PoolSpec, ImplementsRegion, Region!RegionSpec

-----------------------------------------------------------------------------
(* The disk tier.                                                          *)

(* What the pages S take on disk is the sum of their sizes.                *)
LEMMA DiskBytes == \A S : BytesOnDisk(S) = SumOver(SizeOf, S)
  BY DEF BytesOnDisk, SumOver

(* The size of a set of pages.                                             *)
LEMMA BytesFacts ==
  ASSUME NEW S \in SUBSET Keys, IsFiniteSet(S)
  PROVE  /\ BytesOnDisk(S) \in Int /\ BytesOnDisk({}) = 0
         /\ \A U \in SUBSET S :
              /\ BytesOnDisk(S) - BytesOnDisk(U) = BytesOnDisk(S \ U)
              /\ BytesOnDisk(U) <= BytesOnDisk(S)
         /\ \A k \in Keys \ S : BytesOnDisk(S \cup {k}) = BytesOnDisk(S) + SizeOf[k]
<1>1. \A k \in Keys : SizeOf[k] \in Nat \ {0}
  BY DiskAssumption
<1>2. Summable(SizeOf, S) /\ \A k \in S : SizeOf[k] >= 0
  BY <1>1 DEF Summable
<1>3. SumOver(SizeOf, S) \in Int /\ SumOver(SizeOf, {}) = 0
  BY <1>2, SumType, SumOfNone
<1>4. ASSUME NEW U \in SUBSET S
      PROVE  /\ SumOver(SizeOf, S) - SumOver(SizeOf, U) = SumOver(SizeOf, S \ U)
             /\ SumOver(SizeOf, U) <= SumOver(SizeOf, S)
  <2>1. Summable(SizeOf, U) /\ Summable(SizeOf, S \ U)
    BY <1>2, SummableSubset
  <2>2. SumOver(SizeOf, U) \in Int /\ SumOver(SizeOf, S \ U) \in Int
    BY <2>1, SumType
  <2>3. SumOver(SizeOf, S) = SumOver(SizeOf, U) + SumOver(SizeOf, S \ U)
    BY <1>2, SumSplit
  <2>4. SumOver(SizeOf, U) <= SumOver(SizeOf, S)
    BY <1>2, SumOfPart
  <2>5. QED
    BY <2>2, <2>3, <2>4
<1>5. ASSUME NEW k \in Keys \ S
      PROVE  SumOver(SizeOf, S \cup {k}) = SumOver(SizeOf, S) + SizeOf[k]
  <2>1. SumOver(SizeOf, S \cup {k}) = SizeOf[k] + SumOver(SizeOf, S)
    BY <1>1, <1>2, SumAdd
  <2>2. QED
    BY <1>1, <1>3, <2>1
<1>6. QED
  BY <1>3, <1>4, <1>5, DiskBytes

(* One page.                                                               *)
LEMMA BytesOfOne ==
  \A k \in Keys : BytesOnDisk({k}) = SizeOf[k] /\ SizeOf[k] \in Nat \ {0} /\ SizeOf[k] \in Int
<1> SUFFICES ASSUME NEW k \in Keys
             PROVE  /\ BytesOnDisk({k}) = SizeOf[k]
                    /\ SizeOf[k] \in Nat \ {0} /\ SizeOf[k] \in Int
  OBVIOUS
<1>1. BytesOnDisk({} \cup {k}) = BytesOnDisk({}) + SizeOf[k] /\ BytesOnDisk({}) = 0
  BY BytesFacts, FS_EmptySet
<1>2. {} \cup {k} = {k} /\ SizeOf[k] \in Nat \ {0}
  BY DiskAssumption
<1>3. QED
  BY <1>1, <1>2

(* A key moved to the end of the index, or added there.                    *)
LEMMA IndexMove ==
  ASSUME NEW s \in Seq(Keys), NoRepeats(s), NEW k \in Keys, NEW idx,
         idx = Append(Without(s, k), k)
  PROVE  /\ idx \in Seq(Keys) /\ NoRepeats(idx) /\ Range(idx) = Range(s) \cup {k}
         /\ Len(idx) \in Nat \ {0} /\ idx[Len(idx)] = k
<1> DEFINE w == OnlyIn(s, Keys \ {k})
<1>1. /\ w \in Seq(Keys \cap (Keys \ {k})) /\ Range(w) = Range(s) \cap (Keys \ {k})
      /\ NoRepeats(w)
  BY Zenon, OnlyInFacts DEF NoRepeats
<1>2. Range(s) \subseteq Keys
  BY ListFacts
<1>3. w \in Seq(Keys)
  BY <1>1
<1>4. idx = Append(w, k)
  BY DEF Without
<1> HIDE DEF w
<1>5. k \notin Range(w) /\ Range(w) \cup {k} = Range(s) \cup {k}
  BY <1>1, <1>2
<1>6. Len(w) \in Nat
  BY <1>3, ListFacts
<1>7. /\ Append(w, k) \in Seq(Keys) /\ NoRepeats(Append(w, k))
      /\ Range(Append(w, k)) = Range(w) \cup {k}
      /\ Len(Append(w, k)) = Len(w) + 1 /\ Append(w, k)[Len(w) + 1] = k
  BY <1>1, <1>3, <1>5, AppendNew
<1>8. QED
  BY <1>4, <1>5, <1>6, <1>7

(* Of the order idx the keys out are popped, and the order rest is left,   *)
(* which fits unless it is down to the last key; nothing is popped from an *)
(* order that fits.                                                        *)
Popped(idx, out, rest) ==
  /\ Range(out) \subseteq Range(idx)
  /\ rest \in Seq(Keys) /\ NoRepeats(rest) /\ Range(rest) = Range(idx) \ Range(out)
  /\ BytesOnDisk(Range(idx)) - BytesOnDisk(Range(out)) = BytesOnDisk(Range(rest))
  /\ \/ BytesOnDisk(Range(rest)) <= MaxBytes
     \/ Range(rest) = {idx[Len(idx)]}
  /\ BytesOnDisk(Range(idx)) <= MaxBytes => out = <<>>

(* The capacity loop of _write.                                            *)
LEMMA VictimsFacts ==
  ASSUME NEW idx \in Seq(Keys), NoRepeats(idx), Len(idx) # 0,
         NEW out, out = DiskVictims(idx, BytesOnDisk(Range(idx)))
  PROVE  Popped(idx, out, SubSeq(idx, Len(out) + 1, Len(idx)))
<1> DEFINE n == PrefixToDrop(SizeOf, MaxBytes, idx)
           rest == SubSeq(idx, n + 1, Len(idx))
<1>2. out = SubSeq(idx, 1, n)
  BY Zenon, DiskBytes DEF DiskVictims, PrefixToDrop
<1> HIDE DEF n
<1>3. \A k \in Keys : SizeOf[k] \in Int
  BY Zenon, BytesOfOne
<1>4. /\ n \in 0 .. Len(idx)
      /\ \/ BytesOnDisk(Range(idx)) - BytesOnDisk(Range(out)) <= MaxBytes
         \/ Len(idx) - n = 1
      /\ BytesOnDisk(Range(idx)) <= MaxBytes => n = 0
  BY <1>2, <1>3, PrefixFacts, DiskBytes DEF n
<1>5. /\ Len(out) = n /\ rest \in Seq(Keys) /\ NoRepeats(rest) /\ out \in Seq(Keys)
      /\ Range(out) \subseteq Range(idx) /\ Range(rest) = Range(idx) \ Range(out)
      /\ (Len(idx) - n = 1 => Range(rest) = {idx[Len(idx)]})
  BY <1>2, <1>4, CutInTwo
<1>6. Range(idx) \in SUBSET Keys /\ IsFiniteSet(Range(idx))
  BY Zenon, ListFacts
<1>7. BytesOnDisk(Range(idx)) - BytesOnDisk(Range(out)) = BytesOnDisk(Range(rest))
  BY <1>5, <1>6, BytesFacts
<1>8. n = 0 => out = <<>>
  BY <1>5, EmptyFacts
<1> HIDE DEF rest
<1>9. Popped(idx, out, rest)
  BY <1>4, <1>5, <1>7, <1>8 DEF Popped
<1>10. QED
  BY <1>5, <1>9 DEF rest

-----------------------------------------------------------------------------
(* The disk tier over crashes and restarts.                                *)

(* The types of the disk tier.                                             *)
DiskTyped ==
  /\ index \in Seq(Keys) /\ queue \in Seq(Keys)
  /\ files \in SUBSET Keys /\ IsFiniteSet(files)
  /\ writer \in WriterRec /\ (writer.pc # "wait" => writer.key \in Keys)

(* The index lists a key once and only pages that have a file; so does the *)
(* one in index.json, but for the files.                                   *)
IndexOK ==
  /\ NoRepeats(index)
  /\ Indexed \subseteq files
  /\ diskUsed = BytesOnDisk(Indexed)
  /\ saved # NoIndex => saved \in Seq(Keys) /\ NoRepeats(saved)

(* A page on its way is queued once or in the writer's hands, and is one   *)
(* that fits; it has its file when the writer comes to index it.           *)
QueueOK ==
  /\ NoRepeats(queue)
  /\ inflight = Range(queue) \cup Hand
  /\ Hand \cap Range(queue) = {}
  /\ \A k \in inflight : SizeOf[k] <= MaxBytes
  /\ writer.pc = "index" => writer.key \in files

(* The inductive invariant of the disk tier over restarts.                 *)
RestartInv == DiskTyped /\ IndexOK /\ QueueOK

(* An empty disk tier.                                                     *)
LEMMA RestartInvInit == RestartInit => RestartInv
<1> SUFFICES ASSUME RestartInit PROVE RestartInv
  OBVIOUS
<1>1. /\ index = <<>> /\ diskUsed = 0 /\ inflight = {} /\ queue = <<>> /\ files = {}
      /\ writer = Waiting /\ saved = NoIndex
  BY DEF RestartInit, DiskInit
<1>2. <<>> \in Seq(Keys) /\ Range(<<>>) = {} /\ NoRepeats(<<>>)
  BY DEF Range, NoRepeats
<1>3. Waiting \in WriterRec /\ Waiting.pc = "wait"
  BY DEF Waiting, WriterRec
<1>4. DiskTyped
  BY <1>1, <1>2, <1>3, FS_EmptySet DEF DiskTyped
<1>5. IndexOK
  BY <1>1, <1>2, BytesFacts, FS_EmptySet DEF IndexOK, Indexed
<1>6. QueueOK
  BY <1>1, <1>2, <1>3 DEF QueueOK, Hand
<1>7. QED
  BY <1>4, <1>5, <1>6 DEF RestartInv

(* put queues a page it has not seen.                                      *)
LEMMA PutStep ==
  ASSUME RestartInv, NEW k \in Keys, DiskPut(k), UNCHANGED saved
  PROVE  RestartInv'
<1>1. UNCHANGED <<index, diskUsed, files, writer, saved>>
  BY DEF DiskPut, diskVars
<1>2. Indexed' = Indexed /\ Hand' = Hand
  BY <1>1 DEF Indexed, Hand
<1>3. IndexOK'
  BY <1>1, <1>2 DEF RestartInv, IndexOK
<1>4. CASE inflight' = inflight \cup {k} /\ queue' = Append(queue, k)
           /\ SizeOf[k] <= MaxBytes /\ k \notin inflight
  <2>1. /\ queue \in Seq(Keys) /\ NoRepeats(queue) /\ k \notin Range(queue) /\ k \notin Hand
        /\ inflight = Range(queue) \cup Hand /\ Hand \cap Range(queue) = {}
    BY <1>4 DEF RestartInv, DiskTyped, QueueOK
  <2>2. queue' \in Seq(Keys) /\ NoRepeats(queue') /\ Range(queue') = Range(queue) \cup {k}
    BY <1>4, <2>1, AppendNew
  <2>3. DiskTyped'
    BY <1>1, <2>2 DEF RestartInv, DiskTyped
  <2>4. inflight' = Range(queue') \cup Hand' /\ Hand' \cap Range(queue') = {}
    BY <1>2, <1>4, <2>1, <2>2
  <2>5. \A x \in inflight' : SizeOf[x] <= MaxBytes
    BY <1>4 DEF RestartInv, QueueOK
  <2>6. QueueOK'
    BY <1>1, <2>2, <2>4, <2>5 DEF RestartInv, QueueOK
  <2>7. QED
    BY <1>3, <2>3, <2>6 DEF RestartInv
<1>5. CASE inflight' = inflight /\ queue' = queue
  BY <1>1, <1>2, <1>3, <1>5 DEF RestartInv, DiskTyped, QueueOK
<1>6. QED
  BY <1>4, <1>5 DEF DiskPut, diskVars

(* get moves the page it finds to the end of the index.                    *)
LEMMA TouchStep ==
  ASSUME RestartInv, NEW k \in Keys, DiskTouch(k), UNCHANGED saved
  PROVE  RestartInv'
<1>1. /\ UNCHANGED <<diskUsed, inflight, queue, files, writer, saved>>
      /\ k \in Indexed /\ index' = Append(Without(index, k), k)
  BY DEF DiskTouch
<1>2. index \in Seq(Keys) /\ NoRepeats(index)
  BY DEF RestartInv, DiskTyped, IndexOK
<1>3. index' \in Seq(Keys) /\ NoRepeats(index') /\ Range(index') = Range(index) \cup {k}
  BY Zenon, <1>1, <1>2, IndexMove
<1>4. Indexed' = Indexed /\ Hand' = Hand
  BY <1>1, <1>3 DEF Indexed, Hand
<1>5. DiskTyped'
  BY <1>1, <1>3 DEF RestartInv, DiskTyped
<1>6. IndexOK'
  BY <1>1, <1>3, <1>4 DEF RestartInv, IndexOK
<1>7. QueueOK'
  BY <1>1, <1>4 DEF RestartInv, QueueOK
<1>8. QED
  BY <1>5, <1>6, <1>7 DEF RestartInv

(* The steps of the writer that leave the index alone.                     *)
LEMMA WriterKeepsDisk ==
  ASSUME RestartInv, UNCHANGED saved,
         WriterTake \/ WriterWrite \/ WriterFails \/ WriterReported \/ WriterDone
  PROVE  RestartInv'
<1>0. /\ writer \in WriterRec /\ (writer.pc # "wait" => writer.key \in Keys)
      /\ queue \in Seq(Keys) /\ NoRepeats(queue) /\ inflight = Range(queue) \cup Hand
      /\ Hand \cap Range(queue) = {}
      /\ files \in SUBSET Keys /\ IsFiniteSet(files)
  BY DEF RestartInv, DiskTyped, QueueOK
<1>1. UNCHANGED <<index, diskUsed, saved>> /\ Indexed' = Indexed
  BY DEF WriterTake, WriterWrite, WriterFails, WriterReported, WriterDone, Indexed
<1>2. ASSUME files \subseteq files' PROVE IndexOK'
  BY <1>1, <1>2 DEF RestartInv, IndexOK
<1>3. CASE WriterTake
  <2>1. /\ UNCHANGED <<inflight, files>> /\ writer.pc = "wait" /\ queue # <<>>
        /\ writer' = [writer EXCEPT !.pc = "write", !.key = Head(queue)]
        /\ queue' = Tail(queue)
    BY <1>3 DEF WriterTake
  <2>2. /\ Head(queue) \in Range(queue) /\ queue' \in Seq(Keys) /\ NoRepeats(queue')
        /\ Range(queue') = Range(queue) \ {Head(queue)}
    BY <1>0, <2>1, TakeFirst
  <2>3. Head(queue) \in Keys
    BY <1>0, <2>2, ListFacts
  <2>4. /\ writer' \in WriterRec /\ writer'.pc = "write" /\ writer'.key = Head(queue)
    BY Zenon, <1>0, <2>1, <2>3 DEF WriterRec
  <2>5. Hand = {} /\ Hand' = {Head(queue)}
    BY <2>1, <2>4 DEF Hand
  <2>6. DiskTyped'
    BY <1>0, <1>1, <2>1, <2>2, <2>3, <2>4 DEF RestartInv, DiskTyped
  <2>7. inflight' = Range(queue') \cup Hand' /\ Hand' \cap Range(queue') = {}
    BY <1>0, <2>1, <2>2, <2>5
  <2>8. QueueOK'
    BY <2>1, <2>2, <2>4, <2>7 DEF RestartInv, QueueOK
  <2>9. QED
    BY <1>2, <2>1, <2>6, <2>8 DEF RestartInv
<1>4. CASE WriterWrite
  <2>1. /\ UNCHANGED <<inflight, queue>> /\ writer.pc = "write"
        /\ writer' = [writer EXCEPT !.pc = "index"] /\ files' = files \cup {writer.key}
    BY <1>4 DEF WriterWrite
  <2>2. writer' \in WriterRec /\ writer'.pc = "index" /\ writer'.key = writer.key
    BY <1>0, <2>1 DEF WriterRec
  <2>3. Hand' = Hand
    BY <2>1, <2>2 DEF Hand
  <2>4. files' \in SUBSET Keys /\ IsFiniteSet(files') /\ writer.key \in Keys
    BY Zenon, <1>0, <2>1, FS_AddElement
  <2>5. DiskTyped'
    BY <1>1, <2>1, <2>2, <2>4 DEF RestartInv, DiskTyped
  <2>6. QueueOK'
    BY <2>1, <2>2, <2>3 DEF RestartInv, QueueOK
  <2>7. QED
    BY <1>2, <2>1, <2>5, <2>6 DEF RestartInv
<1>5. CASE WriterFails \/ WriterReported
  <2>1. /\ UNCHANGED <<inflight, queue, files>> /\ writer.pc \in {"write", "callback"}
        /\ writer' = [writer EXCEPT !.pc = "done"]
    BY <1>5 DEF WriterFails, WriterReported
  <2>2. writer' \in WriterRec /\ writer'.pc = "done" /\ writer'.key = writer.key
    BY <1>0, <2>1 DEF WriterRec
  <2>3. Hand' = Hand
    BY <2>1, <2>2 DEF Hand
  <2>4. DiskTyped'
    BY <1>0, <1>1, <2>1, <2>2 DEF RestartInv, DiskTyped
  <2>5. QueueOK'
    BY <2>1, <2>2, <2>3 DEF RestartInv, QueueOK
  <2>6. QED
    BY <1>2, <2>1, <2>4, <2>5 DEF RestartInv
<1>6. CASE WriterDone
  <2>1. /\ UNCHANGED <<queue, files>> /\ writer.pc = "done"
        /\ inflight' = inflight \ {writer.key} /\ writer' = Waiting
    BY <1>6 DEF WriterDone
  <2>2. writer' \in WriterRec /\ writer'.pc = "wait"
    BY <2>1 DEF WriterRec, Waiting
  <2>3. Hand = {writer.key} /\ Hand' = {}
    BY <2>1, <2>2 DEF Hand
  <2>4. DiskTyped'
    BY <1>0, <1>1, <2>1, <2>2 DEF RestartInv, DiskTyped
  <2>5. inflight' = Range(queue') \cup Hand' /\ Hand' \cap Range(queue') = {}
    BY <1>0, <2>1, <2>3
  <2>6. QueueOK'
    BY <2>1, <2>2, <2>5 DEF RestartInv, QueueOK
  <2>7. QED
    BY <1>2, <2>1, <2>4, <2>6 DEF RestartInv
<1>7. QED
  BY <1>3, <1>4, <1>5, <1>6

(* The second critical section of _write keeps the index sound and leaves  *)
(* it within its limit, however far over it was before.                    *)
LEMMA IndexStep ==
  ASSUME RestartInv, UNCHANGED saved, WriterIndex
  PROVE  RestartInv' /\ diskUsed' <= MaxBytes
<1> DEFINE k     == writer.key
           idx   == Append(Without(index, k), k)
           bytes == diskUsed + (IF k \in Indexed THEN 0 ELSE SizeOf[k])
           out   == DiskVictims(idx, bytes)
<1>0. /\ writer \in WriterRec /\ writer.pc = "index" /\ k \in Keys /\ k \in files
      /\ index \in Seq(Keys) /\ NoRepeats(index) /\ Indexed \subseteq files
      /\ diskUsed = BytesOnDisk(Indexed) /\ files \in SUBSET Keys /\ IsFiniteSet(files)
      /\ k \in inflight
  BY DEF RestartInv, DiskTyped, IndexOK, QueueOK, WriterIndex, Hand
<1>1. /\ UNCHANGED <<inflight, queue>>
      /\ index' = SubSeq(idx, Len(out) + 1, Len(idx))
      /\ diskUsed' = bytes - BytesOnDisk(Range(out))
      /\ files' = files \ Range(out)
      /\ writer' = [writer EXCEPT !.pc = IF out = <<>> THEN "done" ELSE "callback",
                                  !.evicted = Range(out)]
  BY DEF WriterIndex
<1> HIDE DEF out
<1>2. /\ idx \in Seq(Keys) /\ NoRepeats(idx) /\ Range(idx) = Indexed \cup {k}
      /\ Len(idx) \in Nat \ {0} /\ idx[Len(idx)] = k
  BY Zenon, <1>0, IndexMove DEF Indexed
<1> HIDE DEF idx
<1>3. bytes = BytesOnDisk(Range(idx))
  <2>1. Indexed \in SUBSET Keys /\ IsFiniteSet(Indexed)
    BY <1>0, ListFacts DEF Indexed
  <2>2. BytesOnDisk(Indexed) \in Int
    BY <2>1, BytesFacts
  <2>3. CASE k \in Indexed
    <3>1. Indexed \cup {k} = Indexed
      BY <2>3
    <3>2. bytes = BytesOnDisk(Indexed)
      BY <1>0, <2>2, <2>3
    <3>3. QED
      BY Zenon, <1>2, <3>1, <3>2
  <2>4. CASE k \notin Indexed
    <3>1. BytesOnDisk(Indexed \cup {k}) = BytesOnDisk(Indexed) + SizeOf[k]
      BY <1>0, <2>1, <2>4, BytesFacts
    <3>2. QED
      BY Zenon, <1>0, <1>2, <2>4, <3>1
  <2>5. QED
    BY <2>3, <2>4
<1> HIDE DEF bytes
<1>4. /\ Range(out) \subseteq Range(idx)
      /\ index' \in Seq(Keys) /\ NoRepeats(index') /\ Range(index') = Range(idx) \ Range(out)
      /\ bytes - BytesOnDisk(Range(out)) = BytesOnDisk(Range(index'))
      /\ BytesOnDisk(Range(index')) <= MaxBytes \/ Range(index') = {idx[Len(idx)]}
  <2>1. out = DiskVictims(idx, bytes) /\ index' = SubSeq(idx, Len(out) + 1, Len(idx))
    BY <1>1 DEF out
  <2>2. Popped(idx, out, index')
    BY Zenon, <1>2, <1>3, <2>1, VictimsFacts
  <2>3. QED
    BY Zenon, <1>2, <1>3, <2>1, <2>2 DEF Popped
<1>5. diskUsed' = BytesOnDisk(Indexed') /\ Indexed' = Range(idx) \ Range(out)
  BY <1>1, <1>4 DEF Indexed
<1>6. diskUsed' <= MaxBytes
  <2>1. CASE BytesOnDisk(Range(index')) <= MaxBytes
    BY <1>5, <2>1 DEF Indexed
  <2>2. CASE Range(index') = {k}
    <3>1. diskUsed' = SizeOf[k]
      BY Zenon, <1>0, <1>5, <2>2, BytesOfOne DEF Indexed
    <3>2. QED
      BY <1>0, <3>1 DEF RestartInv, QueueOK
  <2>3. QED
    BY <1>2, <1>4, <2>1, <2>2
<1>7. /\ writer' \in WriterRec /\ writer'.pc \in {"done", "callback"} /\ writer'.key = k
  <2>1. Range(out) \in SUBSET Keys
    BY Zenon, <1>2, <1>4, ListFacts
  <2>2. QED
    BY Zenon, <1>0, <1>1, <2>1 DEF WriterRec
<1>8. Hand' = Hand
  BY <1>0, <1>7 DEF Hand
<1>9. files' \in SUBSET Keys /\ IsFiniteSet(files')
  BY <1>0, <1>1, FS_Subset
<1>10. DiskTyped'
  BY <1>0, <1>1, <1>4, <1>7, <1>9 DEF RestartInv, DiskTyped
<1>11. Indexed' \subseteq files'
  BY <1>0, <1>1, <1>2, <1>5
<1>12. IndexOK'
  BY <1>4, <1>5, <1>11 DEF RestartInv, IndexOK
<1>13. QueueOK'
  BY <1>1, <1>7, <1>8 DEF RestartInv, QueueOK
<1>14. QED
  BY <1>6, <1>10, <1>12, <1>13 DEF RestartInv

(* The end of a process: the files stay, and index.json is the old one or  *)
(* the index of the moment.                                                *)
LEMMA StoppedStep ==
  ASSUME RestartInv, Stopped, FlushIndex
  PROVE  RestartInv'
<1>1. /\ index' = <<>> /\ diskUsed' = 0 /\ inflight' = {} /\ queue' = <<>> /\ files' = files
      /\ writer' = Waiting
  BY DEF Stopped
<1>2. <<>> \in Seq(Keys) /\ Range(<<>>) = {} /\ NoRepeats(<<>>)
  BY DEF Range, NoRepeats
<1>3. Waiting \in WriterRec /\ Waiting.pc = "wait"
  BY Zenon DEF Waiting, WriterRec
<1>4. DiskTyped'
  BY <1>1, <1>2, <1>3 DEF RestartInv, DiskTyped
<1>5. saved' # NoIndex => saved' \in Seq(Keys) /\ NoRepeats(saved')
  BY DEF RestartInv, DiskTyped, IndexOK, FlushIndex
<1>6. Indexed' = {} /\ Hand' = {}
  BY <1>1, <1>2, <1>3 DEF Indexed, Hand
<1>7. IndexOK'
  BY <1>1, <1>2, <1>5, <1>6, BytesFacts, FS_EmptySet DEF IndexOK
<1>8. QueueOK'
  BY <1>1, <1>2, <1>3, <1>6 DEF QueueOK
<1>9. QED
  BY <1>4, <1>7, <1>8 DEF RestartInv

(* A new process: whichever way it finds its index, it is sound.           *)
LEMMA RestartStep ==
  ASSUME RestartInv, Restart
  PROVE  RestartInv'
<1>1. UNCHANGED <<inflight, queue, files, writer, saved>>
  BY DEF Restart
<1>2. index' \in Seq(Keys) /\ NoRepeats(index') /\ Range(index') \subseteq files
      /\ diskUsed' = BytesOnDisk(Range(index'))
  <2>1. CASE LoadIndex
    <3>1. /\ saved \in Seq(Keys) /\ NoRepeats(saved)
          /\ index' = OnlyIn(saved, files) /\ diskUsed' = BytesOnDisk(Range(saved) \cap files)
      BY <2>1 DEF LoadIndex, RestartInv, IndexOK
    <3>2. /\ index' \in Seq(Keys \cap files) /\ Range(index') = Range(saved) \cap files
          /\ NoRepeats(index')
      BY <3>1, OnlyInFacts DEF NoRepeats
    <3>3. QED
      BY <3>1, <3>2
  <2>2. CASE RebuildFromScan
    <3>1. /\ index' \in [1 .. Cardinality(files) -> files] /\ Range(index') = files
          /\ diskUsed' = BytesOnDisk(files)
      BY <2>2 DEF RebuildFromScan
    <3>2. files \in SUBSET Keys /\ Cardinality(files) \in Nat
      BY FS_CardinalityType DEF RestartInv, DiskTyped
    <3>3. index' \in Seq(files) /\ Len(index') = Cardinality(files)
      BY <3>1, <3>2, FunctionIsSeq
    <3>4. DOMAIN index' = 1 .. Len(index')
      BY <3>3, ListFacts
    <3>5. NoRepeats(index')
      BY <3>1, <3>3, <3>4, DistinctSeqSize DEF NoRepeats
    <3>6. QED
      BY <3>1, <3>2, <3>3, <3>5
  <2>3. QED
    BY <2>1, <2>2 DEF Restart
<1>3. Hand' = Hand /\ Indexed' = Range(index')
  BY <1>1 DEF Hand, Indexed
<1>4. DiskTyped'
  BY <1>1, <1>2 DEF RestartInv, DiskTyped
<1>5. IndexOK'
  BY <1>1, <1>2, <1>3 DEF RestartInv, IndexOK
<1>6. QueueOK'
  BY <1>1, <1>3 DEF RestartInv, QueueOK
<1>7. QED
  BY <1>4, <1>5, <1>6 DEF RestartInv

(* Every step, stops and restarts included, keeps the invariant.           *)
LEMMA RestartInvStep == RestartInv /\ [RestartNext]_restartVars => RestartInv'
<1> SUFFICES ASSUME RestartInv, [RestartNext]_restartVars PROVE RestartInv'
  OBVIOUS
<1>1. CASE UNCHANGED restartVars
  BY Zenon, <1>1 DEF restartVars, diskVars, RestartInv, DiskTyped, IndexOK, QueueOK, Hand, Indexed
<1>2. ASSUME NEW k \in Keys, Put(k) PROVE RestartInv'
  BY <1>2, PutStep DEF Put
<1>3. ASSUME NEW k \in Keys, Get(k) PROVE RestartInv'
  BY <1>3, TouchStep DEF Get
<1>4. CASE IndexAndCount
  BY <1>4, IndexStep DEF IndexAndCount
<1>5. CASE WriterFlush \/ CloseStart
  <2>1. UNCHANGED diskVars /\ (saved' = index \/ saved' = saved)
    BY <1>5 DEF WriterFlush, FlushIndex, CloseStart
  <2>2. saved' # NoIndex => saved' \in Seq(Keys) /\ NoRepeats(saved')
    BY <2>1 DEF RestartInv, DiskTyped, IndexOK
  <2>3. Indexed' = Indexed /\ Hand' = Hand
    BY <2>1 DEF diskVars, Indexed, Hand
  <2>4. QED
    BY <2>1, <2>2, <2>3 DEF diskVars, RestartInv, DiskTyped, IndexOK, QueueOK
<1>6. CASE UNCHANGED saved
           /\ (WriterTake \/ WriterWrite \/ WriterFails \/ WriterReported \/ WriterDone)
  BY <1>6, WriterKeepsDisk
<1>7. CASE Crash \/ CloseEnd
  BY <1>7, StoppedStep DEF Crash, CloseEnd, FlushIndex
<1>8. CASE Restart
  BY <1>8, RestartStep
<1>9. CASE WriterStep
  BY <1>4, <1>5, <1>6, <1>9 DEF WriterStep
<1>10. QED
  BY <1>1, <1>2, <1>3, <1>5, <1>7, <1>8, <1>9 DEF RestartNext

(* The inductive invariant of the disk tier over crashes and restarts.     *)
THEOREM RestartInvariance == RestartSpec => []RestartInv
  BY RestartInvInit, RestartInvStep, PTL DEF RestartSpec

(* _inflight is exact: what is queued and what the writer has, each once.  *)
THEOREM InflightIsExact == RestartSpec => []InflightExact
<1>1. RestartInv => InflightExact
  <2> SUFFICES ASSUME RestartInv PROVE InflightExact
    OBVIOUS
  <2>1. /\ queue \in Seq(Keys) /\ NoRepeats(queue) /\ inflight = Range(queue) \cup Hand
        /\ Hand \cap Range(queue) = {}
    BY DEF RestartInv, DiskTyped, QueueOK
  <2>2. DOMAIN queue = 1 .. Len(queue) /\ Len(queue) \in Nat
    BY <2>1, ListFacts
  <2>3. IsFiniteSet(Range(queue)) /\ Cardinality(Range(queue)) = Len(queue)
    BY <2>1, <2>2, DistinctSeqSize DEF NoRepeats
  <2>4. Cardinality(inflight) = Len(queue) + Cardinality(Hand)
    <3>1. CASE Hand = {}
      BY <2>1, <2>2, <2>3, <3>1, FS_EmptySet
    <3>2. CASE Hand = {writer.key}
      <4>1. writer.key \notin Range(queue)
        BY <2>1, <3>2
      <4>2. Cardinality(Hand) = 1
        BY Zenon, <3>2, FS_Singleton
      <4>3. Cardinality(Range(queue) \cup {writer.key}) = Cardinality(Range(queue)) + 1
        BY Zenon, <2>3, <4>1, FS_AddElement
      <4>4. QED
        BY <2>1, <2>3, <3>2, <4>2, <4>3
    <3>3. QED
      BY <3>1, <3>2 DEF Hand
  <2>5. QED
    BY <2>1, <2>4 DEF InflightExact, Hand
<1>2. QED
  BY <1>1, RestartInvariance, PTL

(* Over crashes, stops and restarts the index lists every key once, its    *)
(* size is exact, and every page in it has a file.                         *)
THEOREM IndexIsSound == RestartSpec => []IndexSound
<1>1. RestartInv => IndexSound
  <2> SUFFICES ASSUME RestartInv PROVE IndexSound
    OBVIOUS
  <2>1. index \in Seq(Keys) /\ NoRepeats(index)
    BY DEF RestartInv, DiskTyped, IndexOK
  <2>2. DOMAIN index = 1 .. Len(index)
    BY <2>1, ListFacts
  <2>3. Cardinality(Indexed) = Len(index)
    BY <2>1, <2>2, DistinctSeqSize DEF NoRepeats, Indexed
  <2>4. QED
    BY <2>3 DEF RestartInv, IndexOK, IndexSound
<1>2. QED
  BY <1>1, RestartInvariance, PTL

(* The critical section that indexes a written page leaves the index       *)
(* within max_bytes, however far over its limit a scan had found it.       *)
THEOREM WritesRestoreBound == RestartSpec => WriteRestoresBound
<1> DEFINE A == writer.pc = "index" /\ writer'.pc \in {"callback", "done"} => diskUsed' <= MaxBytes
<1>1. RestartInv /\ [RestartNext]_restartVars => [A]_restartVars
  <2> SUFFICES ASSUME RestartInv, RestartNext, writer.pc = "index",
                      writer'.pc \in {"callback", "done"}
               PROVE  diskUsed' <= MaxBytes
    OBVIOUS
  <2>1. CASE IndexAndCount
    BY <2>1, IndexStep DEF IndexAndCount
  <2>2. CASE writer' = writer \/ writer' = Waiting
    BY <2>2 DEF Waiting
  <2>3. ASSUME NEW k \in Keys, Put(k) \/ Get(k) PROVE writer' = writer
    BY <2>3 DEF Put, Get, DiskPut, DiskTouch, diskVars
  <2>4. CASE WriterFlush \/ CloseStart \/ Restart
    BY <2>4, <2>2 DEF WriterFlush, CloseStart, Restart, diskVars
  <2>5. CASE Crash \/ CloseEnd
    BY <2>2, <2>5 DEF Crash, CloseEnd, Stopped
  <2>6. CASE WriterTake \/ WriterWrite \/ WriterFails \/ WriterReported \/ WriterDone
    BY <2>6 DEF WriterTake, WriterWrite, WriterFails, WriterReported, WriterDone
  <2>7. CASE WriterStep
    BY <2>1, <2>4, <2>6, <2>7 DEF WriterStep
  <2>8. QED
    BY <2>2, <2>3, <2>4, <2>5, <2>7 DEF RestartNext
<1>2. QED
  BY <1>1, RestartInvariance, PTL DEF RestartSpec, WriteRestoresBound
=============================================================================
