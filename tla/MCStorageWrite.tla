--------------------------- MODULE MCStorageWrite ---------------------------
(* Instances of StorageWrite for TLC: a pool of two pages; k4 is two long. *)
EXTENDS StorageWrite, TLC

CONSTANTS k1, k2, k3, k4, c1, c2

Seqs == INSTANCE SequencesExt

Units == {k1, k2, k3}
MCKeys == Units \cup {k4}
Sizes == [k \in MCKeys |-> IF k = k4 THEN 2 ELSE 1]
MCLengths == {1, 2}
TwoThreads == {c1, c2}

(* The pages of a batch in any order.                                      *)
MCBatches == UNION {Seqs!SetToSeqs(keys) : keys \in kSubset(1, MCKeys) \cup kSubset(2, MCKeys) \cup {Units}}

Run(clients, keys, n, faults) ==
  [clients : {clients}, keys : keys, maxBatch : {n}, faults : {faults}, diskEnabled : BOOLEAN]

(* Two pages fit into the pool, with each other.                           *)
Fitting == kSubset(2, Units)

OneClient(c) ==
  Run({c}, {Units}, 2, {"calls"}) \cup Run({c}, {Units}, 2, {"membership"})
  \cup Run({c}, {Units}, 2, {"write"}) \cup Run({c}, {Units}, 3, {})
  \cup Run({c}, {p \cup {k4} : p \in Fitting}, 2, {"calls"})
  \cup Run({c}, Fitting, 2, {"calls", "dir", "membership"})
  \cup Run({c}, Fitting, 2, {"late"}) \cup Run({c}, Fitting, 1, {"calls", "late"})

MCSettings == OneClient(c1) \cup OneClient(c2) \cup Run(TwoThreads, Fitting, 2, {"calls"})

(* A WRITE that fails; a batch the pool does not hold.                     *)
FailedWrite == Run({c1}, {Units}, 2, {"write"})
LargeBatch == Run({c1}, {Units}, 3, {})

Alike == Permutations(Units) \cup Permutations(TwoThreads)
=============================================================================
