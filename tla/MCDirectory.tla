---------------------------- MODULE MCDirectory ----------------------------
(* Instances of Directory for TLC: three nodes with two positions each,    *)
(* two keys with the same first owner and different second owners.         *)
EXTENDS Directory, TLC

CONSTANTS n1, n2, n3, k1, k2, loc, writer, reader

Three == {n1, n2, n3}
TwoKeys == {k1, k2}
MCPoints == (n1 :> {2, 5} @@ n2 :> {3, 8} @@ n3 :> {6, 9})
MCKeyPos == (k1 :> 1 @@ k2 :> 4)
MCCallers == {writer, reader}
MCLocs == {loc}
MCBatches == {<<k1, k2>>, <<k2>>}

Setting(ops, batches, down, faults) ==
  [ops |-> ops, batches |-> batches, down |-> down, faults |-> faults]

Changes == {"put", "delete"}
LookUps == {"get", "exists"}

(* One thread changes entries and the other looks them up.                 *)
OneWriter(changes, lookups) == (writer :> changes @@ reader :> lookups)

(* Both change the entry of a key, one looks it up too.                    *)
TwoWriters == {Setting(OneWriter(Changes, {"put", "get"}), {<<k2>>}, {}, {})}

MCSettings == {Setting(OneWriter(Changes, LookUps), MCBatches, d, {"cut"}) : d \in {{}, {n1}, {n2}}}
              \cup {Setting(OneWriter({"put"}, {"get"}), {<<k2>>}, {}, {"late"})}
              \cup {Setting(OneWriter(Changes, {"put", "get"}), {<<k2>>}, d, {"cut"}) : d \in {{}, {n1}}}
====
