----------------------------- MODULE MCP2PStore -----------------------------
(* Instances of P2PStore for TLC.  The pool has room for both pages a or   *)
(* for one b or c, the disk tier for both pages a and one b, for both      *)
(* pages b or for one c.                                                   *)
EXTENDS P2PStore, TLC

CONSTANTS a1, a2, b1, b2, c1, c2, t1, t2

KeysA == {a1, a2}
KeysB == {b1, b2}
KeysC == {c1, c2}
AllKeys == KeysA \cup KeysB \cup KeysC
TwoThreads == {t1, t2}

MCLengths == {2, 3, 4}
MCSizeOf == [k \in Keys |-> IF k \in KeysA THEN 2 ELSE IF k \in KeysB THEN 3 ELSE 4]

(* One thread makes every call, with and without a disk tier, on pages     *)
(* that all fit on disk or on pages of which only one does.                *)
Alone ==
  {[threads |-> {t}, calls |-> Calls, keys |-> ks, batch |-> 2, promotes |-> n,
    diskEnabled |-> d, ioErrors |-> FALSE, dirFails |-> FALSE, remembers |-> FALSE] :
     d \in BOOLEAN, t \in Threads, n \in 1 .. 2,
     ks \in {KeysA \cup {b} : b \in KeysB} \cup {KeysB, KeysC}}

(* Two threads, directory calls that get lost, room for all pages on disk. *)
Ample ==
  {[threads |-> {t1, t2}, calls |-> Calls \ {"clear"}, keys |-> KeysB, batch |-> 2, promotes |-> 1,
    diskEnabled |-> TRUE, ioErrors |-> FALSE, dirFails |-> TRUE, remembers |-> FALSE]}

(* Two threads that publish and promote, and a disk tier that has room for *)
(* one page and fails to write some.                                       *)
Tight ==
  {[threads |-> {t1, t2}, calls |-> {"publish", "promote"}, keys |-> KeysC, batch |-> 1,
    promotes |-> 1, diskEnabled |-> TRUE, ioErrors |-> TRUE, dirFails |-> FALSE, remembers |-> FALSE]}

(* Two threads that publish, promote and clear, and writes and directory   *)
(* calls that fail.                                                        *)
Cleared ==
  {[threads |-> {t1, t2}, calls |-> {"publish", "promote", "clear"}, keys |-> ks, batch |-> 1,
    promotes |-> 1, diskEnabled |-> TRUE, ioErrors |-> TRUE, dirFails |-> TRUE, remembers |-> FALSE] :
     ks \in {{b1, c1}, {b2, c2}}}

(* Two threads and no disk tier, one page b or c in the pool at a time.    *)
TwoPublishers ==
  {[threads |-> {t1, t2}, calls |-> {"publish"}, keys |-> KeysB, batch |-> 1, promotes |-> 1,
    diskEnabled |-> FALSE, ioErrors |-> FALSE, dirFails |-> FALSE, remembers |-> FALSE]}

(* One thread that publishes and reads, with the locations it remembers.   *)
ReadRace ==
  {[threads |-> {t1}, calls |-> {"publish", "fetch"}, keys |-> KeysC, batch |-> 1, promotes |-> 1,
    diskEnabled |-> FALSE, ioErrors |-> FALSE, dirFails |-> FALSE, remembers |-> TRUE]}

(* The same with a disk tier, and every call.                              *)
Remembered ==
  {[threads |-> {t1}, calls |-> Calls, keys |-> KeysB, batch |-> 2, promotes |-> 1,
    diskEnabled |-> d, ioErrors |-> FALSE, dirFails |-> FALSE, remembers |-> TRUE] : d \in BOOLEAN}

(* One thread that publishes two pages at a time, and no disk tier.        *)
NoDisk ==
  {[threads |-> {t1}, calls |-> {"publish"}, keys |-> KeysB, batch |-> 2, promotes |-> 1,
    diskEnabled |-> FALSE, ioErrors |-> FALSE, dirFails |-> FALSE, remembers |-> FALSE]}

(* One thread that publishes one page and promotes two at a time.          *)
PromoteTwo ==
  {[threads |-> {t1}, calls |-> {"publish", "promote"}, keys |-> KeysB, batch |-> 1, promotes |-> 2,
    diskEnabled |-> TRUE, ioErrors |-> FALSE, dirFails |-> FALSE, remembers |-> FALSE]}

(* One thread that publishes, and a disk tier that has to evict.           *)
DiskFull ==
  {[threads |-> {t1}, calls |-> {"publish", "promote"}, keys |-> KeysC, batch |-> 1, promotes |-> 1,
    diskEnabled |-> TRUE, ioErrors |-> FALSE, dirFails |-> FALSE, remembers |-> FALSE]}

AllSettings == Alone \cup Remembered \cup Ample \cup Tight \cup Cleared

(* The two keys of every length are swapped together.                      *)
SwapKeys ==
  (a1 :> a2) @@ (a2 :> a1) @@ (b1 :> b2) @@ (b2 :> b1) @@ (c1 :> c2) @@ (c2 :> c1)
StoreSymmetry == {p @@ q : p \in {SwapKeys, [k \in AllKeys |-> k]},
                           q \in Permutations(TwoThreads)}
=============================================================================
