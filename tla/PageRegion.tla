----------------------------- MODULE PageRegion -----------------------------
(***************************************************************************)
(* What a peer may rely on when it READs from a node's published region: a *)
(* key owns a block from the moment it is given one until it is dropped,   *)
(* the block is disjoint from every other key's block, and nothing is      *)
(* copied into it meanwhile except the page of its owner, once, in the     *)
(* step that gives it out.  Which keys are dropped and where a page goes   *)
(* is left open: free lists, bump pointer and LRU order do not appear.     *)
(***************************************************************************)
EXTENDS Integers

CONSTANTS Keys, Lengths, Capacity, NoEntry, NoKey

VARIABLES
  page,      \* the block of each key, NoEntry when it has none
  content    \* the key whose page was last copied to each byte

regionVars == <<page, content>>

InRegion == {b \in [off : 0 .. Capacity, len : Lengths] : b.off + b.len <= Capacity}

Span(b) == b.off .. (b.off + b.len - 1)

Disjoint(a, b) == a.off + a.len <= b.off \/ b.off + b.len <= a.off

Owners == {k \in Keys : page[k] # NoEntry}

RegionInit ==
  /\ page = [k \in Keys |-> NoEntry]
  /\ content = [x \in 0 .. (Capacity - 1) |-> NoKey]

(* key gets the block b once the keys in dropped have lost theirs.  Its    *)
(* page is copied in the same step, or left to a remote writer.            *)
Give(key, b, dropped) ==
  /\ key \notin Owners
  /\ \A k \in Owners \ dropped : Disjoint(page[k], b)
  /\ page' = [k \in Keys |-> IF k = key THEN b
                             ELSE IF k \in dropped THEN NoEntry ELSE page[k]]
  /\ \/ content' = content
     \/ content' = [x \in DOMAIN content |-> IF x \in Span(b) THEN key ELSE content[x]]

Drop(dropped) ==
  /\ page' = [k \in Keys |-> IF k \in dropped THEN NoEntry ELSE page[k]]
  /\ content' = content

RegionNext ==
  \E dropped \in SUBSET Owners :
    \/ Drop(dropped)
    \/ \E key \in Keys, b \in InRegion : Give(key, b, dropped)

RegionSpec == RegionInit /\ [][RegionNext]_regionVars
=============================================================================
