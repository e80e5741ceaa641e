--------------------------- MODULE PublishedPool ---------------------------
(***************************************************************************)
(* The published pool of one node (python/peercache/pool.py): a registered *)
(* memory region carved into pages by a bump pointer and one free list per *)
(* page length, with the resident pages in least-recently-used order.      *)
(*                                                                         *)
(* Every method of the class runs under one lock, so every method is one   *)
(* action.  Addresses are offsets (base_addr is 0).  A free list is the    *)
(* set of its offsets: which of several free pages of a length is reused   *)
(* is left open, where the code takes the last one freed.  The `on_evict'  *)
(* callback runs after the lock is released; the module that composes the  *)
(* pool with the store reads the keys it is called with from Evicted.      *)
(***************************************************************************)
EXTENDS Integers, Sequences, FiniteSets, FiniteSetsExt, PageKeys

CONSTANTS
  Lengths,    \* the byte lengths a page can have
  Capacity,   \* the size of the region in bytes
  NoEntry     \* stands for a key that has no entry

Block == [off : 0 .. Capacity, len : Lengths]

ASSUME PoolAssumption ==
  /\ Capacity \in Nat
  /\ Lengths \subseteq Nat \ {0}
  /\ NoEntry \notin Block
  /\ NoKey \notin Keys

VARIABLES
  nextOffset,  \* _next_offset, the bump pointer
  free,        \* _free, the free offsets of each length
  entries,     \* _entries as a mapping, NoEntry where a key is absent
  lru,         \* _entries as an order: the keys, least recently used first
  used,        \* _used, the bytes of the resident pages
  mem          \* the region: the key whose page was last copied to each byte

poolVars == <<nextOffset, free, entries, lru, used, mem>>

Live == {k \in Keys : entries[k] # NoEntry}

Bytes(b) == b.off .. (b.off + b.len - 1)

PoolInit ==
  /\ nextOffset = 0
  /\ free = [l \in Lengths |-> {}]
  /\ entries = [k \in Keys |-> NoEntry]
  /\ lru = <<>>
  /\ used = 0
  /\ mem = [b \in 0 .. (Capacity - 1) |-> NoKey]

-----------------------------------------------------------------------------
(* _allocate: where a page of len bytes goes and who leaves to make room.  *)

(* The positions of the resident pages whose length is the one asked for.  *)
SameLength(len) == {i \in DOMAIN lru : entries[lru[i]].len = len}

(* How many entries the eviction loop pops: up to and including the first  *)
(* one of the right length, all of them when there is none.                *)
PopCount(len) ==
  IF SameLength(len) = {} THEN Len(lru) ELSE Min(SameLength(len))

(* The keys popped by the eviction loop, and what popping them frees.      *)
Victims(len) == {lru[i] : i \in 1 .. PopCount(len)}

FreedBy(victims) ==
  [l \in Lengths |->
     free[l] \cup {entries[k].off : k \in {v \in victims : entries[v].len = l}}]

BytesOf(victims) == MapThenSumSet(LAMBDA k : entries[k].len, victims)

(* The page goes to off; the keys in victims, the first n of the LRU order,*)
(* leave with their slots already accounted for in free'.                  *)
Insert(key, off, len, victims, n) ==
  /\ entries' = [k \in Keys |->
                   IF k = key THEN [off |-> off, len |-> len]
                   ELSE IF k \in victims THEN NoEntry ELSE entries[k]]
  /\ lru' = Append(SubSeq(lru, n + 1, Len(lru)), key)
  /\ used' = used - BytesOf(victims) + len

(* As TakeFree, reading the last free offset without popping it.           *)
TakeFreeNoPop(key, len) ==
  /\ len <= Capacity
  /\ \E off \in free[len] : Insert(key, off, len, {}, 0)
  /\ UNCHANGED <<nextOffset, free>>

TakeFree(key, len) ==
  /\ len <= Capacity
  /\ \E off \in free[len] :
       /\ free' = [free EXCEPT ![len] = @ \ {off}]
       /\ Insert(key, off, len, {}, 0)
  /\ UNCHANGED nextOffset

(* As Bump, without the test that the page ends inside the region.         *)
BumpUnbounded(key, len) ==
  /\ free[len] = {}
  /\ nextOffset <= Capacity
  /\ nextOffset' = nextOffset + len
  /\ Insert(key, nextOffset, len, {}, 0)
  /\ UNCHANGED free

Bump(key, len) ==
  /\ free[len] = {}
  /\ nextOffset + len <= Capacity
  /\ nextOffset' = nextOffset + len
  /\ Insert(key, nextOffset, len, {}, 0)
  /\ UNCHANGED free

(* The loop stops at the first victim of the right length and reuses it.   *)
EvictAndReuse(key, len) ==
  /\ len <= Capacity
  /\ free[len] = {}
  /\ nextOffset + len > Capacity
  /\ SameLength(len) # {}
  /\ LET n   == PopCount(len)
         off == entries[lru[n]].off
     IN  /\ free' = [FreedBy(Victims(len)) EXCEPT ![len] = @ \ {off}]
         /\ Insert(key, off, len, Victims(len), n)
  /\ UNCHANGED nextOffset

(* The page does not fit: it is larger than the region, or every resident  *)
(* page was popped and none had its length.  The caller gets None.         *)
AllocateFails(key, len) ==
  \/ /\ len > Capacity
     /\ UNCHANGED poolVars
  \/ /\ len <= Capacity
     /\ free[len] = {}
     /\ nextOffset + len > Capacity
     /\ SameLength(len) = {}
     /\ free' = FreedBy(Victims(len))
     /\ entries' = [k \in Keys |-> IF k \in Victims(len) THEN NoEntry ELSE entries[k]]
     /\ lru' = <<>>
     /\ used' = used - BytesOf(Victims(len))
     /\ UNCHANGED <<nextOffset, mem>>

Allocate(key, len) ==
  TakeFree(key, len) \/ Bump(key, len) \/ EvictAndReuse(key, len)

-----------------------------------------------------------------------------
(* The methods.                                                            *)

(* The order with key moved to its most recently used end.                 *)
MoveToEnd(key) ==
  LET i == CHOOSE j \in DOMAIN lru : lru[j] = key
  IN  [j \in DOMAIN lru |->
         IF j < i THEN lru[j] ELSE IF j < Len(lru) THEN lru[j + 1] ELSE key]

(* A key that is resident is only marked as recently used.                 *)
Touch(key) ==
  /\ key \in Live
  /\ lru' = MoveToEnd(key)
  /\ UNCHANGED <<nextOffset, free, entries, used, mem>>

(* address_of on a resident key; on an absent key it changes nothing.      *)
AddressOf(key) == Touch(key)

(* As CopyInto, one byte too many.                                         *)
CopyOneMore(key) ==
  mem' = [b \in DOMAIN mem |->
            IF b \in Bytes([entries'[key] EXCEPT !.len = @ + 1]) THEN key ELSE mem[b]]

(* As CopyInto, one byte too few.                                          *)
CopyOneLess(key) ==
  mem' = [b \in DOMAIN mem |->
            IF b \in Bytes([entries'[key] EXCEPT !.len = @ - 1]) THEN key ELSE mem[b]]

(* memmove of the page into its block.                                     *)
CopyInto(key) ==
  mem' = [b \in DOMAIN mem |->
            IF b \in Bytes(entries'[key]) THEN key ELSE mem[b]]

(* As Publish, inserting the entry without copying the page.               *)
PublishNoCopy(key, len) ==
  \/ Touch(key)
  \/ key \notin Live /\ Allocate(key, len) /\ UNCHANGED mem
  \/ key \notin Live /\ AllocateFails(key, len)

Publish(key, len) ==
  \/ Touch(key)
  \/ key \notin Live /\ Allocate(key, len) /\ CopyInto(key)
  \/ key \notin Live /\ AllocateFails(key, len)

(* reserve: as publish, without the copy.                                  *)
Reserve(key, len) ==
  \/ Touch(key)
  \/ key \notin Live /\ Allocate(key, len) /\ UNCHANGED mem
  \/ key \notin Live /\ AllocateFails(key, len)

(* As Remove, leaving the slot off the free list.                          *)
RemoveKeepsSlot(key) ==
  /\ key \in Live
  /\ LET i == CHOOSE j \in DOMAIN lru : lru[j] = key
     IN  lru' = [j \in 1 .. (Len(lru) - 1) |-> IF j < i THEN lru[j] ELSE lru[j + 1]]
  /\ used' = used - entries[key].len
  /\ entries' = [entries EXCEPT ![key] = NoEntry]
  /\ UNCHANGED <<nextOffset, free, mem>>

(* As Remove, without the accounting.                                      *)
RemoveKeepsUsed(key) ==
  /\ key \in Live
  /\ LET b == entries[key]
         i == CHOOSE j \in DOMAIN lru : lru[j] = key
     IN  /\ free' = [free EXCEPT ![b.len] = @ \cup {b.off}]
         /\ lru' = [j \in 1 .. (Len(lru) - 1) |-> IF j < i THEN lru[j] ELSE lru[j + 1]]
  /\ entries' = [entries EXCEPT ![key] = NoEntry]
  /\ UNCHANGED <<nextOffset, used, mem>>

Remove(key) ==
  /\ key \in Live
  /\ LET b == entries[key]
         i == CHOOSE j \in DOMAIN lru : lru[j] = key
     IN  /\ free' = [free EXCEPT ![b.len] = @ \cup {b.off}]
         /\ used' = used - b.len
         /\ lru' = [j \in 1 .. (Len(lru) - 1) |-> IF j < i THEN lru[j] ELSE lru[j + 1]]
  /\ entries' = [entries EXCEPT ![key] = NoEntry]
  /\ UNCHANGED <<nextOffset, mem>>

(* The keys on_evict is called with after a publish or a reserve.          *)
Evicted == {k \in Live : entries'[k] = NoEntry}

PoolNext ==
  \E k \in Keys :
    \/ AddressOf(k)
    \/ Remove(k)
    \/ \E l \in Lengths : Publish(k, l) \/ Reserve(k, l)

PoolSpec == PoolInit /\ [][PoolNext]_poolVars
-----------------------------------------------------------------------------
(* Properties.                                                             *)

(* The blocks on the free lists, and blocks that share no byte.            *)
FreeBlocks == {b \in Block : b.off \in free[b.len]}

Apart(a, b) == a.off + a.len <= b.off \/ b.off + b.len <= a.off

(* The type invariant.  The entries, free lists and order kept by          *)
(* PublishedPool.__init__ have the shapes the methods expect.              *)
PoolTypeOK ==
  /\ nextOffset \in 0 .. Capacity
  /\ free \in [Lengths -> SUBSET (0 .. Capacity)]
  /\ entries \in [Keys -> Block \cup {NoEntry}]
  /\ lru \in Seq(Keys)
  /\ mem \in [0 .. (Capacity - 1) -> Keys \cup {NoKey}]

(* The OrderedDict is one structure: its order lists every resident key    *)
(* exactly once, whatever publish, address_of, remove and eviction did.    *)
OrderListsEntries ==
  /\ \A i, j \in DOMAIN lru : lru[i] = lru[j] => i = j
  /\ Live = {lru[i] : i \in DOMAIN lru}

(* _allocate never hands out memory that is in use: every block lies below *)
(* the bump pointer and no two blocks, resident or free, share a byte.     *)
NoOverlap ==
  /\ \A k \in Live : entries[k].off + entries[k].len <= nextOffset
  /\ \A b \in FreeBlocks : b.off + b.len <= nextOffset
  /\ \A j, k \in Live : j # k => Apart(entries[j], entries[k])
  /\ \A k \in Live, b \in FreeBlocks : Apart(entries[k], b)
  /\ \A a, b \in FreeBlocks : a # b => Apart(a, b)

(* The inductive invariant of the proofs.  NoOverlap alone is not          *)
(* inductive: that the victims of an eviction are resident, and that a     *)
(* victim does not stay in the order to be evicted a second time, needs    *)
(* OrderListsEntries.                                                      *)
PoolInv == PoolTypeOK /\ OrderListsEntries /\ NoOverlap

(* Eviction, removal and a failed allocation lose no memory: every byte    *)
(* below the bump pointer belongs to a resident page or to a free list.    *)
NoLeak ==
  \A x \in 0 .. (nextOffset - 1) :
    \/ \E k \in Live : x \in Bytes(entries[k])
    \/ \E b \in FreeBlocks : x \in Bytes(b)

(* bytes_used, which the metrics report, is the size of what is resident.  *)
UsedIsResidentBytes == used = BytesOf(Live)

(* "keeping the published address valid until it is evicted" (the module   *)
(* docstring): while a key stays resident its address, its length and its  *)
(* bytes do not change, whatever is published, evicted or removed beside it*)
ValidUntilEvicted ==
  [][\A k \in Keys :
       entries[k] # NoEntry /\ entries'[k] # NoEntry =>
         /\ entries'[k] = entries[k]
         /\ \A b \in Bytes(entries[k]) : mem'[b] = mem[b]]_poolVars

(* "an exact-size free list fully avoids fragmentation" (the module        *)
(* docstring): as long as all blocks have one length, a page of that length*)
(* that is not larger than the region finds a slot, from the free list, the*)
(* bump pointer or by eviction.  Among blocks of several lengths it may    *)
(* not: that is AllocateFails.                                             *)
RoomWhileUniform ==
  \A l \in Lengths :
    (/\ l <= Capacity
     /\ \A k \in Live : entries[k].len = l
     /\ \A b \in FreeBlocks : b.len = l)
    => free[l] # {} \/ nextOffset + l <= Capacity \/ Live # {}

(* What a peer relies on: the pool implements PageRegion, with its entries *)
(* as the owned blocks and its memory as their content.                    *)
Region == INSTANCE PageRegion WITH page <- entries, content <- mem

(* Every step of publish, reserve, address_of, remove and of the eviction  *)
(* inside them gives one disjoint block out or only drops keys.            *)
ImplementsRegion == Region!RegionSpec
=============================================================================
