------------------------------ MODULE SlotMap ------------------------------
(***************************************************************************)
(* slotmap mode (python/peercache/slotmap.py and the _slotmap methods of   *)
(* store.py): one bucket of one owner's slot region, written by threads of *)
(* the owner with memmove under a sequence lock and by remote clients with *)
(* a READ of the bucket followed by a WRITE of a slot, and read by both    *)
(* with one look at the header.                                            *)
(*                                                                         *)
(* Buckets share no state and a batch treats each on its own, so there is  *)
(* one, and all Keys hash to it.  A header is the key and the sequence     *)
(* number (NoKey when the magic number is missing); a key's page has one   *)
(* length, so the length check never fails.  The page is identified with   *)
(* the key whose bytes it holds and is copied in one step.                 *)
(*                                                                         *)
(* What the transport does is chosen at the start: "clean" (transfers      *)
(* succeed and are atomic), "lossy" (a READ or WRITE may be reported as    *)
(* failed, and a failed WRITE may have landed) or "torn" (header and page  *)
(* of a slot move in separate steps, in either order).  So is which of the *)
(* actors write to the bucket.                                             *)
(***************************************************************************)
EXTENDS Integers, Sequences, FiniteSets, FiniteSetsExt, Functions, Sorting

CONSTANTS
  Keys,       \* the keys that hash to the bucket
  Oversized,  \* those whose page is larger than max_payload
  Owners,     \* the owner's threads
  Clients,    \* the remote clients
  Readers,    \* the actors that read
  Batches,    \* the key sequences a client publishes
  Ways,       \* slot_ways
  MaxSeq,     \* bound: no sequence number above it is written
  MaxShared,  \* the same where several actors write
  Settings,   \* the pairs of a transport and a set of writing actors
  NoKey

ASSUME SlotAssumption ==
  /\ Ways \in Nat \ {0}
  /\ Oversized \subseteq Keys
  /\ Owners \cap Clients = {}
  /\ Readers \subseteq Clients \cup Owners
  /\ Batches \subseteq Seq(Keys) \ {<<>>}
  /\ Settings \subseteq {"clean", "lossy", "torn"} \X SUBSET (Clients \cup Owners)
  /\ NoKey \notin Keys

Way == 0 .. (Ways - 1)
Actors == Clients \cup Owners

VARIABLES
  slots,     \* the bucket: each way's header (key, seq) and page
  localSeq,  \* _seq, the owner's own count of each way
  act,       \* what each actor is doing
  wire, writers

slotVars == <<slots, localSeq, act, wire, writers>>

Empty == [key |-> NoKey, seq |-> 0, page |-> NoKey]

(* todo: the keys still to be given a way; picks: the (key, way, seq)      *)
(* chosen so far (claimed); left: the picks still to be written; ok: the   *)
(* keys to be reported as published; got: what a read returns for key.     *)
Idle == [pc |-> "idle", todo |-> <<>>, picks |-> <<>>, left |-> {}, ok |-> {},
         key |-> NoKey, way |-> 0, got |-> NoKey]

SlotInit ==
  /\ slots = [w \in Way |-> Empty]
  /\ localSeq = [w \in Way |-> 0]
  /\ act = [a \in Actors |-> Idle]
  /\ \E s \in Settings : wire = s[1] /\ writers = s[2]

(* The bound on the sequence numbers.                                      *)
SeqBound == IF \E a \in Actors : writers = {a} THEN MaxSeq ELSE MaxShared

Become(a, r) == act' = [act EXCEPT ![a] = r]

(* As SlotMatches, without the look at the sequence number.                *)
SlotMatchesAnySeq(slot, key) == slot.key = key

(* slot_matches, and slot_present: the header is this key's, and stable.   *)
SlotMatches(slot, key) == slot.key = key /\ slot.seq % 2 = 0

(* The ways a scan would stop at.                                          *)
MatchingWays(bucket, key) == {w \in Way : SlotMatches(bucket[w], key)}

-----------------------------------------------------------------------------
(* The owner: write_local.                                                 *)

(* The way with the smallest count, the first of them.                     *)
Oldest(seqs) ==
  CHOOSE w \in Way : \A v \in Way : seqs[w] < seqs[v] \/ (seqs[w] = seqs[v] /\ w <= v)

(* pick_way: the first way that holds the key, else the first empty one,   *)
(* else the one written least by this node.                                *)
PickWay(key) ==
  LET holding == {w \in Way : slots[w].key = key}
      empty   == {w \in Way : slots[w].key = NoKey}
  IN  IF holding # {} THEN Min(holding)
      ELSE IF empty # {} THEN Min(empty) ELSE Oldest(localSeq)

(* _lock is free: the thread that has it, if any, is between LocalMark and *)
(* LocalSeal.                                                              *)
LockFree == \A o \in Owners : act[o].pc \notin {"copy", "seal"}

(* pick_way has the lock while it looks, and another thread may write      *)
(* before the way that was picked is.                                      *)
LocalPick(o, key) ==
  /\ act[o].pc = "idle"
  /\ o \in writers
  /\ LockFree
  /\ key \notin Oversized
  /\ localSeq[PickWay(key)] + 2 <= SeqBound
  /\ Become(o, [Idle EXCEPT !.pc = "mark", !.key = key, !.way = PickWay(key)])
  /\ UNCHANGED <<slots, localSeq, wire, writers>>

NextLocalSeq(w) == IF localSeq[w] % 2 = 0 THEN localSeq[w] + 2 ELSE localSeq[w] + 1

(* As LocalMark, with the even number the write ends with.                 *)
LocalMarkEven(o) ==
  LET r == act[o]
  IN  /\ r.pc = "mark"
      /\ LockFree
      /\ slots' = [slots EXCEPT ![r.way].key = r.key,
                                ![r.way].seq = NextLocalSeq(r.way)]
      /\ Become(o, [r EXCEPT !.pc = "copy"])
      /\ UNCHANGED <<localSeq, wire, writers>>

(* The lock is taken again here and held until LocalSeal.                  *)
LocalMark(o) ==
  LET r == act[o]
  IN  /\ r.pc = "mark"
      /\ LockFree
      /\ slots' = [slots EXCEPT ![r.way].key = r.key,
                                ![r.way].seq = NextLocalSeq(r.way) + 1]
      /\ Become(o, [r EXCEPT !.pc = "copy"])
      /\ UNCHANGED <<localSeq, wire, writers>>

LocalCopy(o) ==
  LET r == act[o]
  IN  /\ r.pc = "copy"
      /\ slots' = [slots EXCEPT ![r.way].page = r.key]
      /\ Become(o, [r EXCEPT !.pc = "seal"])
      /\ UNCHANGED <<localSeq, wire, writers>>

LocalSeal(o) ==
  LET r == act[o]
  IN  /\ r.pc = "seal"
      /\ slots' = [slots EXCEPT ![r.way].key = r.key,
                                ![r.way].seq = NextLocalSeq(r.way)]
      /\ localSeq' = [localSeq EXCEPT ![r.way] = NextLocalSeq(r.way)]
      /\ Become(o, Idle)
      /\ UNCHANGED <<wire, writers>>

-----------------------------------------------------------------------------
(* A client: _publish_slotmap_remote.                                      *)

(* As PickWayFromBucket, not looking for the key itself.                   *)
PickWayIgnoresKey(headers, key) ==
  LET seqs  == [w \in Way |-> IF headers[w].key = NoKey THEN 0 ELSE headers[w].seq]
      empty == {w \in Way : headers[w].key = NoKey}
  IN  [key |-> key, seq |-> ((seqs[Oldest(seqs)] + 2) \div 2) * 2,
       way |-> IF empty # {} THEN Min(empty) ELSE Oldest(seqs), evicts |-> empty = {}]

(* pick_way_from_bucket: the last way that holds the key, else the first   *)
(* empty one, else the oldest; the new sequence number is the next even    *)
(* one after the oldest of the bucket.  evicts says that the oldest was    *)
(* taken; the code keeps no note of it, and nothing but a property looks.  *)
PickWayFromBucket(headers, key) ==
  LET seqs    == [w \in Way |-> IF headers[w].key = NoKey THEN 0 ELSE headers[w].seq]
      holding == {w \in Way : headers[w].key = key}
      empty   == {w \in Way : headers[w].key = NoKey}
  IN  [key |-> key, seq |-> ((seqs[Oldest(seqs)] + 2) \div 2) * 2,
       way |-> IF holding # {} THEN Max(holding)
               ELSE IF empty # {} THEN Min(empty) ELSE Oldest(seqs),
       evicts |-> holding = {} /\ empty = {}]

(* As Claimed, forgetting the batch's earlier picks.                       *)
ClaimedNothing(headers, picks) == headers

(* A snapshot with the batch's earlier picks folded in.                    *)
Claimed(headers, picks) ==
  [w \in Way |->
     LET mine == {i \in DOMAIN picks : picks[i].way = w}
     IN  IF mine = {} THEN headers[w]
         ELSE [headers[w] EXCEPT !.key = picks[Max(mine)].key, !.seq = picks[Max(mine)].seq]]

PublishStart(c, batch) ==
  /\ act[c].pc = "idle"
  /\ c \in writers
  /\ LET fit == OnlyIn(batch, Keys \ Oversized)
     IN  fit # <<>> /\ Become(c, [Idle EXCEPT !.pc = "pick", !.todo = fit])
  /\ UNCHANGED <<slots, localSeq, wire, writers>>

(* The READ of one key's bucket and the choice made from it; after a READ  *)
(* that failed the bucket is taken for empty.                              *)
ReadAndPick(c) ==
  LET r == act[c]
  IN  /\ r.pc = "pick"
      /\ \E headers \in {slots} \cup (IF wire = "lossy" THEN {[w \in Way |-> Empty]} ELSE {}) :
           LET pick  == PickWayFromBucket(Claimed(headers, r.picks), Head(r.todo))
               picks == Append(r.picks, pick)
               rest  == Tail(r.todo)
           IN  /\ pick.seq <= SeqBound
               /\ Become(c, [r EXCEPT !.picks = picks, !.todo = rest,
                                      !.pc = IF rest = <<>> THEN "write" ELSE "pick",
                                      !.left = IF rest = <<>> THEN DOMAIN picks ELSE {}])
      /\ UNCHANGED <<slots, localSeq, wire, writers>>

Full(p) == [key |-> p.key, seq |-> p.seq, page |-> p.key]

(* One WRITE of the batch; they go out over several rails, in any order.   *)
WriteLands(c, i) ==
  LET r == act[c]
      p == r.picks[i]
  IN  /\ r.pc = "write"
      /\ i \in r.left
      /\ slots' = [slots EXCEPT ![p.way] = Full(p)]
      /\ \E ok \in {TRUE} \cup (IF wire = "lossy" THEN {FALSE} ELSE {}) :
           Become(c, [r EXCEPT !.left = @ \ {i}, !.ok = IF ok THEN @ \cup {p.key} ELSE @])
      /\ UNCHANGED <<localSeq, wire, writers>>

WriteFails(c, i) ==
  /\ wire = "lossy"
  /\ act[c].pc = "write"
  /\ i \in act[c].left
  /\ Become(c, [act[c] EXCEPT !.left = @ \ {i}])
  /\ UNCHANGED <<slots, localSeq, wire, writers>>

(* The first half of a WRITE that is seen in two: the header or the page.  *)
WriteHalf(c, i) ==
  LET p == act[c].picks[i]
  IN  /\ wire = "torn"
      /\ act[c].pc = "write"
      /\ i \in act[c].left
      /\ \/ slots' = [slots EXCEPT ![p.way].key = p.key, ![p.way].seq = p.seq]
         \/ slots' = [slots EXCEPT ![p.way].page = p.key]
      /\ UNCHANGED <<localSeq, act, wire, writers>>

PublishReturn(c) ==
  /\ act[c].pc = "write"
  /\ act[c].left = {}
  /\ Become(c, Idle)
  /\ UNCHANGED <<slots, localSeq, wire, writers>>

-----------------------------------------------------------------------------
(* _fetch_slotmap and _exists_slotmap of a client: the whole bucket is     *)
(* READ at once, then scanned.                                             *)

ReadBucket(c, key) ==
  LET hits == MatchingWays(slots, key)
  IN  /\ act[c].pc = "idle"
      /\ hits # {}
      /\ Become(c, [Idle EXCEPT !.pc = "served", !.key = key, !.got = slots[Min(hits)].page])
      /\ UNCHANGED <<slots, localSeq, wire, writers>>

(* A READ that sees the header before the page, and read_local of the      *)
(* owner, which looks at the header and then copies the page.              *)
CheckHeader(a, key) ==
  LET hits == MatchingWays(slots, key)
  IN  /\ a \in Owners \/ wire = "torn"
      /\ act[a].pc = "idle"
      /\ hits # {}
      /\ Become(a, [Idle EXCEPT !.pc = "matched", !.key = key, !.way = Min(hits)])
      /\ UNCHANGED <<slots, localSeq, wire, writers>>

CopyPage(a) ==
  /\ act[a].pc = "matched"
  /\ Become(a, [act[a] EXCEPT !.pc = "served", !.got = slots[act[a].way].page])
  /\ UNCHANGED <<slots, localSeq, wire, writers>>

ReadReturn(a) ==
  /\ act[a].pc = "served"
  /\ Become(a, Idle)
  /\ UNCHANGED <<slots, localSeq, wire, writers>>

-----------------------------------------------------------------------------
SlotNext ==
  \/ \E o \in Owners :
       (\E k \in Keys : LocalPick(o, k)) \/ LocalMark(o) \/ LocalCopy(o) \/ LocalSeal(o)
  \/ \E c \in Clients :
       \/ \E b \in Batches : PublishStart(c, b)
       \/ ReadAndPick(c)
       \/ \E i \in act[c].left : WriteLands(c, i) \/ WriteFails(c, i) \/ WriteHalf(c, i)
       \/ PublishReturn(c)
  \/ \E c \in Clients \cap Readers, k \in Keys : ReadBucket(c, k)
  \/ \E a \in Readers : (\E k \in Keys : CheckHeader(a, k)) \/ CopyPage(a) \/ ReadReturn(a)

SlotSpec == SlotInit /\ [][SlotNext]_slotVars

-----------------------------------------------------------------------------
(* Properties.                                                             *)

Stable(w) == slots[w].key # NoKey /\ slots[w].seq % 2 = 0

(* The owner and the clients do not write to the same bucket.              *)
NotMixed == writers \subseteq Owners \/ writers \subseteq Clients

OneWriter == \E a \in Actors : writers = {a}

(* As long as WRITEs land whole and a bucket is written by its owner or by *)
(* clients, any number of threads of the one or the other but not both, a  *)
(* slot with a stable header holds the page the header names, whatever is  *)
(* in progress and whichever ways the writers chose before others wrote.   *)
StableSlotsMatch ==
  wire # "torn" /\ NotMixed => \A w \in Way : Stable(w) => slots[w].page = slots[w].key

(* "Without this, several same-bucket keys in one batch all read the same  *)
(* pre-write snapshot, pick the same empty way, and overwrite each other": *)
(* for a client that alone writes the bucket, over transfers that do not   *)
(* fail, a batch that found a way for each of its keys without evicting    *)
(* any has all of them in the bucket when it is reported as published.     *)
BatchKept ==
  wire # "lossy" /\ OneWriter =>
    \A c \in Clients :
      act[c].pc = "write" /\ act[c].left = {}
        /\ (\A i \in DOMAIN act[c].picks : ~ act[c].picks[i].evicts) =>
          \A k \in act[c].ok : MatchingWays(slots, k) # {}

(* "An intra-batch reservation map stops same-bucket keys from evicting    *)
(* each other" (docs/slotmap.md): the same of every batch no larger than   *)
(* the bucket.  A way taken by the batch is numbered after the oldest way  *)
(* and not after its own, so it can be the next key's oldest.              *)
BatchSparesItself ==
  wire # "lossy" /\ OneWriter =>
    \A c \in Clients :
      act[c].pc = "write" /\ act[c].left = {} /\ Len(act[c].picks) <= Ways =>
        \A k \in act[c].ok : MatchingWays(slots, k) # {}

(* "a way already holding this key (overwrite/refresh)": with one writer,  *)
(* a thread of the owner or a client, and transfers that do not fail, a    *)
(* key never takes up two ways of its bucket, but while the WRITEs of a    *)
(* batch are on their way.                                                 *)
OneWayPerKey ==
  wire # "lossy" /\ OneWriter /\ (\A c \in Clients : act[c].pc # "write") =>
    \A v, w \in Way : slots[v].key = slots[w].key /\ slots[v].key # NoKey => v = w

(* Under the same condition as StableSlotsMatch the header gate is enough  *)
(* for a remote read: a bucket that is READ while a write is half done     *)
(* gives the page asked for or a miss.                                     *)
RemoteHitsRight ==
  wire # "torn" /\ NotMixed =>
    \A c \in Clients : act[c].pc = "served" => act[c].got = act[c].key

(* "never a dirty hit": a read returns the page of the key it was asked    *)
(* for, or a miss (slot_matches is "the single gate").                     *)
NeverDirtyHit == \A a \in Actors : act[a].pc = "served" => act[a].got = act[a].key
=============================================================================
