---------------------------- MODULE StorageWrite ----------------------------
(***************************************************************************)
(* Centralized mode: clients push pages into the pool of a storage node.   *)
(* The client side is _publish_storage of store.py; the handlers           *)
(* data_prepare_writes, data_commit_writes, data_ingest and data_promote   *)
(* and the re-publishing after a membership change are those of            *)
(* storage_server.py.  A page is pushed in three calls: a prepare reserves *)
(* a slot, a one-sided WRITE fills it, a commit lists it in the directory; *)
(* what that leaves unpublished is sent again, by value, with an ingest.   *)
(*                                                                         *)
(* The node serves each connection in a thread of its own, so a client and *)
(* the handler working for it are one thread here, and threads interleave  *)
(* wherever the pool's lock is released or the directory is called.  The   *)
(* directory is one map.  The disk tier queues what it is given, writes it *)
(* later and never has to evict (its bound is the subject of P2PStore).    *)
(*                                                                         *)
(* A setting, chosen at the start, says which clients run, which keys they *)
(* use, how long a batch is, and what may go wrong: "calls" (a request or  *)
(* an answer is lost, or a WRITE that landed is reported as failed),       *)
(* "late" (a call times out while its handler runs, which goes on in a     *)
(* thread that is no client), "write" (a WRITE does not land), "dir" (a    *)
(* call to the directory is lost), "membership" (a member joins or leaves).*)
(***************************************************************************)
EXTENDS PublishedPool

CONSTANTS
  Threads,
  Batches,    \* the key sequences a client publishes
  SizeOf,     \* the length of each key's page
  Settings,   \* records of clients, keys, maxBatch, faults and diskEnabled
  NoPage      \* the disk tier holds nothing for the key

ASSUME StorageAssumption ==
  /\ Batches \subseteq Seq(Keys) \ {<<>>}
  /\ SizeOf \in [Keys -> Lengths]
  /\ Settings \subseteq [clients : SUBSET Threads, keys : SUBSET Keys, maxBatch : Nat,
                         diskEnabled : BOOLEAN,
                         faults : SUBSET {"calls", "late", "write", "dir", "membership"}]
  /\ NoPage \notin Keys \cup {NoKey}

VARIABLES
  dir,      \* the directory: each key's DataLocation, or NoEntry
  keyLen,   \* the keys of _key_len
  disk,     \* the page the disk tier was given for each key
  queued,   \* the keys whose page its writer has still to write
  snap,     \* the locations _republish_directory is about to put
  th,       \* the threads
  setting

restVars == <<dir, keyLen, disk, queued, snap, setting>>

storageVars == <<poolVars, restVars, th>>

At(off) == [resident |-> TRUE, off |-> off]
NonResident == [resident |-> FALSE, off |-> 0]
NoLocations == [k \in Keys |-> NoEntry]

(* pages: the keys the call has to push; todo: those the loop it is in has *)
(* still to handle; locs: the slots, later the entries; left: the WRITEs   *)
(* under way; wrote: the WRITEs reported as done; seen: what data_ingest   *)
(* found in the directory; ok: the keys reported as published; pend: the   *)
(* keys the pool just evicted; next: where to go on after the callback;    *)
(* again: the request was sent a second time; alone: a handler that nobody *)
(* waits for any more.                                                     *)
Idle == [pc |-> "idle", pages |-> <<>>, todo |-> <<>>, locs |-> NoLocations, left |-> {},
         wrote |-> {}, seen |-> {}, ok |-> {}, pend |-> {}, next |-> "idle",
         again |-> FALSE, alone |-> FALSE]

StorageInit ==
  /\ PoolInit
  /\ dir = NoLocations
  /\ keyLen = {}
  /\ disk = [k \in Keys |-> NoPage]
  /\ queued = {}
  /\ snap = NoLocations
  /\ th = [t \in Threads |-> Idle]
  /\ setting \in Settings

AtPc(t, pc) == th[t].pc = pc
Become(t, r) == th' = [th EXCEPT ![t] = r]
Goto(t, r, pc) == Become(t, [r EXCEPT !.pc = pc])
Has(fault) == fault \in setting.faults

Elements(s) == {s[i] : i \in DOMAIN s}

(* The keys a call to the directory gets through for: it is one request to *)
(* each shard, and whichever fails is passed over in silence.              *)
Reached == IF Has("dir") THEN SUBSET setting.keys ELSE {setting.keys}

OnlyKeys(locs, keys) == [k \in Keys |-> IF k \in keys THEN locs[k] ELSE NoEntry]

DirPut(locs) ==
  \E keys \in Reached :
    dir' = [k \in Keys |-> IF OnlyKeys(locs, keys)[k] # NoEntry THEN locs[k] ELSE dir[k]]

DirDelete(gone) ==
  \E keys \in Reached : dir' = [k \in Keys |-> IF k \in gone \cap keys THEN NoEntry ELSE dir[k]]

(* The bytes of a page, and memory after a copy of page to where it is.    *)
PageAt(off, k) == off .. (off + SizeOf[k] - 1)
Written(off, k) == [x \in DOMAIN mem |-> IF x \in PageAt(off, k) THEN k ELSE mem[x]]

(* disk.put, which keeps what is there; the writer has it from then on.    *)
DiskPut(k, page) ==
  IF setting.diskEnabled /\ disk[k] = NoPage
  THEN disk' = [disk EXCEPT ![k] = page] /\ queued' = queued \cup {k}
  ELSE UNCHANGED <<disk, queued>>

DiskWrites(k) ==
  /\ k \in queued
  /\ queued' = queued \ {k}
  /\ UNCHANGED <<poolVars, dir, keyLen, disk, snap, setting, th>>

(* _on_pool_evict with keys follows the pool call, if it evicted any.      *)
AfterPoolCall(t, r, pc) ==
  IF Evicted = {} THEN Goto(t, r, pc)
  ELSE Goto(t, [r EXCEPT !.pend = Evicted, !.next = pc], "evict")

(* As OnPoolEvict, leaving the directory alone.                            *)
OnPoolEvictForgets(t) ==
  /\ AtPc(t, "evict")
  /\ Goto(t, [th[t] EXCEPT !.pend = {}, !.next = "idle"], th[t].next)
  /\ UNCHANGED <<poolVars, restVars>>

(* _on_pool_evict: without a disk tier the entries go, with one they turn  *)
(* non-resident, for the keys whose length is known.                       *)
OnPoolEvict(t) ==
  /\ AtPc(t, "evict")
  /\ LET gone == th[t].pend
     IN  IF ~ setting.diskEnabled THEN DirDelete(gone)
         ELSE DirPut([k \in Keys |-> IF k \in gone \cap keyLen THEN NonResident ELSE NoEntry])
  /\ Goto(t, [th[t] EXCEPT !.pend = {}, !.next = "idle"], th[t].next)
  /\ UNCHANGED <<poolVars, keyLen, disk, queued, snap, setting>>

-----------------------------------------------------------------------------
(* The client starts: what the directory has is skipped.                   *)

PublishStart(t, batch) ==
  /\ AtPc(t, "idle")
  /\ t \in setting.clients
  /\ Len(batch) <= setting.maxBatch
  /\ Elements(batch) \subseteq setting.keys
  /\ \E keys \in Reached :
       LET new == SelectSeq(batch, LAMBDA k : dir[k] = NoEntry \/ k \notin keys)
       IN  Goto(t, [Idle EXCEPT !.pages = new, !.todo = new],
                IF new = <<>> THEN "done" ELSE "prepare")
  /\ UNCHANGED <<poolVars, restVars>>

(* As PreparePage, with the page written through to disk at once.          *)
PreparePageWritesThrough(t) ==
  /\ AtPc(t, "prepare")
  /\ LET k == Head(th[t].todo)
         r == [th[t] EXCEPT !.todo = Tail(@)]
     IN  /\ Reserve(k, SizeOf[k])
         /\ LET slot == IF entries'[k] = NoEntry THEN NoEntry ELSE At(entries'[k].off)
            IN  /\ DiskPut(k, IF slot = NoEntry THEN NoPage ELSE mem[slot.off])
                /\ AfterPoolCall(t, [r EXCEPT !.locs[k] = slot],
                                 IF r.todo = <<>> THEN "prepared" ELSE "prepare")
  /\ UNCHANGED <<dir, keyLen, snap, setting>>

(* One page of data_prepare_writes.  For a resident key reserve gives the  *)
(* slot it has, which is also what the handler's own test of the directory *)
(* leads to.                                                               *)
PreparePage(t) ==
  /\ AtPc(t, "prepare")
  /\ LET k == Head(th[t].todo)
         r == [th[t] EXCEPT !.todo = Tail(@)]
     IN  /\ Reserve(k, SizeOf[k])
         /\ LET slot == IF entries'[k] = NoEntry THEN NoEntry ELSE At(entries'[k].off)
            IN  AfterPoolCall(t, [r EXCEPT !.locs[k] = slot],
                              IF r.todo = <<>> THEN "prepared" ELSE "prepare")
  /\ UNCHANGED restVars

(* What the client does once the WRITEs are done: commit those that were   *)
(* reported as done, or go straight to the fallback.                       *)
Unpublished(r) == SelectSeq(r.pages, LAMBDA k : k \notin r.ok)

Fallback(r) ==
  IF Unpublished(r) = <<>> THEN [r EXCEPT !.pc = "done"]
  ELSE [r EXCEPT !.pc = "ingest", !.todo = Unpublished(r), !.locs = NoLocations, !.wrote = {},
                 !.seen = {}, !.again = FALSE]

Commit(r) ==
  [r EXCEPT !.pc = "commit", !.todo = SelectSeq(r.pages, LAMBDA k : k \in r.wrote),
            !.again = FALSE]

AfterWrites(r) ==
  IF r.left # {} THEN [r EXCEPT !.pc = "write"]
  ELSE IF r.wrote = {} THEN Fallback(r) ELSE Commit(r)

PrepareAnswered(t) ==
  /\ AtPc(t, "prepared")
  /\ ~ th[t].alone
  /\ Become(t, AfterWrites([th[t] EXCEPT !.left = {k \in Keys : th[t].locs[k] # NoEntry}]))
  /\ UNCHANGED <<poolVars, restVars>>

(* batch_write_multi: the WRITEs go out in any order; one that is reported *)
(* as failed may have landed.                                              *)
WriteLands(t, k) ==
  /\ AtPc(t, "write")
  /\ k \in th[t].left
  /\ mem' = Written(th[t].locs[k].off, k)
  /\ \E ok \in {TRUE} \cup (IF Has("calls") THEN {FALSE} ELSE {}) :
       Become(t, AfterWrites([th[t] EXCEPT !.left = @ \ {k},
                                           !.wrote = IF ok THEN @ \cup {k} ELSE @]))
  /\ UNCHANGED <<nextOffset, free, entries, lru, used, restVars>>

WriteFails(t, k) ==
  /\ AtPc(t, "write")
  /\ Has("write")
  /\ k \in th[t].left
  /\ Become(t, AfterWrites([th[t] EXCEPT !.left = @ \ {k}]))
  /\ UNCHANGED <<poolVars, restVars>>

-----------------------------------------------------------------------------
(* data_commit_writes.                                                     *)

CommitKey(t) ==
  /\ AtPc(t, "commit")
  /\ LET k == Head(th[t].todo)
         r == [th[t] EXCEPT !.todo = Tail(@)]
     IN  IF k \in Live
         THEN /\ AddressOf(k)
              /\ keyLen' = keyLen \cup {k}
              /\ Goto(t, [th[t] EXCEPT !.locs[k] = At(entries[k].off)], "commitCopy")
         ELSE /\ Goto(t, [r EXCEPT !.locs[k] = NoEntry],
                      IF r.todo = <<>> THEN "commitPut" ELSE "commit")
              /\ UNCHANGED <<poolVars, keyLen>>
  /\ UNCHANGED <<dir, disk, queued, snap, setting>>

(* string_at, without the lock, and the write-through.                     *)
CommitCopy(t) ==
  /\ AtPc(t, "commitCopy")
  /\ LET k == Head(th[t].todo)
         r == [th[t] EXCEPT !.todo = Tail(@)]
     IN  /\ DiskPut(k, mem[r.locs[k].off])
         /\ Goto(t, r, IF r.todo = <<>> THEN "commitPut" ELSE "commit")
  /\ UNCHANGED <<poolVars, dir, keyLen, snap, setting>>

(* As CommitPut, without the put.                                          *)
CommitUnlisted(t) ==
  /\ AtPc(t, "commitPut")
  /\ Goto(t, th[t], "committed")
  /\ UNCHANGED <<poolVars, restVars>>

CommitPut(t) ==
  /\ AtPc(t, "commitPut")
  /\ DirPut(OnlyKeys(th[t].locs, th[t].wrote))
  /\ Goto(t, th[t], "committed")
  /\ UNCHANGED <<poolVars, keyLen, disk, queued, snap, setting>>

CommitAnswered(t) ==
  /\ AtPc(t, "committed")
  /\ ~ th[t].alone
  /\ Become(t, Fallback([th[t] EXCEPT !.ok = {k \in th[t].wrote : th[t].locs[k] # NoEntry}]))
  /\ UNCHANGED <<poolVars, restVars>>

-----------------------------------------------------------------------------
(* data_ingest.                                                            *)

IngestExists(t) ==
  /\ AtPc(t, "ingest")
  /\ \E keys \in Reached :
       LET seen == {k \in Elements(th[t].todo) \cap keys : dir[k] # NoEntry}
           rest == SelectSeq(th[t].todo, LAMBDA k : k \notin seen)
       IN  Goto(t, [th[t] EXCEPT !.seen = seen, !.todo = rest],
                IF rest = <<>> THEN "ingested" ELSE "ingestPage")
  /\ UNCHANGED <<poolVars, restVars>>

(* pool.publish, and the write-through of the page that was sent.          *)
IngestPage(t) ==
  /\ AtPc(t, "ingestPage")
  /\ LET k == Head(th[t].todo)
     IN  /\ Publish(k, SizeOf[k])
         /\ LET loc == IF entries'[k] = NoEntry THEN NoEntry ELSE At(entries'[k].off)
            IN  AfterPoolCall(t, [th[t] EXCEPT !.locs[k] = loc], "ingestKeep")
  /\ UNCHANGED restVars

IngestKeep(t) ==
  /\ AtPc(t, "ingestKeep")
  /\ LET k    == Head(th[t].todo)
         rest == Tail(th[t].todo)
         r    == [th[t] EXCEPT !.todo = rest]
         put  == SelectSeq(r.pages, LAMBDA j : r.locs[j] # NoEntry)
     IN  /\ IF r.locs[k] = NoEntry THEN UNCHANGED <<disk, queued, keyLen>>
            ELSE DiskPut(k, k) /\ keyLen' = keyLen \cup {k}
         /\ IF rest # <<>> THEN Goto(t, r, "ingestPage")
            ELSE IF put = <<>> THEN Goto(t, r, "ingested")
            ELSE Goto(t, [r EXCEPT !.todo = put], "reconcile")
  /\ UNCHANGED <<poolVars, dir, snap, setting>>

(* The check that the page is still where it was put.                      *)
Reconcile(t) ==
  /\ AtPc(t, "reconcile")
  /\ LET k   == Head(th[t].todo)
         r   == [th[t] EXCEPT !.todo = Tail(@)]
         loc == IF k \in Live THEN At(entries[k].off) ELSE NonResident
     IN  /\ IF k \in Live THEN AddressOf(k) ELSE UNCHANGED poolVars
         /\ Goto(t, [r EXCEPT !.locs[k] = loc],
                 IF r.todo = <<>> THEN "ingestPut" ELSE "reconcile")
  /\ UNCHANGED restVars

IngestPut(t) ==
  /\ AtPc(t, "ingestPut")
  /\ DirPut(th[t].locs)
  /\ Goto(t, th[t], "ingested")
  /\ UNCHANGED <<poolVars, keyLen, disk, queued, snap, setting>>

IngestAnswered(t) ==
  /\ AtPc(t, "ingested")
  /\ ~ th[t].alone
  /\ LET put == {k \in Keys : th[t].locs[k] # NoEntry}
     IN  Goto(t, [th[t] EXCEPT !.ok = @ \cup th[t].seen \cup put], "done")
  /\ UNCHANGED <<poolVars, restVars>>

PublishReturn(t) ==
  /\ AtPc(t, "done")
  /\ th' = [th EXCEPT ![t] = Idle]
  /\ UNCHANGED <<poolVars, restVars>>

-----------------------------------------------------------------------------
(* Calls that go wrong.                                                    *)

(* The request whose handler the thread is in.                             *)
Handling(r) ==
  LET pc == IF r.pc = "evict" THEN r.next ELSE r.pc
  IN  CASE pc \in {"prepare", "prepared"} -> "prepare"
        [] pc \in {"commit", "commitCopy", "commitPut", "committed"} -> "commit"
        [] pc \in {"ingest", "ingestPage", "ingestKeep", "reconcile", "ingestPut",
                    "ingested"} -> "ingest"
        [] OTHER -> "none"

(* The same request from the start.                                        *)
Request(r) ==
  CASE Handling(r) = "prepare" ->
         [Idle EXCEPT !.pc = "prepare", !.pages = r.pages, !.todo = r.pages]
    [] Handling(r) = "commit" -> Commit(r)
    [] Handling(r) = "ingest" -> Fallback(r)

(* RpcClient.call sends the request a second time over a new connection;   *)
(* then it raises: a prepare gives up on the pages, a commit falls back,   *)
(* an ingest is the last attempt.                                          *)
AfterFailure(r) ==
  IF ~ r.again THEN [Request(r) EXCEPT !.again = TRUE]
  ELSE IF Handling(r) = "commit" THEN Fallback(r) ELSE [r EXCEPT !.pc = "done"]

(* The request did not arrive, or its answer was lost.                     *)
CallFails(t) ==
  /\ Has("calls")
  /\ ~ th[t].alone
  /\ Handling(th[t]) # "none"
  /\ \/ th[t].pc \in {"prepared", "committed", "ingested"}
     \/ th[t] = [Request(th[t]) EXCEPT !.again = th[t].again]
  /\ Become(t, AfterFailure(th[t]))
  /\ UNCHANGED <<poolVars, restVars>>

(* The client waits no longer; the handler goes on, or has yet to begin.   *)
TimesOut(t, u) ==
  /\ Has("late")
  /\ ~ th[t].alone
  /\ Handling(th[t]) # "none"
  /\ u \notin setting.clients
  /\ AtPc(u, "idle")
  /\ th' = [th EXCEPT ![t] = AfterFailure(th[t]), ![u] = [th[t] EXCEPT !.alone = TRUE]]
  /\ UNCHANGED <<poolVars, restVars>>

HandlerEnds(t) ==
  /\ th[t].alone
  /\ th[t].pc \in {"prepared", "committed", "ingested"}
  /\ Become(t, Idle)
  /\ UNCHANGED <<poolVars, restVars>>

-----------------------------------------------------------------------------
(* data_promote for one key that may have been listed as non-resident when *)
(* its caller looked: a page that left the pool is brought back from the   *)
(* disk tier, and the entry of one that is not found there, or is still in *)
(* the writer's queue, is deleted.                                         *)

PromoteStart(t, k) ==
  /\ AtPc(t, "idle")
  /\ t \in setting.clients
  /\ k \in keyLen
  /\ IF k \in Live
     THEN AddressOf(k) /\ UNCHANGED <<restVars, th>>
     ELSE IF disk[k] # NoPage /\ k \notin queued
     THEN Goto(t, [Idle EXCEPT !.todo = <<k>>], "promote") /\ UNCHANGED <<poolVars, restVars>>
     ELSE Goto(t, [Idle EXCEPT !.todo = <<k>>], "promotePut") /\ UNCHANGED <<poolVars, restVars>>

PromotePage(t) ==
  /\ AtPc(t, "promote")
  /\ LET k == Head(th[t].todo)
     IN  \/ /\ Touch(k)
            /\ Goto(t, [th[t] EXCEPT !.locs[k] = At(entries[k].off)], "promotePut")
         \/ /\ k \notin Live
            /\ Allocate(k, SizeOf[k])
            /\ mem' = [x \in DOMAIN mem |-> IF x \in PageAt(entries'[k].off, k) THEN disk[k]
                                            ELSE mem[x]]
            /\ AfterPoolCall(t, [th[t] EXCEPT !.locs[k] = At(entries'[k].off)], "promotePut")
         \/ /\ k \notin Live
            /\ AllocateFails(k, SizeOf[k])
            /\ AfterPoolCall(t, th[t], "promotePut")
  /\ UNCHANGED restVars

PromotePut(t) ==
  /\ AtPc(t, "promotePut")
  /\ LET k == Head(th[t].todo)
     IN  IF th[t].locs[k] = NoEntry
         THEN DirDelete({k}) /\ UNCHANGED keyLen
         ELSE DirPut(th[t].locs) /\ keyLen' = keyLen \cup {k}
  /\ th' = [th EXCEPT ![t] = Idle]
  /\ UNCHANGED <<poolVars, disk, queued, snap, setting>>

-----------------------------------------------------------------------------
(* _republish_directory: a snapshot of the pool and of the keys on disk,   *)
(* then the put.                                                           *)

RepublishSnapshot ==
  /\ Has("membership")
  /\ snap = NoLocations
  /\ snap' = [k \in Keys |-> IF k \in Live THEN At(entries[k].off)
                             ELSE IF setting.diskEnabled /\ k \in keyLen THEN NonResident
                             ELSE NoEntry]
  /\ UNCHANGED <<poolVars, dir, keyLen, disk, queued, th, setting>>

RepublishPut ==
  /\ snap # NoLocations
  /\ DirPut(snap)
  /\ snap' = NoLocations
  /\ UNCHANGED <<poolVars, keyLen, disk, queued, th, setting>>

-----------------------------------------------------------------------------
StorageNext ==
  \/ \E t \in Threads :
       \/ \E b \in Batches : PublishStart(t, b)
       \/ PreparePage(t) \/ PrepareAnswered(t) \/ OnPoolEvict(t)
       \/ \E k \in th[t].left : WriteLands(t, k) \/ WriteFails(t, k)
       \/ CommitKey(t) \/ CommitCopy(t) \/ CommitPut(t) \/ CommitAnswered(t)
       \/ IngestExists(t) \/ IngestPage(t) \/ IngestKeep(t) \/ Reconcile(t)
       \/ IngestPut(t) \/ IngestAnswered(t) \/ PublishReturn(t)
       \/ CallFails(t) \/ HandlerEnds(t) \/ \E u \in Threads : TimesOut(t, u)
       \/ \E k \in Keys : PromoteStart(t, k)
       \/ PromotePage(t) \/ PromotePut(t)
  \/ RepublishSnapshot \/ RepublishPut
  \/ \E k \in Keys : DiskWrites(k)

StorageSpec == StorageInit /\ [][StorageNext]_storageVars

-----------------------------------------------------------------------------
(* Properties.                                                             *)

(* One client at a time works with the node.                               *)
OneAtATime ==
  Cardinality(setting.clients) = 1 /\ setting.faults \cap {"late", "membership"} = {}

Fits(keys) == MapThenSumSet(LAMBDA k : SizeOf[k], keys) <= Capacity

(* A batch does not evict its own reservations: its pages have one length  *)
(* and the pool holds them all.                                            *)
BatchesFit ==
  \A j, k \in setting.keys : SizeOf[j] = SizeOf[k] /\ setting.maxBatch * SizeOf[k] <= Capacity

(* The slot reserved for a page is still its own when the WRITE lands.     *)
SlotsKept == Fits(setting.keys) \/ (OneAtATime /\ BatchesFit)

(* The keys whose eviction is not yet in the directory.                    *)
Evicting == UNION {th[t].pend : t \in Threads}

(* What the directory advertises as resident is at that address, except    *)
(* while the callback of an eviction runs, when nothing is ever evicted or *)
(* one client at a time works and its calls to the directory arrive.  The  *)
(* bytes there are the page's, as the commit comes after the WRITE, also   *)
(* for a slot left over from a call that failed half way, with handlers    *)
(* that run twice or late and clients that push the same pages, when       *)
(* WRITEs land, slots are kept and no re-publication lists empty ones.     *)
ListedIntact ==
  Fits(setting.keys) \/ (OneAtATime /\ ~ Has("dir")) =>
    \A k \in Keys \ Evicting :
      dir[k] # NoEntry /\ dir[k].resident =>
        /\ k \in Live
        /\ entries[k].off = dir[k].off
        /\ SlotsKept /\ ~ Has("write") /\ ~ Has("membership") =>
             \A x \in Bytes(entries[k]) : mem[x] = k

(* The disk tier was given a page's own bytes, never what was in its slot  *)
(* before the WRITE; and while one client at a time works it was given     *)
(* every page that is listed as non-resident, whatever was lost.           *)
DiskIntact ==
  /\ SlotsKept /\ ~ Has("write") => \A k \in Keys : disk[k] \in {NoPage, k}
  /\ OneAtATime /\ setting.diskEnabled => \A k \in Keys : dir[k] = NonResident => disk[k] # NoPage

(* A page a client reports as pushed by this call is in the directory when *)
(* the call returns, whichever of the WRITE, the commit and the ingest     *)
(* published it and whatever handler ran twice or late, when nothing is    *)
(* evicted or one client at a time works, and the calls to the directory   *)
(* arrive.  Without a disk tier the batch must fit into the pool.          *)
ReportedListed ==
  /\ ~ Has("dir")
  /\ Fits(setting.keys) \/ (OneAtATime /\ (BatchesFit \/ setting.diskEnabled))
  => \A t \in Threads : AtPc(t, "done") => \A k \in th[t].ok : dir[k] # NoEntry

(* "RPC copy fallback for pages the data-plane write could not commit"     *)
(* (store.py): a page reported as pushed can be read, also when its WRITE  *)
(* failed and the fallback published it.                                   *)
ReportedIntact ==
  \A t \in Threads :
    AtPc(t, "done") =>
      \A k \in th[t].ok : k \in Live => \A x \in Bytes(entries[k]) : mem[x] = k
=============================================================================
