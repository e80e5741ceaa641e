------------------------------ MODULE P2PStore ------------------------------
(***************************************************************************)
(* One producing node in p2p mode (python/peercache/store.py): its         *)
(* published pool, its disk tier, the directory entries that advertise its *)
(* pages, and the threads that publish, promote, read, re-publish and      *)
(* clear them.                                                             *)
(*                                                                         *)
(* A thread runs one call at a time, and its program counter stands        *)
(* wherever the code releases a lock, makes a directory call or touches a  *)
(* file; the steps of different threads interleave.  The directory is one  *)
(* map: its sharding and replication are the subject of other modules.  A  *)
(* directory call takes effect in one step, or, when the setting allows it,*)
(* not at all (the client swallows the exception).  A remote READ reads    *)
(* the bytes at the looked-up address in one step.                         *)
(***************************************************************************)
EXTENDS PublishedPool, DiskStore

CONSTANTS
  Threads,    \* the threads that make calls on this node's data
  Settings    \* what the node is set up with and what may happen to it

Calls == {"publish", "promote", "fetch", "fetchLocal", "prefetch", "republish", "clear"}

(* threads, calls, keys: who makes which calls about which pages; batch,   *)
(* promotes: the most keys a publish and a promotion request have;         *)
(* diskEnabled: FALSE when _disk is None; ioErrors: writing a page file    *)
(* may fail; dirFails: a put or delete may not reach the directory;        *)
(* remembers: the reader keeps the locations it looks up.                  *)
ASSUME StoreAssumption ==
  /\ IsFiniteSet(Keys)
  /\ SizeOf \in [Keys -> Lengths]
  /\ MaxBytes \in Nat
  /\ NoEntry \notin [resident : BOOLEAN, off : 0 .. Capacity]
  /\ Settings \subseteq [threads : SUBSET Threads, calls : SUBSET Calls, keys : SUBSET Keys,
                         batch : Nat \ {0}, promotes : Nat \ {0}, diskEnabled : BOOLEAN,
                         ioErrors : BOOLEAN, dirFails : BOOLEAN, remembers : BOOLEAN]

VARIABLES
  dir,      \* the directory: each key's DataLocation, or NoEntry
  keyLen,   \* the keys of _key_len
  seen,     \* _dir_cache and _primed: the address each key was last found at
  setting,  \* never changes
  th        \* the threads

storeVars == <<poolVars, diskVars, dir, keyLen, seen, setting, th>>

-----------------------------------------------------------------------------
(* Locations, and what a thread remembers.                                 *)

At(off) == [resident |-> TRUE, off |-> off]
NonResident == [resident |-> FALSE, off |-> 0]

NoLocations == [k \in Keys |-> NoEntry]

(* todo: the keys still to be handled, the current one first.              *)
(* locs: the locations resolved so far (entries, or _ensure_resident's out)*)
(* put:  the keys published by this call, in order (entries or promoted).  *)
(* keys: the keys of the batch; pend: those _on_pool_evict was called with.*)
Idle == [pc |-> "idle", call |-> "none", todo |-> <<>>, locs |-> NoLocations,
         put |-> <<>>, keys |-> {}, pend |-> {}]

StoreInit ==
  /\ PoolInit
  /\ DiskInit
  /\ dir = NoLocations
  /\ keyLen = {}
  /\ seen = NoLocations
  /\ setting \in Settings
  /\ th = [t \in Threads |-> Idle]

(* The thread has record r, and goes on at pc.                             *)
Goto(t, r, pc) == th' = [th EXCEPT ![t] = [r EXCEPT !.pc = pc]]

Return(t) == th' = [th EXCEPT ![t] = Idle]

(* A directory put or delete, which is best effort.                        *)
DirPut(locs) ==
  \/ dir' = [k \in Keys |-> IF locs[k] # NoEntry THEN locs[k] ELSE dir[k]]
  \/ setting.dirFails /\ dir' = dir

DirDelete(keys) ==
  \/ dir' = [k \in Keys |-> IF k \in keys THEN NoEntry ELSE dir[k]]
  \/ setting.dirFails /\ dir' = dir

AtPc(t, pc) == th[t].pc = pc

(* After the locations are in the directory: data_promote deletes what it  *)
(* could not find, a fetch reads what it resolved.                         *)
AfterDirPut(t, r) ==
  IF /\ r.call \in {"promote", "fetch", "prefetch"}
     /\ \E k \in r.keys : r.locs[k] = NoEntry
  THEN Goto(t, r, "dropMisses")
  ELSE IF /\ r.call \in {"fetch", "fetchLocal"}
          /\ \A k \in r.keys : r.locs[k] # NoEntry
       THEN Goto(t, r, "read")
       ELSE Return(t)

(* As AfterLoop, without the directory.put(promoted) of _ensure_resident.  *)
AfterLoopPromotedUnlisted(t, r) ==
  IF r.put = <<>> \/ r.call # "publish" THEN AfterDirPut(t, r)
  ELSE Goto(t, [r EXCEPT !.todo = r.put], "reconcile")

(* After the last key of the loop in _publish_p2p or _ensure_resident.     *)
AfterLoop(t, r) ==
  IF r.put = <<>> THEN AfterDirPut(t, r)
  ELSE IF r.call = "publish" THEN Goto(t, [r EXCEPT !.todo = r.put], "reconcile")
  ELSE Goto(t, r, "dirPut")

(* After one key of that loop.                                             *)
AfterKey(t, r) ==
  LET rest == [r EXCEPT !.todo = Tail(r.todo)]
  IN  IF rest.todo = <<>> THEN AfterLoop(t, rest)
      ELSE Goto(t, rest, IF r.call = "publish" THEN "page" ELSE "resident")

(* After pool.publish and its eviction callback returned.                  *)
AfterPage(t, r) ==
  IF r.locs[Head(r.todo)] = NoEntry THEN AfterKey(t, r)
  ELSE Goto(t, r, IF r.call = "publish" /\ setting.diskEnabled THEN "diskPut" ELSE "keyLen")

-----------------------------------------------------------------------------
(* _publish_p2p.                                                           *)

(* The keys the directory already has are skipped.                         *)
PublishStart(t, batch) ==
  /\ "publish" \in setting.calls
  /\ AtPc(t, "idle")
  /\ LET new == OnlyIn(batch, {k \in Keys : dir[k] = NoEntry})
     IN  /\ new # <<>>
         /\ Goto(t, [Idle EXCEPT !.call = "publish", !.todo = new], "page")
  /\ UNCHANGED <<poolVars, diskVars, dir, keyLen, seen, setting>>

(* pool.publish, here and in _ensure_resident.                             *)
PoolPublish(t) ==
  /\ AtPc(t, "page")
  /\ LET k == Head(th[t].todo)
     IN  /\ Publish(k, SizeOf[k])
         /\ LET loc == IF entries'[k] = NoEntry THEN NoEntry ELSE At(entries'[k].off)
                r   == [th[t] EXCEPT !.locs[k] = loc, !.pend = Evicted]
            IN  IF Evicted = {} THEN AfterPage(t, r) ELSE Goto(t, r, "evict")
  /\ UNCHANGED <<diskVars, dir, keyLen, seen, setting>>

(* _on_pool_evict without a disk tier.                                     *)
EvictDelete(t) ==
  /\ AtPc(t, "evict")
  /\ ~ setting.diskEnabled
  /\ DirDelete(th[t].pend)
  /\ AfterPage(t, [th[t] EXCEPT !.pend = {}])
  /\ UNCHANGED <<poolVars, diskVars, keyLen, seen, setting>>

(* _on_pool_evict with one: the lengths are read under their lock, and the *)
(* keys that have none are left out.                                       *)
EvictLengths(t) ==
  /\ AtPc(t, "evict")
  /\ setting.diskEnabled
  /\ LET r == [th[t] EXCEPT !.pend = @ \cap keyLen]
     IN  IF r.pend = {} THEN AfterPage(t, r) ELSE Goto(t, r, "evictPut")
  /\ UNCHANGED <<poolVars, diskVars, dir, keyLen, seen, setting>>

EvictPut(t) ==
  /\ AtPc(t, "evictPut")
  /\ DirPut([k \in Keys |-> IF k \in th[t].pend THEN NonResident ELSE NoEntry])
  /\ AfterPage(t, [th[t] EXCEPT !.pend = {}])
  /\ UNCHANGED <<poolVars, diskVars, keyLen, seen, setting>>

DiskWriteThrough(t) ==
  /\ AtPc(t, "diskPut")
  /\ DiskPut(Head(th[t].todo))
  /\ Goto(t, th[t], "keyLen")
  /\ UNCHANGED <<poolVars, dir, keyLen, seen, setting>>

SetKeyLen(t) ==
  /\ AtPc(t, "keyLen")
  /\ LET k == Head(th[t].todo)
     IN  /\ keyLen' = keyLen \cup {k}
         /\ AfterKey(t, [th[t] EXCEPT !.put = Append(@, k)])
  /\ UNCHANGED <<poolVars, diskVars, dir, seen, setting>>

(* As Reconcile, keeping the addresses that pool.publish returned.         *)
ReconcileNothing(t) ==
  /\ AtPc(t, "reconcile")
  /\ Goto(t, [th[t] EXCEPT !.todo = <<>>], "dirPut")
  /\ UNCHANGED <<poolVars, diskVars, dir, keyLen, seen, setting>>

(* One iteration of the reconcile loop: address_of, then the location.     *)
Reconcile(t) ==
  /\ AtPc(t, "reconcile")
  /\ LET k    == Head(th[t].todo)
         rest == Tail(th[t].todo)
         loc  == IF k \in Live THEN At(entries[k].off) ELSE NonResident
     IN  /\ IF k \in Live THEN AddressOf(k) ELSE UNCHANGED poolVars
         /\ Goto(t, [th[t] EXCEPT !.locs[k] = loc, !.todo = rest],
                 IF rest = <<>> THEN "dirPut" ELSE "reconcile")
  /\ UNCHANGED <<diskVars, dir, keyLen, seen, setting>>

(* directory.put(entries) or directory.put(promoted).                      *)
DirectoryPut(t) ==
  /\ AtPc(t, "dirPut")
  /\ LET r      == th[t]
         listed == {r.put[i] : i \in DOMAIN r.put}
     IN  /\ DirPut([k \in Keys |->
                      IF k \in listed \/ r.call = "republish" THEN r.locs[k] ELSE NoEntry])
         /\ AfterDirPut(t, r)
  /\ UNCHANGED <<poolVars, diskVars, keyLen, seen, setting>>

-----------------------------------------------------------------------------
(* _ensure_resident, called by data_promote, by a fetch or by a prefetch.  *)

PromoteStart(t, batch) ==
  /\ "promote" \in setting.calls
  /\ AtPc(t, "idle")
  /\ Goto(t, [Idle EXCEPT !.call = "promote", !.todo = batch,
                          !.keys = {batch[i] : i \in DOMAIN batch}], "resident")
  /\ UNCHANGED <<poolVars, diskVars, dir, keyLen, seen, setting>>

(* address_of, and the index lookup of disk.get when the pool misses.      *)
EnsureResident(t) ==
  /\ AtPc(t, "resident")
  /\ LET k == Head(th[t].todo)
     IN  \/ /\ k \in Live
            /\ AddressOf(k)
            /\ AfterKey(t, [th[t] EXCEPT !.locs[k] = At(entries[k].off)])
            /\ UNCHANGED diskVars
         \/ /\ k \notin Live
            /\ setting.diskEnabled
            /\ DiskTouch(k)
            /\ Goto(t, th[t], "fileRead")
            /\ UNCHANGED poolVars
         \/ /\ k \notin Live
            /\ ~ setting.diskEnabled \/ k \notin Indexed
            /\ AfterKey(t, th[t])
            /\ UNCHANGED <<poolVars, diskVars>>
  /\ UNCHANGED <<dir, keyLen, seen, setting>>

(* The read of the page file, which may be gone by now.                    *)
FileRead(t) ==
  /\ AtPc(t, "fileRead")
  /\ IF Head(th[t].todo) \in files THEN Goto(t, th[t], "page") ELSE AfterKey(t, th[t])
  /\ UNCHANGED <<poolVars, diskVars, dir, keyLen, seen, setting>>

DropMisses(t) ==
  /\ AtPc(t, "dropMisses")
  /\ DirDelete({k \in th[t].keys : th[t].locs[k] = NoEntry})
  /\ Return(t)
  /\ UNCHANGED <<poolVars, diskVars, keyLen, seen, setting>>

-----------------------------------------------------------------------------
(* _fetch and _prefetch_async, of one key: the directory lookup, then the  *)
(* promotion of a non-resident page, then the READ (or the local memmove)  *)
(* at the address found.  fetchLocal is the owner reading its own page.    *)

(* The location comes from the directory, or from an earlier lookup's that *)
(* was primed or cached (until it expires, which makes no difference here: *)
(* the directory may always be asked).                                     *)
Lookup(t, call, k) ==
  /\ call \in setting.calls \cap {"fetch", "fetchLocal", "prefetch"}
  /\ AtPc(t, "idle")
  /\ \E loc \in {dir[k], seen[k]} \ {NoEntry} :
       LET r == [Idle EXCEPT !.call = call, !.keys = {k}]
       IN  IF ~ loc.resident
           THEN Goto(t, [r EXCEPT !.todo = <<k>>], "resident") /\ UNCHANGED seen
           ELSE /\ call # "prefetch"
                /\ Goto(t, [r EXCEPT !.locs[k] = loc], "read")
                /\ seen' = IF setting.remembers THEN [seen EXCEPT ![k] = loc] ELSE seen
  /\ UNCHANGED <<poolVars, diskVars, dir, keyLen, setting>>

(* The bytes a READ of key k finds at the location it was given.           *)
Served(r, k) == {mem[x] : x \in r.locs[k].off .. (r.locs[k].off + SizeOf[k] - 1)}

Read(t) ==
  /\ AtPc(t, "read")
  /\ Return(t)
  /\ UNCHANGED <<poolVars, diskVars, dir, keyLen, seen, setting>>

-----------------------------------------------------------------------------
(* _republish_directory, after a membership change.  The put goes out in   *)
(* chunks of 512 entries; here there is one.                               *)

Snapshot(t) ==
  /\ "republish" \in setting.calls
  /\ AtPc(t, "idle")
  /\ LET r == [Idle EXCEPT !.call = "republish",
                           !.locs = [k \in Keys |-> IF k \in Live THEN At(entries[k].off)
                                                    ELSE NoEntry]]
     IN  IF setting.diskEnabled THEN Goto(t, r, "diskOnly")
         ELSE Live # {} /\ Goto(t, r, "dirPut")
  /\ UNCHANGED <<poolVars, diskVars, dir, keyLen, seen, setting>>

DiskOnly(t) ==
  /\ AtPc(t, "diskOnly")
  /\ LET locs == [k \in Keys |-> IF th[t].locs[k] = NoEntry /\ k \in keyLen
                                 THEN NonResident ELSE th[t].locs[k]]
     IN  IF locs = NoLocations THEN Return(t)
         ELSE Goto(t, [th[t] EXCEPT !.locs = locs], "dirPut")
  /\ UNCHANGED <<poolVars, diskVars, dir, keyLen, seen, setting>>

-----------------------------------------------------------------------------
(* clear: the keys are collected from _key_len and from the pool, deleted  *)
(* from the directory, then removed one by one (in any order: they are in  *)
(* a set) from the pool and from the disk, and _key_len is emptied.        *)

ClearStart(t) ==
  /\ "clear" \in setting.calls
  /\ AtPc(t, "idle")
  /\ Goto(t, [Idle EXCEPT !.call = "clear", !.keys = keyLen], "clearPool")
  /\ UNCHANGED <<poolVars, diskVars, dir, keyLen, seen, setting>>

ClearPool(t) ==
  /\ AtPc(t, "clearPool")
  /\ LET r == [th[t] EXCEPT !.keys = @ \cup Live]
     IN  Goto(t, r, IF r.keys = {} THEN "clearLens" ELSE "clearDir")
  /\ UNCHANGED <<poolVars, diskVars, dir, keyLen, seen, setting>>

ClearDirectory(t) ==
  /\ AtPc(t, "clearDir")
  /\ DirDelete(th[t].keys)
  /\ Goto(t, th[t], "remove")
  /\ UNCHANGED <<poolVars, diskVars, keyLen, seen, setting>>

(* pool.remove of the next key; disk.remove follows in two steps.          *)
ClearRemove(t) ==
  /\ AtPc(t, "remove")
  /\ \E k \in th[t].keys :
       /\ IF k \in Live THEN Remove(k) ELSE UNCHANGED poolVars
       /\ Goto(t, [th[t] EXCEPT !.keys = @ \ {k}, !.todo = <<k>>],
               IF setting.diskEnabled THEN "unindex"
               ELSE IF th[t].keys = {k} THEN "clearLens" ELSE "remove")
  /\ UNCHANGED <<diskVars, dir, keyLen, seen, setting>>

ClearUnindex(t) ==
  /\ AtPc(t, "unindex")
  /\ LET k == Head(th[t].todo)
     IN  \/ DiskUnindex(k) /\ Goto(t, th[t], "unlink")
         \/ /\ k \notin Indexed
            /\ Goto(t, th[t], IF th[t].keys = {} THEN "clearLens" ELSE "remove")
            /\ UNCHANGED diskVars
  /\ UNCHANGED <<poolVars, dir, keyLen, seen, setting>>

ClearUnlink(t) ==
  /\ AtPc(t, "unlink")
  /\ DiskUnlink(Head(th[t].todo))
  /\ Goto(t, th[t], IF th[t].keys = {} THEN "clearLens" ELSE "remove")
  /\ UNCHANGED <<poolVars, dir, keyLen, seen, setting>>

ClearLens(t) ==
  /\ AtPc(t, "clearLens")
  /\ keyLen' = {}
  /\ Return(t)
  /\ UNCHANGED <<poolVars, diskVars, dir, seen, setting>>

-----------------------------------------------------------------------------
(* The disk writer, and _on_disk_evict in its thread: first the lengths,   *)
(* then the directory.                                                     *)

Writer ==
  /\ setting.diskEnabled
  /\ \/ WriterTake \/ WriterWrite
     \/ setting.ioErrors /\ WriterFails
     \/ WriterIndex \/ WriterDone
  /\ UNCHANGED <<poolVars, dir, keyLen, th, seen, setting>>

DiskEvictLens ==
  /\ writer.pc = "callback"
  /\ keyLen' = keyLen \ writer.evicted
  /\ writer' = [writer EXCEPT !.pc = "reported"]
  /\ UNCHANGED <<poolVars, index, diskUsed, inflight, queue, files, dir, th, seen, setting>>

DiskEvictDelete ==
  /\ writer.pc = "reported"
  /\ DirDelete(writer.evicted)
  /\ writer' = [writer EXCEPT !.pc = "done"]
  /\ UNCHANGED <<poolVars, index, diskUsed, inflight, queue, files, keyLen, th, seen, setting>>

-----------------------------------------------------------------------------
(* The batches of at most n different keys.                                *)
Batches(n) ==
  {b \in UNION {[1 .. m -> setting.keys] : m \in 1 .. n} : NoRepeats(b)}

ThreadStep(t) ==
  \/ \E b \in Batches(setting.batch) : PublishStart(t, b)
  \/ \E b \in Batches(setting.promotes) : PromoteStart(t, b)
  \/ \E k \in Keys, call \in {"fetch", "fetchLocal", "prefetch"} : Lookup(t, call, k)
  \/ PoolPublish(t) \/ EvictDelete(t) \/ EvictLengths(t) \/ EvictPut(t)
  \/ DiskWriteThrough(t) \/ SetKeyLen(t) \/ Reconcile(t) \/ DirectoryPut(t)
  \/ EnsureResident(t) \/ FileRead(t) \/ DropMisses(t) \/ Read(t)
  \/ Snapshot(t) \/ DiskOnly(t)
  \/ ClearStart(t) \/ ClearPool(t) \/ ClearDirectory(t) \/ ClearRemove(t)
  \/ ClearUnindex(t) \/ ClearUnlink(t) \/ ClearLens(t)

StoreNext ==
  \/ \E t \in setting.threads : ThreadStep(t)
  \/ Writer \/ DiskEvictLens \/ DiskEvictDelete

StoreSpec == StoreInit /\ [][StoreNext]_storeVars

-----------------------------------------------------------------------------
(* Properties.                                                             *)

(* Whatever threads publish, promote, evict and clear at the same time, a  *)
(* resident page's bytes are its own: publish copies and inserts under one *)
(* lock.                                                                   *)
PagesIntact == \A k \in Live : \A x \in Bytes(entries[k]) : mem[x] = k

(* The directory advertises k at an address where the pool has it.         *)
Valid(k) == k \in Live /\ dir[k] = At(entries[k].off)

Advertised(k) == dir[k] # NoEntry /\ dir[k].resident

(* The disk tier has room for every page the node will have.               *)
DiskHasRoom == setting.diskEnabled => BytesOnDisk(setting.keys) <= MaxBytes

(* One thread makes all the calls, its directory calls arrive, pages are   *)
(* promoted one by one, and the writer's thread has nothing to evict.      *)
Sequential ==
  /\ \E t \in Threads : setting.threads = {t}
  /\ ~ setting.dirFails
  /\ setting.promotes = 1
  /\ DiskHasRoom

(* "a published address stays valid until evicted": when calls are made    *)
(* one after the other, a resident directory entry is wrong only while the *)
(* thread that evicted the page is still in _on_pool_evict.                *)
StaleOnlyDuringEviction ==
  Sequential => \A k \in Keys : Advertised(k) /\ ~ Valid(k) => \E t \in Threads : k \in th[t].pend

(* The converse: a page that takes up pool memory is advertised, unless    *)
(* the call that brought it in, or clear, is not done with it.             *)
ResidentIsListed ==
  Sequential => \A k \in Live : Valid(k) \/ \E t \in Threads : \/ th[t].locs[k] # NoEntry
                                                               \/ th[t].call = "clear"

(* When no call is in progress and the disk writer waits, every resident   *)
(* entry of the directory is right: no interleaving leaves a stale address *)
(* behind for good.                                                        *)
QuietDirectoryValid ==
  (\A t \in Threads : AtPc(t, "idle")) /\ writer.pc = "wait" =>
    \A k \in Keys : Advertised(k) => Valid(k)

(* There is a disk tier, with room for every page; it writes them all, and *)
(* is never cleared.                                                       *)
DiskAmple ==
  /\ setting.diskEnabled /\ DiskHasRoom
  /\ ~ setting.ioErrors
  /\ "clear" \notin setting.calls

(* "With a disk tier the page is still on disk": an entry that is listed   *)
(* as non-resident can be promoted, now or once the writer gets to it,     *)
(* whatever threads run and whichever directory calls are lost.            *)
NonResidentOnDisk ==
  DiskAmple => \A k \in Keys : dir[k] = NonResident => k \in Indexed \cup inflight

(* "Without disk, drop it": a node that has no disk tier lists no page as  *)
(* non-resident, for there is nowhere to promote it from.  The reconcile   *)
(* loop of a publish lists a page that a later page of its own batch       *)
(* evicted as "now on disk only", disk tier or not.                      *)
NoDiskNoNonResident == ~ setting.diskEnabled => \A k \in Keys : dir[k] # NonResident

(* What the fetch that ends with this step hands out.                      *)
HandsOutOwnPage ==
  \A t \in Threads : AtPc(t, "read") /\ ~ AtPc(t, "read")' =>
    \A k \in th[t].keys : Served(th[t], k) = {k}

(* "any read that resolves a stale/missing entry returns a miss": the      *)
(* bytes a fetch hands out are those of the page it was asked for.         *)
ReadsOwnPage == [][HandsOutOwnPage]_storeVars

(* "A page left the disk tier too -> it is truly gone": a key that was     *)
(* evicted from the disk is not in the pool when its directory entry is    *)
(* deleted.  Nothing orders the two tiers: the oldest page on disk can be  *)
(* the one in the pool, which then stays there without an entry.           *)
EvictedIsGone == writer.pc = "reported" => writer.evicted \cap Live = {}

(* The disk tier's own invariants, under the store's threads: the page the *)
(* writer is about to index is not indexed yet (what put checked before it *)
(* queued the page still holds), and the tier's size stays within bounds.  *)
DiskWriterKeyIsNew == WriterKeyIsNew
DiskSizeBounded == DiskBounded
=============================================================================
