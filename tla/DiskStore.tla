----------------------------- MODULE DiskStore -----------------------------
(***************************************************************************)
(* The disk tier of one node (python/peercache/diskstore.py): an LRU index *)
(* of page files bounded by max_bytes, fed by one writer thread through a  *)
(* queue.                                                                  *)
(*                                                                         *)
(* A key always names the same page, so a file is identified with its key  *)
(* and its length is SizeOf[key].  Each critical section is one action;    *)
(* the file operations outside the lock are actions of their own.  The     *)
(* callers' get and remove take two steps each, and the module that has    *)
(* the threads composes them: DiskTouch then the read of the file, and     *)
(* DiskUnindex then DiskUnlink.                                            *)
(***************************************************************************)
EXTENDS Integers, Sequences, FiniteSets, FiniteSetsExt, Functions, Sorting, PageKeys

CONSTANTS
  SizeOf,    \* the byte length of each key's page
  MaxBytes   \* max_bytes

ASSUME DiskAssumption ==
  /\ SizeOf \in [Keys -> Nat \ {0}]
  /\ MaxBytes \in Nat
  /\ NoKey \notin Keys

VARIABLES
  index,     \* _index: the indexed keys, least recently used first
  diskUsed,  \* _used
  inflight,  \* _inflight
  queue,     \* _q
  files,     \* the keys whose page file exists in the directory
  writer     \* the writer thread: where it is, its key, the keys it evicted

diskVars == <<index, diskUsed, inflight, queue, files, writer>>

Waiting == [pc |-> "wait", key |-> NoKey, evicted |-> {}]

DiskInit ==
  /\ index = <<>>
  /\ diskUsed = 0
  /\ inflight = {}
  /\ queue = <<>>
  /\ files = {}
  /\ writer = Waiting

Indexed == Range(index)

BytesOnDisk(keys) == MapThenSumSet(LAMBDA k : SizeOf[k], keys)

Without(s, k) == OnlyIn(s, Keys \ {k})

-----------------------------------------------------------------------------
(* The callers' side.                                                      *)

(* As DiskPut, dropping the page when the writer is behind.                *)
DiskPutDropsWhenBusy(k) ==
  IF SizeOf[k] <= MaxBytes /\ k \notin Indexed /\ k \notin inflight /\ queue = <<>>
  THEN /\ inflight' = inflight \cup {k}
       /\ queue' = Append(queue, k)
       /\ UNCHANGED <<index, diskUsed, files, writer>>
  ELSE UNCHANGED diskVars

(* As DiskPut, without the look at the index.                              *)
DiskPutIgnoresIndex(k) ==
  IF SizeOf[k] <= MaxBytes /\ k \notin inflight
  THEN /\ inflight' = inflight \cup {k}
       /\ queue' = Append(queue, k)
       /\ UNCHANGED <<index, diskUsed, files, writer>>
  ELSE UNCHANGED diskVars

(* put: a page that is too large, indexed or on its way is not queued.  The*)
(* mark is set under the lock and the page queued after it, in one step    *)
(* here: until it is queued only its mark, which put looks at, is to be    *)
(* seen, and the order of the queue is that of no other list.              *)
DiskPut(k) ==
  IF SizeOf[k] <= MaxBytes /\ k \notin Indexed /\ k \notin inflight
  THEN /\ inflight' = inflight \cup {k}
       /\ queue' = Append(queue, k)
       /\ UNCHANGED <<index, diskUsed, files, writer>>
  ELSE UNCHANGED diskVars

(* get, under the lock: the key becomes the most recently used one.        *)
DiskTouch(k) ==
  /\ k \in Indexed
  /\ index' = Append(Without(index, k), k)
  /\ UNCHANGED <<diskUsed, inflight, queue, files, writer>>

(* As DiskUnindex, without the accounting.                                 *)
DiskUnindexKeepsUsed(k) ==
  /\ k \in Indexed
  /\ index' = Without(index, k)
  /\ UNCHANGED <<diskUsed, inflight, queue, files, writer>>

(* remove, under the lock; and the removal of the file after it.           *)
DiskUnindex(k) ==
  /\ k \in Indexed
  /\ index' = Without(index, k)
  /\ diskUsed' = diskUsed - SizeOf[k]
  /\ UNCHANGED <<inflight, queue, files, writer>>

DiskUnlink(k) ==
  /\ files' = files \ {k}
  /\ UNCHANGED <<index, diskUsed, inflight, queue, writer>>

-----------------------------------------------------------------------------
(* The writer thread.                                                      *)

(* As WriterTake, leaving the last page of the queue where it is.          *)
WriterTakeBatched ==
  /\ writer.pc = "wait"
  /\ Len(queue) > 1
  /\ writer' = [writer EXCEPT !.pc = "write", !.key = Head(queue)]
  /\ queue' = Tail(queue)
  /\ UNCHANGED <<index, diskUsed, inflight, files>>

WriterTake ==
  /\ writer.pc = "wait"
  /\ queue # <<>>
  /\ writer' = [writer EXCEPT !.pc = "write", !.key = Head(queue)]
  /\ queue' = Tail(queue)
  /\ UNCHANGED <<index, diskUsed, inflight, files>>

(* The page file appears under its name in one step (os.replace).          *)
WriterWrite ==
  /\ writer.pc = "write"
  /\ files' = files \cup {writer.key}
  /\ writer' = [writer EXCEPT !.pc = "index"]
  /\ UNCHANGED <<index, diskUsed, inflight, queue>>

(* As WriterFails, when the mark in _inflight is not taken back.           *)
WriterFailsKeepsMark ==
  /\ writer.pc = "write"
  /\ writer' = Waiting
  /\ UNCHANGED <<index, diskUsed, inflight, queue, files>>

WriterFails ==
  /\ writer.pc = "write"
  /\ writer' = [writer EXCEPT !.pc = "done"]
  /\ UNCHANGED <<index, diskUsed, inflight, queue, files>>

(* As DiskVictims, popping one key at most.                                *)
DiskVictimsOne(idx, bytes) ==
  IF bytes > MaxBytes /\ Len(idx) > 1 THEN SubSeq(idx, 1, 1) ELSE <<>>

(* The keys the capacity loop pops from the order idx: the shortest prefix *)
(* that brings the size down to max_bytes, but never the last key.         *)
DiskVictims(idx, bytes) ==
  LET fits(n) == \/ bytes - BytesOnDisk(Range(SubSeq(idx, 1, n))) <= MaxBytes
                 \/ Len(idx) - n <= 1
      n == Min({i \in 0 .. Len(idx) : fits(i)})
  IN  SubSeq(idx, 1, n)

(* The second critical section of _write: index the page, then pop and     *)
(* remove until the tier fits.                                             *)
WriterIndex ==
  /\ writer.pc = "index"
  /\ LET k     == writer.key
         idx   == Append(Without(index, k), k)
         bytes == diskUsed + (IF k \in Indexed THEN 0 ELSE SizeOf[k])
         out   == DiskVictims(idx, bytes)
     IN  /\ index' = SubSeq(idx, Len(out) + 1, Len(idx))
         /\ diskUsed' = bytes - BytesOnDisk(Range(out))
         /\ files' = files \ Range(out)
         /\ writer' = [writer EXCEPT !.pc = IF out = <<>> THEN "done" ELSE "callback",
                                     !.evicted = Range(out)]
  /\ UNCHANGED <<inflight, queue>>

(* on_evict returned.                                                      *)
WriterReported ==
  /\ writer.pc = "callback"
  /\ writer' = [writer EXCEPT !.pc = "done"]
  /\ UNCHANGED <<index, diskUsed, inflight, queue, files>>

WriterDone ==
  /\ writer.pc = "done"
  /\ inflight' = inflight \ {writer.key}
  /\ writer' = Waiting
  /\ UNCHANGED <<index, diskUsed, queue, files>>

-----------------------------------------------------------------------------
(* Properties.                                                             *)

(* The writer's record; the store's callback adds the step "reported".     *)
WriterRec ==
  [pc : {"wait", "write", "index", "callback", "reported", "done"},
   key : Keys \cup {NoKey},
   evicted : SUBSET Keys]

(* The page the writer is working on.                                      *)
Hand == IF writer.pc = "wait" THEN {} ELSE {writer.key}

(* put's duplicate check is exact: the keys in flight are the queued ones  *)
(* and the writer's, each once, so a page is never written twice over and  *)
(* never blocked by a mark left behind.                                    *)
InflightExact ==
  /\ inflight = Range(queue) \cup Hand
  /\ Cardinality(inflight) = Len(queue) + Cardinality(Hand)

(* The writer never finds its key indexed: what put saw under the lock     *)
(* still holds when _write takes the lock again.                           *)
WriterKeyIsNew == writer.pc \in {"write", "index"} => writer.key \notin Indexed

(* _used is the size of the indexed pages and stays within max_bytes,      *)
(* whatever interleaving of put, get, remove and the writer led here.      *)
DiskBounded ==
  /\ diskUsed = BytesOnDisk(Indexed)
  /\ Cardinality(Indexed) = Len(index)
  /\ diskUsed <= MaxBytes

(* An indexed page can be read: its file is there.                         *)
IndexedHasFile == Indexed \subseteq files
=============================================================================
