---------------------------- MODULE DiskRestart ----------------------------
(***************************************************************************)
(* The disk tier over crashes and restarts (python/peercache/diskstore.py):*)
(* the index of DiskStore lives in memory, index.json is written every so  *)
(* many pages and on close, and a new process loads it, or scans the       *)
(* directory when there is none or it is corrupt.                          *)
(***************************************************************************)
EXTENDS DiskStore

CONSTANTS
  FlushEvery,  \* the number of writes between two flushes (256)
  NoIndex      \* there is no index.json

ASSUME RestartAssumption == FlushEvery \in Nat \ {0}

VARIABLES
  saved,       \* the keys in index.json, in order, or NoIndex
  sinceFlush,  \* _writes_since_flush
  flushDue,    \* the writer has left the lock with flush set
  mode         \* "running", "closing" (close has been called) or "down"

restartVars == <<diskVars, saved, sinceFlush, flushDue, mode>>

RestartInit ==
  /\ DiskInit
  /\ saved = NoIndex
  /\ sinceFlush = 0
  /\ flushDue = FALSE
  /\ mode = "running"

Put(k) ==
  /\ mode = "running"
  /\ DiskPut(k)
  /\ UNCHANGED <<saved, sinceFlush, flushDue, mode>>

(* get: what it does to the index; the read of the file changes nothing.   *)
Get(k) ==
  /\ mode # "down"
  /\ DiskTouch(k)
  /\ UNCHANGED <<saved, sinceFlush, flushDue, mode>>

(* The critical section of _write counts the write and decides to flush.   *)
IndexAndCount ==
  /\ WriterIndex
  /\ flushDue' = (sinceFlush + 1 >= FlushEvery)
  /\ sinceFlush' = IF sinceFlush + 1 >= FlushEvery THEN 0 ELSE sinceFlush + 1
  /\ UNCHANGED <<saved, mode>>

(* _flush_index replaces the file in one step.  It reads the index without *)
(* the lock: when another thread changes it meanwhile the attempt fails.   *)
FlushIndex == saved' = index \/ saved' = saved

WriterFlush ==
  /\ flushDue
  /\ FlushIndex
  /\ flushDue' = FALSE
  /\ UNCHANGED <<diskVars, sinceFlush, mode>>

WriterStep ==
  \/ /\ mode # "down"
     /\ IndexAndCount
  \/ /\ mode # "down"
     /\ WriterFlush
  \/ /\ mode # "down"
     /\ ~ flushDue
     /\ WriterTake \/ WriterWrite \/ WriterFails \/ WriterReported \/ WriterDone
     /\ UNCHANGED <<saved, sinceFlush, flushDue, mode>>

(* The process ends, and with it everything that is not a file.            *)
Stopped ==
  /\ mode' = "down"
  /\ index' = <<>>
  /\ diskUsed' = 0
  /\ inflight' = {}
  /\ queue' = <<>>
  /\ writer' = Waiting
  /\ sinceFlush' = 0
  /\ flushDue' = FALSE
  /\ UNCHANGED files

Crash ==
  /\ mode # "down"
  /\ Stopped
  /\ UNCHANGED saved

(* close: no further puts, the writer drains the queue up to the stop mark *)
(* or the join times out, and the index is flushed.                        *)
CloseStart ==
  /\ mode = "running"
  /\ mode' = "closing"
  /\ UNCHANGED <<diskVars, saved, sinceFlush, flushDue>>

CloseEnd ==
  /\ mode = "closing"
  /\ FlushIndex
  /\ Stopped

(* As LoadIndex, without looking for the files.                            *)
LoadIndexUnchecked ==
  /\ saved # NoIndex
  /\ index' = saved
  /\ diskUsed' = BytesOnDisk(Range(saved))

(* _load_index: the entries of index.json whose file exists.               *)
LoadIndex ==
  /\ saved # NoIndex
  /\ index' = OnlyIn(saved, files)
  /\ diskUsed' = BytesOnDisk(Range(saved) \cap files)

(* _rebuild_from_scan, when there is no index.json or it cannot be read:   *)
(* every page file, in the order of the hashed names.                      *)
RebuildFromScan ==
  /\ index' \in {s \in [1 .. Cardinality(files) -> files] : Range(s) = files}
  /\ diskUsed' = BytesOnDisk(files)

Restart ==
  /\ mode = "down"
  /\ mode' = "running"
  /\ LoadIndex \/ RebuildFromScan
  /\ UNCHANGED <<inflight, queue, files, writer, saved, sinceFlush, flushDue>>

RestartNext ==
  \/ \E k \in Keys : Put(k) \/ Get(k)
  \/ WriterStep
  \/ Crash \/ CloseStart \/ CloseEnd \/ Restart

(* The writer is a thread of its own and close ends with the process.      *)
RestartSpec ==
  /\ RestartInit /\ [][RestartNext]_restartVars
  /\ WF_restartVars(WriterStep)
-----------------------------------------------------------------------------
(* Properties.                                                             *)

(* Over crashes, clean stops and restarts the index lists each key once,   *)
(* _used is the size of what it lists, and every page it lists has a file  *)
(* (eviction removes both in one critical section, loading skips entries   *)
(* without a file).                                                        *)
IndexSound ==
  /\ Cardinality(Indexed) = Len(index)
  /\ diskUsed = BytesOnDisk(Indexed)
  /\ Indexed \subseteq files

(* A process that dies between the write of a page and the eviction that   *)
(* makes room for it leaves too much for the next scan, and more with each *)
(* crash.  However far over its limit the index is found, the next write   *)
(* brings it back.                                                         *)
WriteRestoresBound ==
  [][writer.pc = "index" /\ writer'.pc \in {"callback", "done"} =>
       diskUsed' <= MaxBytes]_restartVars

(* A key does not stay marked as being written: as long as the process     *)
(* lives the writer gets to it, and a failed write takes the mark back.    *)
MarksAreCleared == \A k \in Keys : k \in inflight ~> k \notin inflight

(* "The disk tier is itself LRU-bounded by max_bytes": when the index is   *)
(* within its limit and the writer waits, so are the page files.           *)
FilesBounded ==
  mode = "running" /\ writer.pc = "wait" /\ diskUsed <= MaxBytes =>
    BytesOnDisk(files) <= MaxBytes
=============================================================================
