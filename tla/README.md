# PeerCache in TLA+

PeerCache is a distributed KV cache: a node copies the pages it computes into a
registered memory region, advertises their addresses in a directory sharded over
all nodes, and a node that misses reads a peer's page with a one-sided RDMA READ.
Pages may instead be pushed to storage nodes, or, without a directory, into slots
whose place follows from the key. These modules model its parts, TLC checks them
on small instances, and TLAPS proves many of the safety properties for every
instance. `PROJECT.json` maps each definition to the lines it models.

## The system

| Part | Source | State | What changes it | Module |
|---|---|---|---|---|
| Published pool | `python/peercache/pool.py` | bump pointer, free lists, entries in LRU order, bytes | `publish`, `reserve`, `address_of`, `remove` (one lock) | `PublishedPool` |
| Disk tier | `diskstore.py` | index, size, in-flight set, queue, files, `index.json` | `put`, `get`, `remove`, writer thread, `close`, start | `DiskStore`, `DiskRestart` |
| P2P store | `store.py` | `_key_len`, the calls in progress | publish, evict, promote, fetch, prefetch, re-publish, `clear` | `P2PStore` |
| Lookups, write policies | `store.py` | `_primed`, `_dir_cache`, `_raw_keys` | exists, get and set calls of three interfaces | `Lookup` |
| Storage server and its clients | `storage_server.py`, `store.py` | a pool and a disk tier fed by writers elsewhere | prepare, WRITE, commit, ingest, promote, re-publish | `StorageWrite` |
| Slot map | `slotmap.py`, `store.py` | slots with a header, a sequence number and a page | local and remote writers, readers | `SlotMap` |
| RPC | `rpc.py` | sockets, idle clients | a call with one reconnect, the server's threads | `Rpc` |
| Directory | `directory.py` | shards, replicas | `put`, `get`, `exists`, `delete` | `Directory` |
| Hash ring | `hashring.py` | sorted virtual nodes | `set_nodes` | `HashRing` |
| Discovery, node runtime | `discovery.py`, `server.py` | registries with TTLs, member views, rings | register, heartbeat, deregister, expiry, `_on_members` | `Membership` |
| Channels, transfers | `connection_manager.cpp`, `transfer_engine.cpp`, `rdma_endpoint.cpp` | channel pools per (rail, peer), posted work requests | lease, release, discard, batch calls | `ConnectionManager` |
| Transport, memory regions, configuration, metrics, benchmarks, launchers, bindings | the rest | | | see the end |

How they interact: a publish copies into the pool, writes through to the disk
tier, remembers the length and puts the location into the directory. The pool
evicts inside a publish and calls `_on_pool_evict` after it left its lock; the
disk writer evicts and calls `_on_disk_evict` from its own thread; both then call
the directory. A reader looks the location up (in its caches, then in the
directory), asks the owner to promote a page that is only on disk, and READs
through a leased channel. Discovery decides who is on the ring; when that changes
each node puts its entries again.

What is composed: `P2PStore` EXTENDS `PublishedPool` and `DiskStore`, which share
the keys of `PageKeys`; `StorageWrite` EXTENDS `PublishedPool`, `DiskRestart`
`DiskStore`; `Directory` EXTENDS `Rpc` and `HashRing`, `Membership` `HashRing`.
`Sorting` has what Python's `sorted`, filters and nested loops do to lists. Where a module
takes a neighbour as given, that neighbour's own run is what justifies it: the
stores and `Lookup` take the directory for one map with calls that may get lost,
and `Lookup` leaves open what happens to pages on other nodes. `ShardsAreOneMap`
says when the shards are one map: for a key that one thread at a time writes, of
whatever node. Publishes, evictions, the disk writer, promotions and other nodes
that list the same key may write it at once; with two replicas its owners can then
differ until the next put or delete that meets no other (finding 15). With
`directory_replicas` 1 a key has one owner and the map is one in any case.

## State and actions

Several modules have a variable `setting`: what a deployment is configured with
and what goes wrong in it. Init chooses it and no step changes it, so one run
covers several deployments, each with all of its behaviours.

**PublishedPool.** Every method holds one lock, so each is one action. `entries`
and `lru` are the mapping and the order of one `OrderedDict`; `mem` records, for
each byte, the key whose page was copied there last. `_allocate` is `TakeFree`,
`Bump`, `EvictAndReuse` or `AllocateFails`; its eviction loop is summarised by the
prefix of the LRU order that it pops. Free lists are sets: the code reuses the
last one freed, the model any. `PageRegion` is the abstract promise: disjoint
blocks, unchanged while owned.

**DiskStore, DiskRestart.** A page file is identified with its key, since a key
always names the same page. `put` is one step: its mark is set under the lock and
the queue put follows outside it, which only delays the writer. `LoadIndex` takes
the list, or falls back to the scan when the file is absent or cannot be parsed. The writer goes
through `write` (file), `index` (second critical section with the capacity
loop), `callback` (`on_evict`) and `done` (in-flight mark). `DiskRestart` adds
`index.json`; a flush that iterates the index while another thread changes it
fails and leaves the old file, which is the second disjunct of `FlushIndex`.

**P2PStore.** A thread runs one call. Its `pc` stands where the code releases a
lock, calls the directory or touches a file. `locs` holds `entries` of
`_publish_p2p` and `out` of `_ensure_resident`; `put` the keys that will be put;
`pend` the keys `_on_pool_evict` was called with. A fetch is of one key and its
READ sees the bytes of one moment. Where the setting `remembers`, `seen` holds the
locations of `_primed` and `_dir_cache`, and a fetch takes the one it remembers or
asks the directory; `Lookup` has those caches in full.

**Lookup.** A location is reduced to what becomes of it: whether the page is in
this node's pool, whether it has an address, how many moments ago the directory or
the owner gave it, and whether a READ with it has failed. Both caches map keys to
such a location and the moments left to it; `Tick` ages everything. A call is a
sequence of stages (`stage`, `pc`): the cache, the directory, the other keyspace,
the side pool, priming; or taking what is primed, resolving, reading, forgetting.
Keys say their keyspace (component or blob), whether they carry the prefix, the
page and the component, which is what the naming functions of `store.py` decide.
A page that is listed as spilled is promoted by its owner or not: when it is still
in the disk queue or finds no room, `Resolve` misses and the entry is deleted, as
`_ensure_resident` and its caller do. `EvictLocal` is the eviction callback of this
node's pool; `Move`, `Evict` and `List` are the rest of the cluster.

**StorageWrite.** A client and the handler that works for it are one thread. Its
request or its answer is lost where `CallFails`; a handler whose caller has timed
out may still run, and the retry of the RPC client runs a request twice (fault
`late`); the directory puts of commit and ingest are best effort (fault `dir`). `locs` are the slots of a
prepare, later the entries of a commit or ingest; `left` and `wrote` are the
WRITEs under way, which land in any order, and those reported as done. A batch may
be larger than the pool. The disk tier keeps what it is given.

**SlotMap.** One bucket: buckets share no state. The threads of the owner write
with `LocalPick`, which takes and releases the lock, and `LocalMark` (odd sequence
number), `LocalCopy` and `LocalSeal`, which are under it; a
client READs the bucket and picks ways for its batch from that snapshot
(`ReadAndPick`), then WRITEs slot by slot. A local reader looks at a header and
copies afterwards; a remote one judges the snapshot it READ. `wire` says whether
transfers are whole, may fail, or move header and page separately. The exists call
of this mode judges headers as a fetch does and changes nothing; it is no action.

**Rpc, Directory.** A socket has the requests its server thread has not run and
the answers its client has not read. `Closed` leaves the former to the server:
a request that was sent is run although its caller gave up. A directory operation
is a plan of calls (`Fanout` for put and delete, `Grouped` for get and exists) that
are made one after the other, by any of the callers, so that the calls of two
operations on a key interleave; `Handle` is the shard's handler. `want` and `torn`
are there for the properties: what the last operation on a key was to leave behind,
and whether it met another.

**Membership.** `reg` is each host's registry with the age and the ports of each
member: a registration sets the ports, a heartbeat keeps those that are there. A
round of `_loop` calls its targets one by one, merging what they answer, and ends
in `Apply`, which is `_apply_members`, `_on_members` and the listeners up to the
point where the re-publication is queued (`due`). `Put` is that re-publication.
A node starts again on other ports where the setting is `moved`, and before the
others missed it where it is `quick`; otherwise once it is `Forgotten`. A tick is a
heartbeat interval: time passes only when no round is due, so a round takes no time
unless a call hangs. A node's registry and shard go with it at once; in the code an
open connection is served one more request.

**ConnectionManager.** Pools are numbered in the order of the `std::map` that
groups a multi call. A call leases one group after the other (`lease`, `wait`,
`connect`), posts, and drains in the order it leased; the `_v` calls drain each
group before they lease the next and use rail 0. `notify_one` wakes any waiter,
and waiters may wake for no reason. An address of a destroyed endpoint can be
used again. A queue pair leaves RTS when a work request completes with an error
(the verbs library's behaviour for RC queue pairs, modelled as external).

## Runs

| Run | Instance | Shows |
|---|---|---|
| `pool_mixed` | 3 keys, lengths 1, 2, 5, region of 4 bytes | type, no overlap, no leak, accounting, room while pages have one length, stability, refinement |
| `disk_restart` | 3 pages of 1 and 2 bytes, tier of 2, flush every 2 writes, failing writes | index sound over crashes, the next write restores the bound, marks are cleared |
| `store` | pool of 4, disk of 7; one thread with all calls, disk or not, on pages that all fit on disk or of which one does, with and without remembered locations; two threads with lost directory calls; two threads that publish and promote, a disk for one page, failing writes; two threads that publish, promote and `clear`, failing writes and lost directory calls | pages intact; with calls one after the other and room on disk the directory and the pool agree outside an eviction; a non-resident entry can be promoted; disk accounting exact |
| `store_two_publishers` | two threads, a pool for one page, no disk | violated: finding 1 |
| `lookups` | prefixes of 1 or 2 pages, of 1 or 2 components, with or without a side pool, prefix, read cache; three write modes; one or two threads; pages that spill, are promoted or not, are evicted | locations have a bounded age, failed reads heal, exists is complete and what it reports can be read |
| `storage_writes` | pool of 2, pages of 1 and 2, batches of up to 3; one client with lost, late or repeated calls, lost directory puts, failing WRITEs or membership changes; two clients | listed pages are there, the disk copy is right, reported pages are listed |
| `storage_fallback` | the same | violated: finding 2 |
| `slotmap` | 2 ways, 3 keys and one too large, 2 threads of the owner and 2 clients, batches of up to 2 | what header and sequence number guarantee; batches keep their keys; no key twice |
| `directory` | 3 nodes with 2 virtual nodes each, 2 replicas, 2 keys, two threads of which one or both write; a node down, sockets cut, late answers | answers go to their requests, shards act as one map for a key with one writer at a time, reads fall back |
| `membership` | 3 nodes, 2 masters, one seed, one crash or stop, restarts on other ports, hosts that do not answer while booting | a running peer is never dropped; views, ports and listings converge |
| `channels_safety` | 3 callers, 2 pools of 2 channels, errors, timeouts, throwing `create` | exclusive leases, quiet free lists, exact capacity, ordered waiting |
| `channels_live` | 3 callers, 2 pools of 1 channel | calls return |

**What the conditions in the properties mean.** A property that begins with a
condition is claimed under it only, and the condition is part of what the project
says about the code:

- `StaleOnlyDuringEviction`, `ResidentIsListed` (`Sequential`): one thread, no lost
  directory call, a disk tier that has room for every page, pages promoted one by
  one. Finding 1 is what a second thread does, finding 12 what a full disk does,
  finding 13 what a request for two pages does.
- `NonResidentOnDisk`: the disk holds every page, writes it, is not cleared.
- `StableSlotsMatch`, `RemoteHitsRight`: WRITEs land whole, and owner and clients
  do not write to the same bucket. The owner numbers a slot by its own counter and
  a client by what it read, and neither sees the other's lock.
- `BatchKept`, `OneWayPerKey`: one writer, transfers that do not fail. `BatchKept`
  is about batches that evict nothing (finding 11); `OneWayPerKey` about batches that
  name a key once, for the reservation map gives a second mention a second way.
- `ListedIntact`, `ReportedListed`: all pages fit into the pool, or one client at a
  time works (`OneAtATime`: nothing late, no member comes or goes), with directory
  puts that arrive; addresses only outside an eviction callback. That the bytes are
  right (and `DiskIntact`) also needs WRITEs that land, and slots that are kept until
  then (`SlotsKept`): a slot that is evicted between prepare and WRITE is written
  although it is another page's by then, and a batch that does not fit does that to
  itself (`BatchesFit`, finding 14). A re-publication lists reserved slots that are
  still empty. Without a disk tier a batch that does not fit reports pages its own
  fallback evicted.
- `ShardsAreOneMap`, `ReadsFallBack`: answers come in time (a request that timed
  out may run after newer ones), and no other put or delete of the key was under way
  during the last one. The fallback helps the first key of a group.
- `PromptPeersStay`, `Converges`: hosts that were up and are down refuse calls
  (finding 6); hosts that have not booted yet may hang. What `Converges` says of ports
  and listings needs a restart that is noticed (`quick` is not set): a node that is
  back under its id before its TTL ran out changes no view, nobody re-publishes, its
  shard stays empty, and its new ports may not get through (finding 16).
- `ExistsComplete`: the keyspace is known or one thread is finding it out. Two
  that do so at once can give one false miss.
- `FailedReadHeals`: one thread; another may have taken the location before.

**Bounds.** Regions hold fewer pages than there are keys, so that eviction,
reuse and failed allocation all occur; one length is larger than the region.
Three keys give an LRU order that matters, two threads every race between a pair
of critical sections, three callers a waiter that is overtaken. `Channels` has as
many addresses as the pools can own at once. `MaxOps` is 1: a property tells
apart only whether work requests are outstanding. `MaxSeq` 6 lets a way be written
three times, `MaxShared` 4 twice where several write; batches of three unit pages, or
of a unit and a double one, do not fit into the pool of 2 of `storage_writes`; a bucket of two ways with three
keys always evicts. `MaxBytes` 7 holds both pages a and one b, both pages b, or one c.
`MaxSocks` 2 is one socket per caller, `MaxIdle` 1 makes the pool close one.
The two keys of `directory` share their first owner and differ in the second.
`MaxFaults` 1 leaves a master alive; when all masters die within one TTL the
survivors reach nobody and keep their last view, as the code says. `TTL` 1 is the
smallest with which a round that does take place is always in time. The times to
live of `lookups` are 0, 1 and 2, on either side of one another. All runs explore
their instance completely; no state constraint is used. Symmetry is used for keys,
threads, channels and callers in runs of safety properties whose definitions treat
them alike, and never in a run with a liveness property.

**Deadlock** is checked in every run: a new call can always begin, or time pass.

**Fairness.** `WF(WriterStep)`: the disk writer is a thread that blocks only on its
queue. `WF(CallStep(c))` for each caller of a channel: a runnable thread runs, and
both the handshake and `drain` have deadlines, so neither blocks for ever. A waiter
gets no fairness of its own (`SpuriousWake` is not in `CallStep`), so `CallsReturn`
really depends on the notifications. It assumes that new calls stop at some point: a
condition variable does not promise that a waiter wins against newcomers. In
`Membership` time, the rounds of the running nodes, queued re-publications and a
`stop` that has begun get on: all are threads whose calls have timeouts. Crashes,
stops, starts and publishes get no fairness.

## Findings

Two are violated runs; `PROJECT.json` quotes the line that says otherwise.

1. `store_two_publishers`: `_publish_p2p` puts locations that another thread's
   eviction has already superseded; the stale address stays in the directory.
2. `storage_fallback`: when a WRITE into a reserved slot fails, the ingest meant to
   make up for it finds the key in the pool, copies nothing, and lists the slot.

The others have a configuration of their own; running TLC on it shows the
counterexample.

| | Configuration, module | Property | What happens, against what is said |
|---|---|---|---|
| 3 | `MCP2PStoreReadRace`, `MCP2PStore` | `ReadsOwnPage` | A READ at an address looked up before an eviction, by another thread or, with a remembered location, by the reader's own, returns the next page in that slot, as a hit. "any read that resolves a stale/missing entry returns a miss" (`docs/architecture.md:288`) |
| 4 | `MCP2PStoreNoDisk`, `MCP2PStore` | `NoDiskNoNonResident` | Without a disk tier, a page that a later page of its own batch evicted is listed as on disk by the reconcile loop. "Without disk, drop it" (`_on_pool_evict`) |
| 5 | `MCDiskRestartFiles`, `MCDiskRestart` | `FilesBounded` | Page files that `index.json` does not list are never indexed or removed after a restart. "The disk tier is itself LRU-bounded" (`diskstore.py:5`) |
| 6 | `MCMembershipHang`, `MCMembership` | `PeersStay` | A round waits for the two timeouts of a master that does not answer, longer than the TTL: live nodes drop each other. "established peers keep serving via the other masters" (`docs/architecture.md:297`) |
| 7 | `MCLookupPrefix`, `MCLookup` | `ExistsComplete` | With `prefix` set the generic calls write under tagged keys and `batch_exists` looks under untagged ones. "must probe whichever namespace the producer actually wrote" (`store.py:216`) |
| 8 | `MCLookupDualWrite`, `MCLookup` | `DualWriteKeepsCopies` | With the policy `both` the local half skips every key the storage half has just listed, so no local copy is made. "dual write: storage (for cross-node sharing) + local pool copy" (`config.py:46`) |
| 9 | `MCSlotMapDirty`, `MCSlotMap` | `NeverDirtyHit` | A local reader checks the header and copies later, and a torn WRITE shows a new header over an old page: another page is returned as a hit. "never a dirty hit" (`store.py:594`) |
| 10 | `MCConnectionManagerBroken`, `MCConnectionManager` | `FreeIsRTS` | A channel whose queue pair is in error is released, not discarded, and leased again. "Lease an RTS channel" (`connection_manager.h:38`) |
| 11 | `MCSlotMapBatch`, `MCSlotMap` | `BatchSparesItself` | A way a batch has taken is numbered after the oldest way and not after its own, so the next key of the batch can find it the oldest and take it. "An intra-batch reservation map stops same-bucket keys from evicting each other" (`docs/slotmap.md:68`) |
| 12 | `MCP2PStoreDiskFull`, `MCP2PStore` | `EvictedIsGone` | The disk evicts a page that is in the pool: its length and its directory entry go, and the page stays in memory without an entry. "A page left the disk tier too -> it is truly gone" (`_on_disk_evict`) |
| 13 | `MCP2PStorePromoteTwo`, `MCP2PStore` | `QuietDirectoryValid` | A promotion of two pages of which the second evicts the first puts both as resident; `_publish_p2p` reconciles before it puts, `_ensure_resident` does not. "a published address stays valid until evicted" (`README.md:103`) |
| 14 | `MCStorageWriteLargeBatch`, `MCStorageWrite` | `ReportedIntact` | A prepare of more pages than the pool holds evicts slots it reserved before: two WRITEs of one batch go to one slot, and the commit lists one page where the other is. "After a remote RDMA WRITE lands, publish directory entries" (`storage_server.py:238`) |
| 15 | `MCDirectoryTwoWriters`, `MCDirectory` | `OwnersAgree` | A put and a delete of a key, each made owner by owner, leave one owner with the entry and the other without. "writes each entry to the next N owners" (`docs/architecture.md:225`) |
| 16 | `MCMembershipPorts`, `MCMembership` | `PortsConverge` | A node that is back on other ports within its TTL registers with the seed only; the other masters keep the record of its earlier run with each heartbeat. "what a node advertises to discovery" (`docs/sdk.md:182`) |

The passing runs also mark out where other promises end:

- `RoomWhileUniform` needs blocks of one length. The v2 calls publish pages of
  several sizes into one pool, and the exact-size free lists may then refuse a
  page that would fit.
- `CapacityExact` counts in `lost` what an exception of `create` leaves reserved,
  and `CallsReturn` assumes there is none: at the cap a caller would wait for ever.
- `LocationFresh` bounds the age of a location by both times to live together. A
  primed location may come out of the read cache, so the handoff time alone
  ("never serves a location older than one prefetch handoff", `store.py:205`) is
  the bound only when `directory_read_cache_ttl` is 0.
- `docs/slotmap.md` has the ways of a bucket chosen empty first; the code takes a
  way that holds the key first, and `OneWayPerKey` depends on it.
- A `stop` does not wait for the round under way, whose re-registration may come
  after the deregistration: the node stays listed until its TTL has run out.

## Proofs

A theorem is named after the property it states; `PROJECT.json` lists them. Every
one is of the form `Spec => []P` (or `Spec => [][A]_vars`, or a refinement) and
holds for all constants that satisfy the assumption of its module. The argument is
the same everywhere: an inductive invariant, a lemma per action, the property as a
consequence.

| Component | Proof modules | Stated for any | Theorems |
|---|---|---|---|
| Pool | `StoreTierProofs` | keys, positive lengths, capacity | all properties of `pool_mixed` |
| Disk tier | `StoreTierProofs` | keys, page sizes, capacity, flush interval | `InflightExact`, `IndexSound`, `WriteRestoresBound` |
| Channels | `ConnectionManagerProofs` | callers, pools, channels, bounds | all properties of `channels_safety` |

**Assumptions.** They are the `ASSUME`s of the modules, which TLC evaluates on the
instances: sizes and lengths are positive, the marker values (`NoEntry`, `NoKey`,
`NoSock`, `Error`, ...) are none of what they stand beside, the ring's points are
finite and no two nodes share one, the owner of a slot map is none of its clients,
batches are not empty. The conditions inside the properties are those of the section on runs.

**Pool.** `PoolInv == PoolTypeOK /\ OrderListsEntries /\ NoOverlap`. `NoOverlap`
alone is not inductive: eviction reads the LRU order, and only because that lists
each resident key once are the popped slots those of distinct resident pages; and it
has to speak of free blocks as well as resident ones, since a free block becomes
resident. Each action either *places* a block apart from every block that stays, or
only *frees* blocks; `PlacingKeepsNoOverlap` and `FreeingKeepsNoOverlap` close the
induction. `NothingLeaks` and `PublishedStaysValid` take one more step lemma each;
`UniformAlwaysRoom` follows from `NoLeak`, for without free and resident blocks there
is no byte below the bump pointer; for `PoolImplementsRegion` placing is `Give` and
freeing is `Drop`. `AccountingExact` needs laws about sums over finite sets.

**Sums, sorted sets, filtered and joined lists** are defined by recursion or by
`CHOOSE`, of which the provers know nothing. What the proofs use of them is derived
in `CollectionLemmas` and `StoreTierProofs` by induction on a
number, written as "the set of sizes with a counterexample has no least element",
which needs no theorem with an operator parameter.

**Disk tier.** `RestartInv`: the index lists a key once and only pages that have a
file, `_used` is the sum of their sizes, the queue has no key twice and none that is
indexed, and the writer's key is neither queued nor, before it is indexed, in the
index. That no write is repeated rests on `put` checking both under the lock. The
invariant does not bound the index, for a scan after a crash may find any number of
files; `WritesRestoreBound` is therefore an action property, from the law that the
capacity loop pops the shortest prefix that makes room.

**Channels.** `ChanInv`: the channels of a pool are disjointly free, leased or being
drained by exactly one call, `created` counts them and the handshakes under way, and a
call's leases are in the order of the pools. Free channels are quiet because a call
releases a channel only when every work request it posted has completed.

**Model-checked only.**
- Liveness: `MarksAreCleared`, `Converges`, `CallsReturn`. The prover does not handle
  fairness.
- `StorageWrite` (`ListedIntact`, `DiskIntact`, `ReportedListed`) and `PromptPeersStay`
  of `Membership`: within the prover's reach, and not done. The former need the pool's
  invariant and, for each client, which of its slots may still be written; the latter
  a bound on the age of every entry in every registry that runs through a round's
  calls.
- The properties of `store`: the composition of the two tiers under the calls.
- `LocationFresh`, `FailedReadHeals`, `ReportedFetchable` of `Lookup`.
- The properties of `slotmap`.
- The properties of `directory`.
- `ExistsComplete` of `Lookup`: what a call is sure of has to be followed through both
  keyspaces; the bookkeeping is not done.

## Not modelled

- **The ring while it changes.** `set_nodes` clears and refills the ring without a
  lock; a lookup of another thread in between finds no node or raises a `KeyError`.
  `HashRing` has the change as one step.
- **The restart of a whole node.** `DiskRestart` is about the disk tier alone.
  `_key_len` is not filled from a recovered index, so recovered pages are served
  only if something still lists them.
- **The exchange of slot region layouts.** A node caches its peers' layouts until
  the membership changes; one that restarts unnoticed keeps its old layout in
  those caches.
- **Side pools of two components** (a draft pool with MHA), and `batch_exists_v2`
  in slotmap mode.
- **Transport.** A READ is one step in `P2PStore` (`SlotMap` tears it), a WRITE one
  step in `StorageWrite`. The TCP fallback, which is there for tests, leases
  sockets as `RpcClientPool` does and never retries.
- **Memory regions** (`rdma_context.cpp`): device selection and registration
  through the verbs library, around one map under one lock.
- **The inbound handshake** of a channel, which touches no pool.
- **No protocol state:** configuration parsing and plain records, metrics,
  benchmarks, launchers, the pybind layer, host buffer registration, packing of
  multi-buffer pages, page contents beyond their owner, wire and file formats.
