------------------------------- MODULE Lookup -------------------------------
(***************************************************************************)
(* How a node finds pages (python/peercache/store.py): batch_exists and    *)
(* batch_exists_v2 ask the directory which pages of a prefix are there and *)
(* prime their locations, a get consumes the primed locations, falls back  *)
(* to the read-location cache and the directory, has spilled pages         *)
(* promoted, reads, and forgets the cached locations of what failed.       *)
(*                                                                         *)
(* A location is known by what becomes of it: own (the page is in this     *)
(* node's pool), res (it has an address; otherwise the page is on its      *)
(* owner's disk only), age (moments since the directory or the owner gave  *)
(* it) and bad (a READ of this page has failed since).  Whether the bytes  *)
(* at an address are still the page's is the subject of P2PStore.          *)
(*                                                                         *)
(* The rest of the cluster lists, spills, promotes and evicts pages at any *)
(* time.  Time passes in moments; a lookup takes MaxCall of them at most.  *)
(***************************************************************************)
EXTENDS Integers, FiniteSets, FiniteSetsExt, Functions

CONSTANTS
  MaxPages,    \* the most pages of a prefix, numbered along it
  PrimedTTL,   \* _primed_ttl
  PrimedCap,   \* _primed_cap
  MaxCall,     \* bound: the moments a lookup takes
  Threads,
  Settings     \* what the deployment uses and what happens to it

(* api: the calls the deployment writes and reads with; parts: 1 for MLA,  *)
(* 2 for MHA; side: the hit policy of the side pool a v2 call adds, which  *)
(* has one object per page; prefix: whether config.prefix is set; dirTTL:  *)
(* directory_read_cache_ttl; mode: where this node's own pages go; events: *)
(* time passes ("time"), pages move between pool and disk ("spill"), or    *)
(* leave the cluster ("evict"), promotions miss ("miss"), calls to the     *)
(* directory or to an owner fail ("rpc"), READs fail ("read").             *)
ASSUME LookupAssumption ==
  /\ {MaxPages, PrimedTTL, MaxCall} \subseteq Nat \ {0}
  /\ PrimedCap \in Nat /\ IsFiniteSet(Threads)
  /\ Settings \subseteq [api : {"v1", "v2", "generic"}, pages : 1 .. MaxPages, parts : 1 .. 2,
                         side : {"none", "all", "trailing"}, prefix : BOOLEAN, dirTTL : Nat,
                         mode : {"p2p", "centralized", "both"}, threads : SUBSET Threads,
                         calls : SUBSET {"set", "get"},
                         events : SUBSET {"time", "spill", "evict", "miss", "rpc", "read"}]

VARIABLES
  dir,        \* the directory: the listed keys' entries
  dirCache,   \* _dir_cache: locations, each with the moments left to it
  primed,     \* _primed, likewise
  raw,        \* _raw_keys
  detected,   \* _keyspace_detected
  local,      \* the keys with a copy in this node's pool ("both")
  setting,    \* never changes
  th          \* the threads

lookupVars == <<dir, dirCache, primed, raw, detected, local, setting, th>>

Empty == [k \in {} |-> 0]

Pages == 1 .. setting.pages

-----------------------------------------------------------------------------
(* Keys.  A storage key says the keyspace, whether it has the prefix, the  *)
(* page and the component.                                                 *)

(* _component_keys: the tagged key of every component.                     *)
ComponentKeys(pages) == {<<"kv", setting.prefix, p, i>> : p \in pages, i \in 1 .. setting.parts}

(* _tag_keys in batch_set and batch_get: the blob of a page.               *)
BlobKeys(pages) == {<<"raw", setting.prefix, p, 1>> : p \in pages}

(* _lookup_keys: without a tag when the keyspace is raw.                   *)
LookupKeys(isRaw, pages) ==
  IF isRaw THEN {<<"raw", FALSE, p, 1>> : p \in pages} ELSE ComponentKeys(pages)

(* _v2_component_keys of a side pool.                                      *)
SideKeys(pages) == {<<"side", setting.prefix, p, 1>> : p \in pages}

(* The side pool's objects that go with the first n pages: all of them, or *)
(* the last one (the trailing window).                                     *)
Transfer(n) ==
  CASE setting.side = "none" -> {}
    [] setting.side = "all" -> SideKeys(1 .. n)
    [] setting.side = "trailing" -> SideKeys({n})

(* What the first n pages are written and read under.                      *)
DataKeys(n) == IF setting.api = "generic" THEN BlobKeys(1 .. n) ELSE ComponentKeys(1 .. n)

PageOf(k) == k[3]

(* _hit_prefix rounding up: a page whose first component is there counts.  *)
HitPrefixRoundsUp(found, keys) ==
  Max({n \in 0 .. setting.pages : \A k \in keys : PageOf(k) <= n /\ k[4] = 1 => k \in found})

(* _hit_prefix, the leading pages all of whose components were found.      *)
HitPrefix(found, keys) ==
  Max({n \in 0 .. setting.pages : \A k \in keys : PageOf(k) <= n => k \in found})

-----------------------------------------------------------------------------
(* stage: which lookup a call is in; want: the pages asked for; n: those   *)
(* found so far; keys: those being looked up or written, later: the side   *)
(* pool's, whose turn is next; miss: the keys the directory is still to be *)
(* asked for, asked: those it was asked for; ok: the keys that were read;  *)
(* clock: moments since the lookup began; sure: the keys that have been    *)
(* listed since the call began; knew: whether the keyspace was known then; *)
(* hits: the keys of the pages the thread's last exists call reported, but *)
(* for those found in a cache or an answer whose entry is deleted since,   *)
(* and those a call about which failed.                                    *)
Idle == [pc |-> "idle", call |-> "none", stage |-> "none", want |-> 0, n |-> 0, keys |-> {},
         later |-> {}, miss |-> {}, asked |-> {}, locs |-> Empty, ok |-> {}, clock |-> 0,
         sure |-> {}, knew |-> FALSE, hits |-> {}]

LookupInit ==
  /\ setting \in Settings
  /\ dir = Empty
  /\ dirCache = Empty
  /\ primed = Empty
  /\ raw = FALSE
  /\ detected = FALSE
  /\ local = {}
  /\ th = [t \in Threads |-> Idle]

AtPc(t, pc) == th[t].pc = pc

Goto(t, r, pc) == th' = [th EXCEPT ![t] = [r EXCEPT !.pc = pc]]

Drop(f, keys) == Restrict(f, DOMAIN f \ keys)

(* dict.update: what is new takes precedence.                              *)
Updated(old, new) ==
  [k \in DOMAIN old \cup DOMAIN new |-> IF k \in DOMAIN new THEN new[k] ELSE old[k]]

Fresh(e) == [own |-> e.own, res |-> e.res, age |-> 0, bad |-> FALSE]

(* A cache with more locations, each for so many moments.                  *)
Stored(cache, locs, left) ==
  Updated(cache, [k \in DOMAIN locs |-> [loc |-> locs[k], left |-> left]])

Resident(locs) == RestrictValues(locs, LAMBDA l : l.res)

Located(cache) == [k \in DOMAIN cache |-> cache[k].loc]

Unexpired(cache, keys) ==
  RestrictDomain(cache, LAMBDA k : k \in keys /\ cache[k].left > 0)

-----------------------------------------------------------------------------
(* _dir_get, of th[t].keys into th[t].locs.                                *)

(* The step a lookup is followed by.                                       *)
AfterLookup(r) ==
  CASE r.stage = "first" -> "count" [] r.stage = "other" -> "altCount"
    [] r.stage = "side" -> "sideCount" [] r.stage = "get" -> "resolve"

(* The cached locations; without a cache every key is a miss.              *)
CacheLookup(t) ==
  /\ AtPc(t, "look")
  /\ LET r   == th[t]
         hit == Unexpired(dirCache, r.keys \ DOMAIN r.locs)
         out == [r EXCEPT !.locs = Updated(@, Located(hit)), !.clock = 0,
                          !.miss = r.keys \ (DOMAIN r.locs \cup DOMAIN hit), !.asked = {}]
     IN  Goto(t, out, IF out.miss = {} THEN AfterLookup(r) ELSE "rpc")
  /\ UNCHANGED <<dir, dirCache, primed, raw, detected, local, setting>>

(* directory.get asks one owner after the other; here the keys of a page   *)
(* have the same owner.  An owner that cannot be reached has nothing.      *)
DirectoryGet(t) ==
  /\ AtPc(t, "rpc")
  /\ \E p \in Pages :
       LET r     == th[t]
           group == {k \in r.miss : PageOf(k) = p}
           rest  == r.miss \ group
           pc    == IF rest # {} THEN "rpc" ELSE IF setting.dirTTL > 0 THEN "store" ELSE AfterLookup(r)
           got   == [k \in group \cap DOMAIN dir |-> Fresh(dir[k])]
       IN  /\ group # {}
           /\ \/ Goto(t, [r EXCEPT !.miss = rest, !.asked = @ \cup group, !.locs = Updated(@, got)], pc)
              \/ "rpc" \in setting.events /\ Goto(t, [r EXCEPT !.miss = rest, !.hits = @ \ group], pc)
  /\ UNCHANGED <<dir, dirCache, primed, raw, detected, local, setting>>

(* The resident ones are cached, to expire dirTTL after the lookup began.  *)
CacheStore(t) ==
  /\ AtPc(t, "store")
  /\ LET r    == th[t]
         news == Resident(Restrict(r.locs, r.asked \cap DOMAIN r.locs))
     IN  /\ dirCache' = Stored(dirCache, news, Max({0, setting.dirTTL - r.clock}))
         /\ Goto(t, r, AfterLookup(r))
  /\ UNCHANGED <<dir, primed, raw, detected, local, setting>>

-----------------------------------------------------------------------------
(* batch_exists and batch_exists_v2, of the first n pages.                 *)

ExistsStart(t, n) ==
  /\ AtPc(t, "idle")
  /\ Goto(t, [Idle EXCEPT !.call = "exists", !.stage = "first", !.want = n,
                          !.keys = LookupKeys(raw, 1 .. n), !.later = Transfer(n),
                          !.sure = DOMAIN dir, !.knew = detected], "look")
  /\ UNCHANGED <<dir, dirCache, primed, raw, detected, local, setting>>

(* The hits of th[t]'s lookup, in pages.                                   *)
Hits(t) == Min({th[t].want, HitPrefix(DOMAIN th[t].locs, th[t].keys)})

Report(t, r, n, hits) == Goto(t, [r EXCEPT !.n = n, !.hits = hits], "done")

(* Of the keys that are reported after a lookup, those still listed; one   *)
(* the lookup did not find at all remains, as it should not be reported.   *)
StillListed(r, keys) == {k \in keys : k \in DOMAIN dir \/ k \notin DOMAIN r.locs}

(* On a full miss the other keyspace is tried, until one is known.         *)
Count(t) ==
  /\ AtPc(t, "count")
  /\ LET r == th[t]
         n == Hits(t)
     IN  \/ /\ n > 0
            /\ detected' = TRUE
            /\ Goto(t, r, "prime")
         \/ /\ n = 0 /\ ~ detected
            /\ Goto(t, [r EXCEPT !.stage = "other", !.keys = LookupKeys(~ raw, 1 .. r.want),
                                 !.locs = Empty], "look")
            /\ UNCHANGED detected
         \/ /\ n = 0 /\ detected
            /\ Report(t, r, 0, {})
            /\ UNCHANGED detected
  /\ UNCHANGED <<dir, dirCache, primed, raw, local, setting>>

(* As AltCount, without settling on the other keyspace.                    *)
AltCountForgets(t) ==
  /\ AtPc(t, "altCount")
  /\ IF Hits(t) > 0
     THEN detected' = TRUE /\ Goto(t, th[t], "prime")
     ELSE UNCHANGED detected /\ Report(t, th[t], 0, {})
  /\ UNCHANGED <<dir, dirCache, primed, raw, local, setting>>

(* A hit there settles the keyspace.                                       *)
AltCount(t) ==
  /\ AtPc(t, "altCount")
  /\ IF Hits(t) > 0
     THEN /\ raw' = (\E k \in th[t].keys : k[1] = "raw")
          /\ detected' = TRUE
          /\ Goto(t, th[t], "prime")
     ELSE /\ Report(t, th[t], 0, {})
          /\ UNCHANGED <<raw, detected>>
  /\ UNCHANGED <<dir, dirCache, primed, local, setting>>

(* _prime: the expired locations are swept when there are many.            *)
Primed(locs) ==
  LET kept == IF Cardinality(DOMAIN primed) > PrimedCap
              THEN RestrictValues(primed, LAMBDA e : e.left > 0) ELSE primed
  IN  Stored(kept, Resident(locs), PrimedTTL)

(* The hits are primed; with a side pool its lookup comes next.  (The      *)
(* background promotion that follows is the cluster's Promote.)            *)
Prime(t) ==
  /\ AtPc(t, "prime")
  /\ LET r   == th[t]
         n   == Hits(t)
         hit == {k \in r.keys : PageOf(k) <= n}
     IN  /\ primed' = Primed(Restrict(r.locs, hit \cap DOMAIN r.locs))
         /\ IF r.later = {} THEN Report(t, r, n, StillListed(r, DataKeys(n)))
            ELSE Goto(t, [r EXCEPT !.stage = "side", !.n = n, !.keys = r.later,
                                   !.hits = StillListed(r, DataKeys(n)), !.locs = Empty], "look")
  /\ UNCHANGED <<dir, dirCache, raw, detected, local, setting>>

(* The pages the side pool allows of the first n: those before the first   *)
(* it lacks, or all or none when it holds the trailing window only.        *)
Boundary(r) ==
  IF setting.side = "all" THEN HitPrefix(DOMAIN r.locs, {k \in r.keys : PageOf(k) <= r.n})
  ELSE IF r.keys \subseteq DOMAIN r.locs THEN r.n ELSE 0

(* Everything the side pool's lookup found is primed.                      *)
SideCount(t) ==
  /\ AtPc(t, "sideCount")
  /\ LET r    == th[t]
         n    == Min({r.n, Boundary(r)})
         side == {k \in r.keys : setting.side = "trailing" \/ PageOf(k) <= n}
     IN  /\ primed' = Primed(r.locs)
         /\ Report(t, r, n, IF n = 0 THEN {} ELSE (r.hits \cap DataKeys(n)) \cup StillListed(r, side))
  /\ UNCHANGED <<dir, dirCache, raw, detected, local, setting>>

-----------------------------------------------------------------------------
(* batch_get, batch_get_v1 and batch_get_v2: a fetch of the pages' keys,   *)
(* then one of the side pool's.                                            *)

(* The generic calls settle the keyspace.                                  *)
SettleRaw ==
  /\ raw' = (raw \/ setting.api = "generic")
  /\ detected' = (detected \/ setting.api = "generic")

IsSide(k) == k[1] = "side"

(* Of the pages just reported, or of any.                                  *)
GetStart(t, keys) ==
  /\ "get" \in setting.calls
  /\ AtPc(t, "idle")
  /\ keys # {}
  /\ SettleRaw
  /\ Goto(t, [Idle EXCEPT !.call = "get", !.stage = "get", !.hits = th[t].hits \cap keys,
                          !.keys = {k \in keys : ~ IsSide(k)},
                          !.later = {k \in keys : IsSide(k)}], "take")
  /\ UNCHANGED <<dir, dirCache, primed, local, setting>>

(* As TakePrimed, without a look at the expiry.                            *)
TakePrimedLate(t) ==
  /\ AtPc(t, "take")
  /\ LET r == th[t]
         hit == Restrict(primed, r.keys \cap DOMAIN primed)
     IN  /\ primed' = Drop(primed, r.keys)
         /\ Goto(t, [r EXCEPT !.locs = Located(hit)],
                 IF r.keys \subseteq DOMAIN hit THEN "resolve" ELSE "look")
  /\ UNCHANGED <<dir, dirCache, raw, detected, local, setting>>

(* _take_primed: a primed location is taken out, used or expired.          *)
TakePrimed(t) ==
  /\ AtPc(t, "take")
  /\ LET r == th[t]
         hit == Unexpired(primed, r.keys)
     IN  /\ primed' = Drop(primed, r.keys)
         /\ Goto(t, [r EXCEPT !.locs = Located(hit)],
                 IF r.keys \subseteq DOMAIN hit THEN "resolve" ELSE "look")
  /\ UNCHANGED <<dir, dirCache, raw, detected, local, setting>>

(* The entries of these keys are deleted.                                  *)
Unlisted(r, keys) == [r EXCEPT !.sure = @ \ keys, !.hits = @ \ keys]

(* _resolve_non_resident: the owner of a spilled page brings it back and   *)
(* says where, unless it cannot be asked.  A page that is not there, or is *)
(* still in the disk queue, or for which the pool has no slot, is a miss,  *)
(* and data_promote deletes its entry.                                     *)
Resolve(t) ==
  /\ AtPc(t, "resolve")
  /\ LET r     == th[t]
         spilt == {k \in DOMAIN r.locs : ~ r.locs[k].res}
         own   == {k \in spilt : r.locs[k].own}
     IN  \E out \in IF "rpc" \in setting.events THEN {{}, spilt \ own} ELSE {{}} :
         \E miss \in IF "miss" \in setting.events THEN SUBSET (spilt \ out) ELSE {{}} :
           LET back == (spilt \ (out \cup miss)) \cap DOMAIN dir
               dead == miss \ own
               left == Drop(dir, dead)
           IN  /\ dir' = [k \in DOMAIN left |->
                            IF k \in back THEN [left[k] EXCEPT !.res = TRUE] ELSE left[k]]
               /\ th' = [u \in Threads |->
                    IF u = t
                    THEN [Unlisted(r, out \cup miss) EXCEPT
                            !.pc = "read",
                            !.locs = Updated(Drop(@, spilt), [k \in back |-> Fresh(dir'[k])])]
                    ELSE Unlisted(th[u], dead)]
  /\ UNCHANGED <<dirCache, primed, raw, detected, local, setting>>

Spoilt(locs, keys) == [k \in DOMAIN locs |-> IF k \in keys THEN [locs[k] EXCEPT !.bad = TRUE] ELSE locs[k]]

SpoiltCache(cache, keys) ==
  [k \in DOMAIN cache |-> IF k \in keys THEN [cache[k] EXCEPT !.loc.bad = TRUE] ELSE cache[k]]

(* What can be copied from this node's own pool is, the rest is READ.      *)
Read(t) ==
  /\ AtPc(t, "read")
  /\ LET r      == th[t]
         here   == {k \in DOMAIN r.locs : r.locs[k].own} \cup (DOMAIN r.locs \cap local)
         remote == DOMAIN r.locs \ here
     IN  \E failed \in IF "read" \in setting.events THEN SUBSET remote ELSE {{}} :
           /\ dirCache' = SpoiltCache(dirCache, failed)
           /\ primed' = SpoiltCache(primed, failed)
           /\ th' = [u \in Threads |->
                IF u = t THEN [r EXCEPT !.pc = "forget", !.ok = @ \cup (DOMAIN r.locs \ failed),
                                        !.hits = @ \ failed]
                ELSE [th[u] EXCEPT !.locs = Spoilt(@, failed)]]
  /\ UNCHANGED <<dir, raw, detected, local, setting>>

(* After a fetch: the side pool's, or the results.                         *)
AfterFetch(t) ==
  LET r == th[t]
  IN  IF r.later = {} THEN Goto(t, [r EXCEPT !.locs = Empty], "done")
      ELSE Goto(t, [r EXCEPT !.keys = r.later, !.later = {}, !.locs = Empty, !.clock = 0], "take")

(* As Forget, leaving the cache alone.                                     *)
ForgetNothing(t) ==
  /\ AtPc(t, "forget")
  /\ AfterFetch(t)
  /\ UNCHANGED <<dir, dirCache, primed, raw, detected, local, setting>>

(* _dir_cache_invalidate of every key that was not read.                   *)
Forget(t) ==
  /\ AtPc(t, "forget")
  /\ dirCache' = Drop(dirCache, th[t].keys \ th[t].ok)
  /\ AfterFetch(t)
  /\ UNCHANGED <<dir, primed, raw, detected, local, setting>>

Return(t) ==
  /\ AtPc(t, "done")
  /\ th' = [th EXCEPT ![t] = [Idle EXCEPT !.hits = IF th[t].call = "exists" THEN th[t].hits ELSE {}]]
  /\ UNCHANGED <<dir, dirCache, primed, raw, detected, local, setting>>

-----------------------------------------------------------------------------
(* batch_set, batch_set_v1 and batch_set_v2 of the first n pages.          *)

SetStart(t, n) ==
  /\ "set" \in setting.calls
  /\ AtPc(t, "idle")
  /\ SettleRaw
  /\ Goto(t, [Idle EXCEPT !.call = "set", !.keys = DataKeys(n), !.miss = DataKeys(n),
                          !.later = Transfer(n)], "put")
  /\ UNCHANGED <<dir, dirCache, primed, local, setting>>

(* batch_set_v2 goes on with the side pool.                                *)
AfterPublish(t, r) ==
  IF r.later = {} THEN Goto(t, [r EXCEPT !.keys = {}], "done")
  ELSE Goto(t, [r EXCEPT !.keys = r.later, !.miss = r.later, !.later = {}], "put")

(* The directory with one key more; one that is listed stays as it is.     *)
Listed(k, own) == Updated([x \in {k} |-> [own |-> own, res |-> TRUE]], dir)

(* _publish: the pages go to this node's pool ("p2p") or to storage nodes, *)
(* whose locations are listed, one after the other; storing one there may  *)
(* fail.                                                                   *)
Publish(t) ==
  /\ AtPc(t, "put")
  /\ \E k \in th[t].miss :
       LET r == [th[t] EXCEPT !.miss = @ \ {k}]
       IN  /\ \/ dir' = Listed(k, setting.mode = "p2p")
              \/ setting.mode # "p2p" /\ "rpc" \in setting.events /\ UNCHANGED dir
           /\ IF r.miss # {} THEN Goto(t, r, "put")
              ELSE IF setting.mode = "both" THEN Goto(t, r, "copy") ELSE AfterPublish(t, r)
  /\ UNCHANGED <<dirCache, primed, raw, detected, local, setting>>

(* The local half of a dual write, _publish_p2p without its directory put: *)
(* it too skips the keys that are listed.                                  *)
PublishCopies(t) ==
  /\ AtPc(t, "copy")
  /\ local' = local \cup (th[t].keys \ DOMAIN dir)
  /\ AfterPublish(t, th[t])
  /\ UNCHANGED <<dir, dirCache, primed, raw, detected, setting>>

-----------------------------------------------------------------------------
(* The rest of the cluster, and time.                                      *)

AllKeys == DataKeys(setting.pages) \cup (IF setting.side = "none" THEN {} ELSE SideKeys(Pages))

(* Another node of the deployment publishes a page's key.                  *)
List ==
  /\ \E k \in AllKeys \ DOMAIN dir : dir' = Listed(k, FALSE)
  /\ UNCHANGED <<dirCache, primed, raw, detected, local, setting, th>>

(* Its owner evicts a page to disk, or promotes it.                        *)
Move ==
  /\ "spill" \in setting.events
  /\ \E k \in DOMAIN dir : dir' = [dir EXCEPT ![k].res = ~ @]
  /\ UNCHANGED <<dirCache, primed, raw, detected, local, setting, th>>

(* A page is gone, or some other node has a spilled one promoted and its   *)
(* owner misses it.                                                        *)
Evict ==
  /\ \E k \in DOMAIN dir :
       /\ "evict" \in setting.events \/ ("miss" \in setting.events /\ ~ dir[k].res)
       /\ dir' = Drop(dir, {k})
       /\ th' = [t \in Threads |-> Unlisted(th[t], {k})]
  /\ UNCHANGED <<dirCache, primed, raw, detected, local, setting>>

(* This node's pool evicts the copy of a page, and _on_pool_evict deletes  *)
(* the page's entry, whatever it says, or with a disk tier makes it one of *)
(* a page on this node's disk.                                             *)
EvictLocal ==
  /\ \E k \in local :
       /\ local' = local \ {k}
       /\ IF "spill" \in setting.events
          THEN dir' = Updated(dir, [j \in {k} |-> [own |-> TRUE, res |-> FALSE]]) /\ UNCHANGED th
          ELSE /\ dir' = Drop(dir, {k})
               /\ th' = [t \in Threads |-> Unlisted(th[t], {k})]
  /\ UNCHANGED <<dirCache, primed, raw, detected, setting>>

(* The age no location has when a fetch reads with it.                     *)
Stalest == setting.dirTTL + PrimedTTL + 3 * MaxCall

Older(l) == [l EXCEPT !.age = Min({@ + 1, Stalest})]

Aged(cache) ==
  [k \in DOMAIN cache |-> [loc |-> Older(cache[k].loc), left |-> Max({0, cache[k].left - 1})]]

Tick ==
  /\ "time" \in setting.events
  /\ \A t \in Threads : AtPc(t, "idle") \/ th[t].clock < MaxCall
  /\ dirCache' = Aged(dirCache)
  /\ primed' = Aged(primed)
  /\ th' = [t \in Threads |->
              IF AtPc(t, "idle") THEN th[t]
              ELSE [th[t] EXCEPT !.clock = @ + 1,
                                 !.locs = [k \in DOMAIN @ |-> Older(@[k])]]]
  /\ UNCHANGED <<dir, raw, detected, local, setting>>

ThreadStep(t) ==
  \/ \E n \in Pages : ExistsStart(t, n) \/ SetStart(t, n) \/ GetStart(t, DataKeys(n) \cup Transfer(n))
  \/ GetStart(t, th[t].hits)
  \/ CacheLookup(t) \/ DirectoryGet(t) \/ CacheStore(t)
  \/ Count(t) \/ AltCount(t) \/ Prime(t) \/ SideCount(t)
  \/ TakePrimed(t) \/ Resolve(t) \/ Read(t) \/ Forget(t) \/ Return(t)
  \/ Publish(t) \/ PublishCopies(t)

LookupNext ==
  \/ \E t \in setting.threads : ThreadStep(t)
  \/ List \/ Move \/ Evict \/ EvictLocal \/ Tick

LookupSpec == LookupInit /\ [][LookupNext]_lookupVars

-----------------------------------------------------------------------------
(* Properties.                                                             *)

(* Two caches stand between the directory and a READ, one filled from the  *)
(* other.  Together they hold a location no longer than their two times to *)
(* live and the calls in between: a fetch reads with no older one.  (The   *)
(* handoff alone does not bound it, when directory_read_cache_ttl is set.) *)
LocationFresh ==
  \A t \in Threads : AtPc(t, "read") =>
    \A k \in DOMAIN th[t].locs : th[t].locs[k].age < Stalest

(* "so a stale/evicted location self-heals on the next access": when calls *)
(* are made one after the other, a READ that failed is not repeated with   *)
(* the location it failed with, or with another as old.                    *)
FailedReadHeals ==
  Cardinality(setting.threads) = 1 =>
    \A t \in Threads : AtPc(t, "read") => \A k \in DOMAIN th[t].locs : ~ th[t].locs[k].bad

(* What batch_exists reports can be had: a get of the reported pages reads *)
(* every object of them whose entry was not deleted and about which no call*)
(* failed, whichever keyspace, cache or promotion its location comes from. *)
ReportedFetchable ==
  \A t \in Threads : AtPc(t, "done") /\ th[t].call = "get" => th[t].hits \subseteq th[t].ok

(* "batch_exists()/exists() must probe whichever namespace the producer    *)
(* actually wrote, otherwise the lookup always misses": the leading pages  *)
(* that are listed for as long as the call lasts are reported, once the    *)
(* keyspace is known or when no other thread is finding it out.            *)
ExistsComplete ==
  "rpc" \notin setting.events =>
    \A t \in Threads :
      AtPc(t, "done") /\ th[t].call = "exists" /\ (th[t].knew \/ Cardinality(setting.threads) = 1) =>
        \A n \in 1 .. th[t].want :
          LET side == Transfer(IF setting.side = "all" THEN n ELSE th[t].want)
          IN  DataKeys(n) \cup side \subseteq th[t].sure => n <= th[t].n

(* "both - dual write: storage (for cross-node sharing) + local pool copy":*)
(* without evictions or failures, what a set wrote has a local copy.       *)
DualWriteKeepsCopies ==
  setting.mode = "both" =>
    \A t \in Threads : AtPc(t, "done") /\ th[t].call = "set" => DataKeys(1) \subseteq local
=============================================================================
