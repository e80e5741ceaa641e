------------------------- MODULE ConnectionManager -------------------------
(***************************************************************************)
(* The RDMA channel pools of one node (cpp/src/connection_manager.cpp) and *)
(* the transfer calls that lease from them (cpp/src/transfer_engine.cpp).  *)
(*                                                                         *)
(* Each (rail, endpoint) pair has a pool with a mutex, a condition         *)
(* variable, a free list and a count of the channels it may still create.  *)
(* batch_read_multi and batch_write_multi lease a channel of every group   *)
(* before they drain the first; batch_read_v and batch_write_v lease and   *)
(* drain one group after the other.  A critical section of a pool is one   *)
(* action; the handshake of connect_new, the posting of work requests and  *)
(* the draining happen outside of it.                                      *)
(***************************************************************************)
EXTENDS Integers, Sequences, FiniteSets, FiniteSetsExt, Functions

CONSTANTS
  Callers,           \* the threads that make transfer calls
  Pools,             \* the (rail, endpoint) pairs, numbered in the map's order
  RailZero,          \* those of rail 0, which the _v calls use
  Channels,          \* endpoint addresses; at least one fresh one whenever needed
  MaxChannels,       \* max_channels_
  MaxOps,            \* the most work requests a call posts to one group
  NoPool,            \* the pool of a caller that is not leasing
  CreateThrows,      \* TRUE when RdmaEndpoint::create may throw
  CompletionErrors   \* TRUE when a work request may complete with an error

ASSUME ChannelAssumption ==
  /\ Pools \subseteq Nat
  /\ RailZero \subseteq Pools
  /\ NoPool \notin Pools
  /\ MaxChannels \in Nat \ {0}
  /\ MaxOps \in Nat
  /\ CreateThrows \in BOOLEAN
  /\ CompletionErrors \in BOOLEAN

VARIABLES
  owned,    \* PeerPool.owned of each pool, as a set
  free,     \* PeerPool.free, the most recently released channel last
  created,  \* PeerPool.created
  wrs,      \* the work requests posted to a channel and not yet reaped
  broken,   \* the channels whose queue pair has left the RTS state
  call,     \* what each caller is doing
  lost      \* (not in the code) the reservations exceptions left behind

chanVars == <<owned, free, created, wrs, broken, call, lost>>

(* todo: the groups still to be leased; pool: the one being leased;        *)
(* leased: the channels to drain, with their posted work requests, in the  *)
(* order they were leased.                                                 *)
Idle == [pc |-> "idle", kind |-> "none", todo |-> {}, pool |-> NoPool,
         leased |-> <<>>]

ChanInit ==
  /\ owned = [p \in Pools |-> {}]
  /\ free = [p \in Pools |-> <<>>]
  /\ created = [p \in Pools |-> 0]
  /\ wrs = [ch \in Channels |-> 0]
  /\ broken = {}
  /\ call = [c \in Callers |-> Idle]
  /\ lost = [p \in Pools |-> 0]

-----------------------------------------------------------------------------
(* The calls.                                                              *)

(* As NextGroups, with the groups of a _multi call in a hash map.          *)
NextGroupsUnordered(r) == r.todo

(* The groups the loop may take next: a std::map iterates in key order, an *)
(* unordered_map in any.                                                   *)
NextGroups(r) == IF r.kind = "multi" THEN {Min(r.todo)} ELSE r.todo

(* How a call goes on when it is done with one group: the next group, the  *)
(* first channel to drain, or the return.                                  *)
Advanced(r) ==
  IF r.todo # {}
  THEN {[r EXCEPT !.pc = "lease", !.pool = p, !.todo = r.todo \ {p}] : p \in NextGroups(r)}
  ELSE {IF r.leased = <<>> THEN Idle ELSE [r EXCEPT !.pc = "drain", !.pool = NoPool]}

(* The callers blocked in p->cv.wait, and what notify_one makes of calls:  *)
(* it wakes any one of them, and is lost when there is none.               *)
Waiters(p) == {c \in Callers : call[c].pc = "wait" /\ call[c].pool = p}

NotifyOne(p, calls) ==
  IF Waiters(p) = {} THEN {calls}
  ELSE {[calls EXCEPT ![w].pc = "lease"] : w \in Waiters(p)}

(* The caller goes on with one of the records rs.                          *)
GoOn(c, rs) == \E r \in rs : call' = [call EXCEPT ![c] = r]

GoOnNotifying(c, p, rs) ==
  \E r \in rs : call' \in NotifyOne(p, [call EXCEPT ![c] = r])

BeginMulti(c, groups) ==
  /\ call[c].pc = "idle"
  /\ groups # {}
  /\ GoOn(c, Advanced([Idle EXCEPT !.kind = "multi", !.todo = groups]))
  /\ UNCHANGED <<owned, free, created, wrs, broken, lost>>

BeginSingle(c, groups) ==
  /\ call[c].pc = "idle"
  /\ groups # {}
  /\ groups \subseteq RailZero
  /\ GoOn(c, Advanced([Idle EXCEPT !.kind = "single", !.todo = groups]))
  /\ UNCHANGED <<owned, free, created, wrs, broken, lost>>

-----------------------------------------------------------------------------
(* lease.                                                                  *)

(* The caller holds channel ch of its pool, and posts to it next.          *)
Holding(r, ch) ==
  [r EXCEPT !.pc = "post", !.leased = Append(r.leased, [pool |-> r.pool, ch |-> ch, posted |-> 0])]

(* As LeaseFree, leaving the channel on the free list.                     *)
LeaseFreeNoPop(c) ==
  LET p == call[c].pool
  IN  /\ call[c].pc = "lease"
      /\ free[p] # <<>>
      /\ GoOn(c, {Holding(call[c], free[p][Len(free[p])])})
      /\ UNCHANGED <<owned, free, created, wrs, broken, lost>>

LeaseFree(c) ==
  LET p == call[c].pool
  IN  /\ call[c].pc = "lease"
      /\ free[p] # <<>>
      /\ free' = [free EXCEPT ![p] = SubSeq(@, 1, Len(@) - 1)]
      /\ GoOn(c, {Holding(call[c], free[p][Len(free[p])])})
      /\ UNCHANGED <<owned, created, wrs, broken, lost>>

(* As LeaseReserve, with the cap off by one.                               *)
LeaseReserveOneMore(c) ==
  LET p == call[c].pool
  IN  /\ call[c].pc = "lease"
      /\ free[p] = <<>>
      /\ created[p] <= MaxChannels
      /\ created' = [created EXCEPT ![p] = @ + 1]
      /\ GoOn(c, {[call[c] EXCEPT !.pc = "connect"]})
      /\ UNCHANGED <<owned, free, wrs, broken, lost>>

LeaseReserve(c) ==
  LET p == call[c].pool
  IN  /\ call[c].pc = "lease"
      /\ free[p] = <<>>
      /\ created[p] < MaxChannels
      /\ created' = [created EXCEPT ![p] = @ + 1]
      /\ GoOn(c, {[call[c] EXCEPT !.pc = "connect"]})
      /\ UNCHANGED <<owned, free, wrs, broken, lost>>

LeaseWait(c) ==
  LET p == call[c].pool
  IN  /\ call[c].pc = "lease"
      /\ free[p] = <<>>
      /\ created[p] >= MaxChannels
      /\ GoOn(c, {[call[c] EXCEPT !.pc = "wait"]})
      /\ UNCHANGED <<owned, free, created, wrs, broken, lost>>

(* A condition variable may wake a waiter for no reason.                   *)
SpuriousWake(c) ==
  /\ call[c].pc = "wait"
  /\ GoOn(c, {[call[c] EXCEPT !.pc = "lease"]})
  /\ UNCHANGED <<owned, free, created, wrs, broken, lost>>

ConnectOk(c) ==
  LET p == call[c].pool
  IN  /\ call[c].pc = "connect"
      /\ \E ch \in Channels \ UNION {owned[q] : q \in Pools} :
           /\ owned' = [owned EXCEPT ![p] = @ \cup {ch}]
           /\ GoOn(c, {Holding(call[c], ch)})
      /\ UNCHANGED <<free, created, wrs, broken, lost>>

(* As ConnectFails, keeping the reservation.                               *)
ConnectFailsKeepsSlot(c) ==
  LET p == call[c].pool
  IN  /\ call[c].pc = "connect"
      /\ GoOnNotifying(c, p, Advanced(call[c]))
      /\ UNCHANGED <<owned, free, created, wrs, broken, lost>>

(* The handshake failed: lease returns nullptr and the group is skipped.   *)
ConnectFails(c) ==
  LET p == call[c].pool
  IN  /\ call[c].pc = "connect"
      /\ created' = [created EXCEPT ![p] = @ - 1]
      /\ GoOnNotifying(c, p, Advanced(call[c]))
      /\ UNCHANGED <<owned, free, wrs, broken, lost>>

(* create throws: the exception leaves lease and the transfer call.        *)
ConnectThrows(c) ==
  /\ CreateThrows
  /\ call[c].pc = "connect"
  /\ GoOn(c, {Idle})
  /\ lost' = [lost EXCEPT ![call[c].pool] = @ + 1]
  /\ UNCHANGED <<owned, free, created, wrs, broken>>

-----------------------------------------------------------------------------
(* Posting, draining, release and discard.                                 *)

Post(c, n) ==
  LET r  == call[c]
      i  == Len(r.leased)
      r2 == [r EXCEPT !.leased[i].posted = n]
  IN  /\ r.pc = "post"
      /\ wrs' = [wrs EXCEPT ![r.leased[i].ch] = @ + n]
      /\ GoOn(c, IF r.kind = "single" THEN {[r2 EXCEPT !.pc = "drain", !.pool = NoPool]}
                 ELSE Advanced(r2))
      /\ UNCHANGED <<owned, free, created, broken, lost>>

(* drain reaped the posted work requests, some of them with an error when  *)
(* err: that takes the queue pair out of RTS, and what is posted to such a *)
(* queue pair only ever completes with an error.                           *)
Release(c, err) ==
  LET r == call[c]
      l == Head(r.leased)
  IN  /\ r.pc = "drain"
      /\ err => CompletionErrors /\ l.posted > 0
      /\ l.ch \in broken /\ l.posted > 0 => err
      /\ wrs' = [wrs EXCEPT ![l.ch] = @ - l.posted]
      /\ broken' = IF err THEN broken \cup {l.ch} ELSE broken
      /\ free' = [free EXCEPT ![l.pool] = Append(@, l.ch)]
      /\ GoOnNotifying(c, l.pool, Advanced([r EXCEPT !.leased = Tail(r.leased)]))
      /\ UNCHANGED <<owned, created, lost>>

(* As Discard, putting the channel back on the free list.                  *)
DiscardReleases(c) ==
  LET r == call[c]
      l == Head(r.leased)
  IN  /\ r.pc = "drain"
      /\ l.posted > 0
      /\ free' = [free EXCEPT ![l.pool] = Append(@, l.ch)]
      /\ GoOnNotifying(c, l.pool, Advanced([r EXCEPT !.leased = Tail(r.leased)]))
      /\ UNCHANGED <<owned, created, wrs, broken, lost>>

(* As Discard, without waking a waiter.                                    *)
DiscardSilently(c) ==
  LET r == call[c]
      l == Head(r.leased)
  IN  /\ r.pc = "drain"
      /\ l.posted > 0
      /\ owned' = [owned EXCEPT ![l.pool] = @ \ {l.ch}]
      /\ created' = [created EXCEPT ![l.pool] = IF @ > 0 THEN @ - 1 ELSE @]
      /\ wrs' = [wrs EXCEPT ![l.ch] = 0]
      /\ broken' = broken \ {l.ch}
      /\ GoOn(c, Advanced([r EXCEPT !.leased = Tail(r.leased)]))
      /\ UNCHANGED <<free, lost>>

(* drain gave up with work requests outstanding: the channel is destroyed, *)
(* and its address may be the next one's.                                  *)
Discard(c) ==
  LET r == call[c]
      l == Head(r.leased)
  IN  /\ r.pc = "drain"
      /\ l.posted > 0
      /\ owned' = [owned EXCEPT ![l.pool] = @ \ {l.ch}]
      /\ created' = [created EXCEPT ![l.pool] = IF @ > 0 THEN @ - 1 ELSE @]
      /\ wrs' = [wrs EXCEPT ![l.ch] = 0]
      /\ broken' = broken \ {l.ch}
      /\ GoOnNotifying(c, l.pool, Advanced([r EXCEPT !.leased = Tail(r.leased)]))
      /\ UNCHANGED <<free, lost>>

-----------------------------------------------------------------------------
Begin(c) == \E groups \in SUBSET Pools : BeginMulti(c, groups) \/ BeginSingle(c, groups)

(* The steps a caller takes by itself once it is in a call.                *)
CallStep(c) ==
  \/ LeaseFree(c)
  \/ LeaseReserve(c)
  \/ LeaseWait(c)
  \/ ConnectOk(c)
  \/ ConnectFails(c)
  \/ ConnectThrows(c)
  \/ \E n \in 0 .. MaxOps : Post(c, n)
  \/ \E err \in BOOLEAN : Release(c, err)
  \/ Discard(c)

ChanNext == \E c \in Callers : Begin(c) \/ CallStep(c) \/ SpuriousWake(c)

(* A runnable thread runs, the handshake and drain have timeouts.          *)
ChanSpec ==
  /\ ChanInit
  /\ [][ChanNext]_chanVars
  /\ \A c \in Callers : WF_chanVars(CallStep(c))

-----------------------------------------------------------------------------
(* Properties.                                                             *)

Held(c) == {call[c].leased[i].ch : i \in DOMAIN call[c].leased}

Connecting(p) == {c \in Callers : call[c].pc = "connect" /\ call[c].pool = p}

ChanTypeOK ==
  /\ owned \in [Pools -> SUBSET Channels]
  /\ free \in [Pools -> Seq(Channels)]
  /\ created \in [Pools -> 0 .. MaxChannels]
  /\ wrs \in [Channels -> 0 .. MaxOps]
  /\ broken \subseteq Channels
  /\ lost \in [Pools -> Nat]
  /\ \A c \in Callers :
       /\ call[c].pc \in {"idle", "lease", "wait", "connect", "post", "drain"}
       /\ call[c].kind \in {"none", "multi", "single"}
       /\ call[c].todo \subseteq Pools
       /\ call[c].pool \in Pools \cup {NoPool}
       /\ call[c].leased \in Seq([pool : Pools, ch : Channels, posted : 0 .. MaxOps])

(* lease hands a channel to one call at a time: no two calls hold the same *)
(* one, no call holds one twice, and none that is held is on a free list   *)
(* or destroyed.                                                           *)
LeaseExclusive ==
  /\ \A c \in Callers :
       /\ Cardinality(Held(c)) = Len(call[c].leased)
       /\ \A i \in DOMAIN call[c].leased :
            LET l == call[c].leased[i]
            IN  l.ch \in owned[l.pool] /\ l.ch \notin Range(free[l.pool])
       /\ \A d \in Callers \ {c} : Held(c) \cap Held(d) = {}
  /\ \A p \in Pools :
       /\ Range(free[p]) \subseteq owned[p]
       /\ Cardinality(Range(free[p])) = Len(free[p])

(* A channel on the free list has no work request in flight, so a drain    *)
(* never reaps the completion of an earlier call (what discard is for).    *)
FreeIsQuiet == \A p \in Pools : \A ch \in Range(free[p]) : wrs[ch] = 0

(* created counts the channels that exist, the handshakes under way and    *)
(* nothing else but what a throwing create left behind: however leases,    *)
(* failed handshakes and discards interleave, the cap is respected and no  *)
(* other capacity is lost.                                                 *)
CapacityExact ==
  \A p \in Pools :
    /\ created[p] = Cardinality(owned[p]) + Cardinality(Connecting(p)) + lost[p]
    /\ created[p] <= MaxChannels

(* A caller that waits for a pool holds only channels of earlier pools:    *)
(* the order that keeps _multi calls from waiting on each other in a ring. *)
WaitsInOrder ==
  \A c \in Callers : call[c].pc \in {"lease", "wait", "connect"} =>
    \A i \in DOMAIN call[c].leased : call[c].leased[i].pool < call[c].pool

(* If no new call begins from some time on and create does not throw, then *)
(* every call returns: no wake-up is lost and no ring of callers waits for *)
(* each other's channels ("lease() blocks until a channel is released").   *)
CallsReturn ==
  <>[][\A c \in Callers : ~ Begin(c)]_chanVars
    => \A c \in Callers : []<>(call[c].pc = "idle")

(* lease returns "an RTS channel": no channel on the free list has left    *)
(* the RTS state.                                                          *)
FreeIsRTS == \A p \in Pools : Range(free[p]) \cap broken = {}
=============================================================================
