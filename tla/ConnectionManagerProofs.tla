----------------------- MODULE ConnectionManagerProofs -----------------------
(***************************************************************************)
(* Proofs about ConnectionManager, for any number of callers, pools and    *)
(* channels, any cap on the channels of a pool and any number of work      *)
(* requests.                                                               *)
(***************************************************************************)
EXTENDS ConnectionManager, CollectionLemmas

(* Overwriting an element.                                                 *)
LEMMA ExceptFacts ==
  ASSUME NEW S, NEW s \in Seq(S), NEW i \in 1 .. Len(s), NEW e \in S
  PROVE  /\ [s EXCEPT ![i] = e] \in Seq(S)
         /\ Len([s EXCEPT ![i] = e]) = Len(s)
OBVIOUS

(* What a transfer call's record looks like, and what ties its parts: the  *)
(* group being leased comes before every group still to be leased and, in  *)
(* a _multi call, after every group already leased; a _v call holds at     *)
(* most one channel, and none while it leases the next.                    *)
Lease == [pool : Pools, ch : Channels, posted : 0 .. MaxOps]

(* The record of a call.                                                   *)
CallRec ==
  [pc     : {"idle", "lease", "wait", "connect", "post", "drain"},
   kind   : {"none", "multi", "single"},
   todo   : SUBSET Pools,
   pool   : Pools \cup {NoPool},
   leased : Seq(Lease)]

(* The steps at which a call waits for a channel of its pool.              *)
Leasing == {"lease", "wait", "connect"}

(* A call holds leases while it posts and drains, the last one of the pool *)
(* it is at.                                                               *)
CallOK(r) ==
  /\ r.pc = "idle" => Len(r.leased) = 0
  /\ r.pc \in Leasing \cup {"post"} => r.pool \in Pools
  /\ r.pc # "idle" => r.kind # "none"
  /\ r.pc \in {"post", "drain"} => Len(r.leased) # 0
  /\ r.pc = "post" => r.leased[Len(r.leased)].posted = 0
                      /\ r.leased[Len(r.leased)].pool = r.pool
  /\ r.kind = "single" => Len(r.leased) <= IF r.pc \in Leasing THEN 0 ELSE 1
  /\ r.kind = "multi" =>
       \A i \in 1 .. Len(r.leased) :
         /\ \A t \in r.todo : r.leased[i].pool < t
         /\ r.pc \in Leasing => r.leased[i].pool < r.pool
  /\ r.kind = "multi" /\ r.pc \in Leasing \cup {"post"} => \A t \in r.todo : r.pool < t

(* Every channel has one owner at a time: the calls, the free lists and    *)
(* the pools that created them name each channel at most once.             *)
Disjoint ==
  /\ \A c, d \in Callers :
       \A i \in 1 .. Len(call[c].leased), j \in 1 .. Len(call[d].leased) :
         call[c].leased[i].ch = call[d].leased[j].ch => c = d /\ i = j
  /\ \A c \in Callers : \A i \in 1 .. Len(call[c].leased) :
       /\ call[c].leased[i].ch \in owned[call[c].leased[i].pool]
       /\ \A p \in Pools : \A k \in 1 .. Len(free[p]) : free[p][k] # call[c].leased[i].ch
  /\ \A p, q \in Pools : \A ch \in owned[p] : ch \in owned[q] => p = q
  /\ \A p \in Pools : \A k \in 1 .. Len(free[p]) : free[p][k] \in owned[p]
  /\ \A p \in Pools : \A k, m \in 1 .. Len(free[p]) : free[p][k] = free[p][m] => k = m

(* The work requests in flight on a channel are those its holder posted;   *)
(* a free channel, and one that does not exist, has none.                  *)
Accounted ==
  /\ \A c \in Callers : \A i \in 1 .. Len(call[c].leased) :
       wrs[call[c].leased[i].ch] = call[c].leased[i].posted
  /\ \A p \in Pools : \A k \in 1 .. Len(free[p]) : wrs[free[p][k]] = 0
  /\ \A ch \in Channels : (\A p \in Pools : ch \notin owned[p]) => wrs[ch] = 0

(* created counts the channels of a pool and those being connected.        *)
Counted ==
  /\ \A p \in Pools : IsFiniteSet(owned[p]) /\ IsFiniteSet(Connecting(p))
  /\ CapacityExact

(* The types of the variables.                                             *)
Typed ==
  /\ owned \in [Pools -> SUBSET Channels]
  /\ free \in [Pools -> Seq(Channels)]
  /\ created \in [Pools -> 0 .. MaxChannels]
  /\ wrs \in [Channels -> 0 .. MaxOps]
  /\ broken \subseteq Channels
  /\ lost \in [Pools -> Nat]
  /\ call \in [Callers -> CallRec]

(* The inductive invariant.                                                *)
ChanInv ==
  /\ Typed
  /\ \A c \in Callers : CallOK(call[c])
  /\ Disjoint
  /\ Accounted
  /\ Counted

-----------------------------------------------------------------------------
(* How a step changes the calls.                                           *)

(* A call that is done with a group and may go on to the next.             *)
Ready(r) ==
  /\ r \in CallRec
  /\ r.kind # "none"
  /\ r.kind = "single" => Len(r.leased) = 0
  /\ r.kind = "multi" => \A i \in 1 .. Len(r.leased) : \A t \in r.todo : r.leased[i].pool < t

(* A record with a new control state and pool is a record, with the rest   *)
(* of it kept.                                                             *)
LEMMA RecordUpdate ==
  ASSUME NEW r \in CallRec, NEW pc \in {"idle", "lease", "wait", "connect", "post", "drain"},
         NEW pool \in Pools \cup {NoPool}, NEW todo \in SUBSET Pools
  PROVE  /\ [r EXCEPT !.pc = pc, !.pool = pool, !.todo = todo] \in CallRec
         /\ [r EXCEPT !.pc = pc, !.pool = pool] \in CallRec
         /\ [r EXCEPT !.pc = pc] \in CallRec
  BY Zenon DEF CallRec

(* Moving a call to another program counter leaves the rest of its record. *)
LEMMA NewPc ==
  ASSUME NEW r \in CallRec, NEW pc
  PROVE  LET s == [r EXCEPT !.pc = pc]
         IN  /\ s.pc = pc /\ s.kind = r.kind /\ s.todo = r.todo
             /\ s.pool = r.pool /\ s.leased = r.leased
  BY DEF CallRec

(* The type of a call's list of leases.                                    *)
LEMMA LeasedFacts ==
  ASSUME NEW r \in CallRec
  PROVE  /\ Len(r.leased) \in Nat
         /\ \A i \in 1 .. Len(r.leased) : r.leased[i] \in Lease
         /\ r.leased = <<>> <=> Len(r.leased) = 0
         /\ r.leased \in Seq(Lease)
<1>1. r.leased \in Seq(Lease)
  BY DEF CallRec
<1>2. QED
  BY <1>1, LenFacts, EmptyFacts, ElementFacts

(* Wherever the loop over the groups goes on to, the call is in order.     *)
LEMMA AdvancedFacts ==
  ASSUME NEW r, Ready(r), NEW s \in Advanced(r)
  PROVE  /\ s \in CallRec
         /\ CallOK(s)
         /\ s.leased = r.leased
         /\ s.pc # "connect"
<1>1. CASE r.todo # {}
  <2>1. PICK p \in NextGroups(r) : s = [r EXCEPT !.pc = "lease", !.pool = p, !.todo = r.todo \ {p}]
    BY Zenon, <1>1 DEF Advanced
  <2>2. p \in r.todo /\ (r.kind = "multi" => \A t \in r.todo : p <= t)
    <3>1. r.todo \in SUBSET Nat
      BY Zenon, ChannelAssumption DEF Ready, CallRec
    <3>2. QED
      BY <1>1, <2>1, <3>1, MinIsLeast DEF NextGroups
  <2>3. p \in Pools /\ r.todo \in SUBSET Pools /\ r \in CallRec
    BY <2>2 DEF Ready, CallRec
  <2>4. s \in CallRec
    BY Zenon, <2>1, <2>3, RecordUpdate
  <2>5. /\ s.pc = "lease" /\ s.pool = p /\ s.todo = r.todo \ {p}
        /\ s.kind = r.kind /\ s.leased = r.leased
    BY <2>1, <2>3 DEF CallRec
  <2>6. \A t \in s.todo : r.kind = "multi" => p < t
    <3>1. \A t \in r.todo : t \in Nat
      BY <2>3, ChannelAssumption
    <3>2. QED
      BY <2>2, <2>5, <3>1
  <2>7. CallOK(s)
    BY <2>2, <2>3, <2>5, <2>6 DEF CallOK, Ready, Leasing
  <2>8. QED
    BY <2>4, <2>5, <2>7
<1>2. CASE r.todo = {} /\ r.leased = <<>>
  <2>1. s = Idle
    BY <1>2 DEF Advanced
  <2>2. s \in CallRec /\ s.leased = <<>> /\ Len(s.leased) = 0
    BY <2>1, EmptyFacts DEF Idle, CallRec
  <2>3. QED
    BY <1>2, <2>1, <2>2 DEF Idle, CallOK, Leasing
<1>3. CASE r.todo = {} /\ r.leased # <<>>
  <2>1. s = [r EXCEPT !.pc = "drain", !.pool = NoPool]
    BY <1>3 DEF Advanced
  <2>2. s \in CallRec
    BY Zenon, <2>1, RecordUpdate DEF Ready
  <2>3. s.pc = "drain" /\ s.kind = r.kind /\ s.leased = r.leased /\ s.todo = r.todo
    BY <2>1 DEF Ready, CallRec
  <2>4. Len(r.leased) # 0
    BY <1>3, LeasedFacts DEF Ready
  <2>5. CallOK(s)
    BY <1>3, <2>3, <2>4 DEF CallOK, Ready, Leasing
  <2>6. QED
    BY <2>2, <2>3, <2>5
<1>4. QED
  BY <1>1, <1>2, <1>3

(* The other calls stay as they are, but for one that is woken up.         *)
OthersKeep(c) ==
  \A d \in Callers \ {c} :
    /\ call'[d].kind = call[d].kind
    /\ call'[d].todo = call[d].todo
    /\ call'[d].pool = call[d].pool
    /\ call'[d].leased = call[d].leased
    /\ call'[d].pc = call[d].pc \/ (call[d].pc = "wait" /\ call'[d].pc = "lease")

(* Whether or not a waiting caller is notified, the other callers' records *)
(* keep everything but their program counter.                              *)
LEMMA CallsGoOn ==
  ASSUME Typed, NEW c \in Callers, NEW r \in CallRec,
         \/ call' = [call EXCEPT ![c] = r]
         \/ /\ call[c].pc # "wait"
            /\ \E p \in Pools : call' \in NotifyOne(p, [call EXCEPT ![c] = r])
  PROVE  /\ call' \in [Callers -> CallRec]
         /\ call'[c] = r
         /\ OthersKeep(c)
<1> DEFINE calls == [call EXCEPT ![c] = r]
<1>1. /\ calls \in [Callers -> CallRec] /\ calls[c] = r
      /\ \A d \in Callers \ {c} : calls[d] = call[d]
  BY DEF Typed
<1>2. CASE call' = calls
  BY <1>1, <1>2 DEF OthersKeep
<1>3. ASSUME NEW w \in Callers, w # c, call[w].pc = "wait",
             call' = [calls EXCEPT ![w].pc = "lease"]
      PROVE  call' \in [Callers -> CallRec] /\ call'[c] = r /\ OthersKeep(c)
  <2> HIDE DEF calls
  <2>1. call' = [calls EXCEPT ![w] = [calls[w] EXCEPT !.pc = "lease"]]
    BY <1>1, <1>3
  <2>2. [calls[w] EXCEPT !.pc = "lease"] \in CallRec
    BY Zenon, <1>1 DEF CallRec
  <2>3. /\ call' \in [Callers -> CallRec] /\ call'[c] = r
        /\ \A d \in Callers \ {c, w} : call'[d] = call[d]
        /\ call'[w] = [call[w] EXCEPT !.pc = "lease"]
    BY <1>1, <1>3, <2>1, <2>2
  <2>4. call[w] \in CallRec
    BY DEF Typed
  <2>5. /\ call'[w].kind = call[w].kind /\ call'[w].todo = call[w].todo
        /\ call'[w].pool = call[w].pool /\ call'[w].leased = call[w].leased
        /\ call'[w].pc = "lease"
    BY <2>3, <2>4, NewPc
  <2>6. QED
    BY <1>3, <2>3, <2>5 DEF OthersKeep
<1>4. QED
  BY <1>2, <1>3 DEF NotifyOne, Waiters

(* Callers that keep their record stay in order.                           *)
LEMMA OthersStayOK ==
  ASSUME NEW c \in Callers, \A d \in Callers : CallOK(call[d]), OthersKeep(c),
         CallOK(call'[c])
  PROVE  \A d \in Callers : CallOK(call'[d])
<1>1. ASSUME NEW d \in Callers \ {c} PROVE CallOK(call'[d])
  BY <1>1 DEF OthersKeep, CallOK, Leasing
<1>2. QED
  BY <1>1

(* What a step makes of the channels a caller holds: it keeps them, takes  *)
(* one more, posts to the last, drains the first or drops them all.        *)
Keeps(r, s) == s.leased = r.leased

(* The leases of s are those of r and the new lease l.                     *)
Takes(r, s, l) ==
  /\ l \in Lease
  /\ Len(s.leased) = Len(r.leased) + 1
  /\ \A i \in 1 .. Len(r.leased) : s.leased[i] = r.leased[i]
  /\ s.leased[Len(r.leased) + 1] = l

(* They are those of r, the last with n work requests posted.              *)
Posts(r, s, n) ==
  /\ Len(s.leased) = Len(r.leased)
  /\ \A i \in 1 .. Len(r.leased) :
       /\ s.leased[i].pool = r.leased[i].pool
       /\ s.leased[i].ch = r.leased[i].ch
       /\ s.leased[i].posted = IF i = Len(r.leased) THEN n ELSE r.leased[i].posted

(* They are those of r without the first.                                  *)
Drains(r, s) ==
  /\ Len(s.leased) = Len(r.leased) - 1
  /\ \A i \in 1 .. Len(r.leased) - 1 : s.leased[i] = r.leased[i + 1]

(* The call that was given a channel: it holds one lease more, with        *)
(* nothing posted.                                                         *)
LEMMA HoldingFacts ==
  ASSUME NEW r \in CallRec, CallOK(r), r.pc \in {"lease", "connect"}, NEW ch \in Channels
  PROVE  /\ Holding(r, ch) \in CallRec
         /\ CallOK(Holding(r, ch))
         /\ Takes(r, Holding(r, ch), [pool |-> r.pool, ch |-> ch, posted |-> 0])
         /\ Holding(r, ch).pc = "post"
<1> DEFINE l == [pool |-> r.pool, ch |-> ch, posted |-> 0]
           a == Append(r.leased, l)
           s == Holding(r, ch)
<1>1. l \in Lease /\ l.pool = r.pool /\ l.posted = 0 /\ r.pool \in Pools
  BY ChannelAssumption DEF Lease, CallOK, Leasing
<1>2. r.leased \in Seq(Lease) /\ Len(r.leased) \in Nat
  BY LeasedFacts
<1> HIDE DEF l
<1>3. /\ a \in Seq(Lease) /\ Len(a) = Len(r.leased) + 1
      /\ \A i \in 1 .. Len(r.leased) : a[i] = r.leased[i]
      /\ a[Len(r.leased) + 1] = l
  BY <1>1, <1>2, AppendedFacts
<1>4. s = [r EXCEPT !.pc = "post", !.leased = a]
  BY DEF Holding, l
<1> HIDE DEF a, s
<1>5. /\ s \in CallRec /\ s.pc = "post" /\ s.leased = a
      /\ s.kind = r.kind /\ s.todo = r.todo /\ s.pool = r.pool
  BY Zenon, <1>3, <1>4 DEF CallRec
<1>6. Takes(r, s, l)
  BY <1>1, <1>3, <1>5 DEF Takes
<1>7. CallOK(s)
  <2>1. \A i \in 1 .. Len(a) : i \in 1 .. Len(r.leased) \/ i = Len(r.leased) + 1
    BY <1>2, <1>3
  <2>2. s.kind = "single" => Len(a) <= 1
    BY <1>2, <1>3, <1>5 DEF CallOK, Leasing
  <2>3. s.kind = "multi" => \A i \in 1 .. Len(a) : \A t \in s.todo : a[i].pool < t
    BY <1>1, <1>3, <1>5, <2>1 DEF CallOK, Leasing
  <2>4. Len(a) # 0
    BY <1>2, <1>3
  <2>5. r.kind # "none" /\ (r.kind = "multi" => \A t \in r.todo : r.pool < t)
    BY DEF CallOK, Leasing
  <2>6. QED
    BY <1>1, <1>3, <1>5, <2>2, <2>3, <2>4, <2>5 DEF CallOK, Leasing
<1>8. QED
  BY <1>5, <1>6, <1>7 DEF l, s

(* The call that posted on the channel it leased last.                     *)
LEMMA PostFacts ==
  ASSUME NEW r \in CallRec, CallOK(r), r.pc = "post", NEW n \in 0 .. MaxOps,
         NEW r2, r2 = [r EXCEPT !.leased[Len(r.leased)].posted = n]
  PROVE  /\ r2 \in CallRec /\ Posts(r, r2, n)
         /\ r2.kind = r.kind /\ r2.todo = r.todo
         /\ Len(r2.leased) # 0
         /\ r.kind = "single" => Len(r2.leased) <= 1
         /\ r.kind # "single" => Ready(r2)
<1> DEFINE k == Len(r.leased)
           l == [r.leased[k] EXCEPT !.posted = n]
           b == [r.leased EXCEPT ![k] = l]
<1>1. r.leased \in Seq(Lease) /\ k \in Nat /\ k # 0 /\ k \in 1 .. Len(r.leased)
      /\ r.leased[k] \in Lease
  BY LeasedFacts DEF CallOK
<1>2. l \in Lease /\ l.pool = r.leased[k].pool /\ l.ch = r.leased[k].ch /\ l.posted = n
  BY <1>1 DEF Lease
<1>3. r2 = [r EXCEPT !.leased = b]
  BY <1>1 DEF CallRec
<1> HIDE DEF l
<1>4. /\ b \in Seq(Lease) /\ Len(b) = Len(r.leased)
      /\ \A j \in 1 .. Len(r.leased) : b[j] = IF j = k THEN l ELSE r.leased[j]
  BY <1>1, <1>2, ExceptFacts
<1> HIDE DEF b
<1>5. /\ r2 \in CallRec /\ r2.leased = b /\ r2.kind = r.kind /\ r2.todo = r.todo
  BY Zenon, <1>3, <1>4 DEF CallRec
<1>6. Posts(r, r2, n)
  BY <1>2, <1>4, <1>5 DEF Posts
<1>7. r.kind # "none" /\ (r.kind = "single" => Len(r.leased) <= 1)
  BY DEF CallOK, Leasing
<1>8. r.kind = "multi" =>
        \A i \in 1 .. Len(r2.leased) : \A t \in r2.todo : r2.leased[i].pool < t
  BY <1>5, <1>6 DEF Posts, CallOK
<1>9. QED
  BY Zenon, <1>1, <1>4, <1>5, <1>6, <1>7, <1>8 DEF Ready, CallRec

(* The call that gives back the first of its leases.                       *)
LEMMA DrainFacts ==
  ASSUME NEW r \in CallRec, CallOK(r), r.pc = "drain",
         NEW r2, r2 = [r EXCEPT !.leased = Tail(r.leased)]
  PROVE  Ready(r2) /\ Drains(r, r2) /\ Len(r.leased) # 0 /\ Head(r.leased) = r.leased[1]
<1>1. r.leased \in Seq(Lease) /\ Len(r.leased) \in Nat /\ Len(r.leased) # 0 /\ r.leased # <<>>
  BY LeasedFacts DEF CallOK
<1>2. /\ Tail(r.leased) \in Seq(Lease) /\ Len(Tail(r.leased)) = Len(r.leased) - 1
      /\ \A i \in 1 .. Len(Tail(r.leased)) : Tail(r.leased)[i] = r.leased[i + 1]
  BY <1>1, HeadTailFacts
<1>3. r2 \in CallRec /\ r2.leased = Tail(r.leased) /\ r2.kind = r.kind /\ r2.todo = r.todo
  BY Zenon, <1>2 DEF CallRec
<1>4. Drains(r, r2)
  BY <1>2, <1>3 DEF Drains
<1>5. r.kind # "none" /\ (r.kind = "single" => Len(r2.leased) = 0)
  <2>1. r.kind # "none" /\ (r.kind = "single" => Len(r.leased) <= 1)
    BY DEF CallOK, Leasing
  <2>2. Len(r2.leased) = Len(r.leased) - 1
    BY <1>4 DEF Drains
  <2>3. \A n \in Nat : n # 0 /\ n <= 1 => n - 1 = 0
    OBVIOUS
  <2>4. QED
    BY <1>1, <2>1, <2>2, <2>3, Zenon
<1>6. r.kind = "multi" =>
        \A i \in 1 .. Len(r2.leased) : \A t \in r2.todo : r2.leased[i].pool < t
  <2>1. \A i \in 1 .. Len(r2.leased) : i + 1 \in 1 .. Len(r.leased)
    BY <1>1, <1>2, <1>3
  <2>2. QED
    BY <1>2, <1>3, <2>1 DEF CallOK
<1>7. QED
  BY <1>1, <1>3, <1>4, <1>5, <1>6 DEF Ready

-----------------------------------------------------------------------------
(* What each step does to the calls.                                       *)

(* The step is one of call c, which is in order afterwards.                *)
CallMoves(c) ==
  /\ call' \in [Callers -> CallRec]
  /\ OthersKeep(c)
  /\ CallOK(call'[c])

(* Begin takes no lease.                                                   *)
LEMMA BeginMoves ==
  ASSUME ChanInv, NEW c \in Callers, Begin(c)
  PROVE  /\ CallMoves(c) /\ Keeps(call[c], call'[c])
         /\ call[c].pc # "connect" /\ call'[c].pc # "connect"
<1>1. PICK groups \in SUBSET Pools, kind \in {"multi", "single"} :
        /\ call[c].pc = "idle"
        /\ GoOn(c, Advanced([Idle EXCEPT !.kind = kind, !.todo = groups]))
  BY Zenon DEF Begin, BeginMulti, BeginSingle
<1> DEFINE r == [Idle EXCEPT !.kind = kind, !.todo = groups]
<1>2. /\ r \in CallRec /\ r.leased = <<>> /\ Len(r.leased) = 0 /\ r.kind = kind
  BY Zenon, EmptyFacts DEF Idle, CallRec
<1>3. Ready(r)
  BY <1>2 DEF Ready
<1> HIDE DEF r
<1>4. PICK s \in Advanced(r) : call' = [call EXCEPT ![c] = s]
  BY Zenon, <1>1 DEF GoOn, r
<1>5. s \in CallRec /\ CallOK(s) /\ s.leased = r.leased /\ s.pc # "connect"
  BY <1>3, <1>4, AdvancedFacts
<1>6. call' \in [Callers -> CallRec] /\ call'[c] = s /\ OthersKeep(c)
  BY Zenon, <1>4, <1>5, CallsGoOn DEF ChanInv
<1>7. call[c] \in CallRec /\ call[c].leased = <<>>
  <2>1. call[c] \in CallRec /\ Len(call[c].leased) = 0
    BY <1>1 DEF ChanInv, Typed, CallOK
  <2>2. QED
    BY <2>1, LeasedFacts
<1>8. QED
  BY <1>1, <1>2, <1>5, <1>6, <1>7 DEF CallMoves, Keeps

(* lease: the three ways out of the critical section, and the wake-up.     *)
LEMMA LeasingMoves ==
  ASSUME ChanInv, NEW c \in Callers, NEW pc \in Leasing,
         call[c].pc \in Leasing, GoOn(c, {[call[c] EXCEPT !.pc = pc]})
  PROVE  /\ CallMoves(c) /\ Keeps(call[c], call'[c])
         /\ call'[c].pc = pc /\ call'[c].pool = call[c].pool
<1> DEFINE r == call[c]
           s == [r EXCEPT !.pc = pc]
<1>1. r \in CallRec /\ CallOK(r) /\ r.pc \in Leasing
  BY DEF ChanInv, Typed
<1>2. call' = [call EXCEPT ![c] = s]
  BY Zenon DEF GoOn
<1> HIDE DEF r
<1>3. /\ s.pc = pc /\ s.kind = r.kind /\ s.todo = r.todo
      /\ s.pool = r.pool /\ s.leased = r.leased
  BY <1>1, NewPc
<1>4. s \in CallRec
  BY <1>1 DEF CallRec, Leasing
<1> HIDE DEF s
<1>5. CallOK(s)
  BY <1>1, <1>3 DEF CallOK, Leasing
<1>6. call' \in [Callers -> CallRec] /\ call'[c] = s /\ OthersKeep(c)
  BY Zenon, <1>2, <1>4, CallsGoOn DEF ChanInv
<1>7. QED
  BY <1>3, <1>5, <1>6 DEF CallMoves, Keeps, r

(* A caller that is handed a channel takes exactly that lease.             *)
LEMMA HoldingMoves ==
  ASSUME ChanInv, NEW c \in Callers, NEW ch \in Channels,
         call[c].pc \in {"lease", "connect"}, GoOn(c, {Holding(call[c], ch)})
  PROVE  /\ CallMoves(c)
         /\ Takes(call[c], call'[c], [pool |-> call[c].pool, ch |-> ch, posted |-> 0])
         /\ call'[c].pc = "post" /\ call[c].pool \in Pools
<1>1. call[c] \in CallRec /\ CallOK(call[c]) /\ call[c].pool \in Pools
  BY DEF ChanInv, Typed, CallOK, Leasing
<1>2. call' = [call EXCEPT ![c] = Holding(call[c], ch)]
  BY DEF GoOn
<1>3. /\ Holding(call[c], ch) \in CallRec
      /\ CallOK(Holding(call[c], ch))
      /\ Takes(call[c], Holding(call[c], ch), [pool |-> call[c].pool, ch |-> ch, posted |-> 0])
      /\ Holding(call[c], ch).pc = "post"
  BY <1>1, HoldingFacts
<1>4. /\ call' \in [Callers -> CallRec] /\ call'[c] = Holding(call[c], ch)
      /\ OthersKeep(c)
  BY Zenon, <1>2, <1>3, CallsGoOn DEF ChanInv
<1>5. QED
  BY <1>1, <1>3, <1>4 DEF CallMoves

(* A failed handshake.                                                     *)
LEMMA SkipMoves ==
  ASSUME ChanInv, NEW c \in Callers, call[c].pc = "connect",
         GoOnNotifying(c, call[c].pool, Advanced(call[c]))
  PROVE  /\ CallMoves(c) /\ Keeps(call[c], call'[c]) /\ call'[c].pc # "connect"
<1>1. call[c] \in CallRec /\ CallOK(call[c]) /\ call[c].pool \in Pools
  BY DEF ChanInv, Typed, CallOK, Leasing
<1>2. Ready(call[c])
  <2>1. Len(call[c].leased) \in Nat
    BY <1>1, LeasedFacts
  <2>2. QED
    BY <1>1, <2>1 DEF Ready, CallOK, Leasing
<1>3. PICK s \in Advanced(call[c]) :
        call' \in NotifyOne(call[c].pool, [call EXCEPT ![c] = s])
  BY DEF GoOnNotifying
<1>4. s \in CallRec /\ CallOK(s) /\ s.leased = call[c].leased /\ s.pc # "connect"
  BY <1>2, <1>3, AdvancedFacts
<1>5. call' \in [Callers -> CallRec] /\ call'[c] = s /\ OthersKeep(c)
  BY <1>1, <1>3, <1>4, CallsGoOn DEF ChanInv
<1>6. QED
  BY <1>4, <1>5 DEF CallMoves, Keeps

(* A caller whose call throws holds no lease.                              *)
LEMMA ThrowMoves ==
  ASSUME ChanInv, NEW c \in Callers, GoOn(c, {Idle})
  PROVE  CallMoves(c) /\ Len(call'[c].leased) = 0 /\ call'[c].pc # "connect"
<1>1. /\ Idle \in CallRec /\ CallOK(Idle) /\ Idle.pc = "idle" /\ Len(Idle.leased) = 0
  BY EmptyFacts DEF Idle, CallRec, CallOK, Leasing
<1>2. call' = [call EXCEPT ![c] = Idle]
  BY DEF GoOn
<1>3. call' \in [Callers -> CallRec] /\ call'[c] = Idle /\ OthersKeep(c)
  BY Zenon, <1>1, <1>2, CallsGoOn DEF ChanInv
<1>4. QED
  BY <1>1, <1>3 DEF CallMoves

(* Post changes the count of the last lease only.                          *)
LEMMA PostMoves ==
  ASSUME ChanInv, NEW c \in Callers, NEW n \in 0 .. MaxOps, Post(c, n)
  PROVE  /\ CallMoves(c) /\ Posts(call[c], call'[c], n)
         /\ call[c].pc = "post" /\ call'[c].pc # "connect"
<1> DEFINE r == call[c]
           r2 == [r EXCEPT !.leased[Len(r.leased)].posted = n]
           d == [r2 EXCEPT !.pc = "drain", !.pool = NoPool]
<1>1. r \in CallRec /\ CallOK(r) /\ r.pc = "post"
  BY DEF ChanInv, Typed, Post
<1>2. GoOn(c, IF r.kind = "single" THEN {d} ELSE Advanced(r2))
  BY DEF Post
<1> HIDE DEF r
<1>3. /\ r2 \in CallRec /\ Posts(r, r2, n)
      /\ r2.kind = r.kind /\ r2.todo = r.todo
      /\ Len(r2.leased) # 0
      /\ r.kind = "single" => Len(r2.leased) <= 1
      /\ r.kind # "single" => Ready(r2)
  BY Zenon, <1>1, PostFacts
<1> HIDE DEF r2
<1>4. /\ d \in CallRec /\ d.leased = r2.leased /\ d.kind = r2.kind /\ d.todo = r2.todo
      /\ d.pc = "drain"
  BY Zenon, <1>3 DEF CallRec
<1> HIDE DEF d
<1>5. PICK s \in CallRec : /\ call' = [call EXCEPT ![c] = s] /\ CallOK(s)
                           /\ s.leased = r2.leased /\ s.pc # "connect"
  <2>1. CASE r.kind = "single"
    <3>1. CallOK(d)
      BY <1>3, <1>4, <2>1 DEF CallOK, Leasing
    <3>2. QED
      BY Zenon, <1>2, <1>4, <2>1, <3>1 DEF GoOn
  <2>2. CASE r.kind # "single"
    <3>1. PICK s \in Advanced(r2) : call' = [call EXCEPT ![c] = s]
      BY Zenon, <1>2, <2>2 DEF GoOn
    <3>2. QED
      BY Zenon, <1>3, <2>2, <3>1, AdvancedFacts
  <2>3. QED
    BY <2>1, <2>2
<1>6. call' \in [Callers -> CallRec] /\ call'[c] = s /\ OthersKeep(c)
  BY Zenon, <1>5, CallsGoOn DEF ChanInv
<1>7. Posts(r, s, n)
  BY <1>3, <1>5 DEF Posts
<1>8. QED
  BY <1>1, <1>5, <1>6, <1>7 DEF CallMoves, r

(* Release and discard give up the first lease only.                       *)
LEMMA DrainMoves ==
  ASSUME ChanInv, NEW c \in Callers, call[c].pc = "drain",
         GoOnNotifying(c, Head(call[c].leased).pool,
                       Advanced([call[c] EXCEPT !.leased = Tail(call[c].leased)]))
  PROVE  /\ CallMoves(c) /\ Drains(call[c], call'[c]) /\ call'[c].pc # "connect"
         /\ Len(call[c].leased) # 0
         /\ Head(call[c].leased) = call[c].leased[1]
         /\ Head(call[c].leased) \in Lease
<1> DEFINE r == call[c]
           r2 == [r EXCEPT !.leased = Tail(r.leased)]
           p == Head(r.leased).pool
<1>1. r \in CallRec /\ CallOK(r) /\ r.pc = "drain"
  BY DEF ChanInv, Typed
<1>2. PICK s \in Advanced(r2) : call' \in NotifyOne(p, [call EXCEPT ![c] = s])
  BY DEF GoOnNotifying
<1> HIDE DEF r
<1>3. Ready(r2) /\ Drains(r, r2) /\ Len(r.leased) # 0 /\ Head(r.leased) = r.leased[1]
  BY <1>1, DrainFacts
<1>4. r.leased[1] \in Lease /\ p \in Pools
  BY <1>1, <1>3, LeasedFacts DEF Lease
<1> HIDE DEF r2, p
<1>5. s \in CallRec /\ CallOK(s) /\ s.leased = r2.leased /\ s.pc # "connect"
  BY <1>2, <1>3, AdvancedFacts
<1>6. call' \in [Callers -> CallRec] /\ call'[c] = s /\ OthersKeep(c)
  BY <1>1, <1>2, <1>4, <1>5, CallsGoOn DEF ChanInv, r
<1>7. Drains(r, s)
  BY <1>3, <1>5 DEF Drains
<1>8. QED
  BY <1>3, <1>4, <1>5, <1>6, <1>7 DEF CallMoves, r

-----------------------------------------------------------------------------
(* What the moves do to the channels.                                      *)

(* No channel is added to those a caller holds.                            *)
Within(r, s) ==
  /\ Len(s.leased) \in Nat /\ Len(r.leased) \in Nat
  /\ Len(s.leased) <= Len(r.leased)
  /\ \A i \in 1 .. Len(s.leased) :
       s.leased[i].ch = r.leased[i].ch /\ s.leased[i].pool = r.leased[i].pool

(* The other callers hold what they held.                                  *)
LEMMA OthersHold ==
  ASSUME NEW c, OthersKeep(c)
  PROVE  \A d \in Callers : d # c => call'[d].leased = call[d].leased
  BY DEF OthersKeep

(* A step that takes no lease keeps channels with one holder.              *)
LEMMA WithinDisjoint ==
  ASSUME ChanInv, NEW c \in Callers, OthersKeep(c), Within(call[c], call'[c]),
         UNCHANGED <<owned, free>>
  PROVE  Disjoint'
<1>1. \A d \in Callers : d # c => call'[d].leased = call[d].leased
  BY OthersHold
<1>2. \A i \in 1 .. Len(call'[c].leased) : i \in 1 .. Len(call[c].leased)
  BY DEF Within
<1>3. ASSUME NEW d \in Callers, NEW i \in 1 .. Len(call'[d].leased)
      PROVE  /\ i \in 1 .. Len(call[d].leased)
             /\ call'[d].leased[i].ch = call[d].leased[i].ch
             /\ call'[d].leased[i].pool = call[d].leased[i].pool
  BY <1>1, <1>2 DEF Within
<1>4. \A d, e \in Callers :
        \A i \in 1 .. Len(call'[d].leased), j \in 1 .. Len(call'[e].leased) :
          call'[d].leased[i].ch = call'[e].leased[j].ch => d = e /\ i = j
  BY <1>3 DEF ChanInv, Disjoint
<1>5. \A d \in Callers : \A i \in 1 .. Len(call'[d].leased) :
        /\ call'[d].leased[i].ch \in owned[call'[d].leased[i].pool]
        /\ \A p \in Pools : \A k \in 1 .. Len(free[p]) : free[p][k] # call'[d].leased[i].ch
  BY <1>3 DEF ChanInv, Disjoint
<1>6. QED
  BY <1>4, <1>5 DEF ChanInv, Disjoint

(* A channel nobody holds is taken, off its free list or as a new one.     *)
LEMMA TakingDisjoint ==
  ASSUME ChanInv, NEW c \in Callers, call' \in [Callers -> CallRec], OthersKeep(c),
         NEW l, Takes(call[c], call'[c], l),
         \A d \in Callers : \A i \in 1 .. Len(call[d].leased) : call[d].leased[i].ch # l.ch,
         owned' \in [Pools -> SUBSET Channels], l.ch \in owned'[l.pool],
         \A p \in Pools : owned[p] \subseteq owned'[p],
         \A p, q \in Pools : \A ch \in owned'[p] : ch \in owned'[q] => p = q,
         \A p \in Pools : \A k \in 1 .. Len(free'[p]) :
           /\ k \in 1 .. Len(free[p]) /\ free'[p][k] = free[p][k] /\ free[p][k] # l.ch
  PROVE  Disjoint'
<1>1. \A d \in Callers : d # c => call'[d].leased = call[d].leased
  BY OthersHold
<1>2. Len(call[c].leased) \in Nat /\ l \in Lease
  BY LeasedFacts DEF ChanInv, Typed, Takes
<1>3. ASSUME NEW i \in 1 .. Len(call'[c].leased)
      PROVE  \/ /\ i \in 1 .. Len(call[c].leased)
                /\ call'[c].leased[i] = call[c].leased[i]
             \/ i = Len(call[c].leased) + 1 /\ call'[c].leased[i] = l
  BY <1>2 DEF Takes
<1>4. ASSUME NEW d \in Callers, NEW i \in 1 .. Len(call'[d].leased)
      PROVE  \/ /\ i \in 1 .. Len(call[d].leased)
                /\ call'[d].leased[i] = call[d].leased[i]
                /\ call'[d].leased[i].ch # l.ch
             \/ /\ d = c /\ i = Len(call[c].leased) + 1
                /\ call'[d].leased[i] = l
  BY <1>1, <1>3
<1>5. \A d, e \in Callers :
        \A i \in 1 .. Len(call'[d].leased), j \in 1 .. Len(call'[e].leased) :
          call'[d].leased[i].ch = call'[e].leased[j].ch => d = e /\ i = j
  <2>1. TAKE d, e \in Callers
  <2>2. TAKE i \in 1 .. Len(call'[d].leased), j \in 1 .. Len(call'[e].leased)
  <2>3. CASE call'[d].leased[i] = l /\ d = c /\ i = Len(call[c].leased) + 1
    BY <1>4, <2>3
  <2>4. CASE /\ i \in 1 .. Len(call[d].leased) /\ call'[d].leased[i] = call[d].leased[i]
             /\ call'[d].leased[i].ch # l.ch
    <3>1. CASE call'[e].leased[j] = l
      BY <2>4, <3>1
    <3>2. CASE j \in 1 .. Len(call[e].leased) /\ call'[e].leased[j] = call[e].leased[j]
      BY <2>4, <3>2 DEF ChanInv, Disjoint
    <3>3. QED
      BY <1>4, <3>1, <3>2
  <2>5. QED
    BY <1>4, <2>3, <2>4
<1>6. ASSUME NEW d \in Callers, NEW i \in 1 .. Len(call'[d].leased)
      PROVE  /\ call'[d].leased[i].ch \in owned'[call'[d].leased[i].pool]
             /\ \A p \in Pools : \A k \in 1 .. Len(free'[p]) : free'[p][k] # call'[d].leased[i].ch
  <2>1. CASE call'[d].leased[i] = l
    BY <2>1
  <2>2. CASE i \in 1 .. Len(call[d].leased) /\ call'[d].leased[i] = call[d].leased[i]
    <3>1. call[d].leased[i].pool \in Pools
      BY Zenon, <2>2, LeasedFacts DEF ChanInv, Typed, Lease
    <3>2. QED
      BY <2>2, <3>1 DEF ChanInv, Disjoint
  <2>3. QED
    BY <1>4, <2>1, <2>2
<1>7. /\ \A p \in Pools : \A k \in 1 .. Len(free'[p]) : free'[p][k] \in owned'[p]
      /\ \A p \in Pools : \A k, m \in 1 .. Len(free'[p]) : free'[p][k] = free'[p][m] => k = m
  <2>1. /\ \A p \in Pools : \A k \in 1 .. Len(free[p]) : free[p][k] \in owned[p]
        /\ \A p \in Pools : \A k, m \in 1 .. Len(free[p]) : free[p][k] = free[p][m] => k = m
    BY DEF ChanInv, Disjoint
  <2>2. ASSUME NEW p \in Pools, NEW k \in 1 .. Len(free'[p]) PROVE free'[p][k] \in owned'[p]
    BY <2>1
  <2>3. ASSUME NEW p \in Pools, NEW k \in 1 .. Len(free'[p]), NEW m \in 1 .. Len(free'[p]),
               free'[p][k] = free'[p][m]
        PROVE  k = m
    BY <2>1, <2>3
  <2>4. QED
    BY Zenon, <2>2, <2>3
<1>8. QED
  BY <1>5, <1>6, <1>7 DEF Disjoint

(* The first channel leaves its holder.                                    *)
LEMMA DrainingLeases ==
  ASSUME ChanInv, NEW c \in Callers, OthersKeep(c), Drains(call[c], call'[c]),
         Len(call[c].leased) # 0,
         NEW d \in Callers, NEW i \in 1 .. Len(call'[d].leased)
  PROVE  LET j == IF d = c THEN i + 1 ELSE i
         IN  /\ i \in Int
             /\ j \in 1 .. Len(call[d].leased)
             /\ call'[d].leased[i] = call[d].leased[j]
             /\ call[d].leased[j] \in Lease
             /\ call[d].leased[j].ch # call[c].leased[1].ch
<1> DEFINE j == IF d = c THEN i + 1 ELSE i
<1>1. \A e \in Callers : call[e] \in CallRec /\ Len(call[e].leased) \in Nat
  BY LeasedFacts DEF ChanInv, Typed
<1>2. j \in 1 .. Len(call[d].leased) /\ (d = c => j # 1) /\ i \in Int
  <2>1. CASE d = c
    BY <1>1, <2>1 DEF Drains
  <2>2. CASE d # c
    BY <2>2, OthersHold
  <2>3. QED
    BY <2>1, <2>2
<1>3. call'[d].leased[i] = call[d].leased[j]
  <2>1. CASE d = c
    BY <1>1, <2>1 DEF Drains
  <2>2. CASE d # c
    BY <2>2, OthersHold
  <2>3. QED
    BY <2>1, <2>2
<1>4. 1 \in 1 .. Len(call[c].leased)
  BY <1>1
<1> HIDE DEF j
<1>5. call[d].leased[j] \in Lease
  BY <1>1, <1>2, LeasedFacts
<1>6. call[d].leased[j].ch # call[c].leased[1].ch
  BY <1>2, <1>4 DEF ChanInv, Disjoint
<1>7. QED
  BY <1>2, <1>3, <1>5, <1>6 DEF j

(* After a lease was given back, every lease is one that there was before, *)
(* on another channel.                                                     *)
LEMMA DrainingSource ==
  ASSUME ChanInv, NEW c \in Callers, OthersKeep(c), Drains(call[c], call'[c]),
         Len(call[c].leased) # 0,
         NEW d \in Callers, NEW i \in 1 .. Len(call'[d].leased)
  PROVE  \E j \in 1 .. Len(call[d].leased) :
           /\ call'[d].leased[i] = call[d].leased[j]
           /\ call[d].leased[j].ch # call[c].leased[1].ch
           /\ call[d].leased[j] \in Lease
<1> DEFINE a == IF d = c THEN i + 1 ELSE i
<1>1. /\ a \in 1 .. Len(call[d].leased) /\ call'[d].leased[i] = call[d].leased[a]
      /\ call[d].leased[a] \in Lease /\ call[d].leased[a].ch # call[c].leased[1].ch
  BY DrainingLeases
<1> HIDE DEF a
<1>2. QED
  BY <1>1

(* After a lease was given back, no channel is leased twice.               *)
LEMMA DrainingDistinct ==
  ASSUME ChanInv, NEW c \in Callers, OthersKeep(c), Drains(call[c], call'[c]),
         Len(call[c].leased) # 0
  PROVE  \A d, e \in Callers :
           \A i \in 1 .. Len(call'[d].leased), j \in 1 .. Len(call'[e].leased) :
             call'[d].leased[i].ch = call'[e].leased[j].ch => d = e /\ i = j
<1>1. TAKE d, e \in Callers
<1>2. TAKE i \in 1 .. Len(call'[d].leased), j \in 1 .. Len(call'[e].leased)
<1> DEFINE a == IF d = c THEN i + 1 ELSE i
           b == IF e = c THEN j + 1 ELSE j
<1>3. i \in Int /\ a \in 1 .. Len(call[d].leased) /\ call'[d].leased[i] = call[d].leased[a]
  BY DrainingLeases
<1>4. j \in Int /\ b \in 1 .. Len(call[e].leased) /\ call'[e].leased[j] = call[e].leased[b]
  BY DrainingLeases
<1>5. d = e /\ a = b => i = j
  BY <1>3, <1>4
<1> HIDE DEF a, b
<1>6. call[d].leased[a].ch = call[e].leased[b].ch => d = e /\ a = b
  BY <1>3, <1>4 DEF ChanInv, Disjoint
<1>7. QED
  BY <1>3, <1>4, <1>5, <1>6

(* Channel ch goes to the end of the free list of p.                       *)
Returned(p, ch) == free' = [free EXCEPT ![p] = Append(@, ch)]

(* The free list after a release has one channel more, at its end.         *)
LEMMA ReleaseFreeList ==
  ASSUME ChanInv, NEW p \in Pools, NEW ch \in Channels, Returned(p, ch)
  PROVE  \A q \in Pools :
           /\ free'[q] \in Seq(Channels)
           /\ \A k \in 1 .. Len(free'[q]) :
                \/ k \in 1 .. Len(free[q]) /\ free'[q][k] = free[q][k]
                \/ q = p /\ k = Len(free[q]) + 1 /\ free'[q][k] = ch
<1>1. TAKE q \in Pools
<1>2. free[q] \in Seq(Channels) /\ Len(free[q]) \in Nat
  BY LenFacts DEF ChanInv, Typed
<1>3. CASE q # p
  BY <1>2, <1>3 DEF ChanInv, Typed, Returned
<1>4. CASE q = p
  <2>1. free'[q] = Append(free[q], ch)
    BY <1>4 DEF ChanInv, Typed, Returned
  <2>2. /\ Append(free[q], ch) \in Seq(Channels)
        /\ Len(Append(free[q], ch)) = Len(free[q]) + 1
        /\ \A k \in 1 .. Len(free[q]) : Append(free[q], ch)[k] = free[q][k]
        /\ Append(free[q], ch)[Len(free[q]) + 1] = ch
    BY <1>2, AppendedFacts
  <2>3. \A k \in 1 .. Len(free[q]) + 1 : k \in 1 .. Len(free[q]) \/ k = Len(free[q]) + 1
    BY <1>2
  <2>4. QED
    BY <1>4, <2>1, <2>2, <2>3
<1>5. QED
  BY <1>3, <1>4

(* What the first channel of a draining call is to the pools.              *)
LEMMA FirstLease ==
  ASSUME ChanInv, NEW c \in Callers, Len(call[c].leased) # 0
  PROVE  LET l == call[c].leased[1]
         IN  /\ l \in Lease
             /\ l.ch \in owned[l.pool]
             /\ \A p \in Pools : \A k \in 1 .. Len(free[p]) : free[p][k] # l.ch
             /\ wrs[l.ch] = l.posted
<1>1. call[c] \in CallRec
  BY DEF ChanInv, Typed
<1>2. 1 \in 1 .. Len(call[c].leased)
  BY <1>1, LeasedFacts
<1>3. call[c].leased[1] \in Lease
  BY <1>1, <1>2, LeasedFacts
<1>4. QED
  BY <1>2, <1>3 DEF ChanInv, Disjoint, Accounted

(* A channel that is released has one holder: the free list.               *)
LEMMA ReleaseDisjoint ==
  ASSUME ChanInv, NEW c \in Callers, OthersKeep(c), Drains(call[c], call'[c]),
         Len(call[c].leased) # 0, owned' = owned,
         Returned(call[c].leased[1].pool, call[c].leased[1].ch)
  PROVE  Disjoint'
<1> DEFINE l == call[c].leased[1]
<1>1. /\ l \in Lease /\ l.ch \in owned[l.pool]
      /\ \A p \in Pools : \A k \in 1 .. Len(free[p]) : free[p][k] # l.ch
  BY FirstLease
<1>2. l.pool \in Pools /\ l.ch \in Channels
  BY <1>1 DEF Lease
<1>3. \A q \in Pools : \A k \in 1 .. Len(free'[q]) :
        \/ k \in 1 .. Len(free[q]) /\ free'[q][k] = free[q][k]
        \/ q = l.pool /\ k = Len(free[q]) + 1 /\ free'[q][k] = l.ch
  BY <1>2, ReleaseFreeList
<1>4. ASSUME NEW d \in Callers, NEW i \in 1 .. Len(call'[d].leased)
      PROVE  \E j \in 1 .. Len(call[d].leased) :
               /\ call'[d].leased[i] = call[d].leased[j]
               /\ call[d].leased[j].ch # l.ch
  BY DrainingSource
<1> HIDE DEF l
<1>5. \A d, e \in Callers :
        \A i \in 1 .. Len(call'[d].leased), j \in 1 .. Len(call'[e].leased) :
          call'[d].leased[i].ch = call'[e].leased[j].ch => d = e /\ i = j
  BY DrainingDistinct
<1>6. ASSUME NEW d \in Callers, NEW i \in 1 .. Len(call'[d].leased)
      PROVE  /\ call'[d].leased[i].ch \in owned[call'[d].leased[i].pool]
             /\ \A p \in Pools : \A k \in 1 .. Len(free'[p]) :
                  free'[p][k] # call'[d].leased[i].ch
  <2>1. PICK j \in 1 .. Len(call[d].leased) :
          call'[d].leased[i] = call[d].leased[j] /\ call[d].leased[j].ch # l.ch
    BY <1>4
  <2>2. /\ call[d].leased[j].ch \in owned[call[d].leased[j].pool]
        /\ \A p \in Pools : \A k \in 1 .. Len(free[p]) : free[p][k] # call[d].leased[j].ch
    BY DEF ChanInv, Disjoint
  <2>3. QED
    BY <1>3, <2>1, <2>2
<1>7. \A p \in Pools : \A k \in 1 .. Len(free'[p]) : free'[p][k] \in owned[p]
  BY <1>1, <1>3 DEF ChanInv, Disjoint
<1>8. ASSUME NEW p \in Pools, NEW k \in 1 .. Len(free'[p]), NEW m \in 1 .. Len(free'[p]),
             free'[p][k] = free'[p][m]
      PROVE  k = m
  <2>1. \A a, b \in 1 .. Len(free[p]) : free[p][a] = free[p][b] => a = b
    BY DEF ChanInv, Disjoint
  <2>2. \/ k \in 1 .. Len(free[p]) /\ free'[p][k] = free[p][k]
        \/ k = Len(free[p]) + 1 /\ free'[p][k] = l.ch
    BY <1>3
  <2>3. \/ m \in 1 .. Len(free[p]) /\ free'[p][m] = free[p][m]
        \/ m = Len(free[p]) + 1 /\ free'[p][m] = l.ch
    BY <1>3
  <2>4. \A a \in 1 .. Len(free[p]) : free[p][a] # l.ch
    BY <1>1
  <2>5. QED
    BY <1>8, <2>1, <2>2, <2>3, <2>4, Zenon
<1>9. \A p, q \in Pools : \A ch \in owned[p] : ch \in owned[q] => p = q
  BY DEF ChanInv, Disjoint
<1>10. QED
  BY <1>5, <1>6, <1>7, <1>8, <1>9 DEF Disjoint

(* A channel that is discarded has no holder left.                         *)
LEMMA DiscardDisjoint ==
  ASSUME ChanInv, NEW c \in Callers, OthersKeep(c), Drains(call[c], call'[c]),
         Len(call[c].leased) # 0, free' = free,
         NEW l, l = call[c].leased[1], owned' = [owned EXCEPT ![l.pool] = @ \ {l.ch}]
  PROVE  Disjoint'
<1>1. /\ l \in Lease /\ l.ch \in owned[l.pool]
      /\ \A p \in Pools : \A k \in 1 .. Len(free[p]) : free[p][k] # l.ch
  BY FirstLease
<1>2. \A p \in Pools : \A ch : ch # l.ch => (ch \in owned'[p] <=> ch \in owned[p])
  BY DEF ChanInv, Typed
<1>3. \A p \in Pools : owned'[p] \subseteq owned[p]
  BY DEF ChanInv, Typed
<1>4. ASSUME NEW d \in Callers, NEW i \in 1 .. Len(call'[d].leased)
      PROVE  \E j \in 1 .. Len(call[d].leased) :
               /\ call'[d].leased[i] = call[d].leased[j]
               /\ call[d].leased[j].ch # l.ch
               /\ call[d].leased[j] \in Lease
  BY SMTT(30), DrainingSource
<1>5. \A d, e \in Callers :
        \A i \in 1 .. Len(call'[d].leased), j \in 1 .. Len(call'[e].leased) :
          call'[d].leased[i].ch = call'[e].leased[j].ch => d = e /\ i = j
  BY DrainingDistinct
<1>6. ASSUME NEW d \in Callers, NEW i \in 1 .. Len(call'[d].leased)
      PROVE  /\ call'[d].leased[i].ch \in owned'[call'[d].leased[i].pool]
             /\ \A p \in Pools : \A k \in 1 .. Len(free[p]) : free[p][k] # call'[d].leased[i].ch
  <2>1. PICK j \in 1 .. Len(call[d].leased) :
          /\ call'[d].leased[i] = call[d].leased[j] /\ call[d].leased[j].ch # l.ch
          /\ call[d].leased[j] \in Lease
    BY <1>4
  <2>2. /\ call[d].leased[j].ch \in owned[call[d].leased[j].pool]
        /\ \A p \in Pools : \A k \in 1 .. Len(free[p]) : free[p][k] # call[d].leased[j].ch
    BY DEF ChanInv, Disjoint
  <2>3. call[d].leased[j].pool \in Pools
    BY <2>1 DEF Lease
  <2>4. QED
    BY Zenon, <1>2, <2>1, <2>2, <2>3
<1>7. \A p \in Pools : \A k \in 1 .. Len(free[p]) : free[p][k] \in owned'[p]
  BY <1>1, <1>2 DEF ChanInv, Disjoint
<1>8. \A p, q \in Pools : \A ch \in owned'[p] : ch \in owned'[q] => p = q
  BY <1>3 DEF ChanInv, Disjoint
<1>9. \A p \in Pools : \A k, m \in 1 .. Len(free[p]) : free[p][k] = free[p][m] => k = m
  BY DEF ChanInv, Disjoint
<1>10. /\ \A d \in Callers : \A i \in 1 .. Len(call'[d].leased) :
            /\ call'[d].leased[i].ch \in owned'[call'[d].leased[i].pool]
            /\ \A p \in Pools : \A k \in 1 .. Len(free'[p]) : free'[p][k] # call'[d].leased[i].ch
       /\ \A p \in Pools : \A k \in 1 .. Len(free'[p]) : free'[p][k] \in owned'[p]
       /\ \A p \in Pools : \A k, m \in 1 .. Len(free'[p]) : free'[p][k] = free'[p][m] => k = m
  <2>1. ASSUME NEW d \in Callers, NEW i \in 1 .. Len(call'[d].leased),
               NEW p \in Pools, NEW k \in 1 .. Len(free'[p])
        PROVE  free'[p][k] # call'[d].leased[i].ch
    BY <1>6
  <2>2. ASSUME NEW p \in Pools, NEW k \in 1 .. Len(free'[p]) PROVE free'[p][k] \in owned'[p]
    BY <1>7
  <2>3. ASSUME NEW p \in Pools, NEW k \in 1 .. Len(free'[p]), NEW m \in 1 .. Len(free'[p]),
               free'[p][k] = free'[p][m]
        PROVE  k = m
    BY <1>9, <2>3
  <2>4. QED
    BY Zenon, <1>6, <2>1, <2>2, <2>3
<1>11. QED
  BY <1>5, <1>8, <1>10, Zenon DEF Disjoint

-----------------------------------------------------------------------------
(* The count of a pool's channels.                                         *)

(* Only the caller that moves starts or stops connecting.                  *)
LEMMA OthersConnecting ==
  ASSUME NEW c \in Callers, OthersKeep(c), NEW p
  PROVE  /\ \A d \in Callers \ {c} : d \in Connecting(p)' <=> d \in Connecting(p)
         /\ c \in Connecting(p)' <=> call'[c].pc = "connect" /\ call'[c].pool = p
         /\ c \in Connecting(p) <=> call[c].pc = "connect" /\ call[c].pool = p
         /\ Connecting(p)' \subseteq Callers /\ Connecting(p) \subseteq Callers
  BY DEF OthersKeep, Connecting

(* What the accounting of a pool says, in numbers.                         *)
LEMMA PoolCounts ==
  ASSUME ChanInv, NEW p \in Pools
  PROVE  /\ IsFiniteSet(owned[p]) /\ IsFiniteSet(Connecting(p))
         /\ Cardinality(owned[p]) \in Nat /\ Cardinality(Connecting(p)) \in Nat
         /\ lost[p] \in Nat /\ created[p] \in Nat /\ MaxChannels \in Nat
         /\ created[p] = Cardinality(owned[p]) + Cardinality(Connecting(p)) + lost[p]
         /\ created[p] <= MaxChannels
<1>1. IsFiniteSet(owned[p]) /\ IsFiniteSet(Connecting(p))
  BY DEF ChanInv, Counted
<1>2. QED
  BY <1>1, FS_CardinalityType, ChannelAssumption DEF ChanInv, Counted, CapacityExact, Typed

(* A pool's count after a step, from how its parts moved.                  *)
PoolCounted(p) ==
  /\ IsFiniteSet(owned[p]) /\ IsFiniteSet(Connecting(p))
  /\ created[p] = Cardinality(owned[p]) + Cardinality(Connecting(p)) + lost[p]
  /\ created[p] <= MaxChannels
  /\ created[p] \in Nat

(* A pool nothing happens to stays accounted for.                          *)
LEMMA SameCount ==
  ASSUME ChanInv, NEW p \in Pools, owned'[p] = owned[p], created'[p] = created[p],
         lost'[p] = lost[p], Connecting(p)' = Connecting(p)
  PROVE  PoolCounted(p)'
  BY PoolCounts DEF PoolCounted

(* The steps that neither start nor end a handshake nor touch the counts.  *)
LEMMA QuietCount ==
  ASSUME ChanInv, NEW c \in Callers, OthersKeep(c),
         call[c].pc # "connect", call'[c].pc # "connect",
         UNCHANGED <<owned, created, lost>>
  PROVE  \A p \in Pools : PoolCounted(p)'
<1>1. TAKE p \in Pools
<1>2. Connecting(p)' = Connecting(p)
  BY OthersConnecting
<1>3. QED
  BY <1>2, SameCount

(* Reserving a channel counts it as one that is being connected.           *)
LEMMA ReserveCount ==
  ASSUME ChanInv, NEW c \in Callers, OthersKeep(c), NEW p0 \in Pools,
         call[c].pc # "connect", call'[c].pc = "connect", call'[c].pool = p0,
         created[p0] < MaxChannels, created' = [created EXCEPT ![p0] = @ + 1],
         UNCHANGED <<owned, lost>>
  PROVE  \A p \in Pools : PoolCounted(p)'
<1>1. TAKE p \in Pools
<1>2. CASE p # p0
  <2>1. Connecting(p)' = Connecting(p)
    BY <1>2, OthersConnecting
  <2>2. created'[p] = created[p]
    BY <1>2 DEF ChanInv, Typed
  <2>3. QED
    BY <2>1, <2>2, SameCount
<1>3. CASE p = p0
  <2>1. Connecting(p)' = Connecting(p) \cup {c} /\ c \notin Connecting(p)
    BY <1>3, OthersConnecting
  <2>2. /\ IsFiniteSet(Connecting(p)')
        /\ Cardinality(Connecting(p)') = Cardinality(Connecting(p)) + 1
    BY <2>1, PoolCounts, FS_AddElement
  <2>3. created'[p] = created[p] + 1
    BY <1>3 DEF ChanInv, Typed
  <2>4. QED
    BY <1>3, <2>2, <2>3, PoolCounts DEF PoolCounted
<1>4. QED
  BY <1>2, <1>3

(* The end of a handshake: one less is connecting.                         *)
LEMMA EndOfHandshake ==
  ASSUME ChanInv, NEW c \in Callers, OthersKeep(c),
         call[c].pc = "connect", call'[c].pc # "connect"
  PROVE  \A p \in Pools :
           IF p = call[c].pool
           THEN /\ IsFiniteSet(Connecting(p)')
                /\ Cardinality(Connecting(p)') = Cardinality(Connecting(p)) - 1
                /\ Cardinality(Connecting(p)) # 0
           ELSE Connecting(p)' = Connecting(p)
<1>1. TAKE p \in Pools
<1>2. CASE p # call[c].pool
  BY <1>2, OthersConnecting
<1>3. CASE p = call[c].pool
  <2>1. Connecting(p)' = Connecting(p) \ {c} /\ c \in Connecting(p)
    BY <1>3, OthersConnecting
  <2>2. IsFiniteSet(Connecting(p))
    BY PoolCounts
  <2>3. /\ IsFiniteSet(Connecting(p)')
        /\ Cardinality(Connecting(p)') = Cardinality(Connecting(p)) - 1
    BY <2>1, <2>2, FS_RemoveElement
  <2>4. Cardinality(Connecting(p)) # 0
    BY <2>1, <2>2, FS_EmptySet
  <2>5. QED
    BY <1>3, <2>3, <2>4
<1>4. QED
  BY <1>2, <1>3

(* Connecting turns a reservation into a channel.                          *)
LEMMA ConnectOkCount ==
  ASSUME ChanInv, NEW c \in Callers, OthersKeep(c),
         call[c].pc = "connect", call'[c].pc # "connect", call[c].pool \in Pools,
         NEW ch, \A q \in Pools : ch \notin owned[q],
         owned' = [owned EXCEPT ![call[c].pool] = @ \cup {ch}],
         UNCHANGED <<created, lost>>
  PROVE  \A p \in Pools : PoolCounted(p)'
<1>1. TAKE p \in Pools
<1>2. CASE p # call[c].pool
  <2>1. Connecting(p)' = Connecting(p)
    BY <1>2, EndOfHandshake
  <2>2. owned'[p] = owned[p]
    BY <1>2 DEF ChanInv, Typed
  <2>3. QED
    BY <2>1, <2>2, SameCount
<1>3. CASE p = call[c].pool
  <2>1. owned'[p] = owned[p] \cup {ch}
    BY <1>3 DEF ChanInv, Typed
  <2>2. IsFiniteSet(owned'[p]) /\ Cardinality(owned'[p]) = Cardinality(owned[p]) + 1
    <3>1. IsFiniteSet(owned[p]) /\ ch \notin owned[p]
      BY PoolCounts
    <3>2. QED
      BY <2>1, <3>1, FS_AddElement
  <2>3. /\ IsFiniteSet(Connecting(p)')
        /\ Cardinality(Connecting(p)') = Cardinality(Connecting(p)) - 1
    BY <1>3, EndOfHandshake
  <2>4. QED
    BY <2>2, <2>3, PoolCounts DEF PoolCounted
<1>4. QED
  BY <1>2, <1>3

(* A failed connect takes its reservation back; one that throws loses it.  *)
LEMMA ConnectFailsCount ==
  ASSUME ChanInv, NEW c \in Callers, OthersKeep(c),
         call[c].pc = "connect", call'[c].pc # "connect", call[c].pool \in Pools,
         owned' = owned,
         \/ created' = [created EXCEPT ![call[c].pool] = @ - 1] /\ lost' = lost
         \/ lost' = [lost EXCEPT ![call[c].pool] = @ + 1] /\ created' = created
  PROVE  \A p \in Pools : PoolCounted(p)'
<1>1. TAKE p \in Pools
<1>2. CASE p # call[c].pool
  <2>1. Connecting(p)' = Connecting(p)
    BY <1>2, EndOfHandshake
  <2>2. created'[p] = created[p] /\ lost'[p] = lost[p]
    BY <1>2 DEF ChanInv, Typed
  <2>3. QED
    BY <2>1, <2>2, SameCount
<1>3. CASE p = call[c].pool
  <2>1. \/ created'[p] = created[p] - 1 /\ lost'[p] = lost[p]
        \/ lost'[p] = lost[p] + 1 /\ created'[p] = created[p]
    BY <1>3 DEF ChanInv, Typed
  <2>2. /\ IsFiniteSet(Connecting(p)')
        /\ Cardinality(Connecting(p)') = Cardinality(Connecting(p)) - 1
        /\ Cardinality(Connecting(p)) # 0
    BY <1>3, EndOfHandshake
  <2>3. QED
    BY <2>1, <2>2, PoolCounts DEF PoolCounted
<1>4. QED
  BY <1>2, <1>3

(* Discarding a channel frees its place in the pool's count.               *)
LEMMA DiscardCount ==
  ASSUME ChanInv, NEW c \in Callers, OthersKeep(c),
         call[c].pc # "connect", call'[c].pc # "connect",
         NEW p0 \in Pools, NEW ch \in owned[p0],
         owned' = [owned EXCEPT ![p0] = @ \ {ch}],
         created' = [created EXCEPT ![p0] = IF @ > 0 THEN @ - 1 ELSE @],
         lost' = lost
  PROVE  \A p \in Pools : PoolCounted(p)'
<1>1. TAKE p \in Pools
<1>2. Connecting(p)' = Connecting(p)
  BY OthersConnecting
<1>3. CASE p # p0
  <2>1. created'[p] = created[p] /\ owned'[p] = owned[p]
    BY <1>3 DEF ChanInv, Typed
  <2>2. QED
    BY <1>2, <2>1, SameCount
<1>4. CASE p = p0
  <2>1. owned'[p] = owned[p] \ {ch} /\ ch \in owned[p]
    BY <1>4 DEF ChanInv, Typed
  <2>2. IsFiniteSet(owned'[p]) /\ Cardinality(owned'[p]) = Cardinality(owned[p]) - 1
    BY <2>1, PoolCounts, FS_RemoveElement
  <2>3. Cardinality(owned[p]) # 0
    BY <2>1, PoolCounts, FS_EmptySet
  <2>4. created[p] > 0
    <3>1. /\ Cardinality(owned[p]) \in Nat /\ Cardinality(Connecting(p)) \in Nat
          /\ lost[p] \in Nat
          /\ created[p] = Cardinality(owned[p]) + Cardinality(Connecting(p)) + lost[p]
      BY PoolCounts
    <3>2. \A a, b, d \in Nat : a # 0 => a + b + d > 0
      OBVIOUS
    <3>3. QED
      BY <2>3, <3>1, <3>2
  <2>5. created'[p] = created[p] - 1
    BY <1>4, <2>4 DEF ChanInv, Typed
  <2>6. QED
    BY <1>2, <2>2, <2>3, <2>5, PoolCounts DEF PoolCounted
<1>5. QED
  BY <1>3, <1>4

-----------------------------------------------------------------------------
(* The inductive step, one action after the other.                         *)

(* The types of everything but the calls, created not yet bounded.         *)
RestTyped ==
  /\ owned \in [Pools -> SUBSET Channels]
  /\ free \in [Pools -> Seq(Channels)]
  /\ created \in [Pools -> Int]
  /\ wrs \in [Channels -> 0 .. MaxOps]
  /\ broken \subseteq Channels
  /\ lost \in [Pools -> Nat]

(* The types of everything but the calls.                                  *)
LEMMA InvRestTyped == ChanInv => RestTyped
  BY ChannelAssumption DEF ChanInv, Typed, RestTyped

(* The parts of the invariant, put together after a caller's step.         *)
LEMMA Assemble ==
  ASSUME ChanInv, NEW c \in Callers, CallMoves(c), RestTyped', Disjoint', Accounted',
         \A p \in Pools : PoolCounted(p)'
  PROVE  ChanInv'
<1>1. \A d \in Callers : CallOK(call'[d])
  BY OthersStayOK DEF ChanInv, CallMoves
<1>2. \A p \in Pools : created'[p] \in 0 .. MaxChannels
  BY ChannelAssumption DEF PoolCounted
<1>3. created' \in [Pools -> 0 .. MaxChannels]
  BY <1>2 DEF RestTyped
<1>4. Typed'
  BY <1>3 DEF Typed, RestTyped, CallMoves
<1>5. Counted'
  BY DEF Counted, CapacityExact, PoolCounted
<1>6. QED
  BY <1>1, <1>4, <1>5 DEF ChanInv

(* When the moving caller keeps its leases, so does everybody.             *)
LEMMA KeepsAll ==
  ASSUME NEW c \in Callers, OthersKeep(c), Keeps(call[c], call'[c])
  PROVE  \A d \in Callers : call'[d].leased = call[d].leased
  BY OthersHold DEF Keeps

(* The steps that leave the channels alone.                                *)
LEMMA KeepsStep ==
  ASSUME ChanInv, NEW c \in Callers, CallMoves(c), Keeps(call[c], call'[c]),
         UNCHANGED <<owned, free, wrs, broken>>,
         created' \in [Pools -> Int], lost' \in [Pools -> Nat],
         \A p \in Pools : PoolCounted(p)'
  PROVE  ChanInv'
<1>1. \A d \in Callers : call'[d].leased = call[d].leased
  BY KeepsAll DEF CallMoves
<1>2. RestTyped'
  BY InvRestTyped DEF RestTyped
<1>3. Disjoint'
  <2>1. Within(call[c], call'[c])
    BY <1>1, LeasedFacts DEF Within, ChanInv, Typed
  <2>2. QED
    BY <2>1, WithinDisjoint DEF CallMoves
<1>4. Accounted'
  BY <1>1 DEF ChanInv, Accounted
<1>5. QED
  BY <1>2, <1>3, <1>4, Assemble

(* A call that begins.                                                     *)
LEMMA BeginStep ==
  ASSUME ChanInv, NEW c \in Callers, Begin(c)
  PROVE  ChanInv'
<1>1. UNCHANGED <<owned, free, created, wrs, broken, lost>>
  BY DEF Begin, BeginMulti, BeginSingle
<1>2. /\ CallMoves(c) /\ Keeps(call[c], call'[c])
      /\ call[c].pc # "connect" /\ call'[c].pc # "connect"
  BY BeginMoves
<1>3. \A p \in Pools : PoolCounted(p)'
  BY <1>1, <1>2, QuietCount DEF CallMoves
<1>4. created' \in [Pools -> Int] /\ lost' \in [Pools -> Nat]
  BY <1>1, InvRestTyped DEF RestTyped
<1>5. QED
  BY <1>1, <1>2, <1>3, <1>4, KeepsStep

(* A caller that waits for a channel, or wakes up.                         *)
LEMMA WaitStep ==
  ASSUME ChanInv, NEW c \in Callers, LeaseWait(c) \/ SpuriousWake(c)
  PROVE  ChanInv'
<1>1. UNCHANGED <<owned, free, created, wrs, broken, lost>>
  BY DEF LeaseWait, SpuriousWake
<1>2. PICK pc \in {"wait", "lease"} :
        call[c].pc \in {"wait", "lease"} /\ GoOn(c, {[call[c] EXCEPT !.pc = pc]})
  BY DEF LeaseWait, SpuriousWake
<1>3. pc \in Leasing /\ call[c].pc \in Leasing
  BY <1>2 DEF Leasing
<1>4. CallMoves(c) /\ Keeps(call[c], call'[c]) /\ call'[c].pc = pc
  BY <1>2, <1>3, LeasingMoves
<1>5. \A p \in Pools : PoolCounted(p)'
  BY <1>1, <1>2, <1>4, QuietCount DEF CallMoves
<1>6. created' \in [Pools -> Int] /\ lost' \in [Pools -> Nat]
  BY <1>1, InvRestTyped DEF RestTyped
<1>7. QED
  BY <1>1, <1>4, <1>5, <1>6, KeepsStep

(* A caller that reserves a new channel (created += 1, under the lock).    *)
LEMMA ReserveStep ==
  ASSUME ChanInv, NEW c \in Callers, LeaseReserve(c)
  PROVE  ChanInv'
<1> DEFINE p0 == call[c].pool
<1>1. /\ UNCHANGED <<owned, free, wrs, broken, lost>>
      /\ call[c].pc = "lease" /\ created[p0] < MaxChannels
      /\ created' = [created EXCEPT ![p0] = @ + 1]
      /\ GoOn(c, {[call[c] EXCEPT !.pc = "connect"]})
  BY DEF LeaseReserve
<1>2. call[c].pc \in Leasing /\ "connect" \in Leasing
  BY <1>1 DEF Leasing
<1>3. /\ CallMoves(c) /\ Keeps(call[c], call'[c]) /\ call'[c].pc = "connect"
      /\ call'[c].pool = p0
  BY <1>1, <1>2, LeasingMoves
<1>4. p0 \in Pools
  BY <1>2 DEF ChanInv, CallOK
<1>5. \A p \in Pools : PoolCounted(p)'
  BY Zenon, <1>1, <1>3, <1>4, ReserveCount DEF CallMoves
<1>6. created' \in [Pools -> Int] /\ lost' \in [Pools -> Nat]
  BY <1>1, <1>4, InvRestTyped DEF RestTyped
<1>7. QED
  BY <1>1, <1>3, <1>5, <1>6, KeepsStep

(* A connect that fails.                                                   *)
LEMMA ConnectFailsStep ==
  ASSUME ChanInv, NEW c \in Callers, ConnectFails(c)
  PROVE  ChanInv'
<1> DEFINE p0 == call[c].pool
<1>1. /\ UNCHANGED <<owned, free, wrs, broken, lost>>
      /\ call[c].pc = "connect"
      /\ created' = [created EXCEPT ![p0] = @ - 1]
      /\ GoOnNotifying(c, p0, Advanced(call[c]))
  BY DEF ConnectFails
<1>2. p0 \in Pools
  BY <1>1 DEF ChanInv, CallOK, Leasing
<1>3. CallMoves(c) /\ Keeps(call[c], call'[c]) /\ call'[c].pc # "connect"
  BY <1>1, SkipMoves
<1>4. \A p \in Pools : PoolCounted(p)'
  BY Zenon, <1>1, <1>2, <1>3, ConnectFailsCount DEF CallMoves
<1>5. created' \in [Pools -> Int] /\ lost' \in [Pools -> Nat]
  BY <1>1, <1>2, InvRestTyped DEF RestTyped
<1>6. QED
  BY <1>1, <1>3, <1>4, <1>5, KeepsStep

(* A connect that throws, with its reservation.                            *)
LEMMA ConnectThrowsStep ==
  ASSUME ChanInv, NEW c \in Callers, ConnectThrows(c)
  PROVE  ChanInv'
<1> DEFINE p0 == call[c].pool
<1>1. /\ UNCHANGED <<owned, free, created, wrs, broken>>
      /\ call[c].pc = "connect"
      /\ lost' = [lost EXCEPT ![p0] = @ + 1]
      /\ GoOn(c, {Idle})
  BY DEF ConnectThrows
<1>2. p0 \in Pools
  BY <1>1 DEF ChanInv, CallOK, Leasing
<1>3. CallMoves(c) /\ Len(call'[c].leased) = 0 /\ call'[c].pc # "connect"
  BY Zenon, <1>1, ThrowMoves
<1>4. \A p \in Pools : PoolCounted(p)'
  BY Zenon, <1>1, <1>2, <1>3, ConnectFailsCount DEF CallMoves
<1>5. RestTyped'
  BY <1>1, <1>2, InvRestTyped DEF RestTyped
<1>6. Within(call[c], call'[c])
  BY <1>3, LeasedFacts DEF Within, ChanInv, Typed
<1>7. Disjoint'
  BY <1>1, <1>3, <1>6, WithinDisjoint DEF CallMoves
<1>8. Accounted'
  <2>1. \A d \in Callers : d # c => call'[d].leased = call[d].leased
    BY <1>3, OthersHold DEF CallMoves
  <2>2. \A i \in 1 .. Len(call'[c].leased) : FALSE
    BY <1>3
  <2>3. QED
    BY <1>1, <2>1, <2>2 DEF ChanInv, Accounted
<1>9. QED
  BY <1>3, <1>4, <1>5, <1>7, <1>8, Assemble

(* Taking a quiet channel keeps the account of the work requests.          *)
LEMMA TakingAccounts ==
  ASSUME ChanInv, NEW c \in Callers, OthersKeep(c), NEW l, Takes(call[c], call'[c], l),
         wrs[l.ch] = 0, l.posted = 0, wrs' = wrs,
         \A p \in Pools : owned[p] \subseteq owned'[p],
         \A p \in Pools : \A k \in 1 .. Len(free'[p]) :
           k \in 1 .. Len(free[p]) /\ free'[p][k] = free[p][k]
  PROVE  Accounted'
<1>1. \A d \in Callers : d # c => call'[d].leased = call[d].leased
  BY OthersHold
<1>2. Len(call[c].leased) \in Nat
  BY LeasedFacts DEF ChanInv, Typed
<1>3. ASSUME NEW i \in 1 .. Len(call'[c].leased)
      PROVE  \/ /\ i \in 1 .. Len(call[c].leased)
                /\ call'[c].leased[i] = call[c].leased[i]
             \/ call'[c].leased[i] = l
  BY <1>2 DEF Takes
<1>4. ASSUME NEW d \in Callers, NEW i \in 1 .. Len(call'[d].leased)
      PROVE  wrs[call'[d].leased[i].ch] = call'[d].leased[i].posted
  <2>1. \A j \in 1 .. Len(call[d].leased) : wrs[call[d].leased[j].ch] = call[d].leased[j].posted
    BY Zenon DEF ChanInv, Accounted
  <2>2. CASE d # c
    BY Zenon, <1>1, <2>1, <2>2
  <2>3. CASE d = c
    <3>1. \/ i \in 1 .. Len(call[d].leased) /\ call'[d].leased[i] = call[d].leased[i]
          \/ call'[d].leased[i] = l
      BY Zenon, <1>3, <2>3
    <3>2. QED
      BY Zenon, <2>1, <3>1
  <2>4. QED
    BY <2>2, <2>3
<1>5. \A p \in Pools : \A k \in 1 .. Len(free'[p]) : wrs[free'[p][k]] = 0
  BY DEF ChanInv, Accounted
<1>6. \A ch \in Channels : (\A p \in Pools : ch \notin owned'[p]) => wrs[ch] = 0
  BY DEF ChanInv, Accounted
<1>7. QED
  BY Zenon, <1>4, <1>5, <1>6 DEF Accounted

(* A caller that takes the free channel released last.                     *)
LEMMA LeaseFreeStep ==
  ASSUME ChanInv, NEW c \in Callers, LeaseFree(c)
  PROVE  ChanInv'
<1> DEFINE p0 == call[c].pool
           n == Len(free[p0])
           ch == free[p0][n]
           l == [pool |-> p0, ch |-> ch, posted |-> 0]
<1>1. /\ UNCHANGED <<owned, created, wrs, broken, lost>>
      /\ call[c].pc = "lease" /\ free[p0] # <<>>
      /\ free' = [free EXCEPT ![p0] = SubSeq(@, 1, n - 1)]
      /\ GoOn(c, {Holding(call[c], ch)})
  BY DEF LeaseFree
<1>2. p0 \in Pools
  BY <1>1 DEF ChanInv, CallOK, Leasing
<1>3. free[p0] \in Seq(Channels) /\ n \in Nat /\ n # 0 /\ n \in 1 .. n /\ ch \in Channels
  <2>1. free[p0] \in Seq(Channels)
    BY <1>2 DEF ChanInv, Typed
  <2>2. n \in Nat \ {0}
    BY <1>1, <2>1, EmptyFacts
  <2>3. QED
    BY <2>1, <2>2, ElementFacts
<1> HIDE DEF n, ch
<1>4. /\ CallMoves(c) /\ Takes(call[c], call'[c], l) /\ call'[c].pc = "post"
  BY <1>1, <1>3, HoldingMoves
<1>5. l.pool = p0 /\ l.ch = ch /\ l.posted = 0
  OBVIOUS
<1>6. /\ SubSeq(free[p0], 1, n - 1) \in Seq(Channels)
      /\ Len(SubSeq(free[p0], 1, n - 1)) = n - 1
      /\ \A k \in 1 .. n - 1 : SubSeq(free[p0], 1, n - 1)[k] = free[p0][k]
  <2>1. \A k \in 1 .. n - 1 : free[p0][k] \in Channels
    BY <1>3, ElementFacts DEF n
  <2>2. QED
    BY <1>3, <2>1, SubSeqFacts
<1>7. ch \in owned[p0] /\ wrs[ch] = 0
  BY <1>2, <1>3 DEF ChanInv, Disjoint, Accounted, n, ch
<1>8. \A q \in Pools : free'[q] \in Seq(Channels)
  BY <1>1, <1>2, <1>6 DEF ChanInv, Typed
<1>9. ASSUME NEW q \in Pools, NEW k \in 1 .. Len(free'[q])
      PROVE  k \in 1 .. Len(free[q]) /\ free'[q][k] = free[q][k] /\ free[q][k] # ch
  <2>1. CASE q = p0
    <3>1. free'[q] = SubSeq(free[p0], 1, n - 1)
      BY Zenon, <1>1, <2>1 DEF ChanInv, Typed
    <3>2. k \in 1 .. n - 1 /\ free'[q][k] = free[q][k] /\ k \in 1 .. n /\ k # n
      BY <1>3, <1>6, <2>1, <3>1
    <3>3. \A a, b \in 1 .. Len(free[q]) : free[q][a] = free[q][b] => a = b
      BY DEF ChanInv, Disjoint
    <3>4. QED
      BY <1>3, <2>1, <3>2, <3>3 DEF ch, n
  <2>2. CASE q # p0
    <3>1. free'[q] = free[q]
      BY <1>1, <2>2 DEF ChanInv, Typed
    <3>2. free[q][k] \in owned[q]
      BY <3>1 DEF ChanInv, Disjoint
    <3>3. QED
      BY <1>2, <1>7, <2>2, <3>1, <3>2 DEF ChanInv, Disjoint
  <2>3. QED
    BY <2>1, <2>2
<1>10. \A d \in Callers : \A i \in 1 .. Len(call[d].leased) : call[d].leased[i].ch # ch
  BY <1>2, <1>3 DEF ChanInv, Disjoint, ch, n
<1>11. /\ owned' \in [Pools -> SUBSET Channels] /\ ch \in owned'[p0]
       /\ \A p \in Pools : owned[p] \subseteq owned'[p]
       /\ \A p, q \in Pools : \A h \in owned'[p] : h \in owned'[q] => p = q
  <2>1. owned' = owned /\ owned \in [Pools -> SUBSET Channels]
    BY <1>1 DEF ChanInv, Typed
  <2>2. \A p, q \in Pools : \A h \in owned[p] : h \in owned[q] => p = q
    BY Zenon DEF ChanInv, Disjoint
  <2>3. QED
    BY <1>7, <2>1, <2>2
<1> HIDE DEF l
<1>12. Disjoint'
  BY <1>4, <1>5, <1>9, <1>10, <1>11, TakingDisjoint DEF CallMoves
<1>13. Accounted'
  BY Zenon, <1>1, <1>4, <1>5, <1>7, <1>9, TakingAccounts DEF CallMoves
<1>14. RestTyped'
  <2>1. free' \in [Pools -> Seq(Channels)]
    BY Zenon, <1>1, <1>8 DEF ChanInv, Typed
  <2>2. QED
    BY <1>1, <2>1, InvRestTyped DEF RestTyped
<1>15. \A p \in Pools : PoolCounted(p)'
  BY Zenon, <1>1, <1>4, QuietCount DEF CallMoves
<1>16. QED
  BY <1>4, <1>12, <1>13, <1>14, <1>15, Assemble

(* A connect that succeeds.                                                *)
LEMMA ConnectOkStep ==
  ASSUME ChanInv, NEW c \in Callers, ConnectOk(c)
  PROVE  ChanInv'
<1> DEFINE p0 == call[c].pool
<1>1. PICK ch \in Channels :
        /\ \A q \in Pools : ch \notin owned[q]
        /\ owned' = [owned EXCEPT ![p0] = @ \cup {ch}]
        /\ GoOn(c, {Holding(call[c], ch)})
  BY Zenon DEF ConnectOk
<1>2. UNCHANGED <<free, created, wrs, broken, lost>> /\ call[c].pc = "connect"
  BY DEF ConnectOk
<1>3. p0 \in Pools
  BY Zenon, <1>2 DEF ChanInv, CallOK, Leasing
<1> DEFINE l == [pool |-> p0, ch |-> ch, posted |-> 0]
<1>4. CallMoves(c) /\ Takes(call[c], call'[c], l) /\ call'[c].pc = "post"
  BY Zenon, <1>1, <1>2, HoldingMoves
<1>5. l.pool = p0 /\ l.ch = ch /\ l.posted = 0
  OBVIOUS
<1>6. /\ owned' \in [Pools -> SUBSET Channels] /\ ch \in owned'[p0]
      /\ \A p \in Pools : owned[p] \subseteq owned'[p]
      /\ \A p \in Pools : \A h \in owned'[p] : h \in owned[p] \/ (h = ch /\ p = p0)
  BY <1>1, <1>3 DEF ChanInv, Typed
<1>7. \A p, q \in Pools : \A h \in owned'[p] : h \in owned'[q] => p = q
  <2>1. \A p, q \in Pools : \A h \in owned[p] : h \in owned[q] => p = q
    BY Zenon DEF ChanInv, Disjoint
  <2>2. ASSUME NEW p \in Pools, NEW q \in Pools, NEW h \in owned'[p], h \in owned'[q]
        PROVE  p = q
    <3>1. h \in owned[p] \/ (h = ch /\ p = p0)
      BY <1>6
    <3>2. h \in owned[q] \/ (h = ch /\ q = p0)
      BY <1>6, <2>2
    <3>3. QED
      BY <1>1, <2>1, <3>1, <3>2
  <2>3. QED
    BY Zenon, <2>2
<1>8. wrs[ch] = 0
  BY <1>1 DEF ChanInv, Accounted
<1>9. \A d \in Callers : \A i \in 1 .. Len(call[d].leased) : call[d].leased[i].ch # ch
  <2>1. TAKE d \in Callers
  <2>2. TAKE i \in 1 .. Len(call[d].leased)
  <2>3. call[d].leased[i].pool \in Pools
    BY Zenon, LeasedFacts DEF ChanInv, Typed, Lease
  <2>4. call[d].leased[i].ch \in owned[call[d].leased[i].pool]
    BY DEF ChanInv, Disjoint
  <2>5. QED
    BY <1>1, <2>3, <2>4
<1>10. \A p \in Pools : \A k \in 1 .. Len(free'[p]) :
         k \in 1 .. Len(free[p]) /\ free'[p][k] = free[p][k] /\ free[p][k] # ch
  BY <1>1, <1>2 DEF ChanInv, Disjoint
<1> HIDE DEF l
<1>11. Disjoint'
  <2>1. call' \in [Callers -> CallRec] /\ OthersKeep(c)
    BY Zenon, <1>4 DEF CallMoves
  <2>2. l.ch \in owned'[l.pool]
    BY Zenon, <1>5, <1>6
  <2>3. \A d \in Callers : \A i \in 1 .. Len(call[d].leased) : call[d].leased[i].ch # l.ch
    BY Zenon, <1>5, <1>9
  <2>4. \A p \in Pools : \A k \in 1 .. Len(free'[p]) :
          k \in 1 .. Len(free[p]) /\ free'[p][k] = free[p][k] /\ free[p][k] # l.ch
    BY Zenon, <1>5, <1>10
  <2>5. QED
    BY Zenon, <1>4, <1>6, <1>7, <2>1, <2>2, <2>3, <2>4, TakingDisjoint
<1>12. Accounted'
  BY Zenon, <1>2, <1>4, <1>5, <1>6, <1>8, <1>10, TakingAccounts DEF CallMoves
<1>13. RestTyped'
  BY <1>2, <1>6, InvRestTyped DEF RestTyped
<1>14. \A p \in Pools : PoolCounted(p)'
  BY Zenon, <1>1, <1>2, <1>3, <1>4, ConnectOkCount DEF CallMoves
<1>15. QED
  BY <1>4, <1>11, <1>12, <1>13, <1>14, Assemble

(* Work requests are posted.                                               *)
LEMMA PostStep ==
  ASSUME ChanInv, NEW c \in Callers, NEW n \in 0 .. MaxOps, Post(c, n)
  PROVE  ChanInv'
<1> DEFINE k == Len(call[c].leased)
           ch == call[c].leased[k].ch
<1>1. /\ CallMoves(c) /\ Posts(call[c], call'[c], n)
      /\ call[c].pc = "post" /\ call'[c].pc # "connect"
  BY PostMoves
<1>2. UNCHANGED <<owned, free, created, broken, lost>> /\ wrs' = [wrs EXCEPT ![ch] = @ + n]
  BY DEF Post
<1>3. /\ k \in Nat /\ k # 0 /\ k \in 1 .. k /\ call[c].leased[k] \in Lease
      /\ call[c].leased[k].posted = 0
  <2>1. call[c] \in CallRec /\ k # 0 /\ call[c].leased[k].posted = 0
    BY Zenon, <1>1 DEF ChanInv, Typed, CallOK
  <2>2. k \in Nat
    BY <2>1, LeasedFacts
  <2>3. k \in 1 .. k
    BY <2>1, <2>2
  <2>4. QED
    BY <2>1, <2>2, <2>3, LeasedFacts
<1>4. ch \in Channels /\ wrs[ch] = 0 /\ n \in Nat /\ n <= MaxOps
  BY <1>3, ChannelAssumption DEF Lease, ChanInv, Accounted
<1> HIDE DEF ch
<1>5. /\ wrs' \in [Channels -> 0 .. MaxOps] /\ wrs'[ch] = n
      /\ \A h \in Channels : h # ch => wrs'[h] = wrs[h]
  BY <1>2, <1>4 DEF ChanInv, Typed
<1>6. Within(call[c], call'[c])
  BY <1>1, <1>3 DEF Within, Posts
<1>7. Disjoint'
  BY <1>1, <1>2, <1>6, WithinDisjoint DEF CallMoves
<1>8. Accounted'
  <2>1. ASSUME NEW d \in Callers, NEW i \in 1 .. Len(call'[d].leased)
        PROVE  wrs'[call'[d].leased[i].ch] = call'[d].leased[i].posted
    <3>1. CASE d = c /\ i = k
      BY Zenon, <1>1, <1>5, <3>1 DEF Posts, ch
    <3>2. CASE ~ (d = c /\ i = k)
      <4>1. /\ i \in 1 .. Len(call[d].leased)
            /\ call'[d].leased[i].ch = call[d].leased[i].ch
            /\ call'[d].leased[i].posted = call[d].leased[i].posted
        <5>1. CASE d = c
          BY <1>1, <3>2, <5>1 DEF Posts
        <5>2. CASE d # c
          BY <1>1, <5>2, OthersHold DEF CallMoves
        <5>3. QED
          BY <5>1, <5>2
      <4>2. call[d].leased[i].ch # ch
        BY <1>3, <3>2, <4>1 DEF ChanInv, Disjoint, ch
      <4>3. call[d].leased[i].ch \in Channels
        BY Zenon, <4>1, LeasedFacts DEF ChanInv, Typed, Lease
      <4>4. wrs[call[d].leased[i].ch] = call[d].leased[i].posted
        BY <4>1 DEF ChanInv, Accounted
      <4>5. QED
        BY <1>5, <4>1, <4>2, <4>3, <4>4
    <3>3. QED
      BY <3>1, <3>2
  <2>2. ASSUME NEW p \in Pools, NEW j \in 1 .. Len(free[p]) PROVE wrs'[free[p][j]] = 0
    <3>1. free[p][j] # ch /\ wrs[free[p][j]] = 0
      BY SMTT(30), <1>3 DEF ChanInv, Disjoint, Accounted, ch
    <3>2. free[p][j] \in Channels
      BY Zenon, ElementFacts DEF ChanInv, Typed
    <3>3. QED
      BY <1>5, <3>1, <3>2
  <2>3. ASSUME NEW h \in Channels, \A p \in Pools : h \notin owned[p] PROVE wrs'[h] = 0
    <3>1. ch \in owned[call[c].leased[k].pool] /\ call[c].leased[k].pool \in Pools
      BY <1>3 DEF ChanInv, Disjoint, Lease, ch
    <3>2. h # ch /\ wrs[h] = 0
      BY <2>3, <3>1 DEF ChanInv, Accounted
    <3>3. QED
      BY <1>5, <3>2
  <2>4. QED
    BY <1>2, <2>1, <2>2, <2>3 DEF Accounted
<1>9. RestTyped'
  BY <1>2, <1>5, InvRestTyped DEF RestTyped
<1>10. \A p \in Pools : PoolCounted(p)'
  BY <1>1, <1>2, QuietCount DEF CallMoves
<1>11. QED
  BY <1>1, <1>7, <1>8, <1>9, <1>10, Assemble

(* A channel that has been drained or destroyed has no work request, and   *)
(* the account of the others does not change.                              *)
LEMMA DrainingAccounts ==
  ASSUME ChanInv, NEW c \in Callers, OthersKeep(c), Drains(call[c], call'[c]),
         Len(call[c].leased) # 0, wrs' = [wrs EXCEPT ![call[c].leased[1].ch] = 0],
         \A p \in Pools : \A k \in 1 .. Len(free'[p]) :
           \/ free'[p][k] = call[c].leased[1].ch
           \/ k \in 1 .. Len(free[p]) /\ free'[p][k] = free[p][k],
         \A p \in Pools : \A h \in owned[p] : h \in owned'[p] \/ h = call[c].leased[1].ch
  PROVE  Accounted'
<1> DEFINE ch == call[c].leased[1].ch
<1>1. ch \in Channels /\ wrs'[ch] = 0 /\ \A h \in Channels : h # ch => wrs'[h] = wrs[h]
  BY Zenon, FirstLease DEF Lease, ChanInv, Typed
<1>2. ASSUME NEW d \in Callers, NEW i \in 1 .. Len(call'[d].leased)
      PROVE  wrs'[call'[d].leased[i].ch] = call'[d].leased[i].posted
  <2>1. PICK j \in 1 .. Len(call[d].leased) :
          /\ call'[d].leased[i] = call[d].leased[j] /\ call[d].leased[j].ch # ch
          /\ call[d].leased[j] \in Lease
    BY ONLY ChanInv, OthersKeep(c), Drains(call[c], call'[c]), Len(call[c].leased) # 0,
       c \in Callers, d \in Callers, i \in 1 .. Len(call'[d].leased), DrainingSource
  <2>2. call[d].leased[j].ch \in Channels
    BY Zenon, <2>1 DEF Lease
  <2>3. wrs[call[d].leased[j].ch] = call[d].leased[j].posted
    BY Zenon DEF ChanInv, Accounted
  <2> HIDE DEF ch
  <2>4. QED
    BY Zenon, <1>1, <2>1, <2>2, <2>3
<1>3. ASSUME NEW p \in Pools, NEW k \in 1 .. Len(free'[p]) PROVE wrs'[free'[p][k]] = 0
  <2>1. CASE free'[p][k] = ch
    BY <1>1, <2>1
  <2>2. CASE free'[p][k] # ch
    <3>1. k \in 1 .. Len(free[p]) /\ free'[p][k] = free[p][k]
      BY <2>2
    <3>2. free[p][k] \in Channels /\ wrs[free[p][k]] = 0
      BY Zenon, <3>1, ElementFacts DEF ChanInv, Typed, Accounted
    <3> HIDE DEF ch
    <3>3. QED
      BY <1>1, <2>2, <3>1, <3>2
  <2>3. QED
    BY <2>1, <2>2
<1>4. ASSUME NEW h \in Channels, \A p \in Pools : h \notin owned'[p] PROVE wrs'[h] = 0
  <2>1. CASE h = ch
    BY <1>1, <2>1
  <2>2. CASE h # ch
    <3>1. wrs[h] = 0
      BY <1>4, <2>2 DEF ChanInv, Accounted
    <3> HIDE DEF ch
    <3>2. QED
      BY <1>1, <2>2, <3>1
  <2>3. QED
    BY Zenon, <2>1, <2>2
<1>5. QED
  BY Zenon, <1>2, <1>3, <1>4 DEF Accounted

(* A channel goes back to the free list.                                   *)
LEMMA ReleaseStep ==
  ASSUME ChanInv, NEW c \in Callers, NEW err \in BOOLEAN, Release(c, err)
  PROVE  ChanInv'
<1> DEFINE l == Head(call[c].leased)
           f == call[c].leased[1]
<1>1. /\ call[c].pc = "drain" /\ UNCHANGED <<owned, created, lost>>
      /\ wrs' = [wrs EXCEPT ![l.ch] = @ - l.posted]
      /\ broken' = IF err THEN broken \cup {l.ch} ELSE broken
      /\ Returned(l.pool, l.ch)
      /\ GoOnNotifying(c, l.pool, Advanced([call[c] EXCEPT !.leased = Tail(call[c].leased)]))
  BY DEF Release, Returned
<1>2. /\ CallMoves(c) /\ Drains(call[c], call'[c]) /\ call'[c].pc # "connect"
      /\ Len(call[c].leased) # 0 /\ l = f /\ l \in Lease
  BY <1>1, DrainMoves
<1> HIDE DEF l
<1>3. wrs[f.ch] = f.posted /\ f \in Lease
  BY <1>2, FirstLease
<1>4. f.pool \in Pools /\ f.ch \in Channels /\ f.posted \in Int
  BY <1>3, ChannelAssumption DEF Lease
<1>5. wrs' = [wrs EXCEPT ![f.ch] = 0] /\ Returned(f.pool, f.ch)
  <2>1. wrs[f.ch] - f.posted = 0
    BY <1>3, <1>4
  <2>2. l.ch = f.ch /\ l.pool = f.pool /\ l.posted = f.posted
    BY <1>2
  <2> HIDE DEF f
  <2>3. wrs' = [wrs EXCEPT ![f.ch] = wrs[f.ch] - f.posted] /\ Returned(f.pool, f.ch)
    BY <1>1, <2>2
  <2>4. QED
    BY Zenon, <2>1, <2>3
<1>6. \A q \in Pools :
        /\ free'[q] \in Seq(Channels)
        /\ \A k \in 1 .. Len(free'[q]) :
             \/ k \in 1 .. Len(free[q]) /\ free'[q][k] = free[q][k]
             \/ q = f.pool /\ k = Len(free[q]) + 1 /\ free'[q][k] = f.ch
  BY <1>4, <1>5, ReleaseFreeList
<1>7. Disjoint'
  BY <1>1, <1>2, <1>5, ReleaseDisjoint DEF CallMoves
<1>8. Accounted'
  <2>1. \A p \in Pools : \A k \in 1 .. Len(free'[p]) :
          free'[p][k] = f.ch \/ (k \in 1 .. Len(free[p]) /\ free'[p][k] = free[p][k])
    BY <1>6
  <2>2. \A p \in Pools : \A h \in owned[p] : h \in owned'[p] \/ h = f.ch
    BY <1>1
  <2>3. QED
    BY Zenon, <1>2, <1>5, <2>1, <2>2, DrainingAccounts DEF CallMoves
<1>9. RestTyped'
  <2>1. wrs' \in [Channels -> 0 .. MaxOps]
    BY <1>4, <1>5, ChannelAssumption DEF ChanInv, Typed
  <2>2. free' \in [Pools -> Seq(Channels)]
    BY Zenon, <1>5, <1>6 DEF ChanInv, Typed, Returned
  <2>3. broken' \subseteq Channels
    BY <1>1, <1>2, <1>4 DEF ChanInv, Typed
  <2>4. QED
    BY <1>1, <2>1, <2>2, <2>3, InvRestTyped DEF RestTyped
<1>10. \A p \in Pools : PoolCounted(p)'
  BY <1>1, <1>2, QuietCount DEF CallMoves
<1>11. QED
  BY <1>2, <1>7, <1>8, <1>9, <1>10, Assemble

(* A broken channel is discarded.                                          *)
LEMMA DiscardStep ==
  ASSUME ChanInv, NEW c \in Callers, Discard(c)
  PROVE  ChanInv'
<1> DEFINE l == Head(call[c].leased)
           f == call[c].leased[1]
<1>1. /\ call[c].pc = "drain" /\ UNCHANGED <<free, lost>>
      /\ owned' = [owned EXCEPT ![l.pool] = @ \ {l.ch}]
      /\ created' = [created EXCEPT ![l.pool] = IF @ > 0 THEN @ - 1 ELSE @]
      /\ wrs' = [wrs EXCEPT ![l.ch] = 0]
      /\ broken' = broken \ {l.ch}
      /\ GoOnNotifying(c, l.pool, Advanced([call[c] EXCEPT !.leased = Tail(call[c].leased)]))
  BY DEF Discard
<1>2. /\ CallMoves(c) /\ Drains(call[c], call'[c]) /\ call'[c].pc # "connect"
      /\ Len(call[c].leased) # 0 /\ l = f /\ l \in Lease
  BY Zenon, <1>1, DrainMoves
<1> HIDE DEF l
<1>3. f \in Lease /\ f.ch \in owned[f.pool]
  BY <1>2, FirstLease
<1>4. f.pool \in Pools /\ f.ch \in Channels
  BY <1>3 DEF Lease
<1>5. /\ wrs' = [wrs EXCEPT ![f.ch] = 0]
      /\ owned' = [owned EXCEPT ![f.pool] = @ \ {f.ch}]
      /\ created' = [created EXCEPT ![f.pool] = IF @ > 0 THEN @ - 1 ELSE @]
  BY <1>1, <1>2
<1>6. Disjoint'
  BY Zenon, <1>1, <1>2, <1>5, DiscardDisjoint DEF CallMoves
<1>7. Accounted'
  <2>1. \A p \in Pools : \A k \in 1 .. Len(free'[p]) :
          free'[p][k] = f.ch \/ (k \in 1 .. Len(free[p]) /\ free'[p][k] = free[p][k])
    BY <1>1
  <2>2. \A p \in Pools : \A h \in owned[p] : h \in owned'[p] \/ h = f.ch
    BY Zenon, <1>5 DEF ChanInv, Typed
  <2>3. QED
    BY Zenon, <1>2, <1>5, <2>1, <2>2, DrainingAccounts DEF CallMoves
<1>8. RestTyped'
  <2>1. wrs' \in [Channels -> 0 .. MaxOps]
    BY <1>4, <1>5, ChannelAssumption DEF ChanInv, Typed
  <2>2. owned' \in [Pools -> SUBSET Channels] /\ broken' \subseteq Channels
    <3>1. owned \in [Pools -> SUBSET Channels] /\ broken \subseteq Channels
      BY DEF ChanInv, Typed
    <3>2. broken' \subseteq Channels
      BY <1>1, <3>1
    <3> DEFINE q == f.pool
               rest == owned[q] \ {f.ch}
    <3>3. owned' = [owned EXCEPT ![q] = rest] /\ q \in Pools
      BY <1>4, <1>5
    <3>4. rest \in SUBSET Channels
      BY <3>1, <3>3
    <3> HIDE DEF q, rest
    <3>5. owned' \in [Pools -> SUBSET Channels]
      BY <3>1, <3>3, <3>4
    <3>6. QED
      BY <3>2, <3>5
  <2>3. created' \in [Pools -> Int]
    <3> DEFINE m == IF created[f.pool] > 0 THEN created[f.pool] - 1 ELSE created[f.pool]
    <3>1. created \in [Pools -> Int]
      BY Zenon, InvRestTyped DEF RestTyped
    <3>2. m \in Int /\ created' = [created EXCEPT ![f.pool] = m]
      BY <1>4, <1>5, <3>1
    <3> HIDE DEF m
    <3>3. QED
      BY <3>1, <3>2
  <2>4. QED
    BY <1>1, <2>1, <2>2, <2>3, InvRestTyped DEF RestTyped
<1>9. \A p \in Pools : PoolCounted(p)'
  BY Zenon, <1>1, <1>2, <1>3, <1>4, <1>5, DiscardCount DEF CallMoves
<1>10. QED
  BY <1>2, <1>6, <1>7, <1>8, <1>9, Assemble

-----------------------------------------------------------------------------
(* The invariant, and the properties it carries.                           *)

(* There are no channels at first.                                         *)
LEMMA InitChanInv == ChanInit => ChanInv
<1> SUFFICES ASSUME ChanInit PROVE ChanInv
  OBVIOUS
<1>1. Idle \in CallRec /\ Len(Idle.leased) = 0 /\ Idle.pc = "idle" /\ Idle.kind = "none"
  <2>1. <<>> \in Seq(Lease) /\ Len(<<>>) = 0
    OBVIOUS
  <2>2. QED
    BY <2>1 DEF Idle, CallRec
<1>2. \A c \in Callers : call[c] = Idle
  BY DEF ChanInit
<1>3. \A p \in Pools : owned[p] = {} /\ created[p] = 0 /\ lost[p] = 0 /\ Len(free[p]) = 0
  BY DEF ChanInit
<1>4. \A p \in Pools : Connecting(p) = {}
  BY <1>1, <1>2 DEF Connecting
<1>5. Typed
  <2>1. call \in [Callers -> CallRec]
    BY <1>1 DEF ChanInit
  <2>2. free \in [Pools -> Seq(Channels)]
    <3>1. <<>> \in Seq(Channels)
      OBVIOUS
    <3>2. QED
      BY <3>1 DEF ChanInit
  <2>3. QED
    BY <2>1, <2>2, ChannelAssumption DEF Typed, ChanInit
<1>6. \A c \in Callers : CallOK(call[c])
  BY <1>1, <1>2 DEF CallOK, Leasing
<1>7. Disjoint
  BY <1>1, <1>2, <1>3 DEF Disjoint
<1>8. Accounted
  BY <1>1, <1>2, <1>3 DEF Accounted, ChanInit
<1>9. Counted
  <2>1. IsFiniteSet({}) /\ Cardinality({}) = 0
    BY FS_EmptySet
  <2>2. ASSUME NEW p \in Pools
        PROVE  /\ IsFiniteSet(owned[p]) /\ IsFiniteSet(Connecting(p))
               /\ created[p] = Cardinality(owned[p]) + Cardinality(Connecting(p)) + lost[p]
               /\ created[p] <= MaxChannels
    <3>1. owned[p] = {} /\ Connecting(p) = {} /\ created[p] = 0 /\ lost[p] = 0
      BY <1>3, <1>4
    <3>2. Cardinality(owned[p]) = 0 /\ Cardinality(Connecting(p)) = 0
      BY <2>1, <3>1
    <3>3. QED
      BY <2>1, <3>1, <3>2, ChannelAssumption
  <2>3. QED
    BY <2>2 DEF Counted, CapacityExact
<1>10. QED
  BY <1>5, <1>6, <1>7, <1>8, <1>9 DEF ChanInv

(* Every step of every caller keeps the channel invariant.                 *)
LEMMA StepChanInv == ChanInv /\ [ChanNext]_chanVars => ChanInv'
<1> SUFFICES ASSUME ChanInv, [ChanNext]_chanVars PROVE ChanInv'
  OBVIOUS
<1>1. CASE UNCHANGED chanVars
  <2>1. UNCHANGED <<owned, free, created, wrs, broken, call, lost>>
    BY <1>1 DEF chanVars
  <2>2. Typed'
    BY <2>1 DEF ChanInv, Typed
  <2>3. Disjoint'
    <3>1. \A c, d \in Callers :
            \A i \in 1 .. Len(call'[c].leased), j \in 1 .. Len(call'[d].leased) :
              call'[c].leased[i].ch = call'[d].leased[j].ch => c = d /\ i = j
      BY <2>1 DEF ChanInv, Disjoint
    <3>2. \A c \in Callers : \A i \in 1 .. Len(call'[c].leased) :
            /\ call'[c].leased[i].ch \in owned'[call'[c].leased[i].pool]
            /\ \A p \in Pools : \A k \in 1 .. Len(free'[p]) : free'[p][k] # call'[c].leased[i].ch
      BY <2>1 DEF ChanInv, Disjoint
    <3>3. /\ \A p, q \in Pools : \A ch \in owned'[p] : ch \in owned'[q] => p = q
          /\ \A p \in Pools : \A k \in 1 .. Len(free'[p]) : free'[p][k] \in owned'[p]
      BY <2>1 DEF ChanInv, Disjoint
    <3>4. \A p \in Pools : \A k, m \in 1 .. Len(free'[p]) : free'[p][k] = free'[p][m] => k = m
      BY <2>1 DEF ChanInv, Disjoint
    <3>5. QED
      BY <3>1, <3>2, <3>3, <3>4, Zenon DEF Disjoint
  <2>4. Accounted'
    BY <2>1, Zenon DEF ChanInv, Accounted
  <2>5. Counted' /\ \A c \in Callers : CallOK(call[c])'
    BY <2>1, Zenon DEF ChanInv, Counted, CapacityExact, Connecting
  <2>6. QED
    BY <2>2, <2>3, <2>4, <2>5 DEF ChanInv
<1>2. ASSUME NEW c \in Callers, Begin(c) PROVE ChanInv'
  BY <1>2, BeginStep
<1>3. ASSUME NEW c \in Callers, SpuriousWake(c) PROVE ChanInv'
  BY <1>3, WaitStep
<1>4. ASSUME NEW c \in Callers, CallStep(c) PROVE ChanInv'
  <2>1. CASE LeaseFree(c)
    BY <2>1, LeaseFreeStep
  <2>2. CASE LeaseReserve(c)
    BY <2>2, ReserveStep
  <2>3. CASE LeaseWait(c)
    BY <2>3, WaitStep
  <2>4. CASE ConnectOk(c)
    BY <2>4, ConnectOkStep
  <2>5. CASE ConnectFails(c)
    BY <2>5, ConnectFailsStep
  <2>6. CASE ConnectThrows(c)
    BY <2>6, ConnectThrowsStep
  <2>7. CASE \E n \in 0 .. MaxOps : Post(c, n)
    BY <2>7, PostStep
  <2>8. CASE \E err \in BOOLEAN : Release(c, err)
    BY <2>8, ReleaseStep
  <2>9. CASE Discard(c)
    BY <2>9, DiscardStep
  <2>10. QED
    BY <1>4, <2>1, <2>2, <2>3, <2>4, <2>5, <2>6, <2>7, <2>8, <2>9 DEF CallStep
<1>5. QED
  BY <1>1, <1>2, <1>3, <1>4 DEF ChanNext

(* However calls, handshakes, failures and drains interleave, the records  *)
(* of the calls, the free lists, the owned channels and the counters of    *)
(* ConnectionManager stay consistent with each other.                      *)
THEOREM ChanInvariance == ChanSpec => []ChanInv
  BY InitChanInv, StepChanInv, PTL DEF ChanSpec

(* The state of the connection manager has its type: no counter of a       *)
(* pool passes the cap or goes below zero, and no channel has more work    *)
(* requests in flight than one call may post.                              *)
THEOREM ChanTypeCorrect == ChanSpec => []ChanTypeOK
<1>1. ChanInv => ChanTypeOK
  <2> SUFFICES ASSUME ChanInv, NEW c \in Callers
               PROVE  /\ call[c].pc \in {"idle", "lease", "wait", "connect", "post", "drain"}
                      /\ call[c].kind \in {"none", "multi", "single"}
                      /\ call[c].todo \subseteq Pools
                      /\ call[c].pool \in Pools \cup {NoPool}
                      /\ call[c].leased \in Seq([pool : Pools, ch : Channels,
                                                 posted : 0 .. MaxOps])
    BY Zenon DEF ChanInv, Typed, ChanTypeOK
  <2>1. call[c] \in CallRec
    BY DEF ChanInv, Typed
  <2>2. QED
    BY <2>1 DEF CallRec, Lease
<1>2. QED
  BY <1>1, ChanInvariance, PTL

(* lease hands a channel to one call at a time, whatever the number of     *)
(* callers and pools: no channel is held twice, and none that is held is   *)
(* on a free list or destroyed.                                            *)
THEOREM LeasesExclusive == ChanSpec => []LeaseExclusive
<1>1. ChanInv => LeaseExclusive
  <2> SUFFICES ASSUME ChanInv PROVE LeaseExclusive
    OBVIOUS
  <2>1. \A c \in Callers : DOMAIN call[c].leased = 1 .. Len(call[c].leased)
    <3> TAKE c \in Callers
    <3>1. call[c].leased \in Seq(Lease)
      BY DEF ChanInv, Typed, CallRec
    <3>2. QED
      BY <3>1, LenFacts
  <2>2. \A p \in Pools : /\ free[p] \in Seq(Channels)
                         /\ DOMAIN free[p] = 1 .. Len(free[p])
    BY LenFacts DEF ChanInv, Typed
  <2>3. ASSUME NEW c \in Callers PROVE Cardinality(Held(c)) = Len(call[c].leased)
    <3> DEFINE n == Len(call[c].leased)
               h == [i \in 1 .. n |-> call[c].leased[i].ch]
    <3>1. n \in Nat /\ \A i \in 1 .. n : call[c].leased[i].ch \in Channels
      BY Zenon, LeasedFacts DEF ChanInv, Typed, Lease
    <3>2. h \in Seq(Channels) /\ Len(h) = n /\ DOMAIN h = 1 .. n
      BY <3>1, FunctionIsSeq, LenFacts
    <3>3. \A i, j \in DOMAIN h : h[i] = h[j] => i = j
      BY DEF ChanInv, Disjoint
    <3>4. Range(h) = Held(c)
      BY Zenon, <2>1 DEF Range, Held
    <3> HIDE DEF h
    <3>5. QED
      BY <3>2, <3>3, <3>4, DistinctSeqSize
  <2>4. ASSUME NEW c \in Callers, NEW i \in DOMAIN call[c].leased
        PROVE  /\ call[c].leased[i].ch \in owned[call[c].leased[i].pool]
               /\ call[c].leased[i].ch \notin Range(free[call[c].leased[i].pool])
    <3>1. call[c].leased[i].pool \in Pools
      BY Zenon, <2>1, LeasedFacts DEF ChanInv, Typed, Lease
    <3>2. /\ call[c].leased[i].ch \in owned[call[c].leased[i].pool]
          /\ \A p \in Pools : \A k \in 1 .. Len(free[p]) : free[p][k] # call[c].leased[i].ch
      BY <2>1 DEF ChanInv, Disjoint
    <3>3. \A k \in DOMAIN free[call[c].leased[i].pool] :
            free[call[c].leased[i].pool][k] # call[c].leased[i].ch
      BY <2>2, <3>1, <3>2
    <3>4. QED
      BY Zenon, <3>2, <3>3 DEF Range
  <2>5. ASSUME NEW c \in Callers, NEW d \in Callers \ {c} PROVE Held(c) \cap Held(d) = {}
    <3>1. \A i \in 1 .. Len(call[c].leased), j \in 1 .. Len(call[d].leased) :
            call[c].leased[i].ch # call[d].leased[j].ch
      BY Zenon DEF ChanInv, Disjoint
    <3>2. QED
      BY Zenon, <2>1, <3>1 DEF Held
  <2>6. ASSUME NEW p \in Pools
        PROVE  Range(free[p]) \subseteq owned[p] /\ Cardinality(Range(free[p])) = Len(free[p])
    <3>1. Range(free[p]) \subseteq owned[p]
      BY <2>2 DEF ChanInv, Disjoint, Range
    <3>2. \A i, j \in DOMAIN free[p] : free[p][i] = free[p][j] => i = j
      BY <2>2 DEF ChanInv, Disjoint
    <3>3. QED
      BY <2>2, <3>1, <3>2, DistinctSeqSize
  <2>7. QED
    BY <2>3, <2>4, <2>5, <2>6 DEF LeaseExclusive
<1>2. QED
  BY <1>1, ChanInvariance, PTL

(* release and discard keep the completions of one call from the next: a   *)
(* channel on a free list has no work request in flight.                   *)
THEOREM FreeChannelsQuiet == ChanSpec => []FreeIsQuiet
<1>1. ChanInv => FreeIsQuiet
  <2> SUFFICES ASSUME ChanInv, NEW p \in Pools, NEW ch \in Range(free[p])
               PROVE  wrs[ch] = 0
    BY DEF FreeIsQuiet
  <2>1. free[p] \in Seq(Channels)
    BY DEF ChanInv, Typed
  <2>2. PICK k \in DOMAIN free[p] : ch = free[p][k]
    BY DEF Range
  <2>3. k \in 1 .. Len(free[p])
    BY <2>1, <2>2, LenFacts
  <2>4. QED
    BY <2>2, <2>3 DEF ChanInv, Accounted
<1>2. QED
  BY <1>1, ChanInvariance, PTL

(* created counts the channels, the handshakes under way and what a        *)
(* throwing create left behind, exactly, and stays within the cap.         *)
THEOREM CapacityCounted == ChanSpec => []CapacityExact
<1>1. ChanInv => CapacityExact
  BY DEF ChanInv, Counted
<1>2. QED
  BY <1>1, ChanInvariance, PTL

(* A transfer call that waits for a pool holds only channels of pools that *)
(* come before it in the map's order, so calls never wait in a ring.       *)
THEOREM LeasesInOrder == ChanSpec => []WaitsInOrder
<1>1. ChanInv => WaitsInOrder
  <2> SUFFICES ASSUME ChanInv, NEW c \in Callers, call[c].pc \in {"lease", "wait", "connect"},
                      NEW i \in DOMAIN call[c].leased
               PROVE  call[c].leased[i].pool < call[c].pool
    BY DEF WaitsInOrder
  <2>1. call[c] \in CallRec /\ CallOK(call[c]) /\ call[c].leased \in Seq(Lease)
    BY DEF ChanInv, Typed, CallRec
  <2>2. i \in 1 .. Len(call[c].leased) /\ Len(call[c].leased) \in Nat
    BY <2>1, LenFacts
  <2>3. call[c].kind \in {"none", "multi", "single"}
    BY <2>1 DEF CallRec
  <2>4. call[c].kind # "single"
    BY <2>1, <2>2 DEF CallOK, Leasing
  <2>5. call[c].kind = "multi"
    BY <2>1, <2>3, <2>4 DEF CallOK
  <2>6. QED
    BY <2>1, <2>2, <2>5 DEF CallOK, Leasing
<1>2. QED
  BY <1>1, ChanInvariance, PTL
=============================================================================
