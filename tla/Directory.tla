----------------------------- MODULE Directory -----------------------------
(***************************************************************************)
(* The sharded, replicated directory (python/peercache/directory.py) as    *)
(* the threads of one node use it: the ring says which nodes own a key, a  *)
(* put or delete goes to each of them and a get or exists to the first,    *)
(* one call per node, over the pooled sockets of Rpc.                      *)
(*                                                                         *)
(* Any thread may put, delete and look up any key; its calls to the owners *)
(* of a key interleave with those of the others.  (Threads of other nodes  *)
(* do the same with sockets of their own.)                                 *)
(*                                                                         *)
(* The membership is fixed.  A setting, chosen at the start, says which    *)
(* operations each thread uses, with which batches, which nodes are down   *)
(* for the whole behaviour and what goes wrong: "cut" (a server closes an  *)
(* idle socket) or "late" (an answer takes longer than the timeout, and    *)
(* the request may be run any time later).                                 *)
(***************************************************************************)
EXTENDS Rpc, HashRing

CONSTANTS
  Keys,
  Locs,       \* the locations that are put
  NoEntry,
  Replicas,   \* directory_replicas
  Batches,    \* the key sequences of an operation
  Settings    \* records of ops, batches, down and faults

Values == Locs \cup {NoEntry}

(* What a node is asked, and what it answers: with what the answer is for, *)
(* and the whole of the shard, of which the caller uses its keys.          *)
Requests == [op : {"put", "delete", "get", "exists"}, keys : SUBSET Keys, val : Values]
Answers == [to : Requests, locs : [Keys -> Values]]

ASSUME DirectoryAssumption ==
  /\ IsFiniteSet(Servers) /\ Servers \subseteq DOMAIN Points
  /\ Error \notin Answers
  /\ Replicas \in Nat \ {0}
  /\ Batches \subseteq Seq(Keys) \ {<<>>}
  /\ Settings \subseteq [ops : [Callers -> SUBSET {"put", "delete", "get", "exists"}],
                         batches : SUBSET Batches, down : SUBSET Servers,
                         faults : SUBSET {"cut", "late"}]

VARIABLES
  shard,    \* _store of each node's DirectoryServer
  th,       \* the directory operation each thread is in
  want,     \* what the last operation on each key was to leave behind
  torn,     \* the keys whose last operation met another (no code reads it)
  setting

directoryVars == <<rpcVars, shard, th, want, torn, setting>>

Nothing == [k \in Keys |-> NoEntry]

(* plan: the calls still to make, each with the nodes to try; found: what  *)
(* a lookup has found; calm: the keys nothing was written to meanwhile.    *)
Idle == [op |-> "none", keys |-> <<>>, plan |-> <<>>, val |-> NoEntry, found |-> Nothing, calm |-> {}]

DirectoryInit ==
  /\ RpcInit
  /\ setting \in Settings
  /\ shard = [n \in Servers |-> Nothing]
  /\ th = [t \in Callers |-> Idle]
  /\ want = Nothing
  /\ torn = {}

Elements(s) == {s[i] : i \in DOMAIN s}

-----------------------------------------------------------------------------
(* The calls of an operation, in order.                                    *)

(* _owners, for every key.                                                 *)
OwnersOf == [k \in Keys |-> GetNodes(Servers, k, Replicas)]

Owners(k) == OwnersOf[k]

(* The different elements of a sequence of nodes, in order.                *)
Distinct(s) == FirstDistinct(s, Len(s))

(* put and delete: a call to every node that owns one of the keys.         *)
Fanout(keys) ==
  LET all == Distinct(Joined([i \in DOMAIN keys |-> Owners(keys[i])]))
  IN  [i \in DOMAIN all |->
         [cands |-> <<all[i]>>, keys |-> {k \in Elements(keys) : all[i] \in Elements(Owners(k))}]]

(* As Candidates, with the first owner alone for a get too.                *)
CandidatesPrimary(op, k) == <<Head(Owners(k))>>

(* _get_from_owner falls back to the other owners of the group's first key.*)
Candidates(op, k) == IF op = "get" THEN Owners(k) ELSE <<Head(Owners(k))>>

(* _group_by_owner: the keys that have the same first owner go together.   *)
Grouped(op, keys) ==
  LET known    == {i \in DOMAIN keys : Owners(keys[i]) # <<>>}
      owner(i) == Head(Owners(keys[i]))
      first    == Ascending({i \in known : \A j \in known : j < i => owner(j) # owner(i)})
  IN  [m \in DOMAIN first |->
         [cands |-> Candidates(op, keys[first[m]]),
          keys |-> {keys[i] : i \in {j \in known : owner(j) = owner(first[m])}}]]

(* Thread t is changing the entry of k.                                    *)
Writes(t, k) == th[t].op \in {"put", "delete"} /\ k \in Elements(th[t].keys)

Mutate(t, op, keys, val) ==
  /\ op \in setting.ops[t]
  /\ th[t] = Idle
  /\ th' = [u \in Callers |->
              IF u = t THEN [Idle EXCEPT !.op = op, !.keys = keys, !.val = val, !.plan = Fanout(keys)]
              ELSE [th[u] EXCEPT !.calm = @ \ Elements(keys)]]
  /\ want' = [k \in Keys |-> IF k \in Elements(keys) THEN val ELSE want[k]]
  /\ torn' = (torn \ Elements(keys)) \cup {k \in Elements(keys) : \E u \in Callers : Writes(u, k)}
  /\ UNCHANGED <<rpcVars, shard, setting>>

LookUp(t, op, keys) ==
  /\ op \in setting.ops[t]
  /\ th[t] = Idle
  /\ th' = [th EXCEPT ![t] = [Idle EXCEPT !.op = op, !.keys = keys, !.plan = Grouped(op, keys),
              !.calm = {k \in Elements(keys) \ torn : \A u \in Callers : ~ Writes(u, k)}]]
  /\ UNCHANGED <<rpcVars, shard, want, torn, setting>>

Issue(t) ==
  /\ th[t].plan # <<>>
  /\ LET step == Head(th[t].plan)
     IN  CallBegins(t, Head(step.cands), [op |-> th[t].op, keys |-> step.keys, val |-> th[t].val])
  /\ UNCHANGED <<shard, th, want, torn, setting>>

(* A call is over.  A lookup that failed goes on with the next node, a put *)
(* or delete that failed is left at that.                                  *)
Answered(t) ==
  /\ call[t].pc = "done"
  /\ LET step == Head(th[t].plan)
         got  == call[t].got
         more == Len(step.cands) > 1 /\ got = Error
     IN  th' = [th EXCEPT ![t].plan = IF more THEN <<[step EXCEPT !.cands = Tail(step.cands)]>> \o Tail(@)
                                      ELSE Tail(@),
                          ![t].found = IF got = Error \/ th[t].op # "get" THEN @
                                       ELSE [k \in Keys |-> IF k \in step.keys
                                                            THEN got.locs[k] ELSE @[k]]]
  /\ call' = [call EXCEPT ![t] = NoCall]
  /\ UNCHANGED <<sock, idle, shard, want, torn, setting>>

Return(t) ==
  /\ th[t] # Idle
  /\ th[t].plan = <<>>
  /\ th' = [th EXCEPT ![t] = Idle]
  /\ UNCHANGED <<rpcVars, shard, want, torn, setting>>

-----------------------------------------------------------------------------
(* The handlers of DirectoryServer, each under the shard's lock.           *)

Handle(s) ==
  /\ sock[s].inbox # <<>>
  /\ LET req == Head(sock[s].inbox)
         n   == s[1]
     IN  /\ Serve(s, [to |-> req, locs |-> shard[n]])
         /\ shard' = IF req.op \in {"get", "exists"} THEN shard
                     ELSE [shard EXCEPT ![n] = [k \in Keys |->
                             IF k \in req.keys THEN req.val ELSE @[k]]]
  /\ UNCHANGED <<th, want, torn, setting>>

Network(t) ==
  /\ \/ Send(t, call[t].to \notin setting.down)
     \/ Receive(t)
     \/ "late" \in setting.faults /\ TimesOut(t)
  /\ UNCHANGED <<shard, th, want, torn, setting>>

SocketCut ==
  /\ "cut" \in setting.faults
  /\ \E n \in Servers, i \in 1 .. MaxIdle : CutIdle(n, i)
  /\ UNCHANGED <<shard, th, want, torn, setting>>

DirectoryNext ==
  \/ \E t \in Callers :
       \/ \E keys \in setting.batches :
            \/ \E v \in Locs : Mutate(t, "put", keys, v)
            \/ Mutate(t, "delete", keys, NoEntry)
            \/ \E op \in {"get", "exists"} : LookUp(t, op, keys)
       \/ Issue(t) \/ Network(t) \/ Answered(t) \/ Return(t)
  \/ \E s \in Socks : Handle(s)
  \/ SocketCut

DirectorySpec == DirectoryInit /\ [][DirectoryNext]_directoryVars

-----------------------------------------------------------------------------
(* Properties.                                                             *)

Timely == "late" \notin setting.faults

UpOwners(k) == Elements(Owners(k)) \ setting.down

(* When answers come in time the shards act as one map in which a key has  *)
(* one writer at a time: while nobody is changing the entry of a key, every*)
(* owner that is up has what the last put or delete left, although idle    *)
(* sockets were closed under it (the second attempt of a call makes up for *)
(* that) and other owners are down.  Two operations on a key that overlap  *)
(* may reach its owners in different orders; what they leave different the *)
(* next one that meets no other repairs.                                   *)
ShardsAreOneMap ==
  Timely =>
    \A k \in Keys \ torn : (\A t \in Callers : ~ Writes(t, k)) =>
      \A n \in UpOwners(k) : shard[n][k] = want[k]

(* "writes each entry to the next N owners" (docs/architecture.md): while  *)
(* nobody is changing the entry of a key, its owners that are up agree.    *)
OwnersAgree ==
  Timely =>
    \A k \in Keys : (\A t \in Callers : ~ Writes(t, k)) =>
      \A n, m \in UpOwners(k) : shard[n][k] = shard[m][k]

(* The key at position i of a batch is the first of its group.             *)
LeadsGroup(keys, i) ==
  \A j \in 1 .. (i - 1) : Head(Owners(keys[j])) # Head(Owners(keys[i]))

(* "reads fall back through replicas" (docs/architecture.md): a get finds  *)
(* an entry nothing is being written to, as long as one of the nodes that  *)
(* own it is up, if its key is the first of those that share a first owner *)
(* (a batch falls back to the owners of that key only).                    *)
ReadsFallBack ==
  Timely => \A t \in Callers :
    th[t].op = "get" /\ th[t].plan = <<>> =>
      \A i \in DOMAIN th[t].keys :
        LET k == th[t].keys[i]
        IN  k \in th[t].calm /\ LeadsGroup(th[t].keys, i) /\ UpOwners(k) # {}
              => th[t].found[k] = want[k]
=============================================================================
