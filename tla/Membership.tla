----------------------------- MODULE Membership -----------------------------
(***************************************************************************)
(* Discovery (python/peercache/discovery.py) and what a node does with it  *)
(* (NodeRuntime in server.py): every host runs a registry, some hosts are  *)
(* masters, each node sends its heartbeats to the masters and the seeds,   *)
(* merges the memberships it gets back, and re-publishes its pages in the  *)
(* directory when the set of members has changed.                          *)
(*                                                                         *)
(* There is one node per host, and one page per publishing node, which the *)
(* directory keeps at the first node of the ring.  Time passes in ticks of *)
(* one heartbeat interval: in every tick the loop of each running node     *)
(* gets to one round, unless a call holds it up.                           *)
(*                                                                         *)
(* A setting, chosen at the start, says whether the cluster is yet to      *)
(* "boot" or established, and which faults there are: "crash", "stop" (a   *)
(* call of NodeRuntime.stop), "quick" (a node may be started again before  *)
(* it is forgotten everywhere), "moved" (it then has other ports, as with  *)
(* control_port = 0; the port of the registries is the same on all hosts)  *)
(* and "hang" (a call to a host that is down fails only after the timeout  *)
(* of its two attempts).                                                   *)
(***************************************************************************)
EXTENDS HashRing

CONSTANTS
  Nodes,       \* the nodes, numbered in the order of their host names
  Seeds,       \* discovery_addr, a sequence of nodes
  MaxMasters,  \* max_masters
  TTL,         \* member_ttl, in heartbeat intervals
  Hang,        \* how long an unanswered call takes, in heartbeat intervals
  Publishers,  \* the nodes that publish a page
  Settings,    \* sets of the words above
  MaxFaults    \* bound: the nodes that crash or are stopped, each once

ASSUME MembershipAssumption ==
  /\ Nodes \subseteq Nat /\ IsFiniteSet(Nodes)
  /\ Seeds \in Seq(Nodes) \ {<<>>}
  /\ {MaxMasters, TTL, Hang} \subseteq Nat \ {0}
  /\ Publishers \subseteq Nodes
  /\ Settings \subseteq SUBSET {"boot", "crash", "stop", "quick", "moved", "hang"}
  /\ MaxFaults \in Nat

VARIABLES
  st,       \* down, starting (_register_blocking), up, stopping or stopped
  reg,      \* the members in a host's registry: each one's age and ports
  view,     \* _members of the DiscoveryClient, each one's ports; its keys
            \* are the nodes of the ring
  ports,    \* the ports a node listens on, numbered
  loop,     \* the thread of _loop, or start's of _register_blocking
  bye,      \* the masters stop has not called yet
  page,     \* the nodes that have published their page
  due,      \* the nodes that have to put their page into the directory
  shard,    \* the pages listed in each node's shard
  failed,   \* the nodes that crashed or were stopped so far
  setting

vars == <<st, reg, view, ports, loop, bye, page, due, shard, failed, setting>>

Nobody == [n \in {} |-> 0]

(* todo, merged and reached: the locals of the thread; wait: the ticks     *)
(* until its call fails.                                                   *)
Loop(pc, todo) == [pc |-> pc, todo |-> todo, merged |-> Nobody, reached |-> FALSE, wait |-> 0]

NoLoop == Loop("none", <<>>)
Asleep == Loop("sleep", <<>>)

Serving(n) == st[n] \in {"starting", "up", "stopping"}

-----------------------------------------------------------------------------
(* The registry of a host.                                                 *)

(* _prune, at the end of every handler but _on_deregister.                 *)
Prune(r) == [n \in {m \in DOMAIN r : r[m].age <= TTL} |-> r[n]]

(* A heartbeat of a member: what was registered of it is kept.             *)
Refreshed(r, n) == [r EXCEPT ![n].age = 0]

Registered(r, n) ==
  [m \in DOMAIN r \cup {n} |-> IF m = n THEN [age |-> 0, ports |-> ports[n]] ELSE r[m]]

(* merged, with what one more registry answers.                            *)
Merged(merged, r) ==
  [m \in DOMAIN merged \cup DOMAIN r |-> IF m \in DOMAIN r THEN r[m].ports ELSE merged[m]]

-----------------------------------------------------------------------------
(* Who the masters are.                                                    *)

(* _masters_from: the seeds that are members, then the others in order.    *)
MastersFrom(members) ==
  LET heads  == SelectSeq(Seeds, LAMBDA h : h \in members)
      others == Ascending(members \ {heads[i] : i \in DOMAIN heads})
      all    == heads \o others
  IN  SubSeq(all, 1, IF Len(all) < MaxMasters THEN Len(all) ELSE MaxMasters)

(* _targets, for every membership.                                         *)
TargetsOf ==
  [v \in SUBSET Nodes |->
     LET all == Seeds \o MastersFrom(v) IN FirstDistinct(all, Len(all))]

Targets(n) == TargetsOf[DOMAIN view[n]]

(* _owners with one replica: who n takes for the owner of its page.        *)
Owner(n) == GetNode(DOMAIN view[n], n)

-----------------------------------------------------------------------------
(* Nothing has been started, or all nodes are up, all masters know it and  *)
(* all pages are listed.                                                   *)
Init ==
  /\ setting \in Settings
  /\ LET new     == "boot" \in setting
         masters == {MastersFrom(Nodes)[i] : i \in DOMAIN MastersFrom(Nodes)}
     IN  /\ st = [n \in Nodes |-> IF new THEN "down" ELSE "up"]
         /\ reg = [h \in Nodes |-> IF new \/ h \notin masters THEN Nobody
                                   ELSE [n \in Nodes |-> [age |-> 0, ports |-> 0]]]
         /\ view = [n \in Nodes |-> IF new THEN Nobody ELSE [m \in Nodes |-> 0]]
         /\ loop = [n \in Nodes |-> IF new THEN NoLoop ELSE Asleep]
         /\ page = IF new THEN {} ELSE Publishers
         /\ shard = [n \in Nodes |-> {p \in page : GetNode(Nodes, p) = n}]
  /\ ports = [n \in Nodes |-> 0]
  /\ bye = [n \in Nodes |-> <<>>]
  /\ due = {}
  /\ failed = {}

-----------------------------------------------------------------------------
(* A round: one call after the other to the targets, then the merged       *)
(* membership is applied.                                                  *)

(* Nothing is left of an earlier run of the node: no registry would list   *)
(* it, no node has it in its members or in the answers it is merging.      *)
Forgotten(n) ==
  \A m \in Nodes : n \notin DOMAIN Prune(reg[m]) \cup DOMAIN view[m] \cup DOMAIN loop[m].merged

Start(n) ==
  /\ st[n] = "down"
  /\ "quick" \in setting \/ Forgotten(n)
  /\ ports' = IF "moved" \in setting THEN [ports EXCEPT ![n] = @ + 1] ELSE ports
  /\ st' = [st EXCEPT ![n] = "starting"]
  /\ loop' = [loop EXCEPT ![n] = Loop("register", Targets(n))]
  /\ UNCHANGED <<reg, view, bye, page, due, shard, failed, setting>>

Callee(n) == Head(loop[n].todo)

(* The thread is at a call of this kind, and the host answers.             *)
Calls(n, pc) == loop[n].pc = pc /\ loop[n].todo # <<>> /\ Serving(Callee(n))

(* On to the next target.                                                  *)
Advance(n, l) ==
  [l EXCEPT !.todo = Tail(@), !.pc = IF st[n] = "starting" THEN "register" ELSE "heartbeat"]

Heartbeat(n) ==
  /\ Calls(n, "heartbeat")
  /\ LET h     == Callee(n)
         known == n \in DOMAIN reg[h]
     IN  /\ reg' = [reg EXCEPT ![h] = Prune(IF known THEN Refreshed(@, n) ELSE @)]
         /\ loop' = [loop EXCEPT ![n].reached = TRUE,
                                 ![n].pc = IF known THEN "members" ELSE "register"]
  /\ UNCHANGED <<st, view, ports, bye, page, due, shard, failed, setting>>

(* As Members, forgetting what the hosts before this one answered.         *)
MembersLast(n) ==
  /\ Calls(n, "members")
  /\ reg' = [reg EXCEPT ![Callee(n)] = Prune(@)]
  /\ loop' = [loop EXCEPT ![n] = [Advance(n, @) EXCEPT !.merged = Merged(Nobody, Prune(reg[Callee(n)]))]]
  /\ UNCHANGED <<st, view, ports, bye, page, due, shard, failed, setting>>

Members(n) ==
  /\ Calls(n, "members")
  /\ reg' = [reg EXCEPT ![Callee(n)] = Prune(@)]
  /\ loop' = [loop EXCEPT ![n] = [Advance(n, @) EXCEPT !.merged = Merged(@, Prune(reg[Callee(n)]))]]
  /\ UNCHANGED <<st, view, ports, bye, page, due, shard, failed, setting>>

(* _register_one, in register and in _loop.                                *)
Register(n) ==
  /\ Calls(n, "register")
  /\ LET r == Prune(Registered(reg[Callee(n)], n))
     IN  /\ reg' = [reg EXCEPT ![Callee(n)] = r]
         /\ loop' = [loop EXCEPT ![n] = [Advance(n, @) EXCEPT !.merged = Merged(@, r),
                                                              !.reached = TRUE]]
  /\ UNCHANGED <<st, view, ports, bye, page, due, shard, failed, setting>>

(* The host does not answer: the call fails, at once or after its timeouts.*)
Unanswered(n) ==
  /\ loop[n].todo # <<>>
  /\ \/ /\ loop[n].pc # "hang"
        /\ ~ Serving(Callee(n))
        /\ loop' = [loop EXCEPT ![n] = IF "hang" \in setting
                                       THEN [@ EXCEPT !.pc = "hang", !.wait = Hang]
                                       ELSE Advance(n, @)]
     \/ /\ loop[n].pc = "hang"
        /\ loop[n].wait = 0
        /\ loop' = [loop EXCEPT ![n] = Advance(n, @)]
  /\ UNCHANGED <<st, reg, view, ports, bye, page, due, shard, failed, setting>>

(* _on_members: with other members the node has its page to put again; a   *)
(* member with other ports is no change.                                   *)
OnMembers(n) ==
  due' = IF n \in page /\ DOMAIN view'[n] # DOMAIN view[n] THEN due \cup {n} ELSE due

(* As Apply, without re-publishing.                                        *)
ApplyQuietly(n) ==
  /\ loop[n].pc \notin {"none", "sleep"}
  /\ loop[n].todo = <<>>
  /\ LET l == loop[n]
     IN  /\ view' = IF l.merged = Nobody THEN view ELSE [view EXCEPT ![n] = l.merged]
         /\ due' = due
         /\ st' = IF st[n] = "starting" /\ l.reached THEN [st EXCEPT ![n] = "up"] ELSE st
         /\ loop' = [loop EXCEPT ![n] = IF st[n] \in {"starting", "up"} THEN Asleep ELSE NoLoop]
  /\ UNCHANGED <<reg, ports, bye, page, shard, failed, setting>>

(* _apply_members and _on_members when some host was reached; when none    *)
(* was, the last known membership stays.  A loop that was told to stop     *)
(* ends after its round.                                                   *)
Apply(n) ==
  /\ loop[n].pc \notin {"none", "sleep"}
  /\ loop[n].todo = <<>>
  /\ LET l == loop[n]
     IN  /\ view' = IF l.merged = Nobody THEN view ELSE [view EXCEPT ![n] = l.merged]
         /\ OnMembers(n)
         /\ st' = IF st[n] = "starting" /\ l.reached THEN [st EXCEPT ![n] = "up"] ELSE st
         /\ loop' = [loop EXCEPT ![n] = IF st[n] \in {"starting", "up"} THEN Asleep ELSE NoLoop]
  /\ UNCHANGED <<reg, ports, bye, page, shard, failed, setting>>

-----------------------------------------------------------------------------
(* The directory.                                                          *)

Publish(n) ==
  /\ st[n] = "up"
  /\ n \in Publishers \ page
  /\ page' = page \cup {n}
  /\ due' = due \cup {n}
  /\ UNCHANGED <<st, reg, view, ports, loop, bye, shard, failed, setting>>

(* The put of a publish or of _republish_directory, which does not say so  *)
(* when the owner is down, or not where the member list has it.            *)
Put(n) ==
  /\ n \in due
  /\ due' = due \ {n}
  /\ LET o == Owner(n)
     IN  shard' = IF Serving(o) /\ view[n][o] = ports[o] THEN [shard EXCEPT ![o] = @ \cup {n}]
                  ELSE shard
  /\ UNCHANGED <<st, reg, view, ports, loop, bye, page, failed, setting>>

-----------------------------------------------------------------------------
(* NodeRuntime.stop, crashes and time.                                     *)

Gone(n) ==
  /\ reg' = [reg EXCEPT ![n] = Nobody]
  /\ shard' = [shard EXCEPT ![n] = {}]
  /\ view' = [view EXCEPT ![n] = IF st'[n] = "stopped" THEN @ ELSE Nobody]
  /\ page' = page \ {n}
  /\ due' = due \ {n}

Stop(n) ==
  /\ "stop" \in setting /\ Cardinality(failed) < MaxFaults
  /\ st[n] = "up" /\ n \notin failed
  /\ failed' = failed \cup {n}
  /\ st' = [st EXCEPT ![n] = "stopping"]
  /\ bye' = [bye EXCEPT ![n] = Targets(n)]
  /\ UNCHANGED <<reg, view, ports, loop, page, due, shard, setting>>

Deregister(n) ==
  /\ st[n] = "stopping"
  /\ bye[n] # <<>>
  /\ LET h == Head(bye[n])
     IN  reg' = [reg EXCEPT ![h] = [m \in DOMAIN @ \ {n} |-> @[m]]]
  /\ bye' = [bye EXCEPT ![n] = Tail(@)]
  /\ UNCHANGED <<st, view, ports, loop, page, due, shard, failed, setting>>

(* The servers are torn down.  The thread of _loop is not waited for.  (A  *)
(* request more that a connection open by then may serve is left out.)     *)
TearDown(n) ==
  /\ st[n] = "stopping"
  /\ bye[n] = <<>>
  /\ st' = [st EXCEPT ![n] = "stopped"]
  /\ Gone(n)
  /\ UNCHANGED <<ports, loop, bye, failed, setting>>

(* A process ends: one that was stopped, or any other in a crash.          *)
Ends(n) ==
  /\ st' = [st EXCEPT ![n] = "down"]
  /\ loop' = [loop EXCEPT ![n] = NoLoop]
  /\ Gone(n)
  /\ UNCHANGED <<ports, bye, setting>>

Exit(n) == st[n] = "stopped" /\ Ends(n) /\ UNCHANGED failed

Crash(n) ==
  /\ "crash" \in setting /\ Cardinality(failed) < MaxFaults
  /\ st[n] = "up" /\ n \notin failed
  /\ failed' = failed \cup {n}
  /\ Ends(n)

(* Time passes when nobody's round is due, but for those held up.  Then    *)
(* the sleeps of _loop and _register_blocking are over.                    *)
Tick ==
  /\ \A n \in Nodes : loop[n].pc \in {"none", "sleep"} \/ loop[n].wait > 0
  /\ reg' = [h \in Nodes |-> [n \in DOMAIN reg[h] |->
               IF reg[h][n].age <= TTL THEN [reg[h][n] EXCEPT !.age = @ + 1] ELSE reg[h][n]]]
  /\ loop' = [n \in Nodes |->
               CASE loop[n].pc = "hang" -> [loop[n] EXCEPT !.wait = @ - 1]
                 [] loop[n].pc = "sleep" ->
                      Loop(IF st[n] = "starting" THEN "register" ELSE "heartbeat", Targets(n))
                 [] OTHER -> loop[n]]
  /\ UNCHANGED <<st, view, ports, bye, page, due, shard, failed, setting>>

-----------------------------------------------------------------------------
LoopStep(n) == Heartbeat(n) \/ Members(n) \/ Register(n) \/ Unanswered(n) \/ Apply(n)

StopStep(n) == Deregister(n) \/ TearDown(n)

Next ==
  \/ \E n \in Nodes : \/ Start(n) \/ LoopStep(n) \/ Publish(n) \/ Put(n)
                       \/ Stop(n) \/ StopStep(n) \/ Exit(n) \/ Crash(n)
  \/ Tick

(* The rounds, the puts and the stops of the nodes that run get on, and so *)
(* does time.  No node needs a clause of its own: a tick waits for all     *)
(* rounds, and a node that stops or has a put to make is done after a few  *)
(* steps.                                                                  *)
Fairness ==
  /\ WF_vars(Tick)
  /\ WF_vars(\E n \in Nodes : LoopStep(n))
  /\ WF_vars(\E n \in Nodes : Put(n))
  /\ WF_vars(\E n \in Nodes : StopStep(n))

Spec == Init /\ [][Next]_vars /\ Fairness

-----------------------------------------------------------------------------
(* Properties.                                                             *)

Up == {n \in Nodes : st[n] = "up"}

(* A host that was up and is down refuses calls at once.                   *)
Prompt == "hang" \in setting => setting \cap {"crash", "stop"} = {}

(* "established peers keep serving via the other masters"                  *)
(* (docs/architecture.md): a node that has been running all the time stays *)
(* in the views it is in.                                                  *)
PeersStay ==
  [][\A n \in Up, m \in Up \ failed' :
       st'[n] = "up" /\ m \in DOMAIN view[n] => m \in DOMAIN view'[n]]_vars

(* The same when a host that is down refuses calls at once: whatever a     *)
(* master or seed that came back or was promoted does not know yet,        *)
(* merging the answers makes up for it.                                    *)
PromptPeersStay ==
  [][Prompt => \A n \in Up, m \in Up \ failed' :
       st'[n] = "up" /\ m \in DOMAIN view[n] => m \in DOMAIN view'[n]]_vars

(* The views of the running nodes agree on who is running; they have each  *)
(* where it listens; and each of them finds the page of each where its     *)
(* ring looks for it.                                                      *)
Agreed == \A n \in Up : DOMAIN view[n] = Up
Reachable == \A n \in Up : \A m \in Up \cap DOMAIN view[n] : view[n][m] = ports[m]
Listed == \A n \in page \cap Up : n \in shard[Owner(n)]

(* Once crashes and stops are over, everybody comes to see the nodes that  *)
(* run and no others, a late round of a stopped node notwithstanding; and  *)
(* when no node came back unnoticed (its shard empty, its ports new),      *)
(* everybody knows its ports and every page is listed again where lookups  *)
(* go.                                                                     *)
Converges == Prompt => <>[](Agreed /\ ("quick" \notin setting => Reachable /\ Listed))

(* A view comes to hold the NodeInfo its node advertises (docs/sdk.md:     *)
(* "what a node advertises to discovery").  Not so for a node that is back *)
(* on other ports within its time to live: its heartbeats to a master it   *)
(* did not register with keep the record of its earlier run.               *)
PortsConverge == Prompt => <>[]Reachable
=============================================================================
