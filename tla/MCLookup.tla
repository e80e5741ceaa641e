------------------------------ MODULE MCLookup ------------------------------
(* Instances of Lookup for TLC: prefixes of one or two pages.              *)
EXTENDS Lookup

CONSTANTS t1, t2

TwoThreads == {t1, t2}

Reads(api, pages, ttl, threads, events) ==
  [api |-> api, pages |-> pages, parts |-> 1, side |-> "none", prefix |-> FALSE, dirTTL |-> ttl,
   mode |-> "p2p", threads |-> threads, calls |-> {"get"}, events |-> events]

(* Pages of two components, without and with the read-location cache.      *)
Parts == {[Reads("v1", 2, 0, {t1}, {"spill"}) EXCEPT !.parts = 2, !.prefix = TRUE],
          [Reads("v1", 1, 1, {t1}, {"spill", "time"}) EXCEPT !.parts = 2]}

(* A side pool.                                                            *)
Sides == {[Reads("v2", 2, 0, {t1}, {"spill"}) EXCEPT !.side = s, !.prefix = TRUE] :
            s \in {"all", "trailing"}}

(* Promotions that miss.                                                   *)
Misses == {[Reads("v1", 2, 0, {t1}, {"spill", "miss"}) EXCEPT !.prefix = TRUE],
           [Reads("v1", 1, 1, {t1}, {"spill", "miss"}) EXCEPT !.parts = 2],
           Reads("generic", 2, 0, {t1}, {"spill", "miss"}),
           [Reads("v2", 1, 0, {t1}, {"spill", "miss"}) EXCEPT !.side = "all"]}

(* Nodes that also write.                                                  *)
Writes == {[Reads("generic", 2, 0, {t1}, IF m = "both" THEN {"evict", "rpc"} ELSE {"evict"})
              EXCEPT !.mode = m, !.calls = {"set", "get"}] : m \in {"p2p", "centralized", "both"}}
  \cup {[Reads("v2", 1, 0, {t1}, {}) EXCEPT !.side = "all", !.mode = m,
                                            !.calls = {"set", "get"}] : m \in {"p2p", "both"}}

(* Everything goes wrong.                                                  *)
Faulty == {Reads("generic", 1, 2, {t1}, {"time", "spill", "evict", "miss", "rpc", "read"}),
           [Reads("v1", 1, 1, {t1}, {"time", "evict", "read"}) EXCEPT !.parts = 2]}

(* Two threads.                                                            *)
Pairs == {Reads("generic", 1, 1, TwoThreads, {"time", "evict"}),
          Reads("generic", 1, 1, TwoThreads, {"spill", "miss"}),
          Reads("generic", 2, 0, TwoThreads, {})}

MCSettings == Parts \cup Sides \cup Misses \cup Writes \cup Faulty \cup Pairs

(* Whole pages under a prefix; a dual write in which nothing goes wrong.   *)
Prefixed == {[Reads("generic", 1, 0, {t1}, {}) EXCEPT !.prefix = TRUE, !.calls = {"set"}]}
DualWrite == {[Reads("generic", 1, 0, {t1}, {}) EXCEPT !.mode = "both", !.calls = {"set"}]}
=============================================================================
