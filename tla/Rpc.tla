-------------------------------- MODULE Rpc --------------------------------
(***************************************************************************)
(* Calls over pooled sockets (python/peercache/rpc.py): a caller leases an *)
(* idle socket or opens one, sends its request, waits for the answer, and  *)
(* tries once more on a new socket when that fails.  A server has a thread *)
(* per socket, which runs one request after the other; a request that was  *)
(* sent is run even when its caller has given up on it.                    *)
(*                                                                         *)
(* What a request does at the server is left to the module that extends    *)
(* this one.                                                               *)
(***************************************************************************)
EXTENDS Integers, Sequences, FiniteSets, FiniteSetsExt

CONSTANTS
  Servers,   \* the endpoints
  Callers,   \* the threads that share the pool
  MaxSocks,  \* bound: the sockets that can exist to a server at a time
  MaxIdle,   \* max_idle_per_endpoint
  NoReq, NoSock, Error

ASSUME RpcAssumption ==
  /\ MaxSocks \in Nat \ {0}
  /\ MaxIdle \in Nat \ {0}
  /\ NoSock \notin Servers \X (1 .. MaxSocks)

Socks == Servers \X (1 .. MaxSocks)

VARIABLES
  sock,   \* the sockets
  idle,   \* _idle, the unleased sockets to each endpoint
  call    \* the call each thread is in

rpcVars == <<sock, idle, call>>

(* open: the caller's end; cut: the server closed its end.                 *)
Free == [open |-> FALSE, cut |-> FALSE, inbox |-> <<>>, outbox |-> <<>>]

NoCall == [pc |-> "none", to |-> NoReq, req |-> NoReq, sock |-> NoSock, try |-> 1, got |-> NoReq]

RpcInit ==
  /\ sock = [s \in Socks |-> Free]
  /\ idle = [n \in Servers |-> <<>>]
  /\ call = [t \in Callers |-> NoCall]

(* RpcClientPool.call: lease the socket released last, if there is one.    *)
CallBegins(t, n, req) ==
  LET rest == idle[n]
      s    == IF rest = <<>> THEN NoSock ELSE rest[Len(rest)]
  IN  /\ call[t].pc = "none"
      /\ idle' = [idle EXCEPT ![n] = IF rest = <<>> THEN rest ELSE SubSeq(rest, 1, Len(rest) - 1)]
      /\ call' = [call EXCEPT ![t] = [NoCall EXCEPT !.pc = "send", !.to = n, !.req = req, !.sock = s]]
      /\ UNCHANGED sock

(* The caller closes its end.  What it sent is still there for the server. *)
Closed(s) == IF sock[s].inbox = <<>> THEN Free ELSE [sock[s] EXCEPT !.open = FALSE, !.outbox = <<>>]

(* As AttemptFails, keeping the socket for the second attempt.             *)
AttemptFailsKeepsSocket(t) ==
  LET c == call[t]
  IN  /\ call' = [call EXCEPT ![t] = IF c.try = 1 THEN [c EXCEPT !.pc = "send", !.try = 2]
                                     ELSE [c EXCEPT !.pc = "done", !.got = Error]]
      /\ UNCHANGED <<sock, idle>>

(* As AttemptFails, without a second attempt.                              *)
AttemptFailsOnce(t) ==
  LET c == call[t]
  IN  /\ sock' = IF c.sock = NoSock THEN sock ELSE [sock EXCEPT ![c.sock] = Closed(c.sock)]
      /\ call' = [call EXCEPT ![t] = [c EXCEPT !.pc = "done", !.got = Error, !.sock = NoSock]]
      /\ UNCHANGED idle

(* An OSError: the socket is closed; the first one is followed by another  *)
(* attempt, the second one reaches the caller.                             *)
AttemptFails(t) ==
  LET c == call[t]
  IN  /\ sock' = IF c.sock = NoSock THEN sock ELSE [sock EXCEPT ![c.sock] = Closed(c.sock)]
      /\ call' = [call EXCEPT ![t] =
                    IF c.try = 1 THEN [c EXCEPT !.pc = "send", !.try = 2, !.sock = NoSock]
                    ELSE [c EXCEPT !.pc = "done", !.got = Error, !.sock = NoSock]]
      /\ UNCHANGED idle

Sent(t, s, r) ==
  /\ sock' = [sock EXCEPT ![s] = [r EXCEPT !.inbox = Append(@, call[t].req)]]
  /\ call' = [call EXCEPT ![t].pc = "recv", ![t].sock = s]
  /\ UNCHANGED idle

(* The send, on the leased socket or a new one.                            *)
Send(t, reachable) ==
  LET c     == call[t]
      fresh == {i \in 1 .. MaxSocks : sock[<<c.to, i>>] = Free}
  IN  /\ c.pc = "send"
      /\ IF c.sock # NoSock
         THEN IF sock[c.sock].cut THEN AttemptFails(t) ELSE Sent(t, c.sock, sock[c.sock])
         ELSE IF ~ reachable THEN AttemptFails(t)
         ELSE fresh # {} /\ Sent(t, <<c.to, Min(fresh)>>, [Free EXCEPT !.open = TRUE])

(* _serve_conn: a request is taken, run, and answered.                     *)
Serve(s, answer) ==
  /\ sock[s].inbox # <<>>
  /\ LET r == [sock[s] EXCEPT !.inbox = Tail(@)]
     IN  sock' = [sock EXCEPT ![s] =
                    IF r.open THEN [r EXCEPT !.outbox = Append(r.outbox, answer)]
                    ELSE IF r.inbox = <<>> THEN Free ELSE r]
  /\ UNCHANGED <<idle, call>>

(* The answer is read, and the socket goes back to the pool unless that is *)
(* full.                                                                   *)
Receive(t) ==
  LET c    == call[t]
      keep == Len(idle[c.to]) < MaxIdle
  IN  /\ c.pc = "recv"
      /\ sock[c.sock].outbox # <<>>
      /\ call' = [call EXCEPT ![t].pc = "done", ![t].sock = NoSock,
                              ![t].got = Head(sock[c.sock].outbox)]
      /\ idle' = IF keep THEN [idle EXCEPT ![c.to] = Append(@, c.sock)] ELSE idle
      /\ sock' = [sock EXCEPT ![c.sock] = IF keep THEN [@ EXCEPT !.outbox = Tail(sock[c.sock].outbox)]
                                          ELSE Free]

(* The answer is late.                                                     *)
TimesOut(t) == call[t].pc = "recv" /\ AttemptFails(t)

(* The server's end of an idle socket is closed.                           *)
CutIdle(n, i) ==
  /\ i \in DOMAIN idle[n]
  /\ sock' = [sock EXCEPT ![idle[n][i]].cut = TRUE]
  /\ UNCHANGED <<idle, call>>

(* A persistent socket that was closed while it was idle and a call that   *)
(* times out must not let the answer to one request pass for the answer to *)
(* another: what a call returns was computed for its own request.          *)
AnswersOwnRequest ==
  \A t \in Callers : call[t].pc = "done" /\ call[t].got # Error => call[t].got.to = call[t].req
=============================================================================
