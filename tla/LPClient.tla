------------------------------ MODULE LPClient ------------------------------
(***************************************************************************)
(* chap4-reliable-req-rep-patterns/lpclient.cpp: the Lazy Pirate client.   *)
(* It sends one request at a time, polls for the reply with a timeout,     *)
(* and on a timeout closes the REQ socket, opens another and sends the     *)
(* same request again; it gives up after REQUEST_RETRIES attempts.         *)
(* Requests are told apart by request_seq: the random suffix of the text   *)
(* is left out.                                                            *)
(***************************************************************************)
EXTENDS Frontend, Integers

CONSTANT REQUEST_RETRIES

ASSUME RetriesAssumption == REQUEST_RETRIES \in Nat \ {0}

VARIABLES
  cphase,         \* where each client is in its two loops
  request_seq,    \* number of the last request
  retries_left

clientVars == <<cphase, request_seq, retries_left>>

(* "send": at the head of the outer loop; "wait": in zmq_poll; "done": out *)
(* of both loops, after zctx_destroy.                                      *)
ClientPhase == {"send", "wait", "done"}

LPClientTypeOK ==
  /\ cphase \in [Client -> ClientPhase]
  /\ request_seq \in [Client -> Nat]
  /\ retries_left \in [Client -> Int]

LPClientInit ==
  /\ cphase = [c \in Client |-> "send"]
  /\ request_seq = [c \in Client |-> 0]
  /\ retries_left = [c \in Client |-> REQUEST_RETRIES]

(* Lines 30-34: the next request.  MaxRequests bounds the counter.         *)
CSend(c) ==
  /\ cphase[c] = "send"
  /\ retries_left[c] # 0
  /\ request_seq[c] < MaxRequests
  /\ request_seq' = [request_seq EXCEPT ![c] = @ + 1]
  /\ requests' = requests \cup {SendRequest(c, request_seq[c] + 1)}
  /\ cphase' = [cphase EXCEPT ![c] = "wait"]
  /\ UNCHANGED <<retries_left, replies, route, revents>>

(* Lines 45-58: a reply.  One that is not an echo of the request is        *)
(* reported, counted (retries_left-- is done whatever its value) and the   *)
(* client goes on waiting.                                                 *)
CReply(c) ==
  /\ cphase[c] = "wait"
  /\ \E m \in replies :
       /\ m.client = c
       /\ replies' = replies \ {m}
       /\ LET ok == m.seq = request_seq[c]
          IN  /\ retries_left' = [retries_left EXCEPT
                                    ![c] = IF ok THEN REQUEST_RETRIES ELSE @ - 1]
              /\ cphase' = [cphase EXCEPT ![c] = IF ok THEN "send" ELSE @]
  /\ UNCHANGED <<request_seq, requests, route, revents>>

(* A poll without a timeout never reports silence (seeded fault).          *)
PollForever(c) == FALSE

(* zmq_poll timed out, lines 37-40 and 59: the timeout is not measured, it *)
(* may strike whenever no reply is there to read.                          *)
Silent(c) == cphase[c] = "wait" /\ \A m \in replies : m.client # c

(* The retry keeps the confused socket: same connection (seeded fault).    *)
RetryOnOldSocket(c) ==
  /\ Silent(c)
  /\ retries_left[c] # 1
  /\ retries_left' = [retries_left EXCEPT ![c] = @ - 1]
  /\ requests' = requests \cup {SendRequest(c, request_seq[c])}
  /\ UNCHANGED <<replies, route, cphase, request_seq, revents>>

(* A retry is not counted: "--" is missing in line 59 (seeded fault).      *)
RetryUncounted(c) ==
  /\ Silent(c)
  /\ \E lost \in SUBSET Unsent(c) :
       /\ CloseSocket(c, lost)
       /\ requests' = (requests \ lost) \cup
                        {[SendRequest(c, request_seq[c]) EXCEPT !.route = @ + 1]}
  /\ UNCHANGED <<retries_left, cphase, request_seq, revents>>

(* Lines 62-71: no reply in time: new socket, same request.                *)
CRetry(c) ==
  /\ Silent(c)
  /\ retries_left[c] # 1
  /\ retries_left' = [retries_left EXCEPT ![c] = @ - 1]
  /\ \E lost \in SUBSET Unsent(c) :
       /\ CloseSocket(c, lost)
       /\ requests' = (requests \ lost) \cup
                        {[SendRequest(c, request_seq[c]) EXCEPT !.route = @ + 1]}
  /\ UNCHANGED <<cphase, request_seq, revents>>

(* zctx_destroy, line 75.                                                  *)
CExit(c) ==
  /\ \E lost \in SUBSET Unsent(c) :
       /\ CloseSocket(c, lost)
       /\ requests' = requests \ lost
  /\ cphase' = [cphase EXCEPT ![c] = "done"]
  /\ UNCHANGED <<request_seq, revents>>

(* Lines 59-61: the last attempt timed out.                                *)
CAbandon(c) ==
  /\ Silent(c)
  /\ retries_left[c] = 1
  /\ retries_left' = [retries_left EXCEPT ![c] = 0]
  /\ CExit(c)

(* Lines 41-44: interrupted in the poll.                                   *)
CInterrupt(c) ==
  /\ c \in MayInterrupt
  /\ cphase[c] = "wait"
  /\ UNCHANGED retries_left
  /\ CExit(c)

CStep(c) == CSend(c) \/ CReply(c) \/ CRetry(c) \/ CAbandon(c)

(***************************************************************************)
(* Properties of the client against any service of chapter 4.              *)
(***************************************************************************)

(* A client never reads a reply to another request than the one it waits   *)
(* for: closing the socket on every timeout (lpclient.cpp:65) discards the *)
(* late replies to earlier attempts, so the branch for a malformed reply,  *)
(* lines 55-57, is dead code as long as the service echoes.                *)
NoMalformedReply ==
  \A m \in replies : cphase[m.client] = "wait" /\ m.seq = request_seq[m.client]

(* A client that waits has an attempt left, and one about to send has all  *)
(* of them.  Line 59 gives up when "--retries_left == 0", exactly: a reply *)
(* to an earlier request (lines 55-57) that took the last attempt of this  *)
(* one would make it count on below zero and never give up.                *)
AttemptsLeft ==
  \A c \in Client :
    /\ cphase[c] = "wait" => retries_left[c] \in 1..REQUEST_RETRIES
    /\ cphase[c] = "send" => retries_left[c] = REQUEST_RETRIES

(* Every request is answered or given up: a client does not wait forever   *)
(* however often the service fails (lpclient.cpp:30-72).                   *)
RequestEnds == \A c \in Client : cphase[c] = "wait" ~> cphase[c] # "wait"
=============================================================================
