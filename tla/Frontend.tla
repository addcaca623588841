------------------------------ MODULE Frontend ------------------------------
(***************************************************************************)
(* The client side of a request-reply service of chapter 4: the REQ socket *)
(* of every client, the service's frontend socket (ROUTER in ppqueue.c and *)
(* spqueue.cpp, REP in lpserver.cpp), and what is in transit between them. *)
(* ZeroMQ is outside src/: this module models it from how the code uses    *)
(* it.                                                                     *)
(*                                                                         *)
(* A REQ socket alternates send and receive, so a connection holds at most *)
(* one request and at most one reply.  The ROUTER gives every connection   *)
(* an identity of its own, and drops a reply whose connection is gone:     *)
(* "route" numbers the connections of each client.                         *)
(***************************************************************************)
EXTENDS Naturals

CONSTANTS
  Client,        \* the client processes
  MaxRequests,   \* bound: requests a client issues before it stays silent
  MayInterrupt   \* bound: the processes that may be interrupted or killed

ASSUME MaxRequestsAssumption == MaxRequests \in Nat

VARIABLES
  requests,   \* requests on their way to the frontend or waiting in it
  replies,    \* replies delivered to a socket a client still holds open
  route,      \* route[c]: the identity of c's current connection
  revents     \* the sockets the service's last zmq_poll reported readable,
              \* and that it has not received from yet

frontendVars == <<requests, replies, route, revents>>

Request == [client : Client, route : Nat, seq : Nat]

Connected(m) == route[m.client] = m.route

FrontendTypeOK ==
  /\ requests \subseteq Request
  /\ replies \subseteq Request
  /\ route \in [Client -> Nat]
  /\ revents \subseteq {"backend", "frontend"}

FrontendInit ==
  /\ requests = {}
  /\ replies = {}
  /\ route = [c \in Client |-> 1]
  /\ revents = {}

(* zstr_send of request number n on c's open REQ socket.                   *)
SendRequest(c, n) == [client |-> c, route |-> route[c], seq |-> n]

(* A reply whose identity names no open connection reaches the client's    *)
(* current socket all the same (seeded fault).                             *)
AnyRouteReplies(m) == replies \cup {m}

(* zmsg_send on the frontend: a reply to a closed connection is dropped.   *)
RoutedReplies(m) == IF Connected(m) THEN replies \cup {m} ELSE replies

(* zsocket_destroy of c's socket (linger 0): what it received is gone, and *)
(* so may be the request it sent, unless the service already holds it: a   *)
(* poll that reported the frontend readable finds a request to receive.    *)
Unsent(c) == {m \in requests : m.client = c /\ Connected(m)}

CloseSocket(c, lost) ==
  /\ lost \in SUBSET Unsent(c)
  /\ "frontend" \in revents => requests \ lost # {}
  /\ replies' = {m \in replies : m.client # c}
  /\ route' = [route EXCEPT ![c] = @ + 1]

(* The service process goes down: every connection is made anew when it is *)
(* back.  A request still in its client's socket is sent on the new        *)
(* connection; those the service had received are lost, and so may be the  *)
(* replies it had sent.                                                    *)
FrontendDown ==
  /\ \E kept \in SUBSET {m \in requests : Connected(m)} :
       requests' = {[m EXCEPT !.route = @ + 1] : m \in kept}
  /\ \E kept \in SUBSET replies : replies' = kept
  /\ route' = [c \in Client |-> route[c] + 1]
  /\ revents' = {}
=============================================================================
