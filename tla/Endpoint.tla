------------------------------ MODULE Endpoint ------------------------------
(***************************************************************************)
(* How the threads of a broker process plug in, prototype.cpp lines 29-37  *)
(* and 75-79: each asks endpoint.cpp for the name of an endpoint, passes   *)
(* no buffer for it, and connects a socket to what it gets.  All of them   *)
(* get a pointer to one static buffer, which zsocket_connect reads later.  *)
(* A name is written in one step here, though sprintf may be interrupted.  *)
(***************************************************************************)
EXTENDS Naturals, Sequences, SequencesExt

CONSTANTS
  ClientThread,   \* the clients of the process
  WorkerThread    \* its workers

VARIABLES
  endpoint_buf,   \* the endpoint named in the buffer
  calling,        \* threads between x_endpoint(self) and zsocket_connect
  connected       \* the endpoints the sockets of each thread connected to

vars == <<endpoint_buf, calling, connected>>

Thread == ClientThread \cup WorkerThread
Name == {"localfe", "localbe", "monitor"}

(* The endpoints a thread asks for, in this order.                         *)
Asked(t) == IF t \in ClientThread THEN <<"localfe", "monitor">> ELSE <<"localbe">>

(* main wrote "monitor" last, and started the threads after that.          *)
Init ==
  /\ endpoint_buf = "monitor"
  /\ calling = {}
  /\ connected = [t \in Thread |-> <<>>]

(* endpoint.cpp, lines 13-16.                                              *)
Format(t) ==
  /\ t \notin calling
  /\ Len(connected[t]) < Len(Asked(t))
  /\ endpoint_buf' = Asked(t)[Len(connected[t]) + 1]
  /\ calling' = calling \cup {t}
  /\ UNCHANGED connected

(* zsocket_connect.                                                        *)
Connect(t) ==
  /\ t \in calling
  /\ connected' = [connected EXCEPT ![t] = Append(@, endpoint_buf)]
  /\ calling' = calling \ {t}
  /\ UNCHANGED endpoint_buf

Next == \E t \in Thread : Format(t) \/ Connect(t)

Spec == Init /\ [][Next]_vars

(* "The worker task, which uses a REQ socket to plug into the load-        *)
(* balancer" (prototype.cpp:71-72), and the client, which "pushes          *)
(* statistics to the monitor socket" (line 28): a thread is connected to   *)
(* the endpoints it asked for.                                             *)
PluggedIn == \A t \in Thread : IsPrefix(connected[t], Asked(t))
=============================================================================
