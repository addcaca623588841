------------------------------ MODULE LPServer ------------------------------
(***************************************************************************)
(* chap4-reliable-req-rep-patterns/lpserver.cpp: the Lazy Pirate server, a *)
(* REP socket that echoes one request at a time, and after a few of them   *)
(* may crash or be slow.  How long the sleeps of lines 38 and 41 last is   *)
(* not measured.                                                           *)
(***************************************************************************)
EXTENDS Frontend

CONSTANTS
  CRASH_FREE_CYCLES,   \* line 33: requests before simulated failures, 3
  MaxStops             \* bound: times the server is killed from outside

ASSUME ServerAssumption == CRASH_FREE_CYCLES \in Nat /\ MaxStops \in Nat

VARIABLES
  sphase,   \* "recv": in zstr_recv; "work": before zstr_send; "down"
  cycles,   \* requests received, counted up to CRASH_FREE_CYCLES
  job,      \* the request received last, while the server works on it
  stops     \* times the server was killed

serverVars == <<sphase, cycles, job, stops>>

LPServerTypeOK ==
  /\ sphase \in {"recv", "work", "down"}
  /\ cycles \in 0..CRASH_FREE_CYCLES
  /\ job \subseteq Request
  /\ job # {} <=> sphase = "work"
  /\ stops \in 0..MaxStops

LPServerInit ==
  /\ sphase = "recv"
  /\ cycles = 0
  /\ job = {}
  /\ stops = 0

(* Lines 29-41: a request; the simulated overload only takes time.         *)
LReceive ==
  /\ sphase = "recv"
  /\ \E m \in requests :
       /\ requests' = requests \ {m}
       /\ job' = {m}
  /\ cycles' = IF cycles < CRASH_FREE_CYCLES THEN cycles + 1 ELSE cycles
  /\ sphase' = "work"
  /\ UNCHANGED <<stops, replies, route, revents>>

(* Lines 42-43: the request goes back to the socket it came from.          *)
LReply ==
  /\ sphase = "work"
  /\ \E m \in job : replies' = RoutedReplies(m)
  /\ job' = {}
  /\ sphase' = "recv"
  /\ UNCHANGED <<cycles, stops, requests, route, revents>>

LDown ==
  /\ sphase' = "down"
  /\ cycles' = 0
  /\ job' = {}
  /\ FrontendDown

(* Lines 33-35 and 46: a crash on a request past CRASH_FREE_CYCLES, which  *)
(* is lost with the socket.                                                *)
LCrash ==
  /\ sphase = "recv"
  /\ cycles = CRASH_FREE_CYCLES
  /\ requests # {}
  /\ LDown
  /\ UNCHANGED stops

(* Killed from outside, anywhere in the loop.                              *)
LKill ==
  /\ sphase # "down"
  /\ stops < MaxStops
  /\ stops' = stops + 1
  /\ LDown

(* Lines 20-27: started again.                                             *)
LStart ==
  /\ sphase = "down"
  /\ sphase' = "recv"
  /\ UNCHANGED <<cycles, job, stops, frontendVars>>
=============================================================================
