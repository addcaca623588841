------------------------------- MODULE SPQueue -------------------------------
(***************************************************************************)
(* chap4-reliable-req-rep-patterns/spqueue.cpp: the Simple Pirate queue.   *)
(* It lists the workers that asked for work and hands each request to the  *)
(* one listed last; no heartbeat, no purge.  One turn of its loop handles  *)
(* one message: the backend's if the poll reported one, else the           *)
(* frontend's.                                                             *)
(***************************************************************************)
EXTENDS PPNet

CONSTANT MaxStops   \* bound: times the queue process goes down

ASSUME StopsAssumption == MaxStops \in Nat

VARIABLES
  available_workers,   \* identities, the next to use first
  up,                  \* the process runs
  stops                \* times it went down

queueVars == <<available_workers, up, stops>>

SPQueueTypeOK ==
  /\ available_workers \in Seq(Worker)
  /\ up \in BOOLEAN
  /\ stops \in 0..MaxStops

SPQueueInit ==
  /\ available_workers = <<>>
  /\ up = TRUE
  /\ stops = 0

(* The frontend is polled only while a worker is available, lines 31-35.   *)
Polled ==
  (IF Readable THEN {"backend"} ELSE {})
    \cup (IF requests # {} /\ available_workers # <<>> THEN {"frontend"} ELSE {})

(* Line 35: the poll has no timeout.                                       *)
SQPoll ==
  /\ up
  /\ revents = {}
  /\ Polled # {}
  /\ revents' = Polled
  /\ UNCHANGED <<queueVars, requests, replies, route, netVars>>

(* Only READY lists a worker, a reply does not (seeded fault).             *)
ListOnReady(w) ==
  /\ "backend" \in revents
  /\ fromWorker[w] # <<>>
  /\ revents' = {}
  /\ LET msg == Head(fromWorker[w])
     IN  /\ available_workers' =
               IF msg.kind = "REPLY" THEN available_workers ELSE <<w>> \o available_workers
         /\ replies' = IF msg.kind = "REPLY" THEN RoutedReplies(msg.body) ELSE replies
  /\ fromWorker' = [fromWorker EXCEPT ![w] = Tail(@)]
  /\ UNCHANGED <<up, stops, requests, route, toWorker, online>>

(* Lines 39-49: READY or a reply says that the worker is free.  What the   *)
(* frontend has waits for the next turn.                                   *)
SQBackend(w) ==
  /\ "backend" \in revents
  /\ fromWorker[w] # <<>>
  /\ revents' = {}
  /\ available_workers' = <<w>> \o available_workers
  /\ LET msg == Head(fromWorker[w])
     IN  replies' = IF msg.kind = "REPLY" THEN RoutedReplies(msg.body) ELSE replies
  /\ fromWorker' = [fromWorker EXCEPT ![w] = Tail(@)]
  /\ UNCHANGED <<up, stops, requests, route, toWorker, online>>

(* The worker stays in the list: zlist_first for zlist_pop (seeded fault). *)
KeepWorker(list) == list

(* The list after the zlist_pop of line 53.                                *)
Popped(list) == Tail(list)

(* Lines 50-55: a request goes to the worker at the head of the list.      *)
SQFrontend ==
  /\ revents = {"frontend"}
  /\ revents' = {}
  /\ \E m \in requests :
       /\ requests' = requests \ {m}
       /\ RouterSend({Head(available_workers)}, RequestMsg(m))
  /\ available_workers' = Popped(available_workers)
  /\ UNCHANGED <<up, stops, replies, route, fromWorker, online>>

(* Lines 36-37 and 59-65: interrupted, or killed.                          *)
SQStop ==
  /\ up
  /\ stops < MaxStops
  /\ stops' = stops + 1
  /\ up' = FALSE
  /\ available_workers' = <<>>
  /\ FrontendDown
  /\ BackendDown
  /\ UNCHANGED online

(* Lines 21-28: started again.                                             *)
SQStart ==
  /\ ~up
  /\ up' = TRUE
  /\ UNCHANGED <<available_workers, stops, frontendVars, netVars>>
=============================================================================
