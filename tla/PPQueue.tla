------------------------------- MODULE PPQueue -------------------------------
(***************************************************************************)
(* chap4-reliable-req-rep-patterns/ppqueue.c: the Paranoid Pirate queue, a *)
(* load balancer that keeps the workers that are ready in a list, oldest   *)
(* first, exchanges heartbeats with them and purges those that expired.    *)
(*                                                                         *)
(* Time is counted in ticks of any length.  The code only ever compares a  *)
(* time it stored with zclock_time(), so each stored time is kept as the   *)
(* time left until it: expiry is 0 once zclock_time() >= worker->expiry,   *)
(* heartbeat_at is 0 once zclock_time() >= heartbeat_at.                   *)
(***************************************************************************)
EXTENDS PPNet, SequencesExt

CONSTANTS
  HEARTBEAT_LIVENESS,   \* 3 in the code
  HEARTBEAT_INTERVAL,   \* 1000 msecs in the code
  MaxStops              \* bound: times the queue process goes down

ASSUME HeartbeatAssumption ==
  /\ HEARTBEAT_LIVENESS \in Nat \ {0}
  /\ HEARTBEAT_INTERVAL \in Nat \ {0}
  /\ MaxStops \in Nat

VARIABLES
  workers,        \* the list: [identity, expiry], the next to use first
  heartbeat_at,   \* time left until heartbeats are due
  poll_left,      \* time left until the poll times out, 0 outside a poll
  qphase,         \* "poll", "handle" (the body of the loop) or "down"
  stops           \* times the process went down

queueVars == <<workers, heartbeat_at, poll_left, qphase, stops>>

Expiry == HEARTBEAT_LIVENESS * HEARTBEAT_INTERVAL

WorkerEntry == [identity : Worker, expiry : 0..Expiry]

PPQueueTypeOK ==
  /\ workers \in Seq(WorkerEntry)
  /\ heartbeat_at \in 0..HEARTBEAT_INTERVAL
  /\ poll_left \in 0..HEARTBEAT_INTERVAL
  /\ qphase \in {"poll", "handle", "down"}
  /\ stops \in 0..MaxStops

Listed == {workers[i].identity : i \in 1..Len(workers)}

(***************************************************************************)
(* The worker class, lines 19-91.                                          *)
(***************************************************************************)
s_worker_new(identity) == [identity |-> identity, expiry |-> Expiry]

(* The existing entry keeps its place (seeded fault).                      *)
RefreshInPlace(self, list) ==
  IF \E i \in 1..Len(list) : list[i].identity = self.identity
  THEN [i \in 1..Len(list) |->
          IF list[i].identity = self.identity THEN self ELSE list[i]]
  ELSE Append(list, self)

(* Only a worker already in the list is refreshed (seeded fault).          *)
RefreshKnown(self, list) ==
  IF \E i \in 1..Len(list) : list[i].identity = self.identity
  THEN RefreshInPlace(self, list)
  ELSE list

(* Lines 54-62: the list without the first entry of w, if there is one.    *)
Without(list, w) == RemoveFirstMatch(list, LAMBDA x : x.identity = w)

s_worker_ready(self, list) == Append(Without(list, self.identity), self)

(* s_workers_next pops the head: the identity, and the list it leaves.     *)
s_workers_next(list) == Head(list).identity

AfterNext(list) == Tail(list)

Alive(entry) == entry.expiry > 0

(* One expired worker per call: "if" for "while" in line 84 (seeded fault).*)
PurgeOne(list) ==
  IF list = <<>> \/ Alive(Head(list)) THEN list ELSE Tail(list)

(* The call of line 164 is missing (seeded fault).                         *)
NeverPurge(list) == list

(* Remove entries from the head on, up to the first that is alive.         *)
s_workers_purge(list) ==
  LET alive == {i \in 1..Len(list) : Alive(list[i])}
  IN  IF alive = {} THEN <<>> ELSE SubSeq(list, Min(alive), Len(list))

(***************************************************************************)
(* main, lines 97-174.                                                     *)
(***************************************************************************)
PPQueueInit ==
  /\ workers = <<>>
  /\ heartbeat_at = HEARTBEAT_INTERVAL
  /\ poll_left = HEARTBEAT_INTERVAL
  /\ qphase = "poll"
  /\ stops = 0

(* Both sockets are polled whatever the list holds (seeded fault).         *)
PollBoth ==
  (IF Readable THEN {"backend"} ELSE {})
    \cup (IF requests # {} THEN {"frontend"} ELSE {})

(* The frontend is polled only while a worker is listed, lines 111-116.    *)
Polled ==
  (IF Readable THEN {"backend"} ELSE {})
    \cup (IF requests # {} /\ workers # <<>> THEN {"frontend"} ELSE {})

(* Lines 115-116: the poll returns, with what can be read or on a timeout. *)
QPoll ==
  /\ qphase = "poll"
  /\ Polled # {} \/ poll_left = 0
  /\ revents' = Polled
  /\ qphase' = "handle"
  /\ poll_left' = 0
  /\ UNCHANGED <<workers, heartbeat_at, stops,
                 requests, replies, route, netVars>>

(* Lines 120-139: any message says that its worker is alive and ready; a   *)
(* reply goes on to its client.                                            *)
QBackend(w) ==
  /\ "backend" \in revents
  /\ fromWorker[w] # <<>>
  /\ revents' = revents \ {"backend"}
  /\ workers' = s_worker_ready(s_worker_new(w), workers)
  /\ LET msg == Head(fromWorker[w])
     IN  replies' = IF msg.kind = "REPLY" THEN RoutedReplies(msg.body) ELSE replies
  /\ fromWorker' = [fromWorker EXCEPT ![w] = Tail(@)]
  /\ UNCHANGED <<heartbeat_at, poll_left, qphase, stops,
                 requests, route, toWorker, online>>

(* Lines 140-147: a request goes to the next worker.                       *)
QFrontend ==
  /\ revents = {"frontend"}
  /\ revents' = {}
  /\ \E m \in requests :
       /\ requests' = requests \ {m}
       /\ RouterSend({s_workers_next(workers)}, RequestMsg(m))
  /\ workers' = AfterNext(workers)
  /\ UNCHANGED <<heartbeat_at, poll_left, qphase, stops,
                 replies, route, fromWorker, online>>

(* Lines 152-164, and back to the poll: heartbeats to every listed worker  *)
(* if they are due, and the purge.                                         *)
QHeartbeat ==
  /\ qphase = "handle"
  /\ revents = {}
  /\ IF heartbeat_at = 0
     THEN /\ RouterSend(Listed, HEARTBEAT)
          /\ heartbeat_at' = HEARTBEAT_INTERVAL
     ELSE UNCHANGED <<toWorker, heartbeat_at>>
  /\ workers' = s_workers_purge(workers)
  /\ poll_left' = HEARTBEAT_INTERVAL
  /\ qphase' = "poll"
  /\ UNCHANGED <<stops, frontendVars, fromWorker, online>>

(* Lines 117-118, 123, 144 and 166-174: the process is interrupted, or     *)
(* killed.                                                                 *)
QStop ==
  /\ qphase # "down"
  /\ stops < MaxStops
  /\ stops' = stops + 1
  /\ qphase' = "down"
  /\ workers' = <<>>
  /\ heartbeat_at' = 0
  /\ poll_left' = 0
  /\ FrontendDown
  /\ BackendDown
  /\ UNCHANGED online

(* Lines 99-108: the process is started again.                             *)
QStart ==
  /\ qphase = "down"
  /\ qphase' = "poll"
  /\ workers' = <<>>
  /\ heartbeat_at' = HEARTBEAT_INTERVAL
  /\ poll_left' = HEARTBEAT_INTERVAL
  /\ UNCHANGED <<stops, frontendVars, netVars>>

QStep == QPoll \/ (\E w \in Worker : QBackend(w)) \/ QFrontend \/ QHeartbeat

(* One tick: every stored time comes one tick closer.                      *)
Sooner(t) == IF t = 0 THEN 0 ELSE t - 1

QTick ==
  /\ workers' = [i \in 1..Len(workers) |->
                   [workers[i] EXCEPT !.expiry = Sooner(@)]]
  /\ heartbeat_at' = Sooner(heartbeat_at)
  /\ poll_left' = Sooner(poll_left)

(***************************************************************************)
(* Properties of the list.                                                 *)
(***************************************************************************)

(* A worker is in the list at most once, however often it announces        *)
(* itself (s_worker_ready, ppqueue.c:52-64): a second entry would have one *)
(* worker handed two requests in a row while others are idle.              *)
UniqueWorkers ==
  \A i, j \in 1..Len(workers) :
    workers[i].identity = workers[j].identity => i = j

(* The list is ordered by expiry, the soonest first: what lets the purge   *)
(* stop at the first worker that is alive (ppqueue.c:78-80).               *)
LRUOrder ==
  \A i, j \in 1..Len(workers) :
    i <= j => workers[i].expiry <= workers[j].expiry

(* A request reported by the poll always finds a worker to go to: between  *)
(* the poll of line 115 and s_workers_next at line 145, which does not     *)
(* check for an empty list, nothing empties it.                            *)
NoPopFromEmpty == "frontend" \in revents => workers # <<>>

(***************************************************************************)
(* What the list implements.                                               *)
(***************************************************************************)
LeaseOf ==
  [w \in Listed |->
     (CHOOSE e \in ToSet(workers) : e.identity = w).expiry]

Leases == INSTANCE WorkerLeases WITH lease <- LeaseOf, turn <- qphase, Term <- Expiry

(* The list of ppqueue.c behaves as a set of leases: a message renews, the *)
(* oldest lease is used next, and the purge of every turn, which stops at  *)
(* the first worker alive, ends every lease that has run out and no other  *)
(* (ppqueue.c:52-91, 164).                                                 *)
ListIsLeases == Leases!Spec
=============================================================================
