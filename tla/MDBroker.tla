------------------------------ MODULE MDBroker ------------------------------
(***************************************************************************)
(* chap4-reliable-req-rep-patterns/majordomo/mdbroker.c: the Majordomo     *)
(* broker.  The file is unfinished: its handlers are there, but            *)
(* s_worker_require, s_worker_delete, s_worker_send and s_worker_waiting   *)
(* are only declared, and main is missing.  Those are modelled from how    *)
(* the handlers use them, and the handlers as the code means them ("self"  *)
(* in s_service_dispatch is the service).                                  *)
(*                                                                         *)
(* A handler is an operator on the broker object, "self", that returns the *)
(* object it leaves and the messages it sends to workers.  As in PPQueue,  *)
(* expiry is the time left until it.                                       *)
(***************************************************************************)
EXTENDS MDNet, SequencesExt

CONSTANTS
  HEARTBEAT_EXPIRY,   \* HEARTBEAT_INTERVAL * HEARTBEAT_LIVENESS, line 16
  MaxStops            \* bound: times the broker process goes down

Names == ServiceName \cup Mmi
NoService == "none"

ASSUME BrokerAssumption ==
  /\ HEARTBEAT_EXPIRY \in Nat \ {0}
  /\ MaxStops \in Nat
  /\ NoService \notin Names

VARIABLES
  broker,   \* broker_t: workers, waiting, services
  stops     \* times the broker went down

brokerVars == <<broker, stops>>

(* A service that is not in the table yet is one with empty lists and no   *)
(* workers: s_service_require creates it so, lines 238-243.                *)
NewService == [requests |-> <<>>, waiting |-> <<>>, worker_num |-> 0]

s_broker_new ==
  [workers |-> [w \in {} |-> 0],
   waiting |-> <<>>,
   services |-> [s \in Names |-> NewService]]

Known(self) == DOMAIN self.workers

WorkersOf(self, s) == {w \in Known(self) : self.workers[w].service = s}

(* What two lists have in common comes in the same order.                  *)
SameOrder(list, whole) ==
  \A i, j \in DOMAIN list, m, n \in DOMAIN whole :
    list[i] = whole[m] /\ list[j] = whole[n] => (i < j <=> m < n)

MDBrokerTypeOK ==
  /\ Known(broker) \subseteq Identity
  /\ broker.workers \in
       [Known(broker) -> [service : Names \cup {NoService}, expiry : 0..HEARTBEAT_EXPIRY]]
  /\ broker.waiting \in Seq(Known(broker))
  /\ broker.services \in
       [Names -> [requests : Seq(Request), waiting : Seq(Known(broker)), worker_num : Nat]]
  /\ stops \in 0..MaxStops

(***************************************************************************)
(* What mdbroker.c calls and does not define.                              *)
(***************************************************************************)

(* The entry of w, new if need be (zmalloc: no service, expiry 0).         *)
s_worker_require(self, w) ==
  IF w \in Known(self) THEN self
  ELSE [self EXCEPT !.workers =
         [v \in Known(self) \cup {w} |->
            IF v = w THEN [service |-> NoService, expiry |-> 0] ELSE @[v]]]

Drop(list, D) ==
  LET left[i \in 0..Len(list)] ==
        IF i = 0 THEN <<>>
        ELSE IF list[i] \in D THEN left[i - 1] ELSE Append(left[i - 1], list[i])
  IN  left[Len(list)]

(* The worker leaves both lists and the table, but is still counted        *)
(* (seeded fault).                                                         *)
DeleteUncounted(self, D) ==
  [workers |-> [w \in Known(self) \ D |-> self.workers[w]],
   waiting |-> Drop(self.waiting, D),
   services |-> [s \in Names |->
     [self.services[s] EXCEPT !.waiting = Drop(@, D)]]]

(* The broker's list keeps the workers that are deleted (seeded fault).    *)
DeleteUnlisted(self, D) ==
  [workers |-> [w \in Known(self) \ D |-> self.workers[w]],
   waiting |-> self.waiting,
   services |-> [s \in Names |->
     [self.services[s] EXCEPT
        !.waiting = Drop(@, D),
        !.worker_num = @ - Cardinality(D \cap WorkersOf(self, s))]]]

(* The workers of D leave both lists, the count and the table.             *)
s_worker_delete(self, D) ==
  [workers |-> [w \in Known(self) \ D |-> self.workers[w]],
   waiting |-> Drop(self.waiting, D),
   services |-> [s \in Names |->
     [self.services[s] EXCEPT
        !.waiting = Drop(@, D),
        !.worker_num = @ - Cardinality(D \cap WorkersOf(self, s))]]]

(***************************************************************************)
(* The handlers.  Each returns [self, out]: out[w] is sent to w.           *)
(***************************************************************************)
Silently(self) == [self |-> self, out |-> [w \in {} |-> HEARTBEAT]]

(* Nothing is purged (seeded fault).                                       *)
KeepExpired(self) == self

(* Lines 214-227: delete the waiting workers from the head on, up to the   *)
(* first that has not expired.                                             *)
s_broker_purge(self) ==
  s_worker_delete(self,
    {self.waiting[i] : i \in {n \in 1..Len(self.waiting) :
       \A j \in 1..n : self.workers[self.waiting[j]].expiry = 0}})

(* Line 277 is missing: the worker stays in the broker's list (seeded      *)
(* fault).                                                                 *)
LeaveWaiting(list, D) == list

(* Line 277: zlist_remove from the broker's list.                          *)
TakeFrom(list, D) == Drop(list, D)

(* zlist_first for zlist_pop in line 278 (seeded fault).                   *)
KeepRequests(requests, n) == requests

(* The requests the loop of lines 275-281 leaves queued.                   *)
StillQueued(requests, n) == SubSeq(requests, n + 1, Len(requests))

(* Lines 268-282: queue the request, if there is one, purge, and hand the  *)
(* oldest requests to the workers that wait longest.                       *)
s_service_dispatch(self, s, msgs) ==
  LET purged == s_broker_purge([self EXCEPT !.services[s].requests = @ \o msgs])
      requests == purged.services[s].requests
      waiting == purged.services[s].waiting
      n == Min({Len(requests), Len(waiting)})
      busy == {waiting[i] : i \in 1..n}
  IN  [self |-> [purged EXCEPT
                   !.waiting = TakeFrom(@, busy),
                   !.services[s].waiting = SubSeq(@, n + 1, Len(@)),
                   !.services[s].requests = StillQueued(@, n)],
       out |-> [w \in busy |->
                  RequestMsg(requests[CHOOSE i \in 1..n : waiting[i] = w])]]

(* The worker waits and nothing is dispatched to it (seeded fault).        *)
WaitOnly(self, w) ==
  LET s == self.workers[w].service
  IN  Silently([self EXCEPT !.waiting = Append(@, w),
                            !.services[s].waiting = Append(@, w),
                            !.workers[w].expiry = HEARTBEAT_EXPIRY])

(* Declared only: the worker goes to the end of both lists, its expiry is  *)
(* set, and its service dispatches what it has.                            *)
s_worker_waiting(self, w) ==
  LET s == self.workers[w].service
  IN  s_service_dispatch(
        [self EXCEPT !.waiting = Append(@, w),
                     !.services[s].waiting = Append(@, w),
                     !.workers[w].expiry = HEARTBEAT_EXPIRY], s, <<>>)

Disconnected(self, w) ==
  [self |-> s_worker_delete(self, {w}), out |-> [v \in {w} |-> DISCONNECT]]

(* Lines 127-142.  What is tested for a reserved name is the identity of   *)
(* the sender, line 132.                                                   *)
OnReady(self, w, s) ==
  IF w \in Known(self) \/ w \in Mmi
  THEN Disconnected(s_worker_require(self, w), w)
  ELSE s_worker_waiting([s_worker_require(self, w) EXCEPT
                           !.workers[w].service = s,
                           !.services[s].worker_num = @ + 1], w)

(* Lines 143-156, for the worker; the reply itself goes to its client.     *)
OnReply(self, w) ==
  IF w \in Known(self)
  THEN s_worker_waiting(self, w)
  ELSE Disconnected(s_worker_require(self, w), w)

(* Lines 157-161.                                                          *)
OnHeartbeat(self, w) ==
  IF w \in Known(self)
  THEN Silently([self EXCEPT !.workers[w].expiry = HEARTBEAT_EXPIRY])
  ELSE Disconnected(s_worker_require(self, w), w)

(* Lines 162-163.                                                          *)
OnDisconnect(self, w) == Silently(s_worker_delete(s_worker_require(self, w), {w}))

(* Lines 187-195: the answer to an MMI request.                            *)
ReturnCode(self, m) ==
  IF m.service # MmiService THEN "501"
  ELSE IF self.services[m.about].worker_num > 0 THEN "200" ELSE "404"

(***************************************************************************)
(* The steps of the broker.                                                *)
(***************************************************************************)
MDBrokerInit == broker = s_broker_new /\ stops = 0

Step(result) == broker' = result.self /\ RouterSend(result.out)

(* s_broker_worker_msg, lines 117-170, for the commands mdwrkapi.c sends.  *)
MWorkerMsg(w) ==
  /\ fromWorker[w] # <<>>
  /\ fromWorker' = [fromWorker EXCEPT ![w] = Tail(@)]
  /\ LET msg == Head(fromWorker[w])
         replied == msg.command = "REPLY" /\ w \in Known(broker)
     IN  /\ Step(CASE msg.command = "READY" -> OnReady(broker, w, msg.service)
                   [] msg.command = "REPLY" -> OnReply(broker, w)
                   [] msg.command = "HEARTBEAT" -> OnHeartbeat(broker, w)
                   [] msg.command = "DISCONNECT" -> OnDisconnect(broker, w))
         /\ answers' = answers \cup
              IF replied THEN {[id |-> msg.body.id, code |-> "reply"]} ELSE {}
  /\ UNCHANGED <<stops, online, issued, incoming>>

(* s_broker_client_msg, lines 175-210: a request to a service.             *)
MClientMsg ==
  \E m \in incoming :
    /\ m.service \notin Mmi
    /\ incoming' = incoming \ {m}
    /\ Step(s_service_dispatch(broker, m.service, <<m>>))
    /\ UNCHANGED <<stops, fromWorker, online, issued, answers>>

(* Lines 184-204: a request to the broker itself.                          *)
MMmi ==
  \E m \in incoming :
    /\ m.service \in Mmi
    /\ incoming' = incoming \ {m}
    /\ answers' = answers \cup {[id |-> m.id, code |-> ReturnCode(broker, m)]}
    /\ UNCHANGED <<brokerVars, netVars, issued>>

(* The main loop's timer, to be written: a purge, and a heartbeat to every *)
(* worker that waits.                                                      *)
MHeartbeat ==
  LET purged == s_broker_purge(broker)
  IN  /\ Step([self |-> purged, out |-> [w \in ToSet(purged.waiting) |-> HEARTBEAT]])
      /\ UNCHANGED <<stops, fromWorker, online, requestVars>>

(* s_broker_destroy and s_broker_new, lines 69-101: the process goes down  *)
(* and is started again.                                                   *)
MRestart ==
  /\ stops < MaxStops
  /\ stops' = stops + 1
  /\ broker' = s_broker_new
  /\ \E kept \in SUBSET incoming : incoming' = kept
  /\ \E got \in [online -> 0..HWM], kept \in [online -> 0..HWM] :
       /\ \A w \in online : got[w] <= Len(toWorker[w]) /\ kept[w] <= Len(fromWorker[w])
       /\ toWorker' = [w \in Identity |->
            IF w \in online THEN SubSeq(toWorker[w], 1, got[w]) ELSE <<>>]
       /\ fromWorker' = [w \in Identity |->
            IF w \in online
            THEN SubSeq(fromWorker[w], kept[w] + 1, Len(fromWorker[w])) ELSE <<>>]
  /\ UNCHANGED <<online, issued, answers>>

MTick ==
  broker' = [broker EXCEPT !.workers =
    [w \in Known(broker) |-> [broker.workers[w] EXCEPT
                                !.expiry = IF @ = 0 THEN 0 ELSE @ - 1]]]
=============================================================================
