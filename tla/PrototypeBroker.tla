--------------------------- MODULE PrototypeBroker ---------------------------
(***************************************************************************)
(* chap3-advanced-req-rep-patterns/cluster/prototype.cpp, lines 109-313:   *)
(* the broker.  A turn of its loop takes at most one reply, one status and *)
(* one monitor message, then routes requests while there is capacity, then *)
(* announces its capacity if it changed.  local_capacity is incremented    *)
(* and decremented exactly where the list of workers grows and shrinks: it *)
(* is the length of the list.                                              *)
(***************************************************************************)
EXTENDS ClusterBroker

CONSTANTS
  HWM,        \* bound: status messages a subscriber's pipe holds
  MaxEvents   \* bound: tasks issued and brokers gone down, all together

ASSUME PrototypeAssumption == HWM \in Nat \ {0} /\ MaxEvents \in Nat

VARIABLES
  previous_capacity,   \* 0 outside the body of the loop
  cloud_capacity,
  subscribed,          \* <<a, b>>: statefe of a subscribes to statebe of b
  status               \* status[<<a, b>>]: the announcements on their way

brokerVars == <<processVars, previous_capacity, cloud_capacity, subscribed, status>>

(* "poll": in the primary poll; "route": in the rest of a turn.            *)
Phase == {"down", "poll", "route"}
Capacity == 0..Cardinality(WorkerThread)

PrototypeTypeOK ==
  /\ ClusterBrokerTypeOK
  /\ phase \in [Broker -> Phase]
  /\ \A b \in Broker : Len(available_workers[b]) \in Capacity
  /\ previous_capacity \in [Broker -> Capacity]
  /\ cloud_capacity \in [Broker -> Capacity]
  /\ subscribed \subseteq Broker \X Broker
  /\ status \in [Broker \X Broker -> Seq(Capacity)]

PrototypeInit ==
  /\ ClusterBrokerInit
  /\ previous_capacity = [b \in Broker |-> 0]
  /\ cloud_capacity = [b \in Broker |-> 0]
  /\ subscribed = {}
  /\ status = [l \in Broker \X Broker |-> <<>>]

local_capacity(b) == Len(available_workers[b])

(* Line 158: the statebe that the state frontend of b connects to for its  *)
(* peer p is b's own: state_endpoint(self).                                *)
StateSource(b, p) == b

Sources(b) == {StateSource(b, p) : p \in Peers(b)}

(***************************************************************************)
(* The process starts, connects and ends.                                  *)
(***************************************************************************)

(* Lines 121-177.                                                          *)
PStart(b) ==
  /\ ~Up(b)
  /\ life' = [life EXCEPT ![b] = @ + 1]
  /\ phase' = [phase EXCEPT ![b] = "poll"]
  /\ UNCHANGED <<available_workers, previous_capacity, cloud_capacity, subscribed,
                 stops, status, taskVars, netVars>>

(* Line 146, some time after the peer's line 139.                          *)
PConnect(l) ==
  /\ Up(l[1]) /\ Up(l[2])
  /\ l \notin linked
  /\ Link(l)
  /\ UNCHANGED <<brokerVars, taskVars>>

(* Line 158, some time later; what is announced before is not received.    *)
PSubscribe(b) ==
  /\ Up(b)
  /\ \E s \in Sources(b) :
       /\ Up(s)
       /\ <<b, s>> \notin subscribed
       /\ subscribed' = subscribed \cup {<<b, s>>}
  /\ UNCHANGED <<phase, available_workers, previous_capacity, cloud_capacity, stops, status,
                 taskVars, life, netVars>>

(* Interrupted (lines 194, 204, 225 and 304-312), or killed.               *)
PStop(b) ==
  /\ Up(b)
  /\ stops < MaxStops
  /\ Issued + stops < MaxEvents
  /\ stops' = stops + 1
  /\ phase' = [phase EXCEPT ![b] = "down"]
  /\ available_workers' = [available_workers EXCEPT ![b] = <<>>]
  /\ previous_capacity' = [previous_capacity EXCEPT ![b] = 0]
  /\ cloud_capacity' = [cloud_capacity EXCEPT ![b] = 0]
  /\ subscribed' = {l \in subscribed : b \notin {l[1], l[2]}}
  /\ status' = [l \in Broker \X Broker |-> IF b \in {l[1], l[2]} THEN <<>> ELSE status[l]]
  /\ SocketsClosed(b)
  /\ TasksEnd(b)
  /\ UNCHANGED life

(***************************************************************************)
(* The first part of a turn.                                               *)
(***************************************************************************)
StatusFrom(b) == {s \in Broker : status[<<b, s>>] # <<>>}

(* Lines 246-252: the status, if one is there, becomes the capacity of the *)
(* cloud, whoever sent it.                                                 *)
ReadStatus(b) ==
  \/ /\ StatusFrom(b) = {}
     /\ UNCHANGED <<cloud_capacity, status>>
  \/ \E s \in StatusFrom(b) :
       /\ cloud_capacity' = [cloud_capacity EXCEPT ![b] = Head(status[<<b, s>>])]
       /\ status' = [status EXCEPT ![<<b, s>>] = Tail(@)]

(* What every turn begins with; the poll's revents are what is readable.   *)
Turn(b) ==
  /\ phase[b] = "poll"
  /\ phase' = [phase EXCEPT ![b] = "route"]
  /\ previous_capacity' = [previous_capacity EXCEPT ![b] = local_capacity(b)]
  /\ ReadStatus(b)
  /\ UNCHANGED <<subscribed, stops, cphase, task_seq, started, life, linked, known, requests,
                 toCloud, toWorker>>

(* The loop over the peers starts past the first (seeded fault).           *)
NoPeer(b, peer) == FALSE

(* Lines 233-239: the reply is addressed to a peer broker.                 *)
ForPeer(b, peer) == peer \in Peers(b)

(* Lines 202-221: a worker is free again; its message, unless it is READY, *)
(* is routed to a peer or to a client (lines 232-242).                     *)
PReplyLocal(b) ==
  /\ Turn(b)
  /\ \E w \in FromWorkers(b) :
       LET msg == Head(fromWorker[w])
       IN  /\ fromWorker' = [fromWorker EXCEPT ![w] = Tail(@)]
           /\ available_workers' = [available_workers EXCEPT ![b] = Append(@, w)]
           /\ fromCloud' = IF msg # WORKER_READY /\ ForPeer(b, msg.peer)
                           THEN CloudReplied(<<msg.peer, b>>, msg.task) ELSE fromCloud
           /\ replies' = IF msg # WORKER_READY /\ ~ForPeer(b, msg.peer)
                         THEN Delivered(b, msg.task) ELSE replies

(* Lines 222-231 and 240-242: a peer's reply goes to its client; only if   *)
(* no worker's message was reported.                                       *)
PReplyCloud(b) ==
  /\ FromWorkers(b) = {}
  /\ Turn(b)
  /\ \E p \in FromClouds(b) :
       /\ fromCloud' = [fromCloud EXCEPT ![<<b, p>>] = Tail(@)]
       /\ replies' = Delivered(b, Head(fromCloud[<<b, p>>]))
  /\ UNCHANGED <<available_workers, fromWorker>>

(* Lines 192-195: the poll returns without a reply: with a status, with a  *)
(* message to the monitor, which lines 253-257 print, or timed out, which  *)
(* it does only while a worker is free.  A client may write to the monitor *)
(* at any time.                                                            *)
PNoReply(b) ==
  /\ FromWorkers(b) = {}
  /\ FromClouds(b) = {}
  /\ Turn(b)
  /\ UNCHANGED <<available_workers, fromWorker, fromCloud, replies>>

(***************************************************************************)
(* The second part: requests, lines 265-292.                               *)
(***************************************************************************)
ToFreeWorker(b, peer, t) ==
  toWorker' = [toWorker EXCEPT ![Head(available_workers[b])] =
                 Append(@, [peer |-> peer, task |-> t])]

(* The worker stays in the list: zlist_first for zlist_pop (seeded fault). *)
KeepWorker(list) == list

(* The list after the zlist_pop of line 282.                               *)
Popped(list) == Tail(list)

(* Lines 273-274 and 280-285.                                              *)
PDispatchLocal(b) ==
  /\ phase[b] = "route"
  /\ local_capacity(b) > 0
  /\ \E t \in FromClients(b) :
       /\ requests' = requests \ {t}
       /\ ToFreeWorker(b, b, t)
  /\ available_workers' = [available_workers EXCEPT ![b] = Popped(@)]
  /\ UNCHANGED <<phase, previous_capacity, cloud_capacity, subscribed, stops, status,
                 taskVars, life, cloudVars, replies, fromWorker>>

(* Lines 270 and 275-285: a peer's request, if no client has one.          *)
PDispatchCloud(b) ==
  /\ phase[b] = "route"
  /\ local_capacity(b) > 0
  /\ FromClients(b) = {}
  /\ \E p \in FromPeers(b) :
       /\ toCloud' = [toCloud EXCEPT ![<<p, b>>] = Tail(@)]
       /\ ToFreeWorker(b, p, Head(toCloud[<<p, b>>]))
  /\ available_workers' = [available_workers EXCEPT ![b] = Popped(@)]
  /\ UNCHANGED <<phase, previous_capacity, cloud_capacity, subscribed, stops, status,
                 taskVars, life, linked, known, fromCloud, requests, replies, fromWorker>>

(* Both frontends are polled with cloud capacity only (seeded fault).      *)
ForwardAny(b) ==
  /\ phase[b] = "route"
  /\ local_capacity(b) = 0
  /\ cloud_capacity[b] > 0
  /\ \E p \in Peers(b) :
       \/ \E t \in FromClients(b) :
            /\ requests' = requests \ {t}
            /\ SendToCloud(<<b, p>>, t)
       \/ \E q \in FromPeers(b) :
            /\ <<b, p>> \in known
            /\ toCloud' = [toCloud EXCEPT ![<<q, b>>] = Tail(@),
                                          ![<<b, p>>] = Append(@, Head(toCloud[<<q, b>>]))]
            /\ UNCHANGED requests
  /\ UNCHANGED <<brokerVars, taskVars, life, linked, known, fromCloud, replies, toWorker,
                 fromWorker>>

(* The message is sent to the cloud and kept (seeded fault).               *)
ForwardCopy(b) ==
  /\ phase[b] = "route"
  /\ local_capacity(b) = 0
  /\ cloud_capacity[b] > 0
  /\ \E t \in FromClients(b), p \in Peers(b) : SendToCloud(<<b, p>>, t)
  /\ UNCHANGED <<brokerVars, taskVars, life, linked, known, fromCloud, localVars>>

(* Lines 286-291: a client's request goes to any peer.                     *)
PForward(b) ==
  /\ phase[b] = "route"
  /\ local_capacity(b) = 0
  /\ cloud_capacity[b] > 0
  /\ \E t \in FromClients(b), p \in Peers(b) :
       /\ requests' = requests \ {t}
       /\ SendToCloud(<<b, p>>, t)
  /\ UNCHANGED <<brokerVars, taskVars, life, linked, known, fromCloud, replies, toWorker,
                 fromWorker>>

(* Lines 298-300: a PUB socket drops what a full pipe cannot take.         *)
Announced(b) ==
  [l \in Broker \X Broker |->
     IF l[2] = b /\ l \in subscribed /\ Len(status[l]) < HWM
     THEN Append(status[l], local_capacity(b)) ELSE status[l]]

(* Lines 265, 277-278 and 294-301: nothing left to route, or no capacity.  *)
PEndTurn(b) ==
  /\ phase[b] = "route"
  /\ local_capacity(b) > 0 => FromClients(b) = {} /\ FromPeers(b) = {}
  /\ cloud_capacity[b] > 0 => FromClients(b) = {}
  /\ phase' = [phase EXCEPT ![b] = "poll"]
  /\ status' = IF local_capacity(b) # previous_capacity[b] THEN Announced(b) ELSE status
  /\ previous_capacity' = [previous_capacity EXCEPT ![b] = 0]
  /\ UNCHANGED <<available_workers, cloud_capacity, subscribed, stops, taskVars, life,
                 netVars>>

PStep(b) ==
  \/ PReplyLocal(b) \/ PReplyCloud(b) \/ PNoReply(b)
  \/ PDispatchLocal(b) \/ PDispatchCloud(b) \/ PForward(b) \/ PEndTurn(b)
=============================================================================
