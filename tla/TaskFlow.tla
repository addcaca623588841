------------------------------ MODULE TaskFlow ------------------------------
(***************************************************************************)
(* chap3-advanced-req-rep-patterns/cluster/task_flow.cpp: the broker that  *)
(* came before prototype.cpp, on the same sockets.  It announces nothing:  *)
(* it sends a client's request to a random peer one time in five.  The     *)
(* client and worker threads are those of ClusterTasks, except that these  *)
(* clients wait for a reply without a time-out.  Which request is rerouted *)
(* is left open, and so are the pauses of the clients.                     *)
(***************************************************************************)
EXTENDS ClusterBroker

VARIABLE capacity   \* counted beside the list

flowBrokerVars == <<processVars, capacity>>
flowVars == <<flowBrokerVars, taskVars, life, netVars>>

(* "enter": at the prompt; "poll" or "route": in the loop.                 *)
FlowPhase == {"down", "enter", "poll", "route"}

FlowTypeOK ==
  /\ ClusterNetTypeOK
  /\ ClusterTasksTypeOK
  /\ ClusterBrokerTypeOK
  /\ phase \in [Broker -> FlowPhase]
  /\ capacity \in [Broker -> Nat]

FlowInit ==
  /\ ClusterNetInit
  /\ ClusterTasksInit
  /\ ClusterBrokerInit
  /\ capacity = [b \in Broker |-> 0]

InLoop(b) == phase[b] \in {"poll", "route"}

(***************************************************************************)
(* The process starts, is told to go on, and ends.                         *)
(***************************************************************************)

(* Lines 76-113: the sockets are bound.                                    *)
FStart(b) ==
  /\ phase[b] = "down"
  /\ phase' = [phase EXCEPT ![b] = "enter"]
  /\ life' = [life EXCEPT ![b] = @ + 1]
  /\ UNCHANGED <<available_workers, capacity, stops, taskVars, netVars>>

(* Line 107, some time after the peer's line 99.                           *)
FConnect(l) ==
  /\ Up(l[1]) /\ Up(l[2])
  /\ l \notin linked
  /\ Link(l)
  /\ UNCHANGED <<flowBrokerVars, taskVars>>

(* Enter is pressed before the other brokers are there (seeded fault).     *)
AtOnce(b) == TRUE

(* Line 117, "Press 'Enter' when all brokers are started": the user does   *)
(* as told, and is slower than a connection to a broker that is there.     *)
AllStarted(b) == \A p \in Peers(b) : Up(p) /\ <<b, p>> \in linked

(* Lines 118-134: the threads are started, the loop begins.                *)
FGo(b) ==
  /\ phase[b] = "enter"
  /\ AllStarted(b)
  /\ phase' = [phase EXCEPT ![b] = "poll"]
  /\ UNCHANGED <<available_workers, capacity, stops, taskVars, life, netVars>>

(* Interrupted (lines 145, 152, 169 and 238-245), or killed.               *)
FStop(b) ==
  /\ Up(b)
  /\ stops < MaxStops
  /\ stops' = stops + 1
  /\ phase' = [phase EXCEPT ![b] = "down"]
  /\ available_workers' = [available_workers EXCEPT ![b] = <<>>]
  /\ capacity' = [capacity EXCEPT ![b] = 0]
  /\ SocketsClosed(b)
  /\ TasksEnd(b)
  /\ UNCHANGED life

(***************************************************************************)
(* The first part of a turn, lines 136-188: one reply.                     *)
(***************************************************************************)
FTurn(b) ==
  /\ phase[b] = "poll"
  /\ phase' = [phase EXCEPT ![b] = "route"]
  /\ UNCHANGED <<stops, taskVars, life, linked, known, requests, toCloud, toWorker>>

(* The worker is listed and not counted when it says READY (seeded fault). *)
CountReplies(b, msg) == IF msg = WORKER_READY THEN 0 ELSE 1

(* Line 155: capacity grows by one for every message of a worker.          *)
Grows(b, msg) == 1

(* The peer's name is not looked for: its reply goes to localfe (seeded    *)
(* fault).                                                                 *)
ToClientAlways(b, msg) == FALSE

(* Lines 176-184: the first frame is the name of a peer.                   *)
ToPeer(b, msg) == msg.peer \in Peers(b)

(* Lines 150-164, 175-188: a worker's message.                             *)
FReplyLocal(b) ==
  /\ FTurn(b)
  /\ \E w \in FromWorkers(b) :
       LET msg == Head(fromWorker[w])
           reply == msg # WORKER_READY
       IN  /\ fromWorker' = [fromWorker EXCEPT ![w] = Tail(@)]
           /\ available_workers' = [available_workers EXCEPT ![b] = Append(@, w)]
           /\ capacity' = [capacity EXCEPT ![b] = @ + Grows(b, msg)]
           /\ fromCloud' = IF reply /\ ToPeer(b, msg)
                           THEN CloudReplied(<<msg.peer, b>>, msg.task) ELSE fromCloud
           /\ replies' = IF reply /\ ~ToPeer(b, msg)
                         THEN Delivered(b, msg.task) ELSE replies

(* Lines 166-173, 186-188: a peer's reply, if no worker's was reported.    *)
FReplyCloud(b) ==
  /\ FromWorkers(b) = {}
  /\ FTurn(b)
  /\ \E p \in FromClouds(b) :
       /\ fromCloud' = [fromCloud EXCEPT ![<<b, p>>] = Tail(@)]
       /\ replies' = Delivered(b, Head(fromCloud[<<b, p>>]))
  /\ UNCHANGED <<available_workers, capacity, fromWorker>>

(* Line 143: the poll times out only while there is capacity.              *)
FNoReply(b) ==
  /\ capacity[b] > 0
  /\ FromWorkers(b) = {}
  /\ FromClouds(b) = {}
  /\ FTurn(b)
  /\ UNCHANGED <<available_workers, capacity, fromWorker, fromCloud, replies>>

(***************************************************************************)
(* The second part, lines 196-235: requests, peers first.                  *)
(***************************************************************************)
Routing(b) == phase[b] = "route" /\ capacity[b] > 0

(* Lines 230-233.                                                          *)
ToWorker(b, peer, t) ==
  /\ toWorker' = [toWorker EXCEPT ![Head(available_workers[b])] =
                      Append(@, [peer |-> peer, task |-> t])]
  /\ available_workers' = [available_workers EXCEPT ![b] = Tail(@)]
  /\ capacity' = [capacity EXCEPT ![b] = @ - 1]

(* Lines 206-208 and 230-233.                                              *)
FDispatchCloud(b) ==
  /\ Routing(b)
  /\ \E p \in FromPeers(b) :
       /\ toCloud' = [toCloud EXCEPT ![<<p, b>>] = Tail(@)]
       /\ ToWorker(b, p, Head(toCloud[<<p, b>>]))
  /\ UNCHANGED <<phase, stops, taskVars, life, linked, known, fromCloud, requests, replies,
                 fromWorker>>

(* Lines 209-211 and 230-233: a request that stays here.                   *)
FDispatchLocal(b) ==
  /\ Routing(b)
  /\ FromPeers(b) = {}
  /\ \E t \in FromClients(b) :
       /\ requests' = requests \ {t}
       /\ ToWorker(b, b, t)
  /\ UNCHANGED <<phase, stops, taskVars, life, cloudVars, replies, fromWorker>>

(* Lines 209-211 and 218-222: a request that goes to some peer.            *)
FReroute(b) ==
  /\ Routing(b)
  /\ FromPeers(b) = {}
  /\ \E t \in FromClients(b), p \in Peers(b) :
       /\ requests' = requests \ {t}
       /\ SendToCloud(<<b, p>>, t)
  /\ UNCHANGED <<flowBrokerVars, taskVars, life, linked, known, fromCloud, replies, toWorker,
                 fromWorker>>

(* Lines 196 and 212-214: no capacity, or nothing to route.                *)
FEndTurn(b) ==
  /\ phase[b] = "route"
  /\ capacity[b] > 0 => FromClients(b) = {} /\ FromPeers(b) = {}
  /\ phase' = [phase EXCEPT ![b] = "poll"]
  /\ UNCHANGED <<available_workers, capacity, stops, taskVars, life, netVars>>

FStep(b) ==
  \/ FReplyLocal(b) \/ FReplyCloud(b) \/ FNoReply(b)
  \/ FDispatchCloud(b) \/ FDispatchLocal(b) \/ FReroute(b) \/ FEndTurn(b)

(***************************************************************************)
(* The cluster.                                                            *)
(***************************************************************************)
FlowClient(c) == InLoop(Home(c)) /\ UNCHANGED flowBrokerVars /\ (CTask(c) \/ CReply(c))

FlowWorker(w) == InLoop(Home(w)) /\ UNCHANGED flowBrokerVars /\ (WReady(w) \/ WTask(w))

FlowNext ==
  \/ \E b \in Broker : FStart(b) \/ FGo(b) \/ FStop(b) \/ FStep(b)
  \/ \E l \in Pairs : FConnect(l)
  \/ \E c \in Client : FlowClient(c)
  \/ \E w \in Worker : FlowWorker(w)

FlowSpec == FlowInit /\ [][FlowNext]_flowVars

(* The loops go round, threads read what they get, connections come about, *)
(* and the user who is asked for Enter presses it.  Nothing makes a broker *)
(* start or stop, or a client issue a task.                                *)
FlowFairness ==
  /\ \A b \in Broker : WF_flowVars(FStep(b)) /\ WF_flowVars(FGo(b))
  /\ \A l \in Pairs : WF_flowVars(FConnect(l))
  /\ \A c \in Client : WF_flowVars(FlowClient(c) /\ CReply(c))
  /\ \A w \in Worker : WF_flowVars(FlowWorker(w))

FlowFairSpec == FlowSpec /\ FlowFairness

(***************************************************************************)
(* Properties.                                                             *)
(***************************************************************************)

(* A worker that has said it is ready is in one place, the list or a pipe, *)
(* and the counter the loop runs by is the length of the list it pops      *)
(* from (task_flow.cpp:154-155, 196, 230-233): otherwise the pop returns   *)
(* nothing and is used, or workers stay idle for good.                     *)
WorkersCounted ==
  /\ \A b \in Broker : capacity[b] = Len(available_workers[b])
  /\ \A w \in started :
       LET list == available_workers[Home(w)]
       IN  Cardinality({i \in 1..Len(list) : list[i] = w})
             + Len(toWorker[w]) + Len(fromWorker[w]) = 1

(* Tasks not executed yet, and executed ones on their way back.            *)
Before == requests \cup (UNION {Range(toCloud[l]) : l \in Pairs})
            \cup {e.task : e \in Carried(toWorker)}
After == (UNION {Range(fromCloud[l]) : l \in Pairs}) \cup {e.task : e \in Carried(fromWorker)}

Service ==
  INSTANCE TaskService WITH
    issued <- task_seq,
    queued <- Before,
    executed <- After,
    delivered <- replies,
    failed <- stops > 0

(* Whatever the route of a task, home or by a peer, and however the steps  *)
(* of brokers interleave, the cluster is a service that executes and       *)
(* answers each task once (task_flow.cpp:136-235).                         *)
FlowIsService == Service!Spec

(* As long as no broker goes down, every client gets its reply: no two     *)
(* brokers wait for each other, and no request is dropped (the clients of  *)
(* lines 34-41 would wait for ever).                                       *)
TasksAnswered == \A c \in Client : cphase[c] = "wait" ~> (cphase[c] = "idle" \/ stops > 0)
=============================================================================
