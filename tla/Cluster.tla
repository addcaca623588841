------------------------------- MODULE Cluster -------------------------------
(***************************************************************************)
(* A cluster of the brokers of cluster/prototype.cpp, each with its        *)
(* clients and workers.                                                    *)
(***************************************************************************)
EXTENDS PrototypeBroker

vars == <<brokerVars, taskVars, life, netVars>>

TypeOK == ClusterNetTypeOK /\ ClusterTasksTypeOK /\ PrototypeTypeOK

Init == ClusterNetInit /\ ClusterTasksInit /\ PrototypeInit

BrokerNext(b) == PStart(b) \/ PSubscribe(b) \/ PStop(b) \/ PStep(b)

ClientNext(c) ==
  /\ Up(Home(c))
  /\ \/ CTask(c) /\ Issued + stops < MaxEvents
     \/ CReply(c) \/ CLost(c)
  /\ UNCHANGED brokerVars

WorkerNext(w) ==
  /\ Up(Home(w))
  /\ WReady(w) \/ WTask(w)
  /\ UNCHANGED brokerVars

Next ==
  \/ \E b \in Broker : BrokerNext(b)
  \/ \E l \in Pairs : PConnect(l)
  \/ \E c \in Client : ClientNext(c)
  \/ \E w \in Worker : WorkerNext(w)

Spec == Init /\ [][Next]_vars

(***************************************************************************)
(* Safety.                                                                 *)
(***************************************************************************)

(* A worker that has said it is ready is in one place: once in the list of *)
(* its broker, or with one message under way to it or from it.  The list   *)
(* takes a worker for each message it sends without looking for it         *)
(* (prototype.cpp:209, 282).                                               *)
WorkersInOnePlace ==
  \A w \in started :
    LET list == available_workers[Home(w)]
    IN  Cardinality({i \in 1..Len(list) : list[i] = w})
          + Len(toWorker[w]) + Len(fromWorker[w]) = 1

(* Once every cloud backend knows all its peers, and as long as no broker  *)
(* goes down, no task is lost on its way: it leaves the system only as a   *)
(* reply (prototype.cpp:232-242, 265-292).                                 *)
TasksSurvive ==
  [][known = Pairs /\ (\A b \in Broker : Up(b) /\ Up(b)') /\ stops = 0
       => \A t \in Queued : t \in Queued' \cup replies']_vars

(***************************************************************************)
(* What a comment of the code says.                                        *)
(***************************************************************************)

(* prototype.cpp:105-107 and 152: the state frontend collects what all     *)
(* other state backends publish, so a broker that counts on capacity in    *)
(* the cloud has a peer that has been started.                             *)
CapacityIsOfPeers ==
  \A b \in Broker : cloud_capacity[b] > 0 => \E p \in Peers(b) : life[p] > 0
=============================================================================
