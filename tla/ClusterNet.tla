----------------------------- MODULE ClusterNet -----------------------------
(***************************************************************************)
(* The sockets of a cluster of brokers (chapter 3, cluster/prototype.cpp): *)
(* localfe and localbe to the clients and workers of each broker, and the  *)
(* connection from the cloud backend of each broker to the cloud frontend  *)
(* of each of its peers.  ZeroMQ is outside src/; what the code relies on  *)
(* is modelled: order within a pipe; a ROUTER drops a message for an       *)
(* identity it does not know; the connecting side knows the identity of    *)
(* the other from the first handshake on and keeps what it has not yet     *)
(* sent while it reconnects; the binding side forgets a connection with    *)
(* its peer.                                                               *)
(***************************************************************************)
EXTENDS Naturals, Sequences, FiniteSets

CONSTANTS
  Broker,        \* the names on the command lines: all brokers know all
  ClientThread,  \* clients of each broker, NBR_CLIENTS in the code
  WorkerThread,  \* workers of each broker, NBR_WORKERS in the code
  MaxTasks,      \* bound: tasks the clients issue, all together
  MaxStops       \* bound: times a broker process goes down, all together

ASSUME ClusterAssumption ==
  /\ IsFiniteSet(Broker) /\ IsFiniteSet(ClientThread) /\ IsFiniteSet(WorkerThread)
  /\ MaxTasks \in Nat
  /\ MaxStops \in Nat

Client == Broker \X ClientThread
Worker == Broker \X WorkerThread
Home(x) == x[1]
Peers(b) == Broker \ {b}
Pairs == {l \in Broker \X Broker : l[1] # l[2]}

VARIABLES
  life,         \* which start of each broker's process this is, 0: none yet
  linked,       \* <<a, b>>: a's cloudbe is connected to b's cloudfe
  known,        \* <<a, b>>: a's cloudbe has learnt b's identity
  requests,     \* tasks on their way to a localfe or waiting in it
  replies,      \* replies delivered to clients that have not read them
  toCloud,      \* requests from cloudbe to cloudfe, oldest first
  fromCloud,    \* replies from cloudfe to cloudbe, oldest first
  toWorker,     \* from localbe to the worker
  fromWorker    \* from the worker to localbe

cloudVars == <<linked, known, toCloud, fromCloud>>
localVars == <<requests, replies, toWorker, fromWorker>>
netVars == <<cloudVars, localVars>>

(* A task_id, and the identity of the client socket that sent it, which a  *)
(* restart of its process replaces.                                        *)
Task == [client : Client, life : 1..(MaxStops + 1), seq : 1..MaxTasks]

(* What a worker gets and sends back: the task, in the envelope of the     *)
(* peer it came from, or of none (peer is then the worker's own broker).   *)
Envelope == [peer : Broker, task : Task]
WORKER_READY == [peer |-> "none"]

ClusterNetTypeOK ==
  /\ life \in [Broker -> 0..(MaxStops + 1)]
  /\ linked \subseteq known
  /\ known \subseteq Pairs
  /\ requests \subseteq Task
  /\ replies \subseteq Task
  /\ toCloud \in [Pairs -> Seq(Task)]
  /\ fromCloud \in [Pairs -> Seq(Task)]
  /\ toWorker \in [Worker -> Seq(Envelope)]
  /\ fromWorker \in [Worker -> Seq(Envelope \cup {WORKER_READY})]
  /\ \A w \in Worker : Len(toWorker[w]) + Len(fromWorker[w]) <= 1

ClusterNetInit ==
  /\ life = [b \in Broker |-> 0]
  /\ linked = {}
  /\ known = {}
  /\ requests = {}
  /\ replies = {}
  /\ toCloud = [l \in Pairs |-> <<>>]
  /\ fromCloud = [l \in Pairs |-> <<>>]
  /\ toWorker = [w \in Worker |-> <<>>]
  /\ fromWorker = [w \in Worker |-> <<>>]

(* What a broker's sockets have to read: the workers and peers that have   *)
(* sent a reply, the tasks of its clients, the peers that sent a request.  *)
FromWorkers(b) == {w \in Worker : Home(w) = b /\ fromWorker[w] # <<>>}
FromClouds(b) == {p \in Peers(b) : fromCloud[<<b, p>>] # <<>>}
FromClients(b) == {t \in requests : Home(t.client) = b}
FromPeers(b) == {p \in Peers(b) : toCloud[<<p, b>>] # <<>>}

(* zmsg_send on the cloudbe of l[1], addressed to l[2].                    *)
SendToCloud(l, t) ==
  toCloud' = IF l \in known THEN [toCloud EXCEPT ![l] = Append(@, t)] ELSE toCloud

(* The value of fromCloud after zmsg_send on the cloudfe of l[2], addressed*)
(* to l[1].                                                                *)
CloudReplied(l, t) ==
  IF l \in linked THEN [fromCloud EXCEPT ![l] = Append(@, t)] ELSE fromCloud

(* The value of replies after zmsg_send on the localfe of b, which knows   *)
(* the clients of b, in their present life.                                *)
Delivered(b, t) ==
  IF Home(t.client) = b /\ t.life = life[b] THEN replies \cup {t} ELSE replies

(* The cloudbe of l[1] connects, or connects again.                        *)
Link(l) ==
  /\ linked' = linked \cup {l}
  /\ known' = known \cup {l}
  /\ UNCHANGED <<life, toCloud, fromCloud, localVars>>

(* The process of b ends.  Of what a peer sent to it, what was still in    *)
(* the peer's socket is kept; of what it sent to a peer, what had arrived. *)
SocketsClosed(b) ==
  /\ linked' = {l \in linked : b \notin {l[1], l[2]}}
  /\ known' = {l \in known : l[1] # b}
  /\ \E kept \in [Pairs -> 0..MaxTasks] :
       /\ \A l \in Pairs : kept[l] <= Len(toCloud[l]) /\ (b \notin {l[1], l[2]} => kept[l] = 0)
       /\ toCloud' = [l \in Pairs |->
            CASE l[1] = b -> SubSeq(toCloud[l], 1, kept[l])
              [] l[2] = b -> SubSeq(toCloud[l], kept[l] + 1, Len(toCloud[l]))
              [] OTHER -> toCloud[l]]
  /\ \E kept \in [Pairs -> 0..MaxTasks] :
       /\ \A l \in Pairs : kept[l] <= Len(fromCloud[l]) /\ (l[2] # b => kept[l] = 0)
       /\ fromCloud' = [l \in Pairs |->
            CASE l[1] = b -> <<>>
              [] l[2] = b -> SubSeq(fromCloud[l], 1, kept[l])
              [] OTHER -> fromCloud[l]]
  /\ requests' = {t \in requests : Home(t.client) # b}
  /\ replies' = {t \in replies : Home(t.client) # b}
  /\ toWorker' = [w \in Worker |-> IF Home(w) = b THEN <<>> ELSE toWorker[w]]
  /\ fromWorker' = [w \in Worker |-> IF Home(w) = b THEN <<>> ELSE fromWorker[w]]
=============================================================================
