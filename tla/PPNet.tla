-------------------------------- MODULE PPNet --------------------------------
(***************************************************************************)
(* The backend of the Simple and the Paranoid Pirate queue: the ROUTER     *)
(* socket of spqueue.cpp and ppqueue.c, and the socket of every worker     *)
(* (REQ in spworker.cpp, DEALER in ppworker.c), as one FIFO pipe each way  *)
(* per worker.  ZeroMQ is outside src/; what the code relies on is         *)
(* modelled: order is kept within a pipe, the ROUTER drops a message whose *)
(* worker is gone or whose pipe is full, a worker blocks on a full pipe.   *)
(***************************************************************************)
EXTENDS Frontend, Sequences

CONSTANTS
  Worker,   \* worker processes; a process started again has a new identity
  HWM       \* bound: messages a pipe holds (ZMQ_SNDHWM plus ZMQ_RCVHWM)

ASSUME HWMAssumption == HWM \in Nat \ {0}

VARIABLES
  toWorker,     \* toWorker[w]: from the queue to w, oldest first
  fromWorker,   \* fromWorker[w]: from w to the queue, oldest first
  online        \* workers whose process holds a socket to the queue

netVars == <<toWorker, fromWorker, online>>

(* One-frame messages of the Paranoid Pirate Protocol, and the envelope    *)
(* with a request or with the reply that echoes it.                        *)
READY == [kind |-> "READY"]
HEARTBEAT == [kind |-> "HEARTBEAT"]
RequestMsg(m) == [kind |-> "REQUEST", body |-> m]
ReplyMsg(m) == [kind |-> "REPLY", body |-> m]

WorkerMessage == {READY, HEARTBEAT} \cup [kind : {"REPLY"}, body : Request]
QueueMessage == {HEARTBEAT} \cup [kind : {"REQUEST"}, body : Request]

PPNetTypeOK ==
  /\ toWorker \in [Worker -> Seq(QueueMessage)]
  /\ fromWorker \in [Worker -> Seq(WorkerMessage)]
  /\ online \subseteq Worker
  /\ \A w \in Worker : Len(toWorker[w]) <= HWM /\ Len(fromWorker[w]) <= HWM

PPNetInit ==
  /\ toWorker = [w \in Worker |-> <<>>]
  /\ fromWorker = [w \in Worker |-> <<>>]
  /\ online = {}

(* The ROUTER queues without a limit (seeded fault).                       *)
SendUnlimited(S, m) ==
  toWorker' = [w \in Worker |->
                 IF w \in S \cap online THEN Append(toWorker[w], m) ELSE toWorker[w]]

(* zmsg_send and zframe_send on the ROUTER, to every worker of S.          *)
RouterSend(S, m) ==
  toWorker' = [w \in Worker |->
                 IF w \in S \cap online /\ Len(toWorker[w]) < HWM
                 THEN Append(toWorker[w], m) ELSE toWorker[w]]

Readable == \E w \in Worker : fromWorker[w] # <<>>

(* w's socket is closed: what was sent to it is gone, and of what it sent  *)
(* only a prefix has reached the queue.  A poll that reported the backend  *)
(* readable still finds a message to receive.  "first" is what a new       *)
(* socket of w sends.                                                      *)
ClosePipes(w, first) ==
  /\ toWorker' = [toWorker EXCEPT ![w] = <<>>]
  /\ \E n \in 0..Len(fromWorker[w]) :
       /\ n + Len(first) <= HWM
       /\ "backend" \in revents =>
            n > 0 \/ \E v \in Worker \ {w} : fromWorker[v] # <<>>
       /\ fromWorker' = [fromWorker EXCEPT ![w] = SubSeq(@, 1, n) \o first]

(* The queue's socket is closed: what it had not sent or not received is   *)
(* lost, in part or all; what workers had received or not sent survives.   *)
BackendDown ==
  /\ \E got \in [Worker -> 0..HWM], kept \in [Worker -> 0..HWM] :
       /\ \A w \in Worker : got[w] <= Len(toWorker[w])
                         /\ kept[w] <= Len(fromWorker[w])
       /\ toWorker' = [w \in Worker |-> SubSeq(toWorker[w], 1, got[w])]
       /\ fromWorker' = [w \in Worker |->
            SubSeq(fromWorker[w], kept[w] + 1, Len(fromWorker[w]))]
=============================================================================
