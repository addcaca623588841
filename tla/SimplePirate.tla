---------------------------- MODULE SimplePirate ----------------------------
(***************************************************************************)
(* The Simple Pirate pattern: one spqueue.cpp, the spworker.cpp processes  *)
(* and the lpclient.cpp processes.                                         *)
(***************************************************************************)
EXTENDS SPQueue, SPWorker, LPClient

vars == <<queueVars, netVars, workerVars, clientVars, frontendVars>>

TypeOK ==
  /\ FrontendTypeOK
  /\ LPClientTypeOK
  /\ PPNetTypeOK
  /\ SPQueueTypeOK
  /\ SPWorkerTypeOK

Init ==
  /\ FrontendInit
  /\ LPClientInit
  /\ PPNetInit
  /\ SPQueueInit
  /\ SPWorkerInit

QueueNext ==
  /\ SQPoll \/ (\E w \in Worker : SQBackend(w)) \/ SQFrontend \/ SQStop \/ SQStart
  /\ UNCHANGED <<workerVars, clientVars>>

WorkerNext ==
  /\ \E w \in Worker :
       SWStart(w) \/ SWRequest(w) \/ SWReply(w) \/ SWCrash(w) \/ SWInterrupt(w)
  /\ UNCHANGED <<queueVars, clientVars>>

ClientNext ==
  /\ \E c \in Client :
       CSend(c) \/ CReply(c) \/ CRetry(c) \/ CAbandon(c) \/ CInterrupt(c)
  /\ UNCHANGED <<queueVars, netVars, workerVars>>

Next == QueueNext \/ WorkerNext \/ ClientNext

Spec == Init /\ [][Next]_vars

(* Every process that can take a step takes one in the end; zmsg_recv      *)
(* reads the backend's pipes in turn.  Nothing makes a process start,      *)
(* crash or be interrupted, or a client send.                              *)
Queue(A) == A /\ UNCHANGED <<workerVars, clientVars>>

Fairness ==
  /\ WF_vars(Queue(SQPoll))
  /\ WF_vars(Queue(SQFrontend))
  /\ \A w \in Worker :
       /\ SF_vars(Queue(SQBackend(w)))
       /\ WF_vars((SWRequest(w) \/ SWReply(w)) /\ UNCHANGED <<queueVars, clientVars>>)
  /\ \A c \in Client :
       WF_vars(CStep(c) /\ UNCHANGED <<queueVars, netVars, workerVars>>)

FairSpec == Spec /\ Fairness

(* Every worker is in one place: listed at most once, and while it is, it  *)
(* neither works nor has a message under way to or from the queue.  There  *)
(* is no heartbeat here to list a worker that is busy (spqueue.cpp:39-55,  *)
(* spworker.cpp:33-54).                                                    *)
ListedOnceAndIdle ==
  \A i \in 1..Len(available_workers) :
    LET w == available_workers[i]
    IN  /\ \A j \in 1..Len(available_workers) : available_workers[j] = w => i = j
        /\ wphase[w] # "work"
        /\ toWorker[w] = <<>>
        /\ fromWorker[w] = <<>>

(* While the queue stays up, a worker that keeps running is listed again   *)
(* and again, whatever became of the clients it worked for: no request     *)
(* makes a worker disappear (spqueue.cpp:39-49).  Once the queue has been  *)
(* restarted this fails, since nothing makes a waiting worker announce     *)
(* itself again.                                                           *)
WorkersReturn ==
  \A w \in Worker :
    Running(w) ~> (stops > 0 \/ wphase[w] = "dead"
                     \/ w \in {available_workers[i] : i \in 1..Len(available_workers)})
=============================================================================
