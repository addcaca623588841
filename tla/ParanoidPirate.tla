--------------------------- MODULE ParanoidPirate ---------------------------
(***************************************************************************)
(* The Paranoid Pirate pattern: one ppqueue.c, the ppworker.c processes    *)
(* and the lpclient.cpp processes, over the sockets of PPNet and Frontend. *)
(***************************************************************************)
EXTENDS PPQueue, PPWorker, LPClient

vars == <<queueVars, netVars, workerVars, clientVars, frontendVars>>

TypeOK ==
  /\ FrontendTypeOK
  /\ LPClientTypeOK
  /\ PPNetTypeOK
  /\ PPQueueTypeOK
  /\ PPWorkerTypeOK

Init ==
  /\ FrontendInit
  /\ LPClientInit
  /\ PPNetInit
  /\ PPQueueInit
  /\ PPWorkerInit

(* Time passes for every process alike, whatever else they do.             *)
Tick ==
  /\ QTick
  /\ WTick
  /\ UNCHANGED <<qphase, stops, netVars, wphase, liveness, interval, cycles,
                 job, clientVars, frontendVars>>

QueueNext ==
  /\ QPoll \/ (\E w \in Worker : QBackend(w)) \/ QFrontend \/ QHeartbeat
       \/ QStop \/ QStart
  /\ UNCHANGED <<workerVars, clientVars>>

WorkerNext ==
  /\ \E w \in Worker :
       \/ WStart(w) \/ WHeartbeat(w) \/ WRequest(w) \/ WReply(w)
       \/ WSilence(w) \/ WGiveUp(w) \/ WReconnect(w)
       \/ WCrash(w) \/ WInterrupt(w)
  /\ UNCHANGED <<queueVars, clientVars>>

ClientNext ==
  /\ \E c \in Client :
       CSend(c) \/ CReply(c) \/ CRetry(c) \/ CAbandon(c) \/ CInterrupt(c)
  /\ UNCHANGED <<queueVars, netVars, workerVars>>

Next == QueueNext \/ WorkerNext \/ ClientNext \/ Tick

Spec == Init /\ [][Next]_vars

(***************************************************************************)
(* Fairness.  Every process that can take a step takes one in the end, and *)
(* time passes.  zmsg_recv reads the backend's pipes in turn (fair         *)
(* queueing), so a pipe with a message in it is read in the end even if    *)
(* every poll finds other pipes readable too.  A queue that went down is   *)
(* started again.  Nothing makes a worker start, crash or be interrupted,  *)
(* or a client send or be interrupted.                                     *)
(***************************************************************************)
Queue(A) == A /\ UNCHANGED <<workerVars, clientVars>>

Fairness ==
  /\ WF_vars(Queue(QPoll))
  /\ WF_vars(Queue(QFrontend))
  /\ WF_vars(Queue(QHeartbeat))
  /\ WF_vars(Queue(QStart))
  /\ WF_vars(Tick)
  /\ \A w \in Worker :
       /\ SF_vars(Queue(QBackend(w)))
       /\ WF_vars(WStep(w) /\ UNCHANGED <<queueVars, clientVars>>)
  /\ \A c \in Client :
       WF_vars(CStep(c) /\ UNCHANGED <<queueVars, netVars, workerVars>>)

FairSpec == Spec /\ Fairness

(***************************************************************************)
(* Safety.                                                                 *)
(***************************************************************************)

(* Everywhere a request, or the reply to it, can be.                       *)
Carried(side, pipe) ==
  {[at |-> <<side, p[1], p[2]>>, msg |-> pipe[p[1]][p[2]].body] :
     p \in {q \in Worker \X (1..HWM) :
              /\ q[2] <= Len(pipe[q[1]])
              /\ pipe[q[1]][q[2]].kind \in {"REQUEST", "REPLY"}}}

Traffic ==
  {[at |-> <<"frontend">>, msg |-> m] : m \in requests}
    \cup {[at |-> <<"client">>, msg |-> m] : m \in replies}
    \cup {[at |-> <<"job", w>>, msg |-> job[w]] :
            w \in {v \in Worker : wphase[v] = "work"}}
    \cup Carried("to", toWorker)
    \cup Carried("from", fromWorker)

(* A connection has one request or one reply under way at most: no step of *)
(* the queue or of a worker, no reconnection, restart or retry multiplies  *)
(* a request (a retry travels on a connection of its own), so a worker     *)
(* executes it at most once per attempt (ppqueue.c:139-147,                *)
(* ppworker.c:64-77, lpclient.cpp:62-71).                                  *)
SingleCopy ==
  \A x, y \in Traffic :
    x.msg.client = y.msg.client /\ x.msg.route = y.msg.route => x = y

(***************************************************************************)
(* Liveness.                                                               *)
(***************************************************************************)

(* A worker that died is removed from the list in the end, for good,       *)
(* whatever it still had in its pipe (ppqueue.c:94-95, "so that we can     *)
(* detect crashed or blocked worker tasks").                               *)
DeadWorkersLeave ==
  \A w \in Worker : wphase[w] = "dead" ~> [](w \notin Listed)

(* A worker that keeps running is again and again in the list or at work,  *)
(* even when the queue has been restarted and knows nothing of it: its     *)
(* heartbeats, or its new socket's READY, list it (ppqueue.c:124-126,      *)
(* ppworker.c:94-114).                                                     *)
LiveWorkersReturn ==
  \A w \in Worker :
    Running(w) ~> (w \in Listed \/ wphase[w] = "work" \/ wphase[w] = "dead")
=============================================================================
