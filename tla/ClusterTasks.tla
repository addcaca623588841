---------------------------- MODULE ClusterTasks ----------------------------
(***************************************************************************)
(* chap3-advanced-req-rep-patterns/cluster/prototype.cpp, lines 25-96: the *)
(* client and worker threads of each broker.  A client issues a task and   *)
(* waits for the reply, at most ten seconds; times are not measured, and a *)
(* burst is any number of tasks.  Task ids are told apart by task_seq.     *)
(* What clients tell the monitor is only printed, and left out.  The       *)
(* threads of task_flow.cpp, lines 24-71, do the same, but for the         *)
(* time-out.                                                               *)
(***************************************************************************)
EXTENDS ClusterNet, Functions

VARIABLES
  cphase,     \* where each client is
  task_seq,   \* number of its last task
  started     \* the workers that have said they are ready

taskVars == <<cphase, task_seq, started>>

(* "idle": in the sleep or the loop of a burst; "wait": in zmq_poll;       *)
(* "lost": returned, its socket never closed.                              *)
ClientPhase == {"idle", "wait", "lost"}

ClusterTasksTypeOK ==
  /\ cphase \in [Client -> ClientPhase]
  /\ task_seq \in [Client -> 0..MaxTasks]
  /\ started \subseteq Worker

ClusterTasksInit ==
  /\ cphase = [c \in Client |-> "idle"]
  /\ task_seq = [c \in Client |-> 0]
  /\ started = {}

(* The tasks of all clients so far.                                        *)
Issued == Cardinality({t \in Client \X (1..MaxTasks) : t[2] <= task_seq[t[1]]})

(* Lines 40-46: a task.                                                    *)
CTask(c) ==
  /\ cphase[c] = "idle"
  /\ Issued < MaxTasks
  /\ task_seq' = [task_seq EXCEPT ![c] = @ + 1]
  /\ requests' = requests \cup
       {[client |-> c, life |-> life[Home(c)], seq |-> task_seq[c] + 1]}
  /\ cphase' = [cphase EXCEPT ![c] = "wait"]
  /\ UNCHANGED <<started, life, cloudVars, replies, toWorker, fromWorker>>

(* Lines 52-59: the reply.                                                 *)
CReply(c) ==
  /\ cphase[c] = "wait"
  /\ \E t \in replies : t.client = c /\ replies' = replies \ {t}
  /\ cphase' = [cphase EXCEPT ![c] = "idle"]
  /\ UNCHANGED <<task_seq, started, life, cloudVars, requests, toWorker, fromWorker>>

Silent(c) == cphase[c] = "wait" /\ \A t \in replies : t.client # c

(* The client complains and goes on with the next task (seeded fault).     *)
ComplainAndGoOn(c) ==
  /\ Silent(c)
  /\ cphase' = [cphase EXCEPT ![c] = "idle"]
  /\ UNCHANGED <<task_seq, started, life, netVars>>

(* Lines 60-63: no reply in time; the client complains and returns.        *)
CLost(c) ==
  /\ Silent(c)
  /\ cphase' = [cphase EXCEPT ![c] = "lost"]
  /\ UNCHANGED <<task_seq, started, life, netVars>>

(* Lines 75-82: the worker says that it is ready.                          *)
WReady(w) ==
  /\ w \notin started
  /\ started' = started \cup {w}
  /\ fromWorker' = [fromWorker EXCEPT ![w] = Append(@, WORKER_READY)]
  /\ UNCHANGED <<cphase, task_seq, life, cloudVars, requests, replies, toWorker>>

(* The request stays in the socket and is answered again (seeded fault).   *)
AnswerAgain(w) ==
  /\ toWorker[w] # <<>>
  /\ fromWorker' = [fromWorker EXCEPT ![w] = Append(@, Head(toWorker[w]))]
  /\ UNCHANGED <<taskVars, life, cloudVars, requests, replies, toWorker>>

(* Lines 84-93: a request is received and, some time later, sent back.     *)
(* Nobody sees the worker in between: the request is in its pipe until the *)
(* reply is.                                                               *)
WTask(w) ==
  /\ toWorker[w] # <<>>
  /\ toWorker' = [toWorker EXCEPT ![w] = Tail(@)]
  /\ fromWorker' = [fromWorker EXCEPT ![w] = Append(@, Head(toWorker[w]))]
  /\ UNCHANGED <<taskVars, life, cloudVars, requests, replies>>

(* The threads of b end with its process.                                  *)
TasksEnd(b) ==
  /\ cphase' = [c \in Client |-> IF Home(c) = b THEN "idle" ELSE cphase[c]]
  /\ started' = {w \in started : Home(w) # b}
  /\ UNCHANGED task_seq

(***************************************************************************)
(* Where a task is.                                                        *)
(***************************************************************************)
Carried(pipe) == (UNION {Range(pipe[w]) : w \in Worker}) \ {WORKER_READY}

AtWorker(pipe, t) == {w \in Worker : \E e \in Range(pipe[w]) \ {WORKER_READY} : e.task = t}

OnLink(pipe, t) ==
  UNION {{<<l, i>> : i \in {j \in DOMAIN pipe[l] : pipe[l][j] = t}} : l \in Pairs}

CopiesOf(t) ==
  Cardinality({t} \cap requests) + Cardinality({t} \cap replies)
    + Cardinality(OnLink(toCloud, t)) + Cardinality(OnLink(fromCloud, t))
    + Cardinality(AtWorker(toWorker, t)) + Cardinality(AtWorker(fromWorker, t))

Queued ==
  requests
    \cup (UNION {Range(toCloud[l]) \cup Range(fromCloud[l]) : l \in Pairs})
    \cup {e.task : e \in Carried(toWorker) \cup Carried(fromWorker)}

(***************************************************************************)
(* Safety of tasks, whatever broker routes them.                           *)
(***************************************************************************)

(* A task is in one place at a time, so it is executed at most once and    *)
(* answered at most once, at home or at a peer, whatever broker restarts   *)
(* (prototype.cpp:202-242, 273-291).                                       *)
TaskInOnePlace == \A t \in Queued \cup replies : CopiesOf(t) = 1

(* A request crosses at most one connection: what comes from a peer is     *)
(* executed by a local worker, never sent on (prototype.cpp:259-264, 270). *)
OneHop ==
  /\ \A l \in Pairs : \A i \in 1..Len(toCloud[l]) : Home(toCloud[l][i].client) = l[1]
  /\ \A w \in Worker : \A i \in 1..Len(toWorker[w]) :
       Home(toWorker[w][i].task.client) = toWorker[w][i].peer

(* The assertion of prototype.cpp:57: the reply a client can read is for   *)
(* the task it waits for, of this life of its process.                     *)
RepliesMatch ==
  \A t \in replies :
    /\ t.seq = task_seq[t.client]
    /\ t.life = life[Home(t.client)]
    /\ cphase[t.client] # "idle"
=============================================================================
