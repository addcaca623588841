---------------------------- MODULE ClusterProofs ----------------------------
(***************************************************************************)
(* Theorems about the clusters of prototype.cpp and of task_flow.cpp, for  *)
(* any number of brokers, clients and workers, and any bounds on tasks and *)
(* restarts.  The two programs take the same steps on the same sockets,    *)
(* in other orders and on other conditions: those steps, and what they     *)
(* keep, come first.                                                       *)
(***************************************************************************)
EXTENDS Cluster, TaskFlow, TLAPS, SequenceTheorems, FiniteSetTheorems

(***************************************************************************)
(* The steps of both brokers.                                              *)
(***************************************************************************)
Running(b) ==
  /\ Up(b)
  /\ \E x \in FlowPhase \ {"down"} : phase' = [phase EXCEPT ![b] = x]

Rise(b) ==
  /\ ~Up(b)
  /\ \E x \in FlowPhase \ {"down"} : phase' = [phase EXCEPT ![b] = x]
  /\ life' = [life EXCEPT ![b] = @ + 1]
  /\ UNCHANGED <<available_workers, stops, taskVars, netVars>>

Connect(l) ==
  /\ Link(l)
  /\ UNCHANGED <<processVars, taskVars>>

Fall(b) ==
  /\ Up(b)
  /\ stops < MaxStops
  /\ stops' = stops + 1
  /\ phase' = [phase EXCEPT ![b] = "down"]
  /\ available_workers' = [available_workers EXCEPT ![b] = <<>>]
  /\ SocketsClosed(b)
  /\ TasksEnd(b)
  /\ UNCHANGED life

(* A step of the loop that leaves tasks and workers alone.                 *)
Pass(b) ==
  /\ Running(b)
  /\ UNCHANGED <<available_workers, stops, taskVars, life, netVars>>

(* A worker's message: READY, or a reply for a peer or for a client.       *)
TakeFromWorker(b, w) ==
  LET msg == Head(fromWorker[w])
  IN  /\ Running(b)
      /\ w \in FromWorkers(b)
      /\ fromWorker' = [fromWorker EXCEPT ![w] = Tail(@)]
      /\ available_workers' = [available_workers EXCEPT ![b] = Append(@, w)]
      /\ fromCloud' = IF msg # WORKER_READY /\ msg.peer \in Peers(b)
                      THEN CloudReplied(<<msg.peer, b>>, msg.task) ELSE fromCloud
      /\ replies' = IF msg # WORKER_READY /\ msg.peer \notin Peers(b)
                    THEN Delivered(b, msg.task) ELSE replies
      /\ UNCHANGED <<stops, taskVars, life, linked, known, requests, toCloud, toWorker>>

TakeFromCloud(b, p) ==
  /\ Running(b)
  /\ p \in FromClouds(b)
  /\ fromCloud' = [fromCloud EXCEPT ![<<b, p>>] = Tail(@)]
  /\ replies' = Delivered(b, Head(fromCloud[<<b, p>>]))
  /\ UNCHANGED <<available_workers, stops, taskVars, life, linked, known, requests, toCloud,
                 toWorker, fromWorker>>

(* A worker is taken from the list and given a task.                       *)
Give(b, peer, t) ==
  /\ available_workers[b] # <<>>
  /\ toWorker' = [toWorker EXCEPT ![Head(available_workers[b])] =
                    Append(@, [peer |-> peer, task |-> t])]
  /\ available_workers' = [available_workers EXCEPT ![b] = Tail(@)]

GiveLocal(b, t) ==
  /\ Running(b)
  /\ t \in FromClients(b)
  /\ requests' = requests \ {t}
  /\ Give(b, b, t)
  /\ UNCHANGED <<stops, taskVars, life, cloudVars, replies, fromWorker>>

GiveCloud(b, p) ==
  /\ Running(b)
  /\ p \in FromPeers(b)
  /\ toCloud' = [toCloud EXCEPT ![<<p, b>>] = Tail(@)]
  /\ Give(b, p, Head(toCloud[<<p, b>>]))
  /\ UNCHANGED <<stops, taskVars, life, linked, known, fromCloud, requests, replies,
                 fromWorker>>

Forward(b, p, t) ==
  /\ Running(b)
  /\ t \in FromClients(b)
  /\ p \in Peers(b)
  /\ requests' = requests \ {t}
  /\ SendToCloud(<<b, p>>, t)
  /\ UNCHANGED <<available_workers, stops, taskVars, life, linked, known, fromCloud, replies,
                 toWorker, fromWorker>>

ClientStep(c) ==
  /\ Up(Home(c))
  /\ CTask(c) \/ CReply(c) \/ CLost(c)
  /\ UNCHANGED processVars

WorkerStep(w) ==
  /\ Up(Home(w))
  /\ WReady(w) \/ WTask(w)
  /\ UNCHANGED processVars

(***************************************************************************)
(* The invariant of both.                                                  *)
(***************************************************************************)
TasksTypeOK ==
  /\ ClusterNetTypeOK
  /\ ClusterTasksTypeOK
  /\ ClusterBrokerTypeOK
  /\ phase \in [Broker -> FlowPhase]

(* A worker is in the list of its broker, once, or has a message under way,*)
(* or has not said yet that it is ready.                                   *)
Listed(w) ==
  \E i \in 1..Len(available_workers[Home(w)]) : available_workers[Home(w)][i] = w

WorkersInv ==
  /\ \A b \in Broker : \A i \in 1..Len(available_workers[b]) :
       /\ available_workers[b][i] \in started
       /\ Home(available_workers[b][i]) = b
       /\ toWorker[available_workers[b][i]] = <<>>
       /\ fromWorker[available_workers[b][i]] = <<>>
       /\ \A j \in 1..Len(available_workers[b]) :
            available_workers[b][j] = available_workers[b][i] => j = i
  /\ \A w \in Worker :
       IF w \in started THEN Listed(w) \/ toWorker[w] # <<>> \/ fromWorker[w] # <<>>
                        ELSE toWorker[w] = <<>> /\ fromWorker[w] = <<>>

(* The lives of a process.                                                 *)
LivesInv ==
  \A b \in Broker :
    /\ life[b] <= stops + 1
    /\ ~Up(b) => life[b] <= stops
    /\ Up(b) => life[b] > 0

LinksInv == stops = 0 => known \subseteq linked

(* Tasks on a connection belong to the side that connected.                *)
HopsInv ==
  /\ \A l \in Pairs : \A i \in 1..Len(toCloud[l]) : Home(toCloud[l][i].client) = l[1]
  /\ \A l \in Pairs : \A i \in 1..Len(fromCloud[l]) : Home(fromCloud[l][i].client) = l[1]
  /\ \A w \in Worker : \A i \in 1..Len(toWorker[w]) :
       Home(toWorker[w][i].task.client) = toWorker[w][i].peer
  /\ \A w \in Worker : \A i \in 1..Len(fromWorker[w]) :
       fromWorker[w][i] # WORKER_READY =>
         Home(fromWorker[w][i].task.client) = fromWorker[w][i].peer

NoneTwice(s) == \A i, j \in 1..Len(s) : s[i] = s[j] => i = j

OnceInv == \A l \in Pairs : NoneTwice(toCloud[l]) /\ NoneTwice(fromCloud[l])

RepliesInv ==
  \A t \in replies : Up(Home(t.client)) /\ t.life = life[Home(t.client)]

(* Each task is in one place: there is a function, at, that says which.    *)
Nowhere == <<"nowhere">>

Place ==
  {Nowhere, <<"requests">>, <<"replies">>}
    \cup {<<"toCloud", l>> : l \in Pairs} \cup {<<"fromCloud", l>> : l \in Pairs}
    \cup {<<"toWorker", w>> : w \in Worker} \cup {<<"fromWorker", w>> : w \in Worker}

AtFrontend(at, asked, answered) ==
  /\ \A t \in asked : at[t] = <<"requests">>
  /\ \A t \in answered : at[t] = <<"replies">>

AtCloud(at, to, from) ==
  /\ \A l \in Pairs : \A i \in 1..Len(to[l]) : at[to[l][i]] = <<"toCloud", l>>
  /\ \A l \in Pairs : \A i \in 1..Len(from[l]) : at[from[l][i]] = <<"fromCloud", l>>

AtWorkers(at, to, from) ==
  /\ \A w \in Worker : \A i \in 1..Len(to[w]) : at[to[w][i].task] = <<"toWorker", w>>
  /\ \A w \in Worker : \A i \in 1..Len(from[w]) :
       from[w][i] # WORKER_READY => at[from[w][i].task] = <<"fromWorker", w>>

Located(at) ==
  AtFrontend(at, requests, replies) /\ AtCloud(at, toCloud, fromCloud)
    /\ AtWorkers(at, toWorker, fromWorker)

(* A task that is somewhere is one its client has issued, and if it is of  *)
(* the client's present life, the one the client waits for.                *)
Known(at) ==
  \A t \in Task :
    at[t] # Nowhere =>
      /\ t.seq <= task_seq[t.client]
      /\ t.life <= life[Home(t.client)]
      /\ Up(Home(t.client)) /\ t.life = life[Home(t.client)] =>
           t.seq = task_seq[t.client] /\ cphase[t.client] # "idle"

TasksInv == \E at \in [Task -> Place] : Located(at) /\ Known(at)

ClusterInv ==
  TasksTypeOK /\ WorkersInv /\ LivesInv /\ LinksInv /\ HopsInv /\ OnceInv /\ RepliesInv
    /\ TasksInv

(***************************************************************************)
(* Types.                                                                  *)
(***************************************************************************)
LEMMA Homes ==
  /\ \A w \in Worker : Home(w) \in Broker
  /\ \A c \in Client : Home(c) \in Broker
  /\ \A t \in Task : /\ t.client \in Client
                     /\ Home(t.client) \in Broker
                     /\ t.seq \in 1..MaxTasks
                     /\ t.life \in 1..(MaxStops + 1)
  /\ \A b \in Broker : \A p \in Peers(b) : <<b, p>> \in Pairs /\ <<p, b>> \in Pairs
  /\ \A l \in Pairs : l = <<l[1], l[2]>> /\ l[1] \in Broker /\ l[2] \in Broker
  /\ MaxTasks \in Nat /\ MaxStops \in Nat
  BY ClusterAssumption DEF Home, Worker, Client, Task, Peers, Pairs

(* A step in which no process goes up or down.                             *)
Steady ==
  /\ phase' \in [Broker -> FlowPhase]
  /\ \A d \in Broker : phase'[d] = "down" <=> phase[d] = "down"

LEMMA RunningSteady ==
  ASSUME phase \in [Broker -> FlowPhase], NEW b \in Broker, Running(b)
  PROVE  Steady
  BY DEF Running, Up, Steady, FlowPhase

(***************************************************************************)
(* A process starts; a connection comes about; a turn that only passes.    *)
(***************************************************************************)
LEMMA RiseKeeps ==
  ASSUME ClusterInv, NEW b \in Broker, Rise(b)
  PROVE  ClusterInv'
<1>1. TasksTypeOK /\ LivesInv /\ ~Up(b) /\ phase \in [Broker -> FlowPhase]
  BY DEF ClusterInv, Rise, TasksTypeOK
<1>2. PICK x \in FlowPhase \ {"down"} : phase' = [phase EXCEPT ![b] = x]
  BY DEF Rise
<1>3. life \in [Broker -> 0..(MaxStops + 1)] /\ stops \in 0..MaxStops /\ life[b] <= stops
  BY <1>1 DEF TasksTypeOK, ClusterNetTypeOK, ClusterBrokerTypeOK, LivesInv
<1>4. /\ life' = [life EXCEPT ![b] = @ + 1] /\ life[b] + 1 \in 0..(MaxStops + 1)
      /\ UNCHANGED <<available_workers, stops, taskVars, netVars>>
  BY <1>3, Homes DEF Rise
<1>5. life' \in [Broker -> 0..(MaxStops + 1)] /\ phase' \in [Broker -> FlowPhase]
  BY <1>1, <1>2, <1>3, <1>4
<1>6. TasksTypeOK'
  BY <1>1, <1>4, <1>5 DEF TasksTypeOK, ClusterNetTypeOK, ClusterTasksTypeOK,
     ClusterBrokerTypeOK, taskVars, netVars, cloudVars, localVars
<1>7. WorkersInv' /\ HopsInv' /\ OnceInv' /\ LinksInv'
  BY <1>4 DEF ClusterInv, WorkersInv, Listed, HopsInv, OnceInv, LinksInv,
     taskVars, netVars, cloudVars, localVars
<1>8. LivesInv'
  BY <1>1, <1>2, <1>3, <1>4, <1>5 DEF LivesInv, Up
<1>9. \A d \in Broker : d # b => life'[d] = life[d] /\ phase'[d] = phase[d]
  BY <1>1, <1>2, <1>3, <1>4
<1>10. replies \subseteq Task /\ replies' = replies
  BY <1>1, <1>4 DEF TasksTypeOK, ClusterNetTypeOK, netVars, localVars
<1>11. RepliesInv'
  BY <1>1, <1>9, <1>10, Homes DEF ClusterInv, RepliesInv, Up
<1>12. PICK at \in [Task -> Place] : Located(at) /\ Known(at)
  BY DEF ClusterInv, TasksInv
<1>13. Located(at)'
  BY <1>4, <1>12 DEF Located, netVars, cloudVars, localVars
<1>14. ASSUME NEW t \in Task, at[t] # Nowhere
       PROVE  /\ t.seq <= task_seq'[t.client]
              /\ t.life <= life'[Home(t.client)]
              /\ (phase'[Home(t.client)] # "down") /\ t.life = life'[Home(t.client)] =>
                   t.seq = task_seq'[t.client] /\ cphase'[t.client] # "idle"
  <2>1. /\ t.seq <= task_seq[t.client]
        /\ t.life <= life[Home(t.client)]
        /\ (phase[Home(t.client)] # "down") /\ t.life = life[Home(t.client)] =>
             t.seq = task_seq[t.client] /\ cphase[t.client] # "idle"
    BY <1>12, <1>14 DEF Known, Up
  <2>2. task_seq' = task_seq /\ cphase' = cphase
    BY <1>4 DEF taskVars
  <2>3. CASE Home(t.client) # b
    BY <1>9, <2>1, <2>2, <2>3, Homes
  <2>4. CASE Home(t.client) = b
    <3>1. life'[b] = life[b] + 1 /\ life[b] \in Nat
      BY <1>3, <1>4
    <3>2. QED
      BY <2>1, <2>2, <2>4, <3>1, Homes
  <2>5. QED
    BY <2>3, <2>4
<1>15. Known(at)'
  BY <1>14 DEF Known, Up
<1>16. TasksInv'
  BY <1>13, <1>15 DEF TasksInv
<1>17. QED
  BY <1>6, <1>7, <1>8, <1>11, <1>16 DEF ClusterInv

LEMMA ConnectKeeps ==
  ASSUME ClusterInv, NEW l \in Pairs, Connect(l)
  PROVE  ClusterInv'
<1>1. /\ linked' = linked \cup {l} /\ known' = known \cup {l}
      /\ UNCHANGED <<life, toCloud, fromCloud, requests, replies, toWorker, fromWorker>>
      /\ UNCHANGED <<phase, available_workers, stops, cphase, task_seq, started>>
  BY DEF Connect, Link, localVars, processVars, taskVars
<1>2. TasksTypeOK'
  BY <1>1 DEF ClusterInv, TasksTypeOK, ClusterNetTypeOK, ClusterTasksTypeOK, ClusterBrokerTypeOK
<1>3. WorkersInv' /\ HopsInv' /\ OnceInv' /\ LivesInv' /\ RepliesInv'
  BY <1>1 DEF ClusterInv, WorkersInv, Listed, HopsInv, OnceInv, LivesInv, RepliesInv, Up
<1>4. LinksInv'
  BY <1>1 DEF ClusterInv, LinksInv
<1>5. TasksInv'
  BY <1>1 DEF ClusterInv, TasksInv, Located, Known, Up
<1>6. QED
  BY <1>2, <1>3, <1>4, <1>5 DEF ClusterInv

LEMMA PassKeeps ==
  ASSUME ClusterInv, NEW b \in Broker, Pass(b)
  PROVE  ClusterInv'
<1>1. Steady
  BY RunningSteady DEF Pass, ClusterInv, TasksTypeOK
<1>2. /\ UNCHANGED <<life, toCloud, fromCloud, requests, replies, toWorker, fromWorker>>
      /\ UNCHANGED <<linked, known, available_workers, stops, cphase, task_seq, started>>
  BY DEF Pass, netVars, cloudVars, localVars, taskVars
<1>3. TasksTypeOK'
  BY <1>1, <1>2 DEF ClusterInv, TasksTypeOK, ClusterNetTypeOK, ClusterTasksTypeOK,
     ClusterBrokerTypeOK, Steady
<1>4. WorkersInv' /\ HopsInv' /\ OnceInv' /\ LinksInv'
  BY <1>2 DEF ClusterInv, WorkersInv, Listed, HopsInv, OnceInv, LinksInv
<1>5. LivesInv'
  BY <1>1, <1>2 DEF ClusterInv, LivesInv, Up, Steady
<1>6. RepliesInv'
  <2>1. replies \subseteq Task
    BY DEF ClusterInv, TasksTypeOK, ClusterNetTypeOK
  <2>2. QED
    BY <1>1, <1>2, <2>1, Homes DEF ClusterInv, RepliesInv, Up, Steady
<1>7. TasksInv'
  <2>1. PICK at \in [Task -> Place] : Located(at) /\ Known(at)
    BY DEF ClusterInv, TasksInv
  <2>2. Located(at)'
    BY <1>2, <2>1 DEF Located
  <2>3. Known(at)'
    BY <1>1, <1>2, <2>1, Homes DEF Known, Up, Steady
  <2>4. QED
    BY <2>2, <2>3 DEF TasksInv
<1>8. QED
  BY <1>3, <1>4, <1>5, <1>6, <1>7 DEF ClusterInv

(***************************************************************************)
(* What a pipe is once messages were taken from either end.                *)
(***************************************************************************)
Part(q, p) ==
  \E k \in Nat : \A i \in 1..Len(q) : i + k \in 1..Len(p) /\ q[i] = p[i + k]

LEMMA TailPart ==
  ASSUME NEW S, NEW p \in Seq(S), p # <<>>
  PROVE  Tail(p) \in Seq(S) /\ Part(Tail(p), p) /\ Head(p) \in S /\ Head(p) = p[1]
<1>1. Tail(p) \in Seq(S) /\ Len(Tail(p)) = Len(p) - 1 /\ Len(p) \in Nat \ {0}
  BY EmptySeq
<1>2. \A i \in 1..Len(Tail(p)) : i + 1 \in 1..Len(p) /\ Tail(p)[i] = p[i + 1]
  BY <1>1
<1>3. QED
  BY <1>1, <1>2 DEF Part

LEMMA SelfPart ==
  ASSUME NEW S, NEW p \in Seq(S)
  PROVE  Part(p, p) /\ Part(<<>>, p) /\ <<>> \in Seq(S)
<1>1. \A i \in 1..Len(p) : i + 0 \in 1..Len(p) /\ p[i] = p[i + 0]
  OBVIOUS
<1>2. \A i \in 1..Len(<<>>) : i + 0 \in 1..Len(p) /\ <<>>[i] = p[i + 0]
  OBVIOUS
<1>3. QED
  BY <1>1, <1>2 DEF Part

LEMMA SubSeqPart ==
  ASSUME NEW S, NEW p \in Seq(S), NEW k \in Nat, k <= Len(p)
  PROVE  /\ SubSeq(p, 1, k) \in Seq(S) /\ Part(SubSeq(p, 1, k), p)
         /\ SubSeq(p, k + 1, Len(p)) \in Seq(S) /\ Part(SubSeq(p, k + 1, Len(p)), p)
<1> DEFINE f == SubSeq(p, 1, k)
           g == SubSeq(p, k + 1, Len(p))
<1>1. f \in Seq(S) /\ Len(f) = k /\ \A i \in 1..k : f[i] = p[i]
  BY SubSeqProperties
<1>2. g \in Seq(S) /\ Len(g) = Len(p) - k /\ \A i \in 1..(Len(p) - k) : g[i] = p[i + k]
  BY SubSeqProperties
<1> HIDE DEF f, g
<1>3. \A i \in 1..Len(f) : i + 0 \in 1..Len(p) /\ f[i] = p[i + 0]
  BY <1>1
<1>4. \A i \in 1..Len(g) : i + k \in 1..Len(p) /\ g[i] = p[i + k]
  BY <1>2
<1>5. Part(f, p) /\ Part(g, p)
  BY <1>3, <1>4 DEF Part
<1>6. QED
  BY <1>1, <1>2, <1>5 DEF f, g

(* What is in a part was in the whole, and not more often.                 *)
LEMMA PartOfPipe ==
  ASSUME NEW q, NEW p, Part(q, p)
  PROVE  /\ \A i \in 1..Len(q) : \E j \in 1..Len(p) : q[i] = p[j]
         /\ NoneTwice(p) => NoneTwice(q)
<1>1. PICK k \in Nat : \A i \in 1..Len(q) : i + k \in 1..Len(p) /\ q[i] = p[i + k]
  BY DEF Part
<1>2. \A i \in 1..Len(q) : \E j \in 1..Len(p) : q[i] = p[j]
  BY <1>1
<1>3. ASSUME NoneTwice(p), NEW i \in 1..Len(q), NEW j \in 1..Len(q), q[i] = q[j]
      PROVE  i = j
  <2>1. i + k \in 1..Len(p) /\ j + k \in 1..Len(p) /\ p[i + k] = p[j + k]
    BY <1>1, <1>3
  <2>2. i + k = j + k
    BY <1>3, <2>1 DEF NoneTwice
  <2>3. QED
    BY <1>1, <2>2
<1>4. QED
  BY <1>2, <1>3 DEF NoneTwice

(***************************************************************************)
(* A process ends: tasks are only lost.                                    *)
(***************************************************************************)
PartsOnly ==
  /\ requests' \subseteq requests /\ replies' \subseteq replies
  /\ \A l \in Pairs : Part(toCloud'[l], toCloud[l]) /\ Part(fromCloud'[l], fromCloud[l])
  /\ \A w \in Worker : Part(toWorker'[w], toWorker[w]) /\ Part(fromWorker'[w], fromWorker[w])

LEMMA PartsKeep ==
  ASSUME PartsOnly, NEW at
  PROVE  /\ HopsInv => HopsInv'
         /\ OnceInv => OnceInv'
         /\ Located(at) => Located(at)'
<1>1. \A l \in Pairs :
        /\ \A i \in 1..Len(toCloud'[l]) : \E j \in 1..Len(toCloud[l]) :
             toCloud'[l][i] = toCloud[l][j]
        /\ \A i \in 1..Len(fromCloud'[l]) : \E j \in 1..Len(fromCloud[l]) :
             fromCloud'[l][i] = fromCloud[l][j]
        /\ NoneTwice(toCloud[l]) => NoneTwice(toCloud'[l])
        /\ NoneTwice(fromCloud[l]) => NoneTwice(fromCloud'[l])
  <2>1. TAKE l \in Pairs
  <2>2. Part(toCloud'[l], toCloud[l]) /\ Part(fromCloud'[l], fromCloud[l])
    BY DEF PartsOnly
  <2>3. QED
    BY <2>2, PartOfPipe
<1>2. \A w \in Worker :
        /\ \A i \in 1..Len(toWorker'[w]) : \E j \in 1..Len(toWorker[w]) :
             toWorker'[w][i] = toWorker[w][j]
        /\ \A i \in 1..Len(fromWorker'[w]) : \E j \in 1..Len(fromWorker[w]) :
             fromWorker'[w][i] = fromWorker[w][j]
  <2>1. TAKE w \in Worker
  <2>2. Part(toWorker'[w], toWorker[w]) /\ Part(fromWorker'[w], fromWorker[w])
    BY DEF PartsOnly
  <2>3. PICK to, from, to2, from2 : /\ to = toWorker[w] /\ from = fromWorker[w]
                                    /\ to2 = toWorker'[w] /\ from2 = fromWorker'[w]
    OBVIOUS
  <2>4. Part(to2, to) /\ Part(from2, from)
    BY <2>2, <2>3
  <2>5. \A i \in 1..Len(to2) : \E j \in 1..Len(to) : to2[i] = to[j]
    BY <2>4, PartOfPipe
  <2>6. \A i \in 1..Len(from2) : \E j \in 1..Len(from) : from2[i] = from[j]
    BY <2>4, PartOfPipe
  <2>7. QED
    BY <2>3, <2>5, <2>6
<1>3. HopsInv => HopsInv'
  <2>1. HAVE HopsInv
  <2>2. \A l \in Pairs : \A i \in 1..Len(toCloud'[l]) : Home(toCloud'[l][i].client) = l[1]
    <3>1. \A l \in Pairs : \A j \in 1..Len(toCloud[l]) : Home(toCloud[l][j].client) = l[1]
      BY <2>1 DEF HopsInv
    <3>2. QED
      BY <1>1, <3>1
  <2>3. \A l \in Pairs : \A i \in 1..Len(fromCloud'[l]) : Home(fromCloud'[l][i].client) = l[1]
    <3>1. \A l \in Pairs : \A j \in 1..Len(fromCloud[l]) : Home(fromCloud[l][j].client) = l[1]
      BY <2>1 DEF HopsInv
    <3>2. QED
      BY <1>1, <3>1
  <2>4. \A w \in Worker : \A i \in 1..Len(toWorker'[w]) :
          Home(toWorker'[w][i].task.client) = toWorker'[w][i].peer
    <3>1. \A w \in Worker : \A j \in 1..Len(toWorker[w]) :
            Home(toWorker[w][j].task.client) = toWorker[w][j].peer
      BY <2>1 DEF HopsInv
    <3>2. QED
      BY <1>2, <3>1
  <2>5. \A w \in Worker : \A i \in 1..Len(fromWorker'[w]) :
          fromWorker'[w][i] # WORKER_READY =>
            Home(fromWorker'[w][i].task.client) = fromWorker'[w][i].peer
    <3>1. \A w \in Worker : \A j \in 1..Len(fromWorker[w]) :
            fromWorker[w][j] # WORKER_READY =>
              Home(fromWorker[w][j].task.client) = fromWorker[w][j].peer
      BY <2>1 DEF HopsInv
    <3>2. QED
      BY <1>2, <3>1
  <2>6. QED
    BY <2>2, <2>3, <2>4, <2>5 DEF HopsInv
<1>4. OnceInv => OnceInv'
  <2>1. HAVE OnceInv
  <2>2. \A l \in Pairs : NoneTwice(toCloud'[l]) /\ NoneTwice(fromCloud'[l])
    BY <1>1, <2>1 DEF OnceInv
  <2>3. QED
    BY <2>2 DEF OnceInv, NoneTwice
<1>5. Located(at) => Located(at)'
  <2>1. HAVE Located(at)
  <2>2. AtFrontend(at, requests', replies')
    BY <2>1 DEF Located, AtFrontend, PartsOnly
  <2>3. AtCloud(at, toCloud', fromCloud')
    <3>1. ASSUME NEW l \in Pairs, NEW i \in 1..Len(toCloud'[l])
          PROVE  at[toCloud'[l][i]] = <<"toCloud", l>>
      <4>1. PICK j \in 1..Len(toCloud[l]) : toCloud'[l][i] = toCloud[l][j]
        BY <1>1
      <4>2. at[toCloud[l][j]] = <<"toCloud", l>>
        BY <2>1 DEF Located, AtCloud
      <4>3. QED
        BY <4>1, <4>2
    <3>2. ASSUME NEW l \in Pairs, NEW i \in 1..Len(fromCloud'[l])
          PROVE  at[fromCloud'[l][i]] = <<"fromCloud", l>>
      <4>1. PICK j \in 1..Len(fromCloud[l]) : fromCloud'[l][i] = fromCloud[l][j]
        BY <1>1
      <4>2. at[fromCloud[l][j]] = <<"fromCloud", l>>
        BY <2>1 DEF Located, AtCloud
      <4>3. QED
        BY <4>1, <4>2
    <3>3. QED
      BY <3>1, <3>2 DEF AtCloud
  <2>4. AtWorkers(at, toWorker', fromWorker')
    <3>1. ASSUME NEW w \in Worker, NEW i \in 1..Len(toWorker'[w])
          PROVE  at[toWorker'[w][i].task] = <<"toWorker", w>>
      <4>1. PICK j \in 1..Len(toWorker[w]) : toWorker'[w][i] = toWorker[w][j]
        BY <1>2
      <4>2. at[toWorker[w][j].task] = <<"toWorker", w>>
        BY <2>1 DEF Located, AtWorkers
      <4>3. QED
        BY <4>1, <4>2
    <3>2. ASSUME NEW w \in Worker, NEW i \in 1..Len(fromWorker'[w]),
                 fromWorker'[w][i] # WORKER_READY
          PROVE  at[fromWorker'[w][i].task] = <<"fromWorker", w>>
      <4>1. PICK j \in 1..Len(fromWorker[w]) : fromWorker'[w][i] = fromWorker[w][j]
        BY <1>2
      <4>2. at[fromWorker[w][j].task] = <<"fromWorker", w>>
        BY <2>1, <3>2, <4>1 DEF Located, AtWorkers
      <4>3. QED
        BY <4>1, <4>2
    <3>3. QED
      BY <3>1, <3>2 DEF AtWorkers
  <2>5. QED
    BY <2>2, <2>3, <2>4 DEF Located
<1>6. QED
  BY <1>3, <1>4, <1>5

LEMMA ClosedParts ==
  ASSUME ClusterNetTypeOK, NEW b \in Broker, SocketsClosed(b)
  PROVE  /\ PartsOnly
         /\ toCloud' \in [Pairs -> Seq(Task)]
         /\ fromCloud' \in [Pairs -> Seq(Task)]
         /\ toWorker' \in [Worker -> Seq(Envelope)]
         /\ fromWorker' \in [Worker -> Seq(Envelope \cup {WORKER_READY})]
<1>1. PICK kept \in [Pairs -> 0..MaxTasks] :
       /\ \A l \in Pairs : kept[l] <= Len(toCloud[l]) /\ (b \notin {l[1], l[2]} => kept[l] = 0)
       /\ toCloud' = [l \in Pairs |->
            CASE l[1] = b -> SubSeq(toCloud[l], 1, kept[l])
              [] l[2] = b -> SubSeq(toCloud[l], kept[l] + 1, Len(toCloud[l]))
              [] OTHER -> toCloud[l]]
  BY DEF SocketsClosed
<1>2. PICK held \in [Pairs -> 0..MaxTasks] :
       /\ \A l \in Pairs : held[l] <= Len(fromCloud[l]) /\ (l[2] # b => held[l] = 0)
       /\ fromCloud' = [l \in Pairs |->
            CASE l[1] = b -> <<>>
              [] l[2] = b -> SubSeq(fromCloud[l], 1, held[l])
              [] OTHER -> fromCloud[l]]
  BY DEF SocketsClosed
<1>3. ASSUME NEW l \in Pairs
      PROVE  toCloud'[l] \in Seq(Task) /\ Part(toCloud'[l], toCloud[l])
  <2>1. toCloud[l] \in Seq(Task) /\ kept[l] \in Nat /\ kept[l] <= Len(toCloud[l])
    BY <1>1, Homes DEF ClusterNetTypeOK
  <2>2. toCloud'[l] \in {SubSeq(toCloud[l], 1, kept[l]),
                         SubSeq(toCloud[l], kept[l] + 1, Len(toCloud[l])), toCloud[l]}
    BY <1>1
  <2>3. QED
    BY <2>1, <2>2, SubSeqPart, SelfPart
<1>4. ASSUME NEW l \in Pairs
      PROVE  fromCloud'[l] \in Seq(Task) /\ Part(fromCloud'[l], fromCloud[l])
  <2>1. fromCloud[l] \in Seq(Task) /\ held[l] \in Nat /\ held[l] <= Len(fromCloud[l])
    BY <1>2, Homes DEF ClusterNetTypeOK
  <2>2. fromCloud'[l] \in {SubSeq(fromCloud[l], 1, held[l]), <<>>, fromCloud[l]}
    BY <1>2
  <2>3. QED
    BY <2>1, <2>2, SubSeqPart, SelfPart
<1>5. ASSUME NEW w \in Worker
      PROVE  /\ toWorker'[w] \in Seq(Envelope) /\ Part(toWorker'[w], toWorker[w])
             /\ fromWorker'[w] \in Seq(Envelope \cup {WORKER_READY})
             /\ Part(fromWorker'[w], fromWorker[w])
  <2>1. toWorker[w] \in Seq(Envelope) /\ fromWorker[w] \in Seq(Envelope \cup {WORKER_READY})
    BY DEF ClusterNetTypeOK
  <2>2. toWorker'[w] \in {<<>>, toWorker[w]} /\ fromWorker'[w] \in {<<>>, fromWorker[w]}
    BY DEF SocketsClosed
  <2>3. Part(<<>>, toWorker[w]) /\ Part(toWorker[w], toWorker[w]) /\ <<>> \in Seq(Envelope)
    BY <2>1, SelfPart
  <2>4. /\ Part(<<>>, fromWorker[w]) /\ Part(fromWorker[w], fromWorker[w])
        /\ <<>> \in Seq(Envelope \cup {WORKER_READY})
    BY <2>1, SelfPart
  <2>5. QED
    BY <2>1, <2>2, <2>3, <2>4
<1>6. /\ toCloud' = [l \in Pairs |-> toCloud'[l]]
      /\ fromCloud' = [l \in Pairs |-> fromCloud'[l]]
      /\ toWorker' = [w \in Worker |-> toWorker'[w]]
      /\ fromWorker' = [w \in Worker |-> fromWorker'[w]]
  BY <1>1, <1>2 DEF SocketsClosed
<1>7. PartsOnly
  BY <1>3, <1>4, <1>5 DEF PartsOnly, SocketsClosed
<1>8. QED
  BY <1>3, <1>4, <1>5, <1>6, <1>7

LEMMA FallKeeps ==
  ASSUME ClusterInv, NEW b \in Broker, Fall(b)
  PROVE  ClusterInv'
<1>1. TasksTypeOK /\ WorkersInv /\ LivesInv /\ HopsInv /\ OnceInv /\ RepliesInv
  BY DEF ClusterInv
<1>2. /\ Up(b) /\ stops < MaxStops /\ stops' = stops + 1 /\ life' = life
      /\ phase' = [phase EXCEPT ![b] = "down"]
      /\ available_workers' = [available_workers EXCEPT ![b] = <<>>]
      /\ SocketsClosed(b) /\ TasksEnd(b)
  BY DEF Fall
<1>3. stops \in Nat /\ MaxStops \in Nat /\ stops' \in 0..MaxStops
  BY <1>1, <1>2, Homes DEF TasksTypeOK, ClusterBrokerTypeOK
<1>4. /\ PartsOnly
      /\ toCloud' \in [Pairs -> Seq(Task)]
      /\ fromCloud' \in [Pairs -> Seq(Task)]
      /\ toWorker' \in [Worker -> Seq(Envelope)]
      /\ fromWorker' \in [Worker -> Seq(Envelope \cup {WORKER_READY})]
  BY <1>1, <1>2, ClosedParts DEF TasksTypeOK
<1>5. \A w \in Worker :
        /\ Home(w) = b => toWorker'[w] = <<>> /\ fromWorker'[w] = <<>>
        /\ Home(w) # b => toWorker'[w] = toWorker[w] /\ fromWorker'[w] = fromWorker[w]
  BY <1>2 DEF SocketsClosed
<1>6. \A w \in Worker : Len(toWorker'[w]) + Len(fromWorker'[w]) <= 1
  <2>1. \A w \in Worker : Len(toWorker[w]) + Len(fromWorker[w]) <= 1
    BY <1>1 DEF TasksTypeOK, ClusterNetTypeOK
  <2>2. Len(<<>>) = 0 /\ 0 + 0 <= 1
    OBVIOUS
  <2>3. ASSUME NEW w \in Worker
        PROVE  Len(toWorker'[w]) + Len(fromWorker'[w]) <= 1
    <3>1. CASE Home(w) = b
      <4>1. Len(toWorker'[w]) = 0 /\ Len(fromWorker'[w]) = 0
        BY <1>5, <2>2, <3>1
      <4>2. QED
        BY <4>1
    <3>2. CASE Home(w) # b
      BY <1>5, <2>1, <3>2
    <3>3. QED
      BY <3>1, <3>2
  <2>4. QED
    BY <2>3
<1>7. ClusterNetTypeOK'
  <2>1. linked' \subseteq known' /\ known' \subseteq Pairs
    BY <1>1, <1>2 DEF SocketsClosed, TasksTypeOK, ClusterNetTypeOK
  <2>2. requests' \subseteq Task /\ replies' \subseteq Task
    BY <1>1, <1>2 DEF SocketsClosed, TasksTypeOK, ClusterNetTypeOK
  <2>3. QED
    BY <1>1, <1>2, <1>4, <1>6, <2>1, <2>2 DEF TasksTypeOK, ClusterNetTypeOK
<1>8. cphase' \in [Client -> ClientPhase] /\ task_seq' = task_seq /\ started' \subseteq Worker
  BY <1>1, <1>2 DEF TasksEnd, TasksTypeOK, ClusterTasksTypeOK, ClientPhase
<1>9. available_workers' \in [Broker -> Seq(Worker)] /\ phase' \in [Broker -> FlowPhase]
  BY <1>1, <1>2 DEF TasksTypeOK, ClusterBrokerTypeOK, FlowPhase
<1>10. TasksTypeOK'
  BY <1>1, <1>3, <1>7, <1>8, <1>9 DEF TasksTypeOK, ClusterTasksTypeOK, ClusterBrokerTypeOK
<1>11. \A d \in Broker : /\ phase'[d] = IF d = b THEN "down" ELSE phase[d]
                         /\ available_workers'[d] = IF d = b THEN <<>> ELSE available_workers[d]
  BY <1>1, <1>2 DEF TasksTypeOK, ClusterBrokerTypeOK
<1>12. WorkersInv'
  <2>1. ASSUME NEW d \in Broker, NEW i \in 1..Len(available_workers'[d])
        PROVE  /\ available_workers'[d][i] \in started'
               /\ Home(available_workers'[d][i]) = d
               /\ toWorker'[available_workers'[d][i]] = <<>>
               /\ fromWorker'[available_workers'[d][i]] = <<>>
               /\ \A j \in 1..Len(available_workers'[d]) :
                    available_workers'[d][j] = available_workers'[d][i] => j = i
    <3>1. d # b
      <4>1. Len(<<>>) = 0
        OBVIOUS
      <4>2. QED
        BY <1>11, <2>1, <4>1
    <3>2. available_workers'[d] = available_workers[d]
      BY <1>11, <3>1
    <3>3. /\ available_workers[d][i] \in started
          /\ Home(available_workers[d][i]) = d
          /\ toWorker[available_workers[d][i]] = <<>>
          /\ fromWorker[available_workers[d][i]] = <<>>
          /\ \A j \in 1..Len(available_workers[d]) :
               available_workers[d][j] = available_workers[d][i] => j = i
      BY <1>1, <2>1, <3>2 DEF WorkersInv
    <3>4. available_workers[d][i] \in Worker
      BY <1>1, <3>3 DEF TasksTypeOK, ClusterTasksTypeOK
    <3>5. started' = {w \in started : Home(w) # b}
      BY <1>2 DEF TasksEnd
    <3>6. QED
      BY <1>5, <3>1, <3>2, <3>3, <3>4, <3>5
  <2>2. ASSUME NEW w \in Worker
        PROVE  IF w \in started'
               THEN \/ \E i \in 1..Len(available_workers'[Home(w)]) :
                         available_workers'[Home(w)][i] = w
                    \/ toWorker'[w] # <<>> \/ fromWorker'[w] # <<>>
               ELSE toWorker'[w] = <<>> /\ fromWorker'[w] = <<>>
    <3>1. started' = {v \in started : Home(v) # b} /\ Home(w) \in Broker
      BY <1>2, Homes DEF TasksEnd
    <3>2. CASE Home(w) = b
      BY <1>5, <3>1, <3>2
    <3>3. CASE Home(w) # b
      BY <1>1, <1>5, <1>11, <3>1, <3>3 DEF WorkersInv, Listed
    <3>4. QED
      BY <3>2, <3>3
  <2>3. QED
    BY <2>1, <2>2 DEF WorkersInv, Listed
<1>13. LivesInv'
  BY <1>1, <1>2, <1>3, <1>11 DEF LivesInv, Up, TasksTypeOK, ClusterNetTypeOK
<1>14. LinksInv'
  BY <1>2, <1>3 DEF LinksInv
<1>15. RepliesInv'
  <2>1. replies' = {t \in replies : Home(t.client) # b} /\ replies \subseteq Task
    BY <1>1, <1>2 DEF SocketsClosed, TasksTypeOK, ClusterNetTypeOK
  <2>2. QED
    BY <1>1, <1>2, <1>11, <2>1, Homes DEF RepliesInv, Up
<1>16. PICK at \in [Task -> Place] : Located(at) /\ Known(at)
  BY DEF ClusterInv, TasksInv
<1>17. HopsInv' /\ OnceInv' /\ Located(at)'
  BY <1>1, <1>4, <1>16, PartsKeep
<1>18. Known(at)'
  <2>1. \A c \in Client : Home(c) # b => cphase'[c] = cphase[c]
    BY <1>2 DEF TasksEnd
  <2>2. QED
    BY <1>2, <1>8, <1>11, <1>16, <2>1, Homes DEF Known, Up
<1>19. QED
  BY <1>10, <1>12, <1>13, <1>14, <1>15, <1>16, <1>17, <1>18 DEF ClusterInv, TasksInv

(***************************************************************************)
(* The clients.                                                            *)
(***************************************************************************)

(* MaxTasks bounds the tasks of all clients, so those of each.             *)
LEMMA IssuedBounds ==
  ASSUME ClusterTasksTypeOK, NEW c \in Client, Issued < MaxTasks
  PROVE  task_seq[c] + 1 \in 1..MaxTasks
<1> DEFINE T == {t \in Client \X (1..MaxTasks) : t[2] <= task_seq[t[1]]}
           N == task_seq[c]
           U == {c} \X (1..MaxTasks)
<1>1. MaxTasks \in Nat /\ N \in 0..MaxTasks
  BY Homes DEF ClusterTasksTypeOK
<1>2. SUFFICES ASSUME N = MaxTasks PROVE FALSE
  BY <1>1
<1>3. IsFiniteSet(1..MaxTasks) /\ Cardinality(1..MaxTasks) = MaxTasks
  BY <1>1, FS_Interval
<1>4. IsFiniteSet(Client \X (1..MaxTasks))
  BY <1>3, ClusterAssumption, FS_Product DEF Client
<1>5. IsFiniteSet(T)
  BY <1>4, FS_Subset
<1>6. IsFiniteSet({c}) /\ Cardinality({c}) = 1
  BY FS_Singleton
<1>7. Cardinality(U) = MaxTasks
  BY <1>1, <1>3, <1>6, FS_Product
<1>8. U \subseteq T
  BY <1>1, <1>2
<1>9. Cardinality(U) <= Cardinality(T)
  BY <1>5, <1>8, FS_Subset
<1>10. Issued = Cardinality(T) /\ Cardinality(T) \in Nat
  BY <1>5, FS_CardinalityType DEF Issued
<1>11. QED
  BY <1>1, <1>7, <1>9, <1>10

LEMMA ClientKeepsRest ==
  ASSUME ClusterInv, NEW c \in Client, ClientStep(c)
  PROVE  /\ UNCHANGED <<phase, available_workers, stops, life, linked, known, toCloud,
                        fromCloud, toWorker, fromWorker, started>>
         /\ WorkersInv' /\ LivesInv' /\ LinksInv' /\ HopsInv' /\ OnceInv'
<1>1. UNCHANGED <<phase, available_workers, stops, life, linked, known, toCloud,
                  fromCloud, toWorker, fromWorker, started>>
  BY DEF ClientStep, CTask, CReply, CLost, processVars, cloudVars, netVars, localVars
<1>2. QED
  BY <1>1 DEF ClusterInv, WorkersInv, Listed, LivesInv, Up, LinksInv, HopsInv, OnceInv

LEMMA AskKeeps ==
  ASSUME ClusterInv, NEW c \in Client, ClientStep(c), CTask(c)
  PROVE  ClusterInv'
<1>1. TasksTypeOK /\ LivesInv /\ RepliesInv /\ Up(Home(c)) /\ Home(c) \in Broker
  BY Homes DEF ClusterInv, ClientStep
<1>2. /\ UNCHANGED <<phase, available_workers, stops, life, linked, known, toCloud,
                     fromCloud, toWorker, fromWorker, started>>
      /\ WorkersInv' /\ LivesInv' /\ LinksInv' /\ HopsInv' /\ OnceInv'
  BY ClientKeepsRest
<1>3. PICK t : t = [client |-> c, life |-> life[Home(c)], seq |-> task_seq[c] + 1]
  OBVIOUS
<1>4. /\ cphase[c] = "idle" /\ Issued < MaxTasks
      /\ task_seq' = [task_seq EXCEPT ![c] = @ + 1]
      /\ requests' = requests \cup {t} /\ replies' = replies
      /\ cphase' = [cphase EXCEPT ![c] = "wait"]
  BY <1>3 DEF CTask
<1>5. task_seq[c] + 1 \in 1..MaxTasks
  BY <1>1, <1>4, IssuedBounds DEF TasksTypeOK
<1>6. life[Home(c)] \in 1..(MaxStops + 1)
  BY <1>1, Homes DEF TasksTypeOK, ClusterNetTypeOK, LivesInv
<1>7. t \in Task
  BY <1>5, <1>6, <1>3 DEF Task
<1>8. /\ task_seq' \in [Client -> 0..MaxTasks] /\ cphase' \in [Client -> ClientPhase]
      /\ \A d \in Client : /\ d # c => task_seq'[d] = task_seq[d] /\ cphase'[d] = cphase[d]
                           /\ task_seq[d] \in Nat
      /\ task_seq'[c] = task_seq[c] + 1 /\ cphase'[c] = "wait"
  BY <1>1, <1>4, <1>5 DEF TasksTypeOK, ClusterTasksTypeOK, ClientPhase
<1>9. TasksTypeOK'
  BY <1>1, <1>2, <1>4, <1>7, <1>8 DEF TasksTypeOK, ClusterNetTypeOK, ClusterTasksTypeOK,
     ClusterBrokerTypeOK
<1>10. RepliesInv'
  BY <1>1, <1>2, <1>4 DEF RepliesInv, Up
<1>11. PICK at \in [Task -> Place] : Located(at) /\ Known(at)
  BY DEF ClusterInv, TasksInv
<1>12. at[t] = Nowhere
  BY <1>7, <1>3, <1>8, <1>11 DEF Known
<1>13. PICK new : new = [at EXCEPT ![t] = <<"requests">>]
  OBVIOUS
<1>14. /\ new \in [Task -> Place] /\ new[t] = <<"requests">>
       /\ \A u \in Task : u # t => new[u] = at[u]
  BY <1>7, <1>11, <1>13 DEF Place
<1>15. \A u : at[u] # Nowhere => new[u] = at[u]
  BY <1>7, <1>11, <1>12, <1>13
<1>16. /\ <<"requests">> # Nowhere /\ <<"replies">> # Nowhere
       /\ \A l : <<"toCloud", l>> # Nowhere /\ <<"fromCloud", l>> # Nowhere
       /\ \A w : <<"toWorker", w>> # Nowhere /\ <<"fromWorker", w>> # Nowhere
  BY DEF Nowhere
<1>17. AtFrontend(new, requests', replies')
  BY <1>4, <1>11, <1>14, <1>15, <1>16 DEF Located, AtFrontend
<1>18. AtCloud(new, toCloud', fromCloud')
  BY <1>2, <1>11, <1>15, <1>16 DEF Located, AtCloud
<1>19. AtWorkers(new, toWorker', fromWorker')
  BY <1>2, <1>11, <1>15, <1>16 DEF Located, AtWorkers
<1>20. ASSUME NEW u \in Task, new[u] # Nowhere
       PROVE  /\ u.seq <= task_seq'[u.client]
              /\ u.life <= life'[Home(u.client)]
              /\ (phase'[Home(u.client)] # "down") /\ u.life = life'[Home(u.client)] =>
                   u.seq = task_seq'[u.client] /\ cphase'[u.client] # "idle"
  <2>1. CASE u = t
    BY <1>2, <1>6, <1>3, <1>8, <2>1
  <2>2. CASE u # t
    <3>1. /\ u.seq <= task_seq[u.client]
          /\ u.life <= life[Home(u.client)]
          /\ (phase[Home(u.client)] # "down") /\ u.life = life[Home(u.client)] =>
               u.seq = task_seq[u.client] /\ cphase[u.client] # "idle"
      BY <1>11, <1>14, <1>20, <2>2 DEF Known, Up
    <3>2. CASE u.client # c
      BY <1>2, <1>8, <3>1, <3>2, Homes
    <3>3. CASE u.client = c
      BY <1>1, <1>2, <1>4, <1>8, <3>1, <3>3, Homes DEF Up
    <3>4. QED
      BY <3>2, <3>3
  <2>3. QED
    BY <2>1, <2>2
<1>21. Located(new)' /\ Known(new)'
  BY <1>17, <1>18, <1>19, <1>20 DEF Located, Known, Up
<1>22. TasksInv'
  BY <1>14, <1>21 DEF TasksInv
<1>23. QED
  BY <1>2, <1>9, <1>10, <1>22 DEF ClusterInv

LEMMA ReadKeeps ==
  ASSUME ClusterInv, NEW c \in Client, ClientStep(c), CReply(c)
  PROVE  ClusterInv'
<1>1. TasksTypeOK /\ LivesInv /\ RepliesInv /\ Up(Home(c)) /\ Home(c) \in Broker
  BY Homes DEF ClusterInv, ClientStep
<1>2. /\ UNCHANGED <<phase, available_workers, stops, life, linked, known, toCloud,
                     fromCloud, toWorker, fromWorker, started>>
      /\ WorkersInv' /\ LivesInv' /\ LinksInv' /\ HopsInv' /\ OnceInv'
  BY ClientKeepsRest
<1>3. /\ task_seq' = task_seq /\ requests' = requests
      /\ cphase' = [cphase EXCEPT ![c] = "idle"]
  BY DEF CReply
<1>4. PICK t \in replies : t.client = c /\ replies' = replies \ {t}
  BY DEF CReply
<1>5. /\ cphase' \in [Client -> ClientPhase] /\ requests \subseteq Task /\ replies \subseteq Task
      /\ \A d \in Client : d # c => cphase'[d] = cphase[d]
  BY <1>1, <1>3 DEF TasksTypeOK, ClusterNetTypeOK, ClusterTasksTypeOK, ClientPhase
<1>6. TasksTypeOK'
  BY <1>1, <1>2, <1>3, <1>4, <1>5 DEF TasksTypeOK, ClusterNetTypeOK, ClusterTasksTypeOK,
     ClusterBrokerTypeOK
<1>7. RepliesInv'
  BY <1>1, <1>2, <1>4 DEF RepliesInv, Up
<1>8. PICK at \in [Task -> Place] : Located(at) /\ Known(at)
  BY DEF ClusterInv, TasksInv
<1>9. t \in Task /\ at[t] = <<"replies">>
  BY <1>4, <1>5, <1>8 DEF Located, AtFrontend
<1>10. PICK new : new = [at EXCEPT ![t] = Nowhere]
  OBVIOUS
<1>11. /\ new \in [Task -> Place] /\ new[t] = Nowhere
       /\ \A u \in Task : u # t => new[u] = at[u]
  BY <1>8, <1>9, <1>10 DEF Place
<1>12. \A u : at[u] # <<"replies">> => new[u] = at[u]
  BY <1>8, <1>9, <1>10
<1>13. /\ <<"requests">> # <<"replies">>
       /\ \A l : <<"toCloud", l>> # <<"replies">> /\ <<"fromCloud", l>> # <<"replies">>
       /\ \A w : <<"toWorker", w>> # <<"replies">> /\ <<"fromWorker", w>> # <<"replies">>
  OBVIOUS
<1>14. AtFrontend(new, requests', replies')
  BY <1>3, <1>4, <1>5, <1>8, <1>11, <1>12, <1>13 DEF Located, AtFrontend
<1>15. AtCloud(new, toCloud', fromCloud')
  BY <1>2, <1>8, <1>12, <1>13 DEF Located, AtCloud
<1>16. AtWorkers(new, toWorker', fromWorker')
  BY <1>2, <1>8, <1>12, <1>13 DEF Located, AtWorkers
<1>17. ASSUME NEW u \in Task, new[u] # Nowhere
       PROVE  /\ u.seq <= task_seq'[u.client]
              /\ u.life <= life'[Home(u.client)]
              /\ (phase'[Home(u.client)] # "down") /\ u.life = life'[Home(u.client)] =>
                   u.seq = task_seq'[u.client] /\ cphase'[u.client] # "idle"
  <2>1. u # t /\ at[u] # Nowhere /\ at[t] # Nowhere
    BY <1>9, <1>11, <1>17 DEF Nowhere
  <2>2. \A v \in {u, t} :
          /\ v.seq <= task_seq[v.client]
          /\ v.life <= life[Home(v.client)]
          /\ (phase[Home(v.client)] # "down") /\ v.life = life[Home(v.client)] =>
               v.seq = task_seq[v.client] /\ cphase[v.client] # "idle"
    BY <1>8, <1>9, <2>1 DEF Known, Up
  <2>3. t.life = life[Home(c)] /\ phase[Home(c)] # "down"
    BY <1>1, <1>4 DEF RepliesInv, Up
  <2>4. CASE u.client # c
    BY <1>2, <1>3, <1>5, <2>2, <2>4, Homes
  <2>5. CASE u.client = c
    <3>1. u = [client |-> u.client, life |-> u.life, seq |-> u.seq]
          /\ t = [client |-> t.client, life |-> t.life, seq |-> t.seq]
      BY <1>9 DEF Task
    <3>2. u.life # life[Home(c)]
      BY <1>4, <2>1, <2>2, <2>3, <2>5, <3>1
    <3>3. QED
      BY <1>2, <1>3, <2>2, <2>5, <3>2
  <2>6. QED
    BY <2>4, <2>5
<1>18. Located(new)' /\ Known(new)'
  BY <1>14, <1>15, <1>16, <1>17 DEF Located, Known, Up
<1>19. TasksInv'
  BY <1>11, <1>18 DEF TasksInv
<1>20. QED
  BY <1>2, <1>6, <1>7, <1>19 DEF ClusterInv

LEMMA LostKeeps ==
  ASSUME ClusterInv, NEW c \in Client, ClientStep(c), CLost(c)
  PROVE  ClusterInv'
<1>1. TasksTypeOK /\ RepliesInv
  BY DEF ClusterInv
<1>2. /\ UNCHANGED <<phase, available_workers, stops, life, linked, known, toCloud,
                     fromCloud, toWorker, fromWorker, started>>
      /\ WorkersInv' /\ LivesInv' /\ LinksInv' /\ HopsInv' /\ OnceInv'
  BY ClientKeepsRest
<1>3. /\ task_seq' = task_seq /\ requests' = requests /\ replies' = replies
      /\ cphase' = [cphase EXCEPT ![c] = "lost"]
  BY DEF CLost, netVars, localVars
<1>4. /\ cphase' \in [Client -> ClientPhase]
      /\ \A d \in Client : cphase'[d] = "idle" => cphase[d] = "idle"
  BY <1>1, <1>3 DEF TasksTypeOK, ClusterTasksTypeOK, ClientPhase
<1>5. TasksTypeOK'
  BY <1>1, <1>2, <1>3, <1>4 DEF TasksTypeOK, ClusterNetTypeOK, ClusterTasksTypeOK,
     ClusterBrokerTypeOK
<1>6. RepliesInv'
  BY <1>1, <1>2, <1>3 DEF RepliesInv, Up
<1>7. PICK at \in [Task -> Place] : Located(at) /\ Known(at)
  BY DEF ClusterInv, TasksInv
<1>8. Located(at)'
  BY <1>2, <1>3, <1>7 DEF Located
<1>9. Known(at)'
  BY <1>2, <1>3, <1>4, <1>7, Homes DEF Known, Up
<1>10. QED
  BY <1>2, <1>5, <1>6, <1>7, <1>8, <1>9 DEF ClusterInv, TasksInv

(***************************************************************************)
(* Messages that move: the task moved is known wherever it comes to be.    *)
(***************************************************************************)
Quiet ==
  Steady /\ UNCHANGED <<life, stops, linked, known, cphase, task_seq>>

LEMMA QuietKeeps ==
  ASSUME ClusterInv, Quiet, NEW at, Known(at), NEW t \in Task, at[t] # Nowhere, NEW new,
         \A u \in Task : u # t => new[u] = at[u]
  PROVE  LivesInv' /\ LinksInv' /\ Known(new)'
<1>1. Steady /\ UNCHANGED <<life, stops, linked, known, cphase, task_seq>>
  BY DEF Quiet
<1>2. LivesInv' /\ LinksInv'
  BY <1>1 DEF ClusterInv, LivesInv, LinksInv, Steady, Up
<1>3. ASSUME NEW u \in Task, new[u] # Nowhere
      PROVE  /\ u.seq <= task_seq'[u.client]
             /\ u.life <= life'[Home(u.client)]
             /\ (phase'[Home(u.client)] # "down") /\ u.life = life'[Home(u.client)] =>
                  u.seq = task_seq'[u.client] /\ cphase'[u.client] # "idle"
  <2>1. at[u] # Nowhere
    BY <1>3
  <2>2. /\ u.seq <= task_seq[u.client]
        /\ u.life <= life[Home(u.client)]
        /\ (phase[Home(u.client)] # "down") /\ u.life = life[Home(u.client)] =>
             u.seq = task_seq[u.client] /\ cphase[u.client] # "idle"
    BY <2>1 DEF Known, Up
  <2>3. QED
    BY <1>1, <2>2, Homes DEF Steady
<1>4. QED
  BY <1>2, <1>3 DEF Known, Up

(* A task that moves from one place to another: t is at p in new, and what *)
(* was elsewhere has not moved.                                            *)
MovesTo(new, at, t, p) ==
  /\ new[t] = p
  /\ \A u \in Task : u # t => new[u] = at[u]
  /\ \A u \in Task : at[u] # at[t] => new[u] = at[u]

LEMMA NewPlace ==
  ASSUME NEW at \in [Task -> Place], NEW t \in Task, NEW p \in Place
  PROVE  \E new \in [Task -> Place] : MovesTo(new, at, t, p)
<1>1. [at EXCEPT ![t] = p] \in [Task -> Place]
  OBVIOUS
<1>2. QED
  BY <1>1 DEF MovesTo

(* Where the tasks are that do not move when t, which was at p, does.      *)
StayAtFrontend(p, t, new) ==
  /\ \A u \in requests : p # <<"requests">> \/ u # t => new[u] = <<"requests">>
  /\ \A u \in replies : p # <<"replies">> \/ u # t => new[u] = <<"replies">>

StayOnWay(p, t, new) ==
  \A l \in Pairs : \A i \in 1..Len(toCloud[l]) :
    p # <<"toCloud", l>> \/ toCloud[l][i] # t => new[toCloud[l][i]] = <<"toCloud", l>>

StayOnWayBack(p, t, new) ==
  \A l \in Pairs : \A i \in 1..Len(fromCloud[l]) :
    p # <<"fromCloud", l>> \/ fromCloud[l][i] # t => new[fromCloud[l][i]] = <<"fromCloud", l>>

StayToWorkers(p, new) ==
  \A w \in Worker : \A i \in 1..Len(toWorker[w]) :
    p # <<"toWorker", w>> => new[toWorker[w][i].task] = <<"toWorker", w>>

StayFromWorkers(p, new) ==
  \A w \in Worker : \A i \in 1..Len(fromWorker[w]) :
    p # <<"fromWorker", w>> /\ fromWorker[w][i] # WORKER_READY =>
      new[fromWorker[w][i].task] = <<"fromWorker", w>>

LEMMA StayPut ==
  ASSUME ClusterNetTypeOK, NEW at, Located(at), NEW t \in Task, NEW new,
         \A u \in Task : u # t => new[u] = at[u]
  PROVE  /\ StayAtFrontend(at[t], t, new)
         /\ StayOnWay(at[t], t, new) /\ StayOnWayBack(at[t], t, new)
         /\ StayToWorkers(at[t], new) /\ StayFromWorkers(at[t], new)
<1>1. ASSUME NEW u \in Task, NEW p, at[u] = p, at[t] # p \/ u # t
      PROVE  new[u] = p
  BY <1>1
<1>2. \A u \in requests : u \in Task /\ at[u] = <<"requests">>
  BY DEF ClusterNetTypeOK, Located, AtFrontend
<1>3. \A u \in replies : u \in Task /\ at[u] = <<"replies">>
  BY DEF ClusterNetTypeOK, Located, AtFrontend
<1>4. ASSUME NEW l \in Pairs, NEW i \in 1..Len(toCloud[l])
      PROVE  toCloud[l][i] \in Task /\ at[toCloud[l][i]] = <<"toCloud", l>>
  BY DEF ClusterNetTypeOK, Located, AtCloud
<1>5. ASSUME NEW l \in Pairs, NEW i \in 1..Len(fromCloud[l])
      PROVE  fromCloud[l][i] \in Task /\ at[fromCloud[l][i]] = <<"fromCloud", l>>
  BY DEF ClusterNetTypeOK, Located, AtCloud
<1>6. ASSUME NEW w \in Worker, NEW i \in 1..Len(toWorker[w])
      PROVE  toWorker[w][i].task \in Task /\ at[toWorker[w][i].task] = <<"toWorker", w>>
  <2>1. toWorker[w][i] \in Envelope
    BY DEF ClusterNetTypeOK
  <2>2. QED
    BY <2>1 DEF Located, AtWorkers, Envelope
<1>7. ASSUME NEW w \in Worker, NEW i \in 1..Len(fromWorker[w]), fromWorker[w][i] # WORKER_READY
      PROVE  fromWorker[w][i].task \in Task /\ at[fromWorker[w][i].task] = <<"fromWorker", w>>
  <2>1. fromWorker[w][i] \in Envelope
    BY <1>7 DEF ClusterNetTypeOK
  <2>2. QED
    BY <1>7, <2>1 DEF Located, AtWorkers, Envelope
<1>8. \A u \in requests : at[t] # <<"requests">> \/ u # t => new[u] = <<"requests">>
  BY <1>1, <1>2
<1>9. \A u \in replies : at[t] # <<"replies">> \/ u # t => new[u] = <<"replies">>
  BY <1>1, <1>3
<1>10. \A l \in Pairs : \A i \in 1..Len(toCloud[l]) :
         at[t] # <<"toCloud", l>> \/ toCloud[l][i] # t =>
           new[toCloud[l][i]] = <<"toCloud", l>>
  BY <1>1, <1>4
<1>11. \A l \in Pairs : \A i \in 1..Len(fromCloud[l]) :
         at[t] # <<"fromCloud", l>> \/ fromCloud[l][i] # t =>
           new[fromCloud[l][i]] = <<"fromCloud", l>>
  BY <1>1, <1>5
<1>12. \A w \in Worker : \A i \in 1..Len(toWorker[w]) :
         at[t] # <<"toWorker", w>> => new[toWorker[w][i].task] = <<"toWorker", w>>
  BY <1>1, <1>6
<1>13. \A w \in Worker : \A i \in 1..Len(fromWorker[w]) :
         at[t] # <<"fromWorker", w>> /\ fromWorker[w][i] # WORKER_READY =>
           new[fromWorker[w][i].task] = <<"fromWorker", w>>
  BY <1>1, <1>7
<1>14. QED
  BY <1>8, <1>9, <1>10, <1>11, <1>12, <1>13
     DEF StayAtFrontend, StayOnWay, StayOnWayBack, StayToWorkers, StayFromWorkers

LEMMA StayWhole ==
  ASSUME ClusterNetTypeOK, NEW at, Located(at), NEW t \in Task, NEW new,
         \A u \in Task : u # t => new[u] = at[u]
  PROVE  /\ at[t] # <<"requests">> /\ at[t] # <<"replies">> => AtFrontend(new, requests, replies)
         /\ (\A l : at[t] # <<"toCloud", l>> /\ at[t] # <<"fromCloud", l>>)
              => AtCloud(new, toCloud, fromCloud)
         /\ (\A w : at[t] # <<"toWorker", w>> /\ at[t] # <<"fromWorker", w>>)
              => AtWorkers(new, toWorker, fromWorker)
<1>1. /\ StayAtFrontend(at[t], t, new)
      /\ StayOnWay(at[t], t, new) /\ StayOnWayBack(at[t], t, new)
      /\ StayToWorkers(at[t], new) /\ StayFromWorkers(at[t], new)
  BY StayPut
<1>2. at[t] # <<"requests">> /\ at[t] # <<"replies">> => AtFrontend(new, requests, replies)
  BY <1>1 DEF StayAtFrontend, AtFrontend
<1>3. (\A l : at[t] # <<"toCloud", l>> /\ at[t] # <<"fromCloud", l>>)
        => AtCloud(new, toCloud, fromCloud)
  BY <1>1 DEF StayOnWay, StayOnWayBack, AtCloud
<1>4. (\A w : at[t] # <<"toWorker", w>> /\ at[t] # <<"fromWorker", w>>)
        => AtWorkers(new, toWorker, fromWorker)
  BY <1>1 DEF StayToWorkers, StayFromWorkers, AtWorkers
<1>5. QED
  BY <1>2, <1>3, <1>4

LEMMA PlacesApart ==
  /\ Nowhere # <<"requests">> /\ Nowhere # <<"replies">> /\ <<"requests">> # <<"replies">>
  /\ \A l : /\ <<"toCloud", l>> # Nowhere /\ <<"fromCloud", l>> # Nowhere
            /\ <<"toCloud", l>> # <<"requests">> /\ <<"fromCloud", l>> # <<"requests">>
            /\ <<"toCloud", l>> # <<"replies">> /\ <<"fromCloud", l>> # <<"replies">>
            /\ <<"toWorker", l>> # Nowhere /\ <<"fromWorker", l>> # Nowhere
            /\ <<"toWorker", l>> # <<"requests">> /\ <<"fromWorker", l>> # <<"requests">>
            /\ <<"toWorker", l>> # <<"replies">> /\ <<"fromWorker", l>> # <<"replies">>
  /\ \A l, m : /\ <<"toCloud", l>> # <<"fromCloud", m>>
               /\ <<"toCloud", l>> # <<"toWorker", m>>
               /\ <<"toCloud", l>> # <<"fromWorker", m>>
               /\ <<"fromCloud", l>> # <<"toWorker", m>>
               /\ <<"fromCloud", l>> # <<"fromWorker", m>>
               /\ <<"toWorker", l>> # <<"fromWorker", m>>
  /\ \A l, m : l # m => /\ <<"toCloud", l>> # <<"toCloud", m>>
                        /\ <<"fromCloud", l>> # <<"fromCloud", m>>
                        /\ <<"toWorker", l>> # <<"toWorker", m>>
                        /\ <<"fromWorker", l>> # <<"fromWorker", m>>
  BY DEF Nowhere

LEMMA ArePlaces ==
  /\ Nowhere \in Place /\ <<"requests">> \in Place /\ <<"replies">> \in Place
  /\ \A l \in Pairs : <<"toCloud", l>> \in Place /\ <<"fromCloud", l>> \in Place
  /\ \A w \in Worker : <<"toWorker", w>> \in Place /\ <<"fromWorker", w>> \in Place
  BY DEF Place

LEMMA OneInTwo ==
  ASSUME NEW S, NEW T, NEW p \in Seq(S), NEW q \in Seq(T),
         Len(p) + Len(q) <= 1
  PROVE  p # <<>> => q = <<>> /\ Len(p) = 1 /\ Tail(p) = <<>>
<1>1. HAVE p # <<>>
<1>2. Len(p) \in Nat /\ Len(q) \in Nat /\ Len(p) # 0 /\ Len(p) + Len(q) <= 1
  BY <1>1, EmptySeq
<1>3. Len(p) = 1 /\ Len(q) = 0
  <2>1. PICK m \in Nat : m = Len(p)
    BY <1>2
  <2>2. PICK n \in Nat : n = Len(q)
    BY <1>2
  <2>3. m # 0 /\ m + n <= 1
    BY <1>2, <2>1, <2>2
  <2>4. ASSUME NEW i \in Nat, NEW j \in Nat, i # 0, i + j <= 1
        PROVE  i = 1 /\ j = 0
    BY <2>4
  <2>5. QED
    BY <2>1, <2>2, <2>3, <2>4
<1>4. q = <<>>
  BY <1>3, EmptySeq
<1>5. Tail(p) \in Seq(S) /\ Len(Tail(p)) = 0
  BY <1>1, <1>3
<1>6. Tail(p) = <<>>
  BY <1>5, EmptySeq
<1>7. QED
  BY <1>3, <1>4, <1>6

(* A worker's pipes hold one message at most, so a message read leaves     *)
(* both empty.                                                             *)
LEMMA OneAtWorker ==
  ASSUME ClusterNetTypeOK, NEW w \in Worker
  PROVE  /\ toWorker[w] # <<>> =>
              /\ fromWorker[w] = <<>> /\ Len(toWorker[w]) = 1 /\ Tail(toWorker[w]) = <<>>
              /\ Head(toWorker[w]) \in Envelope /\ Head(toWorker[w]) = toWorker[w][1]
         /\ fromWorker[w] # <<>> =>
              /\ toWorker[w] = <<>> /\ Len(fromWorker[w]) = 1 /\ Tail(fromWorker[w]) = <<>>
              /\ Head(fromWorker[w]) \in Envelope \cup {WORKER_READY}
              /\ Head(fromWorker[w]) = fromWorker[w][1]
<1>1. /\ toWorker[w] \in Seq(Envelope) /\ fromWorker[w] \in Seq(Envelope \cup {WORKER_READY})
      /\ Len(toWorker[w]) + Len(fromWorker[w]) <= 1
      /\ Len(fromWorker[w]) + Len(toWorker[w]) <= 1
  BY DEF ClusterNetTypeOK
<1>2. toWorker[w] # <<>> =>
        fromWorker[w] = <<>> /\ Len(toWorker[w]) = 1 /\ Tail(toWorker[w]) = <<>>
  BY <1>1, OneInTwo
<1>3. fromWorker[w] # <<>> =>
        toWorker[w] = <<>> /\ Len(fromWorker[w]) = 1 /\ Tail(fromWorker[w]) = <<>>
  BY <1>1, OneInTwo
<1>4. /\ toWorker[w] # <<>> =>
           Head(toWorker[w]) \in Envelope /\ Head(toWorker[w]) = toWorker[w][1]
      /\ fromWorker[w] # <<>> =>
           Head(fromWorker[w]) \in Envelope \cup {WORKER_READY}
             /\ Head(fromWorker[w]) = fromWorker[w][1]
  BY <1>1, TailPart
<1>5. QED
  BY <1>2, <1>3, <1>4

LEMMA AppendToEmpty ==
  ASSUME NEW S, NEW x \in S
  PROVE  /\ Append(<<>>, x) \in Seq(S) /\ Len(Append(<<>>, x)) = 1 /\ Append(<<>>, x) # <<>>
         /\ \A i \in 1..Len(Append(<<>>, x)) : i = 1 /\ Append(<<>>, x)[i] = x
  OBVIOUS

(***************************************************************************)
(* The workers.                                                            *)
(***************************************************************************)
LEMMA ReadySaidKeeps ==
  ASSUME ClusterInv, NEW w \in Worker, WorkerStep(w), WReady(w)
  PROVE  ClusterInv'
<1>1. TasksTypeOK /\ WorkersInv /\ HopsInv /\ RepliesInv /\ ClusterNetTypeOK
  BY DEF ClusterInv, TasksTypeOK
<1>2. /\ UNCHANGED <<phase, available_workers, stops, life, linked, known, toCloud,
                     fromCloud, toWorker, requests, replies, cphase, task_seq>>
      /\ w \notin started /\ started' = started \cup {w}
      /\ fromWorker' = [fromWorker EXCEPT ![w] = Append(@, WORKER_READY)]
  BY DEF WorkerStep, WReady, processVars, cloudVars
<1>3. toWorker[w] = <<>> /\ fromWorker[w] = <<>>
  BY <1>1, <1>2 DEF WorkersInv
<1>4. PICK said : said = Append(<<>>, WORKER_READY)
  OBVIOUS
<1>5. /\ said \in Seq(Envelope \cup {WORKER_READY}) /\ Len(said) = 1 /\ said # <<>>
      /\ \A i \in 1..Len(said) : i = 1 /\ said[i] = WORKER_READY
  BY <1>4, AppendToEmpty
<1>6. /\ fromWorker'[w] = said
      /\ \A v \in Worker : v # w => fromWorker'[v] = fromWorker[v]
      /\ fromWorker' \in [Worker -> Seq(Envelope \cup {WORKER_READY})]
  BY <1>1, <1>2, <1>3, <1>4, <1>5 DEF ClusterNetTypeOK
<1>7. \A v \in Worker : Len(toWorker'[v]) + Len(fromWorker'[v]) <= 1
  <2>1. Len(<<>>) = 0 /\ 0 + 1 <= 1
    OBVIOUS
  <2>2. Len(toWorker'[w]) + Len(fromWorker'[w]) = 0 + 1
    BY <1>2, <1>3, <1>5, <1>6, <2>1
  <2>3. \A v \in Worker : Len(toWorker[v]) + Len(fromWorker[v]) <= 1
    BY <1>1 DEF ClusterNetTypeOK
  <2>4. QED
    BY <1>2, <1>6, <2>1, <2>2, <2>3
<1>8. TasksTypeOK'
  BY <1>1, <1>2, <1>6, <1>7 DEF TasksTypeOK, ClusterNetTypeOK, ClusterTasksTypeOK,
     ClusterBrokerTypeOK
<1>9. WorkersInv'
  <2>1. ASSUME NEW d \in Broker, NEW i \in 1..Len(available_workers[d])
        PROVE  /\ available_workers[d][i] \in started'
               /\ Home(available_workers[d][i]) = d
               /\ toWorker'[available_workers[d][i]] = <<>>
               /\ fromWorker'[available_workers[d][i]] = <<>>
               /\ \A j \in 1..Len(available_workers[d]) :
                    available_workers[d][j] = available_workers[d][i] => j = i
    <3>1. /\ available_workers[d][i] \in started
          /\ Home(available_workers[d][i]) = d
          /\ toWorker[available_workers[d][i]] = <<>>
          /\ fromWorker[available_workers[d][i]] = <<>>
          /\ \A j \in 1..Len(available_workers[d]) :
               available_workers[d][j] = available_workers[d][i] => j = i
      BY <1>1 DEF WorkersInv
    <3>2. available_workers[d][i] \in Worker /\ available_workers[d][i] # w
      BY <1>1, <1>2, <3>1 DEF TasksTypeOK, ClusterTasksTypeOK
    <3>3. QED
      BY <1>2, <1>6, <3>1, <3>2
  <2>2. ASSUME NEW v \in Worker
        PROVE  IF v \in started'
               THEN \/ \E i \in 1..Len(available_workers[Home(v)]) :
                         available_workers[Home(v)][i] = v
                    \/ toWorker'[v] # <<>> \/ fromWorker'[v] # <<>>
               ELSE toWorker'[v] = <<>> /\ fromWorker'[v] = <<>>
    BY <1>1, <1>2, <1>5, <1>6 DEF WorkersInv, Listed
  <2>3. QED
    BY <1>2, <2>1, <2>2 DEF WorkersInv, Listed
<1>10. LivesInv' /\ LinksInv' /\ OnceInv' /\ RepliesInv'
  BY <1>2 DEF ClusterInv, LivesInv, LinksInv, OnceInv, RepliesInv, Up
<1>11. HopsInv'
  BY <1>1, <1>2, <1>5, <1>6 DEF HopsInv
<1>12. PICK at \in [Task -> Place] : Located(at) /\ Known(at)
  BY DEF ClusterInv, TasksInv
<1>13. AtWorkers(at, toWorker', fromWorker')
  BY <1>2, <1>5, <1>6, <1>12 DEF Located, AtWorkers
<1>14. Located(at)' /\ Known(at)'
  BY <1>2, <1>12, <1>13 DEF Located, Known, Up
<1>15. QED
  BY <1>8, <1>9, <1>10, <1>11, <1>12, <1>14 DEF ClusterInv, TasksInv

LEMMA WorkKeeps ==
  ASSUME ClusterInv, NEW w \in Worker, WorkerStep(w), WTask(w)
  PROVE  ClusterInv'
<1>1. TasksTypeOK /\ WorkersInv /\ HopsInv /\ RepliesInv /\ ClusterNetTypeOK
  BY DEF ClusterInv, TasksTypeOK
<1>2. /\ UNCHANGED <<phase, available_workers, stops, life, linked, known, toCloud,
                     fromCloud, requests, replies, cphase, task_seq, started>>
      /\ toWorker[w] # <<>>
      /\ toWorker' = [toWorker EXCEPT ![w] = Tail(@)]
      /\ fromWorker' = [fromWorker EXCEPT ![w] = Append(@, Head(toWorker[w]))]
  BY DEF WorkerStep, WTask, processVars, cloudVars, taskVars
<1>3. /\ fromWorker[w] = <<>> /\ Len(toWorker[w]) = 1 /\ Tail(toWorker[w]) = <<>>
      /\ Head(toWorker[w]) \in Envelope /\ Head(toWorker[w]) = toWorker[w][1]
  BY <1>1, <1>2, OneAtWorker
<1>4. PICK e \in Envelope : e = toWorker[w][1]
  BY <1>3
<1>5. PICK said : said = Append(<<>>, e)
  OBVIOUS
<1>6. /\ said \in Seq(Envelope \cup {WORKER_READY}) /\ Len(said) = 1 /\ said # <<>>
      /\ \A i \in 1..Len(said) : i = 1 /\ said[i] = e
  BY <1>5, AppendToEmpty
<1>7. /\ fromWorker'[w] = said /\ toWorker'[w] = <<>>
      /\ \A v \in Worker : v # w => fromWorker'[v] = fromWorker[v] /\ toWorker'[v] = toWorker[v]
      /\ fromWorker' \in [Worker -> Seq(Envelope \cup {WORKER_READY})]
      /\ toWorker' \in [Worker -> Seq(Envelope)]
  <2>1. <<>> \in Seq(Envelope)
    BY EmptySeq
  <2>2. QED
    BY <1>1, <1>2, <1>3, <1>4, <1>5, <1>6, <2>1 DEF ClusterNetTypeOK
<1>8. Len(<<>>) = 0 /\ 0 + 1 <= 1
  OBVIOUS
<1>9. \A v \in Worker : Len(toWorker'[v]) + Len(fromWorker'[v]) <= 1
  <2>1. Len(toWorker'[w]) + Len(fromWorker'[w]) = 0 + 1
    BY <1>6, <1>7, <1>8
  <2>2. \A v \in Worker : Len(toWorker[v]) + Len(fromWorker[v]) <= 1
    BY <1>1 DEF ClusterNetTypeOK
  <2>3. QED
    BY <1>7, <1>8, <2>1, <2>2
<1>10. TasksTypeOK'
  BY <1>1, <1>2, <1>7, <1>9 DEF TasksTypeOK, ClusterNetTypeOK, ClusterTasksTypeOK,
     ClusterBrokerTypeOK
<1>11. WorkersInv'
  <2>1. ASSUME NEW d \in Broker, NEW i \in 1..Len(available_workers[d])
        PROVE  /\ available_workers[d][i] \in started
               /\ Home(available_workers[d][i]) = d
               /\ toWorker'[available_workers[d][i]] = <<>>
               /\ fromWorker'[available_workers[d][i]] = <<>>
               /\ \A j \in 1..Len(available_workers[d]) :
                    available_workers[d][j] = available_workers[d][i] => j = i
    <3>1. /\ available_workers[d][i] \in started
          /\ Home(available_workers[d][i]) = d
          /\ toWorker[available_workers[d][i]] = <<>>
          /\ fromWorker[available_workers[d][i]] = <<>>
          /\ \A j \in 1..Len(available_workers[d]) :
               available_workers[d][j] = available_workers[d][i] => j = i
      BY <1>1 DEF WorkersInv
    <3>2. available_workers[d][i] \in Worker /\ available_workers[d][i] # w
      BY <1>1, <1>2, <3>1 DEF TasksTypeOK, ClusterTasksTypeOK
    <3>3. QED
      BY <1>7, <3>1, <3>2
  <2>2. ASSUME NEW v \in Worker
        PROVE  IF v \in started
               THEN \/ \E i \in 1..Len(available_workers[Home(v)]) :
                         available_workers[Home(v)][i] = v
                    \/ toWorker'[v] # <<>> \/ fromWorker'[v] # <<>>
               ELSE toWorker'[v] = <<>> /\ fromWorker'[v] = <<>>
    BY <1>1, <1>2, <1>6, <1>7 DEF WorkersInv, Listed
  <2>3. QED
    BY <1>2, <2>1, <2>2 DEF WorkersInv, Listed
<1>12. OnceInv' /\ RepliesInv'
  BY <1>2 DEF ClusterInv, OnceInv, RepliesInv, Up
<1>13. 1 \in 1..Len(toWorker[w])
  BY <1>3
<1>14. HopsInv'
  <2>1. Home(e.task.client) = e.peer
    BY <1>1, <1>4, <1>13 DEF HopsInv
  <2>2. ASSUME NEW v \in Worker, NEW i \in 1..Len(toWorker'[v])
        PROVE  Home(toWorker'[v][i].task.client) = toWorker'[v][i].peer
    <3>1. toWorker'[v] = toWorker[v]
      BY <1>7, <1>8, <2>2
    <3>2. \A j \in 1..Len(toWorker[v]) :
            Home(toWorker[v][j].task.client) = toWorker[v][j].peer
      BY <1>1 DEF HopsInv
    <3>3. QED
      BY <2>2, <3>1, <3>2
  <2>3. ASSUME NEW v \in Worker, NEW i \in 1..Len(fromWorker'[v]),
               fromWorker'[v][i] # WORKER_READY
        PROVE  Home(fromWorker'[v][i].task.client) = fromWorker'[v][i].peer
    <3>1. CASE v = w
      BY <1>6, <1>7, <2>1, <2>3, <3>1
    <3>2. CASE v # w
      <4>1. fromWorker'[v] = fromWorker[v]
        BY <1>7, <3>2
      <4>2. \A j \in 1..Len(fromWorker[v]) :
              fromWorker[v][j] # WORKER_READY =>
                Home(fromWorker[v][j].task.client) = fromWorker[v][j].peer
        BY <1>1 DEF HopsInv
      <4>3. QED
        BY <2>3, <4>1, <4>2
    <3>3. QED
      BY <3>1, <3>2
  <2>4. QED
    BY <1>1, <1>2, <2>2, <2>3 DEF HopsInv
<1>15. PICK at \in [Task -> Place] : Located(at) /\ Known(at)
  BY DEF ClusterInv, TasksInv
<1>16. PICK t \in Task : t = e.task
  BY DEF Envelope
<1>17. at[t] = <<"toWorker", w>> /\ at[t] # Nowhere
  <2>1. at[t] = <<"toWorker", w>>
    BY <1>4, <1>13, <1>15, <1>16 DEF Located, AtWorkers
  <2>2. QED
    BY <2>1, PlacesApart
<1>18. PICK new \in [Task -> Place] :
         /\ new[t] = <<"fromWorker", w>>
         /\ \A u \in Task : u # t => new[u] = at[u]
         /\ \A u \in Task : at[u] # at[t] => new[u] = at[u]
  <2>1. <<"fromWorker", w>> \in Place
    BY ArePlaces
  <2>2. \E new \in [Task -> Place] : MovesTo(new, at, t, <<"fromWorker", w>>)
    BY <1>15, <2>1, NewPlace
  <2>3. QED
    BY <2>2 DEF MovesTo
<1>19. Located(new)'
  <2>1. AtFrontend(new, requests, replies) /\ AtCloud(new, toCloud, fromCloud)
    BY <1>1, <1>15, <1>17, <1>18, StayWhole, PlacesApart
  <2>2. StayToWorkers(at[t], new) /\ StayFromWorkers(at[t], new)
    BY <1>1, <1>15, <1>18, StayPut
  <2>3. ASSUME NEW v \in Worker, NEW i \in 1..Len(toWorker'[v])
        PROVE  new[toWorker'[v][i].task] = <<"toWorker", v>>
    <3>1. v # w /\ toWorker'[v] = toWorker[v]
      BY <1>7, <1>8, <2>3
    <3>2. at[t] # <<"toWorker", v>>
      BY <1>17, <3>1, PlacesApart
    <3>3. QED
      BY <2>3, <2>2, <3>1, <3>2 DEF StayToWorkers
  <2>4. ASSUME NEW v \in Worker, NEW i \in 1..Len(fromWorker'[v]),
               fromWorker'[v][i] # WORKER_READY
        PROVE  new[fromWorker'[v][i].task] = <<"fromWorker", v>>
    <3>1. CASE v = w
      BY <1>6, <1>7, <1>16, <1>18, <2>4, <3>1
    <3>2. CASE v # w
      <4>1. fromWorker'[v] = fromWorker[v] /\ at[t] # <<"fromWorker", v>>
        BY <1>7, <1>17, <3>2, PlacesApart
      <4>2. QED
        BY <2>4, <2>2, <4>1 DEF StayFromWorkers
    <3>3. QED
      BY <3>1, <3>2
  <2>5. QED
    BY <1>2, <2>1, <2>3, <2>4 DEF Located, AtWorkers
<1>20. Quiet
  BY <1>1, <1>2 DEF Quiet, Steady, TasksTypeOK
<1>21. LivesInv' /\ LinksInv' /\ Known(new)'
  BY <1>15, <1>17, <1>18, <1>20, QuietKeeps
<1>22. QED
  BY <1>10, <1>11, <1>12, <1>14, <1>18, <1>19, <1>21 DEF ClusterInv, TasksInv

(***************************************************************************)
(* A task is put at the end of one pipe of many, or dropped; the oldest    *)
(* one is taken.                                                           *)
(***************************************************************************)
LEMMA PipeGrows ==
  ASSUME NEW s \in Seq(Task), NEW t \in Task
  PROVE  /\ Append(s, t) \in Seq(Task)
         /\ \A i \in 1..Len(Append(s, t)) :
              \/ i \in 1..Len(s) /\ Append(s, t)[i] = s[i]
              \/ i = Len(s) + 1 /\ Append(s, t)[i] = t
         /\ NoneTwice(s) /\ (\A i \in 1..Len(s) : s[i] # t) => NoneTwice(Append(s, t))
<1> DEFINE q == Append(s, t)
<1>1. q \in Seq(Task) /\ Len(s) \in Nat
  OBVIOUS
<1>2. \A i \in 1..Len(q) : \/ i \in 1..Len(s) /\ q[i] = s[i]
                           \/ i = Len(s) + 1 /\ q[i] = t
  OBVIOUS
<1> HIDE DEF q
<1>3. ASSUME NoneTwice(s), \A i \in 1..Len(s) : s[i] # t,
             NEW i \in 1..Len(q), NEW j \in 1..Len(q), q[i] = q[j]
      PROVE  i = j
  BY <1>2, <1>3 DEF NoneTwice
<1>4. QED
  BY <1>1, <1>2, <1>3 DEF NoneTwice, q

AllOnce(pipes) == \A l \in Pairs : NoneTwice(pipes[l])

Fresh(pipes, t) == \A m \in Pairs : \A i \in 1..Len(pipes[m]) : pipes[m][i] # t

Added(pipes, l, t, q) ==
  \A m \in Pairs : \A i \in 1..Len(q[m]) :
    \/ i \in 1..Len(pipes[m]) /\ q[m][i] = pipes[m][i]
    \/ m = l /\ q[m][i] = t

Joined(pipes, l, t, q) == q = pipes \/ q = [pipes EXCEPT ![l] = Append(@, t)]

Left(pipes, l, q) == q = [pipes EXCEPT ![l] = Tail(@)]

LEMMA CloudGrows ==
  ASSUME NEW pipes \in [Pairs -> Seq(Task)], NEW l \in Pairs, NEW t \in Task,
         NEW q, Joined(pipes, l, t, q)
  PROVE  /\ q \in [Pairs -> Seq(Task)] /\ Added(pipes, l, t, q)
         /\ AllOnce(pipes) /\ Fresh(pipes, t) => AllOnce(q)
<1>1. CASE q = pipes
  BY <1>1 DEF Added
<1>2. CASE q = [pipes EXCEPT ![l] = Append(@, t)]
  <2>1. pipes[l] \in Seq(Task)
    OBVIOUS
  <2>2. PICK s : s = Append(pipes[l], t)
    OBVIOUS
  <2>3. /\ s \in Seq(Task)
        /\ \A i \in 1..Len(s) :
             \/ i \in 1..Len(pipes[l]) /\ s[i] = pipes[l][i]
             \/ i = Len(pipes[l]) + 1 /\ s[i] = t
        /\ NoneTwice(pipes[l]) /\ (\A i \in 1..Len(pipes[l]) : pipes[l][i] # t) => NoneTwice(s)
    BY <2>1, <2>2, PipeGrows
  <2>4. q \in [Pairs -> Seq(Task)] /\ q[l] = s /\ \A m \in Pairs : m # l => q[m] = pipes[m]
    BY <1>2, <2>2, <2>3
  <2>5. ASSUME NEW m \in Pairs, NEW i \in 1..Len(q[m])
        PROVE  \/ i \in 1..Len(pipes[m]) /\ q[m][i] = pipes[m][i]
               \/ m = l /\ q[m][i] = t
    BY <2>3, <2>4, <2>5
  <2>6. AllOnce(pipes) /\ Fresh(pipes, t) => AllOnce(q)
    BY <2>3, <2>4 DEF AllOnce, Fresh
  <2>7. QED
    BY <2>4, <2>5, <2>6 DEF Added
<1>3. QED
  BY <1>1, <1>2 DEF Joined

LEMMA CloudShrinks ==
  ASSUME NEW pipes \in [Pairs -> Seq(Task)], NEW l \in Pairs, pipes[l] # <<>>,
         NEW q, Left(pipes, l, q)
  PROVE  /\ q \in [Pairs -> Seq(Task)]
         /\ Head(pipes[l]) \in Task /\ Head(pipes[l]) = pipes[l][1] /\ 1 \in 1..Len(pipes[l])
         /\ \A m \in Pairs : m # l => q[m] = pipes[m]
         /\ \A i \in 1..Len(q[l]) : i + 1 \in 1..Len(pipes[l]) /\ q[l][i] = pipes[l][i + 1]
         /\ NoneTwice(pipes[l]) => NoneTwice(q[l]) /\ \A i \in 1..Len(q[l]) : q[l][i] # pipes[l][1]
<1>1. PICK s \in Seq(Task) : s = pipes[l]
  OBVIOUS
<1>2. PICK r : r = Tail(s)
  OBVIOUS
<1>3. s # <<>> /\ Len(s) \in Nat /\ Len(s) # 0
  BY <1>1, EmptySeq
<1>4. r \in Seq(Task) /\ Len(r) = Len(s) - 1 /\ Head(s) \in Task /\ Head(s) = s[1]
  BY <1>2, <1>3
<1>5. \A i \in 1..Len(r) : i + 1 \in 1..Len(s) /\ r[i] = s[i + 1] /\ i + 1 # 1
  BY <1>2, <1>3, <1>4
<1>6. 1 \in 1..Len(s)
  BY <1>3
<1>7. ASSUME NoneTwice(s), NEW i \in 1..Len(r)
      PROVE  /\ r[i] # s[1]
             /\ \A j \in 1..Len(r) : r[i] = r[j] => i = j
  <2>1. r[i] # s[1]
    BY <1>5, <1>6, <1>7 DEF NoneTwice
  <2>2. ASSUME NEW j \in 1..Len(r), r[i] = r[j]
        PROVE  i = j
    <3>1. i + 1 \in 1..Len(s) /\ j + 1 \in 1..Len(s) /\ s[i + 1] = s[j + 1]
      BY <1>5, <2>2
    <3>2. i + 1 = j + 1
      BY <1>7, <3>1 DEF NoneTwice
    <3>3. QED
      BY <1>4, <3>2
  <2>3. QED
    BY <2>1, <2>2
<1>8. q \in [Pairs -> Seq(Task)] /\ q[l] = r /\ \A m \in Pairs : m # l => q[m] = pipes[m]
  BY <1>1, <1>2, <1>4 DEF Left
<1>9. QED
  BY <1>1, <1>4, <1>5, <1>6, <1>7, <1>8 DEF NoneTwice

(***************************************************************************)
(* A worker that has sent a message is listed again; one that is taken     *)
(* from the list gets a message.                                           *)
(***************************************************************************)
LEMMA FreedWorker ==
  ASSUME TasksTypeOK, WorkersInv, NEW b \in Broker, NEW w \in FromWorkers(b),
         fromWorker' = [fromWorker EXCEPT ![w] = Tail(@)],
         available_workers' = [available_workers EXCEPT ![b] = Append(@, w)],
         UNCHANGED <<started, toWorker>>
  PROVE  /\ WorkersInv'
         /\ available_workers' \in [Broker -> Seq(Worker)]
         /\ fromWorker' \in [Worker -> Seq(Envelope \cup {WORKER_READY})]
         /\ \A v \in Worker : Len(toWorker'[v]) + Len(fromWorker'[v]) <= 1
         /\ w \in Worker /\ fromWorker'[w] = <<>>
         /\ \A v \in Worker : v # w => fromWorker'[v] = fromWorker[v]
<1>1. w \in Worker /\ Home(w) = b /\ fromWorker[w] # <<>> /\ ClusterNetTypeOK
  BY DEF FromWorkers, TasksTypeOK
<1>2. toWorker[w] = <<>> /\ Len(fromWorker[w]) = 1 /\ Tail(fromWorker[w]) = <<>>
  BY <1>1, OneAtWorker
<1>3. <<>> \in Seq(Envelope \cup {WORKER_READY}) /\ Len(<<>>) = 0 /\ 0 + 0 <= 1
  BY EmptySeq
<1>4. /\ fromWorker'[w] = <<>> /\ \A v \in Worker : v # w => fromWorker'[v] = fromWorker[v]
      /\ fromWorker' \in [Worker -> Seq(Envelope \cup {WORKER_READY})]
  BY <1>1, <1>2, <1>3 DEF ClusterNetTypeOK
<1>5. \A v \in Worker : Len(toWorker'[v]) + Len(fromWorker'[v]) <= 1
  <2>1. \A v \in Worker : Len(toWorker[v]) + Len(fromWorker[v]) <= 1
    BY <1>1 DEF ClusterNetTypeOK
  <2>2. Len(toWorker'[w]) = 0 /\ Len(fromWorker'[w]) = 0
    BY <1>2, <1>3, <1>4
  <2>3. QED
    BY <1>3, <1>4, <2>1, <2>2
<1>6. w \in started
  BY <1>1 DEF WorkersInv
<1>7. PICK list \in Seq(Worker) : list = available_workers[b]
  BY DEF TasksTypeOK, ClusterBrokerTypeOK
<1>8. PICK longer : longer = Append(list, w)
  OBVIOUS
<1>9. longer \in Seq(Worker) /\ Len(longer) = Len(list) + 1 /\ Len(list) \in Nat
  BY <1>1, <1>7, <1>8
<1>10. /\ \A i \in 1..Len(list) : i \in 1..Len(longer) /\ longer[i] = list[i]
       /\ \A i \in 1..Len(longer) : i \in 1..Len(list) \/ i = Len(longer)
       /\ Len(longer) \in 1..Len(longer) /\ longer[Len(longer)] = w
  BY <1>1, <1>7, <1>8, <1>9
<1>11. /\ available_workers'[b] = longer
       /\ \A d \in Broker : d # b => available_workers'[d] = available_workers[d]
       /\ available_workers' \in [Broker -> Seq(Worker)]
  BY <1>7, <1>8, <1>9 DEF TasksTypeOK, ClusterBrokerTypeOK
<1>12. ASSUME NEW d \in Broker, NEW i \in 1..Len(available_workers[d])
       PROVE  /\ available_workers[d][i] \in started /\ available_workers[d][i] # w
              /\ Home(available_workers[d][i]) = d
              /\ toWorker'[available_workers[d][i]] = <<>>
              /\ fromWorker'[available_workers[d][i]] = <<>>
              /\ \A j \in 1..Len(available_workers[d]) :
                   available_workers[d][j] = available_workers[d][i] => j = i
  <2>1. /\ available_workers[d][i] \in started
        /\ Home(available_workers[d][i]) = d
        /\ toWorker[available_workers[d][i]] = <<>>
        /\ fromWorker[available_workers[d][i]] = <<>>
        /\ \A j \in 1..Len(available_workers[d]) :
             available_workers[d][j] = available_workers[d][i] => j = i
    BY DEF WorkersInv
  <2>2. available_workers[d][i] \in Worker /\ available_workers[d][i] # w
    BY <1>1, <2>1 DEF TasksTypeOK, ClusterTasksTypeOK
  <2>3. QED
    BY <1>4, <2>1, <2>2
<1>13. ASSUME NEW d \in Broker, NEW i \in 1..Len(available_workers'[d])
       PROVE  /\ available_workers'[d][i] \in started'
              /\ Home(available_workers'[d][i]) = d
              /\ toWorker'[available_workers'[d][i]] = <<>>
              /\ fromWorker'[available_workers'[d][i]] = <<>>
              /\ \A j \in 1..Len(available_workers'[d]) :
                   available_workers'[d][j] = available_workers'[d][i] => j = i
  <2>1. CASE d # b
    BY <1>11, <1>12, <1>13, <2>1
  <2>2. CASE d = b
    <3>1. CASE i \in 1..Len(list)
      <4>1. /\ longer[i] \in started /\ longer[i] # w /\ Home(longer[i]) = b
            /\ toWorker'[longer[i]] = <<>> /\ fromWorker'[longer[i]] = <<>>
        BY <1>7, <1>10, <1>12, <3>1
      <4>2. ASSUME NEW j \in 1..Len(longer), longer[j] = longer[i]
            PROVE  j = i
        BY <1>7, <1>10, <1>12, <3>1, <4>1, <4>2
      <4>3. QED
        BY <1>11, <2>2, <4>1, <4>2
    <3>2. CASE i = Len(longer)
      <4>1. ASSUME NEW j \in 1..Len(longer), longer[j] = w
            PROVE  j = i
        BY <1>7, <1>10, <1>12, <3>2, <4>1
      <4>2. QED
        BY <1>1, <1>2, <1>4, <1>6, <1>10, <1>11, <2>2, <3>2, <4>1
    <3>3. QED
      BY <1>10, <1>11, <1>13, <2>2, <3>1, <3>2
  <2>3. QED
    BY <2>1, <2>2
<1>14. ASSUME NEW v \in Worker
       PROVE  IF v \in started'
              THEN \/ \E i \in 1..Len(available_workers'[Home(v)]) :
                        available_workers'[Home(v)][i] = v
                   \/ toWorker'[v] # <<>> \/ fromWorker'[v] # <<>>
              ELSE toWorker'[v] = <<>> /\ fromWorker'[v] = <<>>
  <2>1. CASE v = w
    BY <1>1, <1>6, <1>10, <1>11, <2>1
  <2>2. CASE v # w
    <3>1. IF v \in started
          THEN \/ \E i \in 1..Len(available_workers[Home(v)]) :
                    available_workers[Home(v)][i] = v
               \/ toWorker[v] # <<>> \/ fromWorker[v] # <<>>
          ELSE toWorker[v] = <<>> /\ fromWorker[v] = <<>>
      BY DEF WorkersInv, Listed
    <3>2. (\E i \in 1..Len(available_workers[Home(v)]) : available_workers[Home(v)][i] = v)
            => \E i \in 1..Len(available_workers'[Home(v)]) : available_workers'[Home(v)][i] = v
      BY <1>7, <1>10, <1>11, Homes
    <3>3. QED
      BY <1>4, <2>2, <3>1, <3>2
  <2>3. QED
    BY <2>1, <2>2
<1>15. WorkersInv'
  BY <1>13, <1>14 DEF WorkersInv, Listed
<1>16. QED
  BY <1>1, <1>4, <1>5, <1>11, <1>15

LEMMA GivenWorker ==
  ASSUME TasksTypeOK, WorkersInv, NEW b \in Broker, NEW peer \in Broker, NEW t \in Task,
         Give(b, peer, t), UNCHANGED <<started, fromWorker>>
  PROVE  /\ WorkersInv'
         /\ available_workers' \in [Broker -> Seq(Worker)]
         /\ toWorker' \in [Worker -> Seq(Envelope)]
         /\ \A v \in Worker : Len(toWorker'[v]) + Len(fromWorker'[v]) <= 1
         /\ \E w \in Worker :
              /\ \A i \in 1..Len(toWorker'[w]) : toWorker'[w][i] = [peer |-> peer, task |-> t]
              /\ toWorker'[w] # <<>>
              /\ \A v \in Worker : v # w => toWorker'[v] = toWorker[v]
<1>1. PICK list \in Seq(Worker) : list = available_workers[b]
  BY DEF TasksTypeOK, ClusterBrokerTypeOK
<1>2. list # <<>> /\ Len(list) \in Nat /\ 1 \in 1..Len(list) /\ Head(list) = list[1]
  <2>1. list # <<>> /\ Len(list) \in Nat
    BY <1>1 DEF Give
  <2>2. Len(list) # 0
    BY <2>1, EmptySeq
  <2>3. QED
    BY <2>1, <2>2
<1>3. PICK w \in Worker : w = list[1]
  BY <1>2
<1>4. PICK e : e = [peer |-> peer, task |-> t]
  OBVIOUS
<1>5. PICK given : given = Append(<<>>, e)
  OBVIOUS
<1>6. e \in Envelope
  BY <1>4 DEF Envelope
<1>7. /\ given \in Seq(Envelope) /\ Len(given) = 1 /\ given # <<>>
      /\ \A i \in 1..Len(given) : given[i] = e
  BY <1>5, <1>6, AppendToEmpty
<1>8. PICK rest : rest = Tail(list)
  OBVIOUS
<1>9. /\ rest \in Seq(Worker)
      /\ \A i \in 1..Len(rest) : i + 1 \in 1..Len(list) /\ rest[i] = list[i + 1] /\ i + 1 # 1
      /\ \A i \in 1..Len(list) : i # 1 => i - 1 \in 1..Len(rest) /\ rest[i - 1] = list[i]
  <2>1. rest \in Seq(Worker) /\ Len(rest) = Len(list) - 1
    BY <1>2, <1>8
  <2>2. \A i \in 1..Len(rest) : i + 1 \in 1..Len(list) /\ rest[i] = list[i + 1] /\ i + 1 # 1
    BY <1>2, <1>8, <2>1
  <2>3. \A i \in 1..Len(list) : i # 1 => i - 1 \in 1..Len(rest)
    BY <1>2, <2>1
  <2>4. \A i \in 1..Len(list) : i # 1 => rest[i - 1] = list[i]
    BY <1>2, <2>2, <2>3
  <2>5. QED
    BY <2>1, <2>2, <2>3, <2>4
<1>10. ASSUME NEW d \in Broker, NEW i \in 1..Len(available_workers[d])
       PROVE  /\ available_workers[d][i] \in started
              /\ Home(available_workers[d][i]) = d
              /\ toWorker[available_workers[d][i]] = <<>>
              /\ fromWorker[available_workers[d][i]] = <<>>
              /\ \A j \in 1..Len(available_workers[d]) :
                   available_workers[d][j] = available_workers[d][i] => j = i
              /\ available_workers[d][i] \in Worker
  BY DEF WorkersInv, TasksTypeOK, ClusterTasksTypeOK
<1>11. w \in started /\ Home(w) = b /\ toWorker[w] = <<>> /\ fromWorker[w] = <<>>
  BY <1>1, <1>2, <1>3, <1>10
<1>12. /\ toWorker'[w] = given /\ \A v \in Worker : v # w => toWorker'[v] = toWorker[v]
       /\ toWorker' \in [Worker -> Seq(Envelope)]
  BY <1>1, <1>2, <1>3, <1>4, <1>5, <1>7, <1>11 DEF Give, TasksTypeOK, ClusterNetTypeOK
<1>13. /\ available_workers'[b] = rest
       /\ \A d \in Broker : d # b => available_workers'[d] = available_workers[d]
       /\ available_workers' \in [Broker -> Seq(Worker)]
  BY <1>1, <1>8, <1>9 DEF Give, TasksTypeOK, ClusterBrokerTypeOK
<1>14. \A v \in Worker : Len(toWorker'[v]) + Len(fromWorker'[v]) <= 1
  <2>1. \A v \in Worker : Len(toWorker[v]) + Len(fromWorker[v]) <= 1
    BY DEF TasksTypeOK, ClusterNetTypeOK
  <2>2. Len(<<>>) = 0 /\ 1 + 0 <= 1
    OBVIOUS
  <2>3. Len(toWorker'[w]) = 1 /\ Len(fromWorker'[w]) = 0
    BY <1>7, <1>11, <1>12, <2>2
  <2>4. QED
    BY <1>12, <2>1, <2>2, <2>3
<1>15. ASSUME NEW d \in Broker, NEW i \in 1..Len(available_workers'[d])
       PROVE  /\ available_workers'[d][i] \in started'
              /\ Home(available_workers'[d][i]) = d
              /\ toWorker'[available_workers'[d][i]] = <<>>
              /\ fromWorker'[available_workers'[d][i]] = <<>>
              /\ \A j \in 1..Len(available_workers'[d]) :
                   available_workers'[d][j] = available_workers'[d][i] => j = i
  <2>1. CASE d # b
    <3>1. available_workers'[d] = available_workers[d]
      BY <1>13, <2>1
    <3>2. PICK v \in Worker : v = available_workers[d][i]
      BY <1>10, <1>15, <3>1
    <3>3. /\ v \in started /\ Home(v) = d /\ toWorker[v] = <<>> /\ fromWorker[v] = <<>>
          /\ \A j \in 1..Len(available_workers[d]) : available_workers[d][j] = v => j = i
      BY <1>10, <1>15, <3>1, <3>2
    <3>4. v # w
      BY <1>11, <2>1, <3>3
    <3>5. QED
      BY <1>12, <3>1, <3>2, <3>3, <3>4
  <2>2. CASE d = b
    <3>1. i \in 1..Len(rest) /\ rest[i] = list[i + 1] /\ i + 1 \in 1..Len(list) /\ i + 1 # 1
      BY <1>9, <1>13, <1>15, <2>2
    <3>2. /\ list[i + 1] \in started /\ Home(list[i + 1]) = b
          /\ toWorker[list[i + 1]] = <<>> /\ fromWorker[list[i + 1]] = <<>>
          /\ list[i + 1] \in Worker
          /\ \A j \in 1..Len(list) : list[j] = list[i + 1] => j = i + 1
      BY <1>1, <1>10, <3>1
    <3>3. list[i + 1] # w
      BY <1>2, <1>3, <3>1, <3>2
    <3>4. ASSUME NEW j \in 1..Len(rest), rest[j] = rest[i]
          PROVE  j = i
      <4>1. j + 1 = i + 1
        BY <1>9, <3>1, <3>2, <3>4
      <4>2. i \in Nat /\ j \in Nat
        BY <1>9, <3>1
      <4>3. QED
        BY <4>1, <4>2
    <3>5. QED
      BY <1>12, <1>13, <2>2, <3>1, <3>2, <3>3, <3>4
  <2>3. QED
    BY <2>1, <2>2
<1>16. ASSUME NEW v \in Worker
       PROVE  IF v \in started'
              THEN \/ \E i \in 1..Len(available_workers'[Home(v)]) :
                        available_workers'[Home(v)][i] = v
                   \/ toWorker'[v] # <<>> \/ fromWorker'[v] # <<>>
              ELSE toWorker'[v] = <<>> /\ fromWorker'[v] = <<>>
  <2>1. CASE v = w
    BY <1>7, <1>11, <1>12, <2>1
  <2>2. CASE v # w
    <3>1. IF v \in started
          THEN \/ \E i \in 1..Len(available_workers[Home(v)]) :
                    available_workers[Home(v)][i] = v
               \/ toWorker[v] # <<>> \/ fromWorker[v] # <<>>
          ELSE toWorker[v] = <<>> /\ fromWorker[v] = <<>>
      BY DEF WorkersInv, Listed
    <3>2. ASSUME NEW i \in 1..Len(available_workers[Home(v)]), available_workers[Home(v)][i] = v
          PROVE  \E j \in 1..Len(available_workers'[Home(v)]) : available_workers'[Home(v)][j] = v
      <4>1. CASE Home(v) # b
        BY <1>13, <3>2, <4>1, Homes
      <4>2. CASE Home(v) = b
        <5>1. i \in 1..Len(list) /\ list[i] = v /\ i # 1
          BY <1>1, <1>3, <2>2, <3>2, <4>2
        <5>2. i - 1 \in 1..Len(rest) /\ rest[i - 1] = v
          BY <1>9, <5>1
        <5>3. QED
          BY <1>13, <4>2, <5>2
      <4>3. QED
        BY <4>1, <4>2
    <3>3. QED
      BY <1>12, <2>2, <3>1, <3>2
  <2>3. QED
    BY <2>1, <2>2
<1>17. WorkersInv'
  BY <1>15, <1>16 DEF WorkersInv, Listed
<1>18. \A i \in 1..Len(toWorker'[w]) : toWorker'[w][i] = [peer |-> peer, task |-> t]
  BY <1>4, <1>7, <1>12
<1>19. QED
  BY <1>7, <1>12, <1>13, <1>14, <1>17, <1>18

(***************************************************************************)
(* The pipes of the cloud, with where their tasks are.                     *)
(***************************************************************************)
OnPipe(at, name, pipes) ==
  \A l \in Pairs : \A i \in 1..Len(pipes[l]) : at[pipes[l][i]] = <<name, l>>

OwnTasks(pipes) ==
  \A l \in Pairs : \A i \in 1..Len(pipes[l]) : Home(pipes[l][i].client) = l[1]

(* A task that comes to a pipe, from none of that name.                    *)
Arrives(at, new, t, name, l) ==
  /\ \A u \in Task : u # t => new[u] = at[u]
  /\ \A m : at[t] # <<name, m>>
  /\ new[t] = <<name, l>>
  /\ Home(t.client) = l[1]

LEMMA JoinedPipe ==
  ASSUME NEW pipes \in [Pairs -> Seq(Task)], NEW l \in Pairs, NEW t \in Task,
         NEW q, Joined(pipes, l, t, q),
         NEW at, NEW new, NEW name,
         Arrives(at, new, t, name, l),
         OnPipe(at, name, pipes), OwnTasks(pipes), AllOnce(pipes)
  PROVE  q \in [Pairs -> Seq(Task)] /\ OnPipe(new, name, q) /\ OwnTasks(q) /\ AllOnce(q)
<1>1. ASSUME NEW m \in Pairs, NEW i \in 1..Len(pipes[m])
      PROVE  /\ pipes[m][i] \in Task /\ pipes[m][i] # t
             /\ new[pipes[m][i]] = <<name, m>>
             /\ Home(pipes[m][i].client) = m[1]
  <2>1. pipes[m] \in Seq(Task)
    OBVIOUS
  <2>2. pipes[m][i] \in Task
    BY <2>1
  <2>3. at[pipes[m][i]] = <<name, m>>
    BY DEF OnPipe
  <2>4. Home(pipes[m][i].client) = m[1]
    BY DEF OwnTasks
  <2>5. pipes[m][i] # t
    BY <2>3 DEF Arrives
  <2>6. QED
    BY <2>2, <2>3, <2>4, <2>5 DEF Arrives
<1>2. /\ q \in [Pairs -> Seq(Task)] /\ Added(pipes, l, t, q)
      /\ AllOnce(pipes) /\ Fresh(pipes, t) => AllOnce(q)
  BY CloudGrows
<1>3. AllOnce(q)
  BY <1>1, <1>2 DEF Fresh
<1>4. ASSUME NEW m \in Pairs, NEW i \in 1..Len(q[m])
      PROVE  new[q[m][i]] = <<name, m>> /\ Home(q[m][i].client) = m[1]
  BY <1>1, <1>2, <1>4 DEF Arrives, Added
<1>5. QED
  BY <1>2, <1>3, <1>4 DEF OnPipe, OwnTasks

(* The oldest task of a pipe, and the pipe without it.                     *)
LEMMA OldestTask ==
  ASSUME NEW pipes \in [Pairs -> Seq(Task)], NEW l \in Pairs, pipes[l] # <<>>,
         NEW at, NEW name, OnPipe(at, name, pipes), OwnTasks(pipes)
  PROVE  /\ Head(pipes[l]) \in Task
         /\ at[Head(pipes[l])] = <<name, l>>
         /\ Home(Head(pipes[l]).client) = l[1]
<1>1. pipes[l] \in Seq(Task)
  OBVIOUS
<1>2. Head(pipes[l]) \in Task /\ Head(pipes[l]) = pipes[l][1] /\ 1 \in 1..Len(pipes[l])
  BY <1>1, EmptySeq
<1>3. QED
  BY <1>2 DEF OnPipe, OwnTasks

Elsewhere(at, new, t) == \A u \in Task : u # t => new[u] = at[u]

LEMMA LeftPipe ==
  ASSUME NEW pipes \in [Pairs -> Seq(Task)], NEW l \in Pairs, pipes[l] # <<>>,
         NEW q, Left(pipes, l, q),
         NEW at, NEW new, NEW name, NEW t, t = Head(pipes[l]), Elsewhere(at, new, t),
         OnPipe(at, name, pipes), OwnTasks(pipes), AllOnce(pipes)
  PROVE  q \in [Pairs -> Seq(Task)] /\ OnPipe(new, name, q) /\ OwnTasks(q) /\ AllOnce(q)
<1>1. /\ q \in [Pairs -> Seq(Task)]
      /\ Head(pipes[l]) \in Task /\ Head(pipes[l]) = pipes[l][1] /\ 1 \in 1..Len(pipes[l])
      /\ \A m \in Pairs : m # l => q[m] = pipes[m]
      /\ \A i \in 1..Len(q[l]) : i + 1 \in 1..Len(pipes[l]) /\ q[l][i] = pipes[l][i + 1]
      /\ NoneTwice(pipes[l]) => NoneTwice(q[l]) /\ \A i \in 1..Len(q[l]) : q[l][i] # pipes[l][1]
  BY CloudShrinks
<1>2. t \in Task /\ t = Head(pipes[l]) /\ \A u \in Task : u # t => new[u] = at[u]
  BY <1>1 DEF Elsewhere
<1>3. at[t] = <<name, l>> /\ Home(t.client) = l[1]
  BY <1>1, <1>2 DEF OnPipe, OwnTasks
<1>4. ASSUME NEW m \in Pairs, NEW i \in 1..Len(pipes[m])
      PROVE  /\ pipes[m][i] \in Task /\ at[pipes[m][i]] = <<name, m>>
             /\ Home(pipes[m][i].client) = m[1]
  <2>1. pipes[m] \in Seq(Task)
    OBVIOUS
  <2>2. QED
    BY <2>1 DEF OnPipe, OwnTasks
<1>5. ASSUME NEW m \in Pairs, NEW i \in 1..Len(q[m])
      PROVE  new[q[m][i]] = <<name, m>> /\ Home(q[m][i].client) = m[1]
  <2>1. CASE m # l
    <3>1. q[m] = pipes[m] /\ <<name, m>> # <<name, l>>
      BY <1>1, <2>1
    <3>2. PICK u \in Task : u = pipes[m][i]
      BY <1>4, <1>5, <3>1
    <3>3. at[u] = <<name, m>> /\ Home(u.client) = m[1]
      BY <1>4, <1>5, <3>1, <3>2
    <3>4. u # t
      BY <1>3, <3>1, <3>3
    <3>5. QED
      BY <1>2, <3>1, <3>2, <3>3, <3>4
  <2>2. CASE m = l
    <3>1. i + 1 \in 1..Len(pipes[l]) /\ q[l][i] = pipes[l][i + 1]
      BY <1>1, <1>5, <2>2
    <3>2. q[l][i] # t
      BY <1>1, <1>2, <1>5, <2>2 DEF AllOnce
    <3>3. q[l][i] \in Task /\ at[q[l][i]] = <<name, l>> /\ Home(q[l][i].client) = l[1]
      BY <1>4, <3>1
    <3>4. QED
      BY <1>2, <2>2, <3>2, <3>3
  <2>3. QED
    BY <2>1, <2>2
<1>6. AllOnce(q)
  BY <1>1 DEF AllOnce
<1>7. QED
  BY <1>1, <1>2, <1>3, <1>5, <1>6 DEF OnPipe, OwnTasks

(* Every pipe but those that a step uses.                                  *)
LEMMA OtherPipe ==
  ASSUME NEW pipes \in [Pairs -> Seq(Task)], NEW t \in Task,
         NEW at, NEW new, NEW name,
         \A u \in Task : u # t => new[u] = at[u],
         \A m : at[t] # <<name, m>>,
         OnPipe(at, name, pipes)
  PROVE  OnPipe(new, name, pipes)
<1>1. ASSUME NEW m \in Pairs, NEW i \in 1..Len(pipes[m])
      PROVE  new[pipes[m][i]] = <<name, m>>
  <2>1. pipes[m][i] \in Task /\ at[pipes[m][i]] = <<name, m>>
    BY DEF OnPipe
  <2>2. QED
    BY <2>1
<1>2. QED
  BY <1>1 DEF OnPipe

LEMMA PipesAre ==
  ASSUME ClusterInv, NEW at, Located(at)
  PROVE  /\ toCloud \in [Pairs -> Seq(Task)] /\ fromCloud \in [Pairs -> Seq(Task)]
         /\ OnPipe(at, "toCloud", toCloud) /\ OnPipe(at, "fromCloud", fromCloud)
         /\ OwnTasks(toCloud) /\ OwnTasks(fromCloud)
         /\ AllOnce(toCloud) /\ AllOnce(fromCloud)
  BY DEF ClusterInv, TasksTypeOK, ClusterNetTypeOK, Located, AtCloud, OnPipe, OwnTasks,
     AllOnce, HopsInv, OnceInv

(* Envelopes carry the tasks of the peer they name.                        *)
OwnEnvelopes(to, from) ==
  /\ \A w \in Worker : \A i \in 1..Len(to[w]) : Home(to[w][i].task.client) = to[w][i].peer
  /\ \A w \in Worker : \A i \in 1..Len(from[w]) :
       from[w][i] # WORKER_READY => Home(from[w][i].task.client) = from[w][i].peer

LEMMA HopsAre == HopsInv <=> /\ OwnTasks(toCloud) /\ OwnTasks(fromCloud)
                             /\ OwnEnvelopes(toWorker, fromWorker)
  BY DEF HopsInv, OwnTasks, OwnEnvelopes

(***************************************************************************)
(* A reply is delivered, or dropped.                                       *)
(***************************************************************************)
LEMMA DeliveredKeeps ==
  ASSUME ClusterInv, Quiet, NEW b \in Broker, Up(b), NEW t \in Task, replies' = Delivered(b, t)
  PROVE  /\ replies' \subseteq Task /\ replies' \subseteq replies \cup {t}
         /\ RepliesInv'
<1>1. replies \subseteq Task /\ RepliesInv
  BY DEF ClusterInv, TasksTypeOK, ClusterNetTypeOK
<1>2. life' = life /\ \A d \in Broker : phase[d] # "down" => phase'[d] # "down"
  BY DEF Quiet, Steady
<1>3. ASSUME NEW u \in replies'
      PROVE  phase[Home(u.client)] # "down" /\ u.life = life[Home(u.client)] /\ u \in Task
  BY <1>1 DEF Delivered, RepliesInv, Up
<1>4. RepliesInv'
  BY <1>2, <1>3, Homes DEF RepliesInv, Up
<1>5. QED
  BY <1>1, <1>4 DEF Delivered

(* What makes the invariant, after a step that moves messages.             *)
LEMMA MovedKeeps ==
  ASSUME ClusterInv, Quiet,
         UNCHANGED started,
         available_workers' \in [Broker -> Seq(Worker)],
         WorkersInv', LivesInv', LinksInv', RepliesInv',
         requests' \subseteq Task, replies' \subseteq Task,
         toCloud' \in [Pairs -> Seq(Task)], fromCloud' \in [Pairs -> Seq(Task)],
         toWorker' \in [Worker -> Seq(Envelope)],
         fromWorker' \in [Worker -> Seq(Envelope \cup {WORKER_READY})],
         \A w \in Worker : Len(toWorker'[w]) + Len(fromWorker'[w]) <= 1,
         OwnTasks(toCloud'), OwnTasks(fromCloud'), OwnEnvelopes(toWorker', fromWorker'),
         AllOnce(toCloud'), AllOnce(fromCloud'),
         NEW new \in [Task -> Place], Known(new)',
         AtFrontend(new, requests', replies'),
         OnPipe(new, "toCloud", toCloud'), OnPipe(new, "fromCloud", fromCloud'),
         AtWorkers(new, toWorker', fromWorker')
  PROVE  ClusterInv'
<1>1. /\ TasksTypeOK /\ UNCHANGED <<life, stops, linked, known, cphase, task_seq>>
      /\ phase' \in [Broker -> FlowPhase]
  BY DEF ClusterInv, Quiet, Steady
<1>2. TasksTypeOK'
  BY <1>1 DEF TasksTypeOK, ClusterNetTypeOK, ClusterTasksTypeOK, ClusterBrokerTypeOK
<1>3. HopsInv'
  BY DEF HopsInv, OwnTasks, OwnEnvelopes
<1>4. OnceInv'
  BY DEF OnceInv, AllOnce
<1>5. Located(new)'
  BY DEF Located, OnPipe, AtCloud
<1>6. QED
  BY <1>2, <1>3, <1>4, <1>5 DEF ClusterInv, TasksInv

(***************************************************************************)
(* A reply, from a worker or a peer.                                       *)
(***************************************************************************)
LEMMA TakeFromWorkerKeeps ==
  ASSUME ClusterInv, NEW b \in Broker, NEW w, TakeFromWorker(b, w)
  PROVE  ClusterInv'
<1>1. TasksTypeOK /\ WorkersInv /\ HopsInv /\ ClusterNetTypeOK
  BY DEF ClusterInv, TasksTypeOK
<1>2. PICK msg : msg = Head(fromWorker[w])
  OBVIOUS
<1>3. /\ Running(b) /\ Up(b) /\ w \in FromWorkers(b)
      /\ fromWorker' = [fromWorker EXCEPT ![w] = Tail(@)]
      /\ available_workers' = [available_workers EXCEPT ![b] = Append(@, w)]
      /\ UNCHANGED <<stops, cphase, task_seq, started, life, linked, known, requests, toCloud,
                     toWorker>>
  BY DEF TakeFromWorker, Running, taskVars
<1>4. /\ fromCloud' = IF msg # WORKER_READY /\ msg.peer \in Peers(b)
                      THEN CloudReplied(<<msg.peer, b>>, msg.task) ELSE fromCloud
      /\ replies' = IF msg # WORKER_READY /\ msg.peer \notin Peers(b)
                    THEN Delivered(b, msg.task) ELSE replies
  BY <1>2 DEF TakeFromWorker
<1>5. Quiet
  BY <1>1, <1>3, RunningSteady DEF Quiet, TasksTypeOK
<1>6. /\ WorkersInv'
      /\ available_workers' \in [Broker -> Seq(Worker)]
      /\ fromWorker' \in [Worker -> Seq(Envelope \cup {WORKER_READY})]
      /\ \A v \in Worker : Len(toWorker'[v]) + Len(fromWorker'[v]) <= 1
      /\ w \in Worker /\ fromWorker'[w] = <<>>
      /\ \A v \in Worker : v # w => fromWorker'[v] = fromWorker[v]
  BY <1>1, <1>3, FreedWorker
<1>7. /\ msg \in Envelope \cup {WORKER_READY} /\ msg = fromWorker[w][1]
      /\ 1 \in 1..Len(fromWorker[w])
  <2>1. fromWorker[w] # <<>>
    BY <1>3 DEF FromWorkers
  <2>2. QED
    BY <1>1, <1>2, <1>6, <2>1, OneAtWorker
<1>8. \A i : i \notin 1..Len(<<>>)
  OBVIOUS
<1>9. OwnEnvelopes(toWorker', fromWorker')
  <2>1. ASSUME NEW v \in Worker, NEW i \in 1..Len(fromWorker'[v])
        PROVE  fromWorker'[v] = fromWorker[v]
    BY <1>6, <1>8, <2>1
  <2>2. QED
    BY <1>1, <1>3, <2>1 DEF HopsInv, OwnEnvelopes
<1>10. PICK at \in [Task -> Place] : Located(at) /\ Known(at)
  BY DEF ClusterInv, TasksInv
<1>11. /\ toCloud \in [Pairs -> Seq(Task)] /\ fromCloud \in [Pairs -> Seq(Task)]
       /\ OnPipe(at, "toCloud", toCloud) /\ OnPipe(at, "fromCloud", fromCloud)
       /\ OwnTasks(toCloud) /\ OwnTasks(fromCloud)
       /\ AllOnce(toCloud) /\ AllOnce(fromCloud)
  BY <1>10, PipesAre
<1>12. requests' \subseteq Task /\ toWorker' \in [Worker -> Seq(Envelope)]
  BY <1>1, <1>3 DEF ClusterNetTypeOK
<1>13. CASE msg = WORKER_READY
  <2>1. fromCloud' = fromCloud /\ replies' = replies /\ replies' \subseteq Task
    BY <1>1, <1>4, <1>13 DEF ClusterNetTypeOK
  <2>2. RepliesInv' /\ LivesInv' /\ LinksInv' /\ Known(at)'
    <3>1. Steady /\ UNCHANGED <<life, stops, linked, known, cphase, task_seq>>
      BY <1>5 DEF Quiet
    <3>2. LivesInv' /\ LinksInv'
      BY <3>1 DEF ClusterInv, LivesInv, LinksInv, Steady, Up
    <3>3. RepliesInv'
      BY <2>1, <3>1, Homes DEF ClusterInv, RepliesInv, Steady, Up
    <3>4. Known(at)'
      BY <1>10, <3>1, Homes DEF Known, Up, Steady
    <3>5. QED
      BY <3>2, <3>3, <3>4
  <2>3. AtFrontend(at, requests', replies')
    BY <1>3, <1>10, <2>1 DEF Located
  <2>4. AtWorkers(at, toWorker', fromWorker')
    <3>1. ASSUME NEW v \in Worker, NEW i \in 1..Len(fromWorker'[v])
          PROVE  fromWorker'[v] = fromWorker[v]
      BY <1>6, <1>8, <3>1
    <3>2. ASSUME NEW v \in Worker, NEW i \in 1..Len(fromWorker'[v]),
                 fromWorker'[v][i] # WORKER_READY
          PROVE  at[fromWorker'[v][i].task] = <<"fromWorker", v>>
      BY <1>10, <3>1, <3>2 DEF Located, AtWorkers
    <3>3. QED
      BY <1>3, <1>10, <3>2 DEF Located, AtWorkers
  <2>5. QED
    BY <1>3, <1>5, <1>6, <1>9, <1>10, <1>11, <1>12, <2>1, <2>2, <2>3, <2>4, MovedKeeps
<1>14. CASE msg # WORKER_READY
  <2>1. msg \in Envelope
    BY <1>7, <1>14
  <2>2. PICK t \in Task : t = msg.task
    BY <2>1 DEF Envelope
  <2>3. msg.peer \in Broker /\ Home(t.client) = msg.peer
    BY <1>1, <1>6, <1>7, <1>14, <2>1, <2>2 DEF HopsInv, Envelope
  <2>4. at[t] = <<"fromWorker", w>>
    BY <1>6, <1>7, <1>10, <1>14, <2>2 DEF Located, AtWorkers
  <2>5. \A m : at[t] # <<"toCloud", m>> /\ at[t] # <<"fromCloud", m>>
    BY <2>4, PlacesApart
  <2>6. ASSUME NEW new, \A u \in Task : u # t => new[u] = at[u]
        PROVE  AtFrontend(new, requests, replies) /\ AtWorkers(new, toWorker', fromWorker')
    <3>1. AtFrontend(new, requests, replies)
      BY <1>1, <1>10, <2>4, <2>6, StayWhole, PlacesApart
    <3>2. StayToWorkers(at[t], new) /\ StayFromWorkers(at[t], new)
      BY <1>1, <1>10, <2>6, StayPut
    <3>3. ASSUME NEW v \in Worker, NEW i \in 1..Len(toWorker'[v])
          PROVE  new[toWorker'[v][i].task] = <<"toWorker", v>>
      BY <1>3, <2>4, <3>2, <3>3, PlacesApart DEF StayToWorkers
    <3>4. ASSUME NEW v \in Worker, NEW i \in 1..Len(fromWorker'[v]),
                 fromWorker'[v][i] # WORKER_READY
          PROVE  new[fromWorker'[v][i].task] = <<"fromWorker", v>>
      <4>1. v # w /\ fromWorker'[v] = fromWorker[v]
        BY <1>6, <1>8, <3>4
      <4>2. at[t] # <<"fromWorker", v>>
        BY <2>4, <4>1, PlacesApart
      <4>3. QED
        BY <3>2, <3>4, <4>1, <4>2 DEF StayFromWorkers
    <3>5. QED
      BY <3>1, <3>3, <3>4 DEF AtWorkers
  <2>7. CASE msg.peer \in Peers(b)
    <3>1. PICK l \in Pairs : l = <<msg.peer, b>> /\ l[1] = msg.peer
      BY <2>7, Homes
    <3>2. Joined(fromCloud, l, t, fromCloud') /\ replies' = replies
      BY <1>4, <1>14, <2>2, <2>7, <3>1 DEF CloudReplied, Joined
    <3>3. PICK new \in [Task -> Place] :
            /\ new[t] = <<"fromCloud", l>>
            /\ \A u \in Task : u # t => new[u] = at[u]
            /\ \A u \in Task : at[u] # at[t] => new[u] = at[u]
      <4>1. <<"fromCloud", l>> \in Place
        BY ArePlaces
      <4>2. \E new \in [Task -> Place] : MovesTo(new, at, t, <<"fromCloud", l>>)
        BY <1>10, <4>1, NewPlace
      <4>3. QED
        BY <4>2 DEF MovesTo
    <3>4. LivesInv' /\ LinksInv' /\ Known(new)'
      BY <1>5, <1>10, <2>4, <3>3, QuietKeeps, PlacesApart
    <3>5. /\ fromCloud' \in [Pairs -> Seq(Task)] /\ OnPipe(new, "fromCloud", fromCloud')
          /\ OwnTasks(fromCloud') /\ AllOnce(fromCloud')
      <4>1. Arrives(at, new, t, "fromCloud", l)
        BY <2>3, <2>5, <3>1, <3>3 DEF Arrives
      <4>2. QED
        BY <1>11, <3>2, <4>1, JoinedPipe
    <3>6. OnPipe(new, "toCloud", toCloud')
      <4>1. \A m : at[t] # <<"toCloud", m>>
        BY <2>5
      <4>2. QED
        BY <1>3, <1>11, <3>3, <4>1, OtherPipe
    <3>7. RepliesInv' /\ replies' \subseteq Task
      BY <1>1, <1>5, <3>2, Homes
         DEF ClusterInv, RepliesInv, Quiet, Steady, Up, ClusterNetTypeOK
    <3>8. AtFrontend(new, requests', replies') /\ AtWorkers(new, toWorker', fromWorker')
      BY <1>3, <2>6, <3>2, <3>3
    <3>9. QED
      BY <1>3, <1>5, <1>6, <1>9, <1>11, <1>12, <3>3, <3>4, <3>5, <3>6, <3>7, <3>8, MovedKeeps
  <2>8. CASE msg.peer \notin Peers(b)
    <3>1. replies' = Delivered(b, t) /\ fromCloud' = fromCloud
      BY <1>4, <1>14, <2>2, <2>8
    <3>2. /\ replies' \subseteq Task /\ replies' \subseteq replies \cup {t}
          /\ RepliesInv'
      BY <1>3, <1>5, <3>1, DeliveredKeeps
    <3>3. PICK new \in [Task -> Place] :
            /\ new[t] = <<"replies">>
            /\ \A u \in Task : u # t => new[u] = at[u]
            /\ \A u \in Task : at[u] # at[t] => new[u] = at[u]
      <4>1. <<"replies">> \in Place
        BY ArePlaces
      <4>2. \E new \in [Task -> Place] : MovesTo(new, at, t, <<"replies">>)
        BY <1>10, <4>1, NewPlace
      <4>3. QED
        BY <4>2 DEF MovesTo
    <3>4. LivesInv' /\ LinksInv' /\ Known(new)'
      BY <1>5, <1>10, <2>4, <3>3, QuietKeeps, PlacesApart
    <3>5. OnPipe(new, "toCloud", toCloud') /\ OnPipe(new, "fromCloud", fromCloud')
      <4>1. (\A m : at[t] # <<"toCloud", m>>) /\ (\A m : at[t] # <<"fromCloud", m>>)
        BY <2>5
      <4>2. QED
        BY <1>3, <1>11, <3>1, <3>3, <4>1, OtherPipe
    <3>6. AtFrontend(new, requests', replies') /\ AtWorkers(new, toWorker', fromWorker')
      BY <1>3, <2>6, <3>2, <3>3 DEF AtFrontend
    <3>7. QED
      BY <1>3, <1>5, <1>6, <1>9, <1>11, <1>12, <3>1, <3>2, <3>3, <3>4, <3>5, <3>6, MovedKeeps
  <2>9. QED
    BY <2>7, <2>8
<1>15. QED
  BY <1>13, <1>14

LEMMA TakeFromCloudKeeps ==
  ASSUME ClusterInv, NEW b \in Broker, NEW p, TakeFromCloud(b, p)
  PROVE  ClusterInv'
<1>1. TasksTypeOK /\ WorkersInv /\ HopsInv /\ ClusterNetTypeOK
  BY DEF ClusterInv, TasksTypeOK
<1>2. PICK t : t = Head(fromCloud[<<b, p>>])
  OBVIOUS
<1>3. PICK l \in Pairs : l = <<b, p>> /\ fromCloud[l] # <<>>
  BY Homes DEF TakeFromCloud, FromClouds
<1>4. /\ Running(b) /\ Up(b)
      /\ Left(fromCloud, l, fromCloud')
      /\ replies' = Delivered(b, t)
      /\ UNCHANGED <<available_workers, stops, cphase, task_seq, started, life, linked, known,
                     requests, toCloud, toWorker, fromWorker>>
  BY <1>2, <1>3 DEF TakeFromCloud, Running, taskVars, Left
<1>5. Quiet
  BY <1>1, <1>4, RunningSteady DEF Quiet, TasksTypeOK
<1>6. PICK at \in [Task -> Place] : Located(at) /\ Known(at)
  BY DEF ClusterInv, TasksInv
<1>7. /\ toCloud \in [Pairs -> Seq(Task)] /\ fromCloud \in [Pairs -> Seq(Task)]
      /\ OnPipe(at, "toCloud", toCloud) /\ OnPipe(at, "fromCloud", fromCloud)
      /\ OwnTasks(toCloud) /\ OwnTasks(fromCloud)
      /\ AllOnce(toCloud) /\ AllOnce(fromCloud)
  BY <1>6, PipesAre
<1>8. t \in Task /\ at[t] = <<"fromCloud", l>>
  BY <1>2, <1>3, <1>7, OldestTask
<1>9. PICK new \in [Task -> Place] :
        /\ new[t] = <<"replies">>
        /\ \A u \in Task : u # t => new[u] = at[u]
        /\ \A u \in Task : at[u] # at[t] => new[u] = at[u]
  <2>1. <<"replies">> \in Place
    BY ArePlaces
  <2>2. \E new \in [Task -> Place] : MovesTo(new, at, t, <<"replies">>)
    BY <1>6, <1>8, <2>1, NewPlace
  <2>3. QED
    BY <2>2 DEF MovesTo
<1>10. /\ fromCloud' \in [Pairs -> Seq(Task)] /\ OnPipe(new, "fromCloud", fromCloud')
       /\ OwnTasks(fromCloud') /\ AllOnce(fromCloud')
  <2>1. Elsewhere(at, new, t) /\ t = Head(fromCloud[l])
    BY <1>2, <1>3, <1>9 DEF Elsewhere
  <2>2. QED
    BY <1>3, <1>4, <1>7, <2>1, LeftPipe
<1>11. OnPipe(new, "toCloud", toCloud')
  <2>1. \A m : at[t] # <<"toCloud", m>>
    BY <1>8, PlacesApart
  <2>2. QED
    BY <1>4, <1>7, <1>8, <1>9, <2>1, OtherPipe
<1>12. /\ replies' \subseteq Task /\ replies' \subseteq replies \cup {t}
       /\ RepliesInv'
  BY <1>4, <1>5, <1>8, DeliveredKeeps
<1>13. LivesInv' /\ LinksInv' /\ Known(new)'
  BY <1>5, <1>6, <1>8, <1>9, QuietKeeps, PlacesApart
<1>14. AtFrontend(new, requests, replies) /\ AtWorkers(new, toWorker, fromWorker)
  BY <1>1, <1>6, <1>8, <1>9, StayWhole, PlacesApart
<1>15. AtFrontend(new, requests', replies')
  BY <1>4, <1>9, <1>12, <1>14 DEF AtFrontend
<1>16. AtWorkers(new, toWorker', fromWorker')
  BY <1>4, <1>14
<1>17. WorkersInv'
  BY <1>1, <1>4 DEF WorkersInv, Listed
<1>18. /\ available_workers' \in [Broker -> Seq(Worker)]
       /\ requests' \subseteq Task
       /\ toWorker' \in [Worker -> Seq(Envelope)]
       /\ fromWorker' \in [Worker -> Seq(Envelope \cup {WORKER_READY})]
       /\ \A w \in Worker : Len(toWorker'[w]) + Len(fromWorker'[w]) <= 1
  BY <1>1, <1>4 DEF TasksTypeOK, ClusterNetTypeOK, ClusterBrokerTypeOK
<1>19. OwnEnvelopes(toWorker', fromWorker')
  BY <1>1, <1>4 DEF HopsInv, OwnEnvelopes
<1>20. QED
  BY <1>4, <1>5, <1>7, <1>9, <1>10, <1>11, <1>12, <1>13, <1>15, <1>16, <1>17, <1>18, <1>19,
     MovedKeeps

(***************************************************************************)
(* A request, to a worker or to a peer.                                    *)
(***************************************************************************)

(* The worker that is given t carries it, and the others what they did.    *)
LEMMA GivenTask ==
  ASSUME ClusterInv, NEW b \in Broker, NEW peer \in Broker, NEW t \in Task,
         Give(b, peer, t), UNCHANGED <<started, fromWorker>>,
         Home(t.client) = peer, NEW at \in [Task -> Place], Located(at),
         \A w : at[t] # <<"toWorker", w>> /\ at[t] # <<"fromWorker", w>>
  PROVE  /\ WorkersInv' /\ OwnEnvelopes(toWorker', fromWorker')
         /\ \E new \in [Task -> Place] :
              /\ AtWorkers(new, toWorker', fromWorker')
              /\ \A u \in Task : u # t => new[u] = at[u]
         /\ available_workers' \in [Broker -> Seq(Worker)]
         /\ toWorker' \in [Worker -> Seq(Envelope)]
         /\ fromWorker' \in [Worker -> Seq(Envelope \cup {WORKER_READY})]
         /\ \A v \in Worker : Len(toWorker'[v]) + Len(fromWorker'[v]) <= 1
<1>1. TasksTypeOK /\ WorkersInv /\ HopsInv /\ ClusterNetTypeOK
  BY DEF ClusterInv, TasksTypeOK
<1>2. /\ WorkersInv'
      /\ available_workers' \in [Broker -> Seq(Worker)]
      /\ toWorker' \in [Worker -> Seq(Envelope)]
      /\ \A v \in Worker : Len(toWorker'[v]) + Len(fromWorker'[v]) <= 1
      /\ \E w \in Worker :
           /\ \A i \in 1..Len(toWorker'[w]) : toWorker'[w][i] = [peer |-> peer, task |-> t]
           /\ toWorker'[w] # <<>>
           /\ \A v \in Worker : v # w => toWorker'[v] = toWorker[v]
  BY <1>1, GivenWorker
<1>3. PICK w \in Worker :
        /\ \A i \in 1..Len(toWorker'[w]) : toWorker'[w][i] = [peer |-> peer, task |-> t]
        /\ \A v \in Worker : v # w => toWorker'[v] = toWorker[v]
  BY <1>2
<1>4. PICK new \in [Task -> Place] :
        /\ new[t] = <<"toWorker", w>>
        /\ \A u \in Task : u # t => new[u] = at[u]
        /\ \A u \in Task : at[u] # at[t] => new[u] = at[u]
  <2>1. <<"toWorker", w>> \in Place
    BY ArePlaces
  <2>2. \E new \in [Task -> Place] : MovesTo(new, at, t, <<"toWorker", w>>)
    BY <2>1, NewPlace
  <2>3. QED
    BY <2>2 DEF MovesTo
<1>5. AtWorkers(new, toWorker, fromWorker)
  BY <1>1, <1>4, StayWhole
<1>6. ASSUME NEW v \in Worker, NEW i \in 1..Len(toWorker'[v])
      PROVE  /\ new[toWorker'[v][i].task] = <<"toWorker", v>>
             /\ Home(toWorker'[v][i].task.client) = toWorker'[v][i].peer
  <2>1. CASE v = w
    <3>1. toWorker'[v][i] = [peer |-> peer, task |-> t]
      BY <1>3, <1>6, <2>1
    <3>2. toWorker'[v][i].task = t /\ toWorker'[v][i].peer = peer
      BY <3>1
    <3>3. QED
      BY <1>4, <2>1, <3>2
  <2>2. CASE v # w
    <3>1. toWorker'[v] = toWorker[v] /\ i \in 1..Len(toWorker[v])
      BY <1>3, <1>6, <2>2
    <3>2. new[toWorker[v][i].task] = <<"toWorker", v>>
      BY <1>5, <3>1 DEF AtWorkers
    <3>3. Home(toWorker[v][i].task.client) = toWorker[v][i].peer
      BY <1>1, <3>1 DEF HopsInv
    <3>4. QED
      BY <3>1, <3>2, <3>3
  <2>3. QED
    BY <2>1, <2>2
<1>7. AtWorkers(new, toWorker', fromWorker')
  BY <1>5, <1>6 DEF AtWorkers
<1>8. OwnEnvelopes(toWorker', fromWorker')
  BY <1>1, <1>6 DEF HopsInv, OwnEnvelopes
<1>9. fromWorker' \in [Worker -> Seq(Envelope \cup {WORKER_READY})]
  BY <1>1 DEF ClusterNetTypeOK
<1>10. QED
  BY <1>2, <1>4, <1>7, <1>8, <1>9

LEMMA GiveLocalKeeps ==
  ASSUME ClusterInv, NEW b \in Broker, NEW t, GiveLocal(b, t)
  PROVE  ClusterInv'
<1>1. TasksTypeOK /\ ClusterNetTypeOK
  BY DEF ClusterInv, TasksTypeOK
<1>2. /\ Running(b) /\ Up(b) /\ t \in requests /\ Home(t.client) = b
      /\ requests' = requests \ {t}
      /\ Give(b, b, t)
      /\ UNCHANGED <<stops, cphase, task_seq, started, life, linked, known, toCloud, fromCloud,
                     replies, fromWorker>>
  BY DEF GiveLocal, Running, FromClients, taskVars, cloudVars
<1>3. t \in Task /\ requests' \subseteq Task /\ replies' \subseteq Task
  BY <1>1, <1>2 DEF ClusterNetTypeOK
<1>4. Quiet
  BY <1>1, <1>2, RunningSteady DEF Quiet, TasksTypeOK
<1>5. PICK at \in [Task -> Place] : Located(at) /\ Known(at)
  BY DEF ClusterInv, TasksInv
<1>6. at[t] = <<"requests">>
  BY <1>2, <1>5 DEF Located, AtFrontend
<1>7. \A w : at[t] # <<"toWorker", w>> /\ at[t] # <<"fromWorker", w>>
  BY <1>6, PlacesApart
<1>8. /\ WorkersInv' /\ OwnEnvelopes(toWorker', fromWorker')
      /\ \E new \in [Task -> Place] :
           /\ AtWorkers(new, toWorker', fromWorker')
           /\ \A u \in Task : u # t => new[u] = at[u]
      /\ available_workers' \in [Broker -> Seq(Worker)]
      /\ toWorker' \in [Worker -> Seq(Envelope)]
      /\ fromWorker' \in [Worker -> Seq(Envelope \cup {WORKER_READY})]
      /\ \A v \in Worker : Len(toWorker'[v]) + Len(fromWorker'[v]) <= 1
  BY <1>2, <1>3, <1>5, <1>7, GivenTask
<1>9. PICK new \in [Task -> Place] :
        /\ AtWorkers(new, toWorker', fromWorker')
        /\ \A u \in Task : u # t => new[u] = at[u]
  BY <1>8
<1>10. LivesInv' /\ LinksInv' /\ Known(new)'
  BY <1>3, <1>4, <1>5, <1>6, <1>9, QuietKeeps, PlacesApart
<1>11. /\ toCloud \in [Pairs -> Seq(Task)] /\ fromCloud \in [Pairs -> Seq(Task)]
       /\ OnPipe(at, "toCloud", toCloud) /\ OnPipe(at, "fromCloud", fromCloud)
       /\ OwnTasks(toCloud) /\ OwnTasks(fromCloud)
       /\ AllOnce(toCloud) /\ AllOnce(fromCloud)
  BY <1>5, PipesAre
<1>12. OnPipe(new, "toCloud", toCloud') /\ OnPipe(new, "fromCloud", fromCloud')
  <2>1. (\A m : at[t] # <<"toCloud", m>>) /\ (\A m : at[t] # <<"fromCloud", m>>)
    BY <1>6, PlacesApart
  <2>2. QED
    BY <1>2, <1>3, <1>9, <1>11, <2>1, OtherPipe
<1>13. AtFrontend(new, requests', replies')
  <2>1. StayAtFrontend(at[t], t, new)
    BY <1>1, <1>3, <1>5, <1>9, StayPut
  <2>2. QED
    BY <1>2, <1>6, <2>1, PlacesApart DEF StayAtFrontend, AtFrontend
<1>14. RepliesInv'
  BY <1>2, <1>3, <1>4, Homes DEF ClusterInv, RepliesInv, Quiet, Steady, Up
<1>15. QED
  BY <1>2, <1>3, <1>4, <1>8, <1>9, <1>10, <1>11, <1>12, <1>13, <1>14, MovedKeeps

LEMMA GiveCloudKeeps ==
  ASSUME ClusterInv, NEW b \in Broker, NEW p, GiveCloud(b, p)
  PROVE  ClusterInv'
<1>1. TasksTypeOK /\ ClusterNetTypeOK
  BY DEF ClusterInv, TasksTypeOK
<1>2. PICK t : t = Head(toCloud[<<p, b>>])
  OBVIOUS
<1>3. p \in Broker
  BY DEF GiveCloud, FromPeers, Peers
<1>4. PICK l \in Pairs : l = <<p, b>> /\ l[1] = p /\ toCloud[l] # <<>>
  BY Homes DEF GiveCloud, FromPeers
<1>5. /\ Running(b) /\ Up(b)
      /\ Left(toCloud, l, toCloud')
      /\ Give(b, p, t)
      /\ UNCHANGED <<stops, cphase, task_seq, started, life, linked, known, fromCloud, requests,
                     replies, fromWorker>>
  BY <1>2, <1>4 DEF GiveCloud, Running, taskVars, Left
<1>6. Quiet
  BY <1>1, <1>5, RunningSteady DEF Quiet, TasksTypeOK
<1>7. PICK at \in [Task -> Place] : Located(at) /\ Known(at)
  BY DEF ClusterInv, TasksInv
<1>8. /\ toCloud \in [Pairs -> Seq(Task)] /\ fromCloud \in [Pairs -> Seq(Task)]
      /\ OnPipe(at, "toCloud", toCloud) /\ OnPipe(at, "fromCloud", fromCloud)
      /\ OwnTasks(toCloud) /\ OwnTasks(fromCloud)
      /\ AllOnce(toCloud) /\ AllOnce(fromCloud)
  BY <1>7, PipesAre
<1>9. t \in Task /\ at[t] = <<"toCloud", l>> /\ Home(t.client) = p
  BY ZenonT(30), <1>2, <1>4, <1>8, OldestTask
<1>10. \A w : at[t] # <<"toWorker", w>> /\ at[t] # <<"fromWorker", w>>
  BY <1>9, PlacesApart
<1>11. /\ WorkersInv' /\ OwnEnvelopes(toWorker', fromWorker')
       /\ \E new \in [Task -> Place] :
            /\ AtWorkers(new, toWorker', fromWorker')
            /\ \A u \in Task : u # t => new[u] = at[u]
       /\ available_workers' \in [Broker -> Seq(Worker)]
       /\ toWorker' \in [Worker -> Seq(Envelope)]
       /\ fromWorker' \in [Worker -> Seq(Envelope \cup {WORKER_READY})]
       /\ \A v \in Worker : Len(toWorker'[v]) + Len(fromWorker'[v]) <= 1
  BY <1>3, <1>5, <1>7, <1>9, <1>10, GivenTask
<1>12. PICK new \in [Task -> Place] :
         /\ AtWorkers(new, toWorker', fromWorker')
         /\ \A u \in Task : u # t => new[u] = at[u]
  BY <1>11
<1>13. LivesInv' /\ LinksInv' /\ Known(new)'
  BY <1>6, <1>7, <1>9, <1>12, QuietKeeps, PlacesApart
<1>14. /\ toCloud' \in [Pairs -> Seq(Task)] /\ OnPipe(new, "toCloud", toCloud')
       /\ OwnTasks(toCloud') /\ AllOnce(toCloud')
  <2>1. Elsewhere(at, new, t) /\ t = Head(toCloud[l])
    BY <1>2, <1>4, <1>12 DEF Elsewhere
  <2>2. QED
    BY <1>4, <1>5, <1>8, <2>1, LeftPipe
<1>15. OnPipe(new, "fromCloud", fromCloud')
  <2>1. \A m : at[t] # <<"fromCloud", m>>
    BY <1>9, PlacesApart
  <2>2. QED
    BY <1>5, <1>8, <1>9, <1>12, <2>1, OtherPipe
<1>16. AtFrontend(new, requests', replies')
  <2>1. AtFrontend(new, requests, replies)
    BY <1>1, <1>7, <1>9, <1>12, StayWhole, PlacesApart
  <2>2. QED
    BY <1>5, <2>1
<1>17. requests' \subseteq Task /\ replies' \subseteq Task
  BY <1>1, <1>5 DEF ClusterNetTypeOK
<1>18. RepliesInv'
  BY <1>5, <1>6, <1>17, Homes DEF ClusterInv, RepliesInv, Quiet, Steady, Up
<1>19. QED
  BY <1>5, <1>6, <1>8, <1>11, <1>12, <1>13, <1>14, <1>15, <1>16, <1>17, <1>18, MovedKeeps

LEMMA ForwardKeeps ==
  ASSUME ClusterInv, NEW b \in Broker, NEW p, NEW t, Forward(b, p, t)
  PROVE  ClusterInv'
<1>1. TasksTypeOK /\ WorkersInv /\ HopsInv /\ ClusterNetTypeOK
  BY DEF ClusterInv, TasksTypeOK
<1>2. PICK l \in Pairs : l = <<b, p>> /\ l[1] = b
  BY Homes DEF Forward
<1>3. /\ Running(b) /\ Up(b) /\ t \in requests /\ Home(t.client) = b
      /\ requests' = requests \ {t}
      /\ Joined(toCloud, l, t, toCloud')
      /\ UNCHANGED <<available_workers, stops, cphase, task_seq, started, life, linked, known,
                     fromCloud, replies, toWorker, fromWorker>>
  BY <1>2 DEF Forward, Running, FromClients, taskVars, SendToCloud, Joined
<1>4. t \in Task /\ requests' \subseteq Task /\ replies' \subseteq Task
  BY <1>1, <1>3 DEF ClusterNetTypeOK
<1>5. Quiet
  BY <1>1, <1>3, RunningSteady DEF Quiet, TasksTypeOK
<1>6. PICK at \in [Task -> Place] : Located(at) /\ Known(at)
  BY DEF ClusterInv, TasksInv
<1>7. at[t] = <<"requests">>
  BY <1>3, <1>6 DEF Located, AtFrontend
<1>8. PICK new \in [Task -> Place] :
        /\ new[t] = <<"toCloud", l>>
        /\ \A u \in Task : u # t => new[u] = at[u]
        /\ \A u \in Task : at[u] # at[t] => new[u] = at[u]
  <2>1. <<"toCloud", l>> \in Place
    BY ArePlaces
  <2>2. \E new \in [Task -> Place] : MovesTo(new, at, t, <<"toCloud", l>>)
    BY <1>4, <1>6, <2>1, NewPlace
  <2>3. QED
    BY <2>2 DEF MovesTo
<1>9. LivesInv' /\ LinksInv' /\ Known(new)'
  BY <1>4, <1>5, <1>6, <1>7, <1>8, QuietKeeps, PlacesApart
<1>10. /\ toCloud \in [Pairs -> Seq(Task)] /\ fromCloud \in [Pairs -> Seq(Task)]
       /\ OnPipe(at, "toCloud", toCloud) /\ OnPipe(at, "fromCloud", fromCloud)
       /\ OwnTasks(toCloud) /\ OwnTasks(fromCloud)
       /\ AllOnce(toCloud) /\ AllOnce(fromCloud)
  BY <1>6, PipesAre
<1>11. (\A m : at[t] # <<"toCloud", m>>) /\ (\A m : at[t] # <<"fromCloud", m>>)
  BY <1>7, PlacesApart
<1>12. /\ toCloud' \in [Pairs -> Seq(Task)] /\ OnPipe(new, "toCloud", toCloud')
       /\ OwnTasks(toCloud') /\ AllOnce(toCloud')
  <2>1. Arrives(at, new, t, "toCloud", l)
    BY <1>2, <1>3, <1>8, <1>11 DEF Arrives
  <2>2. QED
    BY <1>3, <1>4, <1>10, <2>1, JoinedPipe
<1>13. OnPipe(new, "fromCloud", fromCloud')
  BY <1>3, <1>4, <1>8, <1>10, <1>11, OtherPipe
<1>14. AtFrontend(new, requests', replies')
  <2>1. StayAtFrontend(at[t], t, new)
    BY <1>1, <1>4, <1>6, <1>8, StayPut
  <2>2. QED
    BY <1>3, <1>7, <2>1, PlacesApart DEF StayAtFrontend, AtFrontend
<1>15. AtWorkers(new, toWorker', fromWorker')
  <2>1. AtWorkers(new, toWorker, fromWorker)
    BY <1>1, <1>4, <1>6, <1>7, <1>8, StayWhole, PlacesApart
  <2>2. QED
    BY <1>3, <2>1
<1>16. RepliesInv'
  BY <1>3, <1>4, <1>5, Homes DEF ClusterInv, RepliesInv, Quiet, Steady, Up
<1>17. WorkersInv'
  BY <1>1, <1>3 DEF WorkersInv, Listed
<1>18. /\ available_workers' \in [Broker -> Seq(Worker)]
       /\ toWorker' \in [Worker -> Seq(Envelope)]
       /\ fromWorker' \in [Worker -> Seq(Envelope \cup {WORKER_READY})]
       /\ \A w \in Worker : Len(toWorker'[w]) + Len(fromWorker'[w]) <= 1
  BY <1>1, <1>3 DEF TasksTypeOK, ClusterNetTypeOK, ClusterBrokerTypeOK
<1>19. OwnEnvelopes(toWorker', fromWorker')
  BY <1>1, <1>3 DEF HopsInv, OwnEnvelopes
<1>20. QED
  BY <1>3, <1>4, <1>5, <1>8, <1>9, <1>10, <1>12, <1>13, <1>14, <1>15, <1>16, <1>17, <1>18,
     <1>19, MovedKeeps

(***************************************************************************)
(* The first state, and every step.                                        *)
(***************************************************************************)
LEMMA ClusterStarts ==
  ASSUME ClusterNetInit, ClusterTasksInit, ClusterBrokerInit
  PROVE  ClusterInv
<1>1. <<>> \in Seq(Task) /\ <<>> \in Seq(Envelope) /\ <<>> \in Seq(Envelope \cup {WORKER_READY})
      /\ <<>> \in Seq(Worker)
  BY EmptySeq
<1>2. Len(<<>>) = 0 /\ 0 + 0 <= 1
  OBVIOUS
<1>3. \A i : i \notin 1..Len(<<>>)
  OBVIOUS
<1>4. ClusterNetTypeOK
  BY <1>1, <1>2, Homes DEF ClusterNetInit, ClusterNetTypeOK
<1>5. ClusterTasksTypeOK /\ ClusterBrokerTypeOK /\ phase \in [Broker -> FlowPhase]
  BY <1>1, Homes DEF ClusterTasksInit, ClusterTasksTypeOK, ClusterBrokerInit,
     ClusterBrokerTypeOK, ClientPhase, FlowPhase
<1>6. WorkersInv
  BY <1>3, Homes DEF WorkersInv, ClusterNetInit, ClusterTasksInit, ClusterBrokerInit
<1>7. LivesInv /\ LinksInv /\ RepliesInv
  BY DEF LivesInv, LinksInv, RepliesInv, Up, ClusterNetInit, ClusterBrokerInit
<1>8. HopsInv
  BY <1>3 DEF HopsInv, ClusterNetInit
<1>9. OnceInv
  BY <1>3 DEF OnceInv, NoneTwice, ClusterNetInit
<1>10. PICK at : at = [t \in Task |-> Nowhere]
  OBVIOUS
<1>11. at \in [Task -> Place] /\ Known(at)
  BY <1>10, ArePlaces DEF Known
<1>12. Located(at)
  BY <1>3 DEF Located, AtFrontend, AtCloud, AtWorkers, ClusterNetInit
<1>13. QED
  BY <1>4, <1>5, <1>6, <1>7, <1>8, <1>9, <1>11, <1>12 DEF ClusterInv, TasksTypeOK, TasksInv

CommonStep ==
  \/ \E b \in Broker : Rise(b) \/ Fall(b) \/ Pass(b)
  \/ \E l \in Pairs : Connect(l)
  \/ \E b \in Broker : \E w : TakeFromWorker(b, w)
  \/ \E b \in Broker : \E p : TakeFromCloud(b, p) \/ GiveCloud(b, p)
  \/ \E b \in Broker : \E t : GiveLocal(b, t)
  \/ \E b \in Broker : \E p, t : Forward(b, p, t)
  \/ \E c \in Client : ClientStep(c)
  \/ \E w \in Worker : WorkerStep(w)

LEMMA CommonKeeps ==
  ASSUME ClusterInv, CommonStep
  PROVE  ClusterInv'
<1>1. ASSUME NEW b \in Broker, Rise(b) PROVE ClusterInv'
  BY <1>1, RiseKeeps
<1>2. ASSUME NEW b \in Broker, Fall(b) PROVE ClusterInv'
  BY <1>2, FallKeeps
<1>3. ASSUME NEW b \in Broker, Pass(b) PROVE ClusterInv'
  BY <1>3, PassKeeps
<1>4. ASSUME NEW l \in Pairs, Connect(l) PROVE ClusterInv'
  BY <1>4, ConnectKeeps
<1>5. ASSUME NEW b \in Broker, NEW w, TakeFromWorker(b, w) PROVE ClusterInv'
  BY <1>5, TakeFromWorkerKeeps
<1>6. ASSUME NEW b \in Broker, NEW p, TakeFromCloud(b, p) PROVE ClusterInv'
  BY <1>6, TakeFromCloudKeeps
<1>7. ASSUME NEW b \in Broker, NEW p, GiveCloud(b, p) PROVE ClusterInv'
  BY <1>7, GiveCloudKeeps
<1>8. ASSUME NEW b \in Broker, NEW t, GiveLocal(b, t) PROVE ClusterInv'
  BY <1>8, GiveLocalKeeps
<1>9. ASSUME NEW b \in Broker, NEW p, NEW t, Forward(b, p, t) PROVE ClusterInv'
  BY <1>9, ForwardKeeps
<1>10. ASSUME NEW c \in Client, ClientStep(c) PROVE ClusterInv'
  BY <1>10, AskKeeps, ReadKeeps, LostKeeps DEF ClientStep
<1>11. ASSUME NEW w \in Worker, WorkerStep(w) PROVE ClusterInv'
  BY <1>11, ReadySaidKeeps, WorkKeeps DEF WorkerStep
<1>12. QED
  BY <1>1, <1>2, <1>3, <1>4, <1>5, <1>6, <1>7, <1>8, <1>9, <1>10, <1>11 DEF CommonStep

LEMMA StutterKeeps ==
  ASSUME ClusterInv, UNCHANGED <<processVars, taskVars, life, netVars>>
  PROVE  ClusterInv'
<1>1. UNCHANGED <<phase, available_workers, stops, cphase, task_seq, started, life, linked,
                  known, toCloud, fromCloud, requests, replies, toWorker, fromWorker>>
  BY DEF processVars, taskVars, netVars, cloudVars, localVars
<1>2. TasksTypeOK' /\ WorkersInv'
  BY <1>1 DEF ClusterInv, TasksTypeOK, ClusterNetTypeOK, ClusterTasksTypeOK,
     ClusterBrokerTypeOK, WorkersInv, Listed
<1>3. LivesInv' /\ LinksInv' /\ HopsInv' /\ OnceInv' /\ RepliesInv'
  BY <1>1 DEF ClusterInv, LivesInv, LinksInv, HopsInv, OnceInv, RepliesInv, Up
<1>4. TasksInv'
  BY <1>1 DEF ClusterInv, TasksInv, Located, Known, Up
<1>5. QED
  BY <1>2, <1>3, <1>4 DEF ClusterInv

(***************************************************************************)
(* The steps of prototype.cpp.                                             *)
(***************************************************************************)
LEMMA PrototypeStarts == Init => ClusterInv
  BY ClusterStarts DEF Init, PrototypeInit

LEMMA PrototypeReplies ==
  ASSUME NEW b \in Broker, phase \in [Broker -> FlowPhase],
         PReplyLocal(b) \/ PReplyCloud(b) \/ PNoReply(b)
  PROVE  CommonStep
<1>1. Running(b)
  BY DEF PReplyLocal, PReplyCloud, PNoReply, Turn, Running, Up, FlowPhase
<1>2. ASSUME PReplyLocal(b) PROVE \E w : TakeFromWorker(b, w)
  <2>1. PICK w \in FromWorkers(b) :
          LET msg == Head(fromWorker[w])
          IN  /\ fromWorker' = [fromWorker EXCEPT ![w] = Tail(@)]
              /\ available_workers' = [available_workers EXCEPT ![b] = Append(@, w)]
              /\ fromCloud' = IF msg # WORKER_READY /\ msg.peer \in Peers(b)
                              THEN CloudReplied(<<msg.peer, b>>, msg.task) ELSE fromCloud
              /\ replies' = IF msg # WORKER_READY /\ msg.peer \notin Peers(b)
                            THEN Delivered(b, msg.task) ELSE replies
    BY <1>2 DEF PReplyLocal, ForPeer
  <2>2. UNCHANGED <<stops, taskVars, life, linked, known, requests, toCloud, toWorker>>
    BY <1>2 DEF PReplyLocal, Turn, taskVars
  <2>3. TakeFromWorker(b, w)
    BY <1>1, <2>1, <2>2 DEF TakeFromWorker
  <2>4. QED
    BY <2>3
<1>3. ASSUME PReplyCloud(b) PROVE \E p : TakeFromCloud(b, p)
  BY <1>1, <1>3 DEF PReplyCloud, Turn, TakeFromCloud, taskVars
<1>4. ASSUME PNoReply(b) PROVE Pass(b)
  BY <1>1, <1>4 DEF PNoReply, Turn, Pass, taskVars, netVars, cloudVars, localVars
<1>5. QED
  BY <1>2, <1>3, <1>4 DEF CommonStep

LEMMA PrototypeRequests ==
  ASSUME NEW b \in Broker, ClusterInv,
         PDispatchLocal(b) \/ PDispatchCloud(b) \/ PForward(b)
  PROVE  CommonStep
<1>1. phase \in [Broker -> FlowPhase] /\ available_workers \in [Broker -> Seq(Worker)]
  BY DEF ClusterInv, TasksTypeOK, ClusterBrokerTypeOK
<1>2. phase' = phase /\ phase[b] = "route"
  BY DEF PDispatchLocal, PDispatchCloud, PForward, brokerVars, processVars
<1>3. Running(b)
  BY <1>1, <1>2 DEF Running, Up, FlowPhase
<1>4. local_capacity(b) > 0 => available_workers[b] # <<>>
  <2>1. Len(<<>>) = 0
    OBVIOUS
  <2>2. QED
    BY <2>1 DEF local_capacity
<1>5. ASSUME PDispatchLocal(b) PROVE \E t : GiveLocal(b, t)
  BY <1>3, <1>4, <1>5 DEF PDispatchLocal, GiveLocal, Give, ToFreeWorker, Popped
<1>6. ASSUME PDispatchCloud(b) PROVE \E p : GiveCloud(b, p)
  BY <1>3, <1>4, <1>6 DEF PDispatchCloud, GiveCloud, Give, ToFreeWorker, Popped
<1>7. ASSUME PForward(b) PROVE \E p, t : Forward(b, p, t)
  BY <1>3, <1>7 DEF PForward, Forward, brokerVars, processVars
<1>8. QED
  BY <1>5, <1>6, <1>7 DEF CommonStep

LEMMA PrototypeStep ==
  ASSUME ClusterInv, Next
  PROVE  CommonStep
<1>1. phase \in [Broker -> FlowPhase]
  BY DEF ClusterInv, TasksTypeOK
<1>2. ASSUME NEW b \in Broker, PStart(b) PROVE Rise(b)
  BY <1>2 DEF PStart, Rise, FlowPhase
<1>3. ASSUME NEW b \in Broker, PSubscribe(b) PROVE Pass(b)
  BY <1>1, <1>3 DEF PSubscribe, Pass, Running, Up, FlowPhase
<1>4. ASSUME NEW b \in Broker, PStop(b) PROVE Fall(b)
  BY <1>4 DEF PStop, Fall
<1>5. ASSUME NEW b \in Broker, PEndTurn(b) PROVE Pass(b)
  BY <1>5 DEF PEndTurn, Pass, Running, Up, FlowPhase
<1>6. ASSUME NEW b \in Broker, PStep(b) PROVE CommonStep
  BY <1>1, <1>5, <1>6, PrototypeReplies, PrototypeRequests DEF PStep, CommonStep
<1>7. ASSUME NEW l \in Pairs, PConnect(l) PROVE Connect(l)
  BY <1>7 DEF PConnect, Connect, brokerVars
<1>8. ASSUME NEW c \in Client, ClientNext(c) PROVE ClientStep(c)
  BY <1>8 DEF ClientNext, ClientStep, brokerVars
<1>9. ASSUME NEW w \in Worker, WorkerNext(w) PROVE WorkerStep(w)
  BY <1>9 DEF WorkerNext, WorkerStep, brokerVars
<1>10. QED
  BY <1>2, <1>3, <1>4, <1>6, <1>7, <1>8, <1>9 DEF Next, BrokerNext, CommonStep

(* In a cluster of prototype.cpp, every worker is in one place, every task *)
(* is in one place and known to its client, and tasks on a connection      *)
(* belong to the side that connected.                                      *)
THEOREM PrototypeInvariant == Spec => []ClusterInv
<1>1. ClusterInv /\ [Next]_vars => ClusterInv'
  <2>1. ASSUME ClusterInv, Next PROVE ClusterInv'
    BY <2>1, PrototypeStep, CommonKeeps
  <2>2. ASSUME ClusterInv, UNCHANGED vars PROVE ClusterInv'
    BY <2>2, StutterKeeps DEF vars, brokerVars
  <2>3. QED
    BY <2>1, <2>2
<1>2. QED
  BY <1>1, PrototypeStarts, PTL DEF Spec

(***************************************************************************)
(* The steps of task_flow.cpp.                                             *)
(***************************************************************************)
CapacityInv == \A b \in Broker : capacity[b] = Len(available_workers[b])

FlowInv == ClusterInv /\ capacity \in [Broker -> Nat] /\ CapacityInv

LEMMA FlowStarts == FlowInit => FlowInv
<1>1. Len(<<>>) = 0
  OBVIOUS
<1>2. QED
  BY <1>1, ClusterStarts DEF FlowInit, FlowInv, CapacityInv, ClusterBrokerInit

LEMMA FlowStepIs ==
  ASSUME FlowInv, FlowNext
  PROVE  CommonStep
<1>1. /\ phase \in [Broker -> FlowPhase] /\ available_workers \in [Broker -> Seq(Worker)]
      /\ CapacityInv
  BY DEF FlowInv, ClusterInv, TasksTypeOK, ClusterBrokerTypeOK
<1>2. \A b \in Broker : capacity[b] > 0 => available_workers[b] # <<>>
  <2>1. Len(<<>>) = 0
    OBVIOUS
  <2>2. QED
    BY <1>1, <2>1 DEF CapacityInv
<1>3. ASSUME NEW b \in Broker, FStart(b) PROVE Rise(b)
  BY <1>3 DEF FStart, Rise, Up, FlowPhase
<1>4. ASSUME NEW b \in Broker, FGo(b) PROVE Pass(b)
  BY <1>4 DEF FGo, Pass, Running, Up, FlowPhase
<1>5. ASSUME NEW b \in Broker, FStop(b) PROVE Fall(b)
  BY <1>5 DEF FStop, Fall
<1>6. ASSUME NEW b \in Broker, FTurn(b) PROVE Running(b)
  BY <1>6 DEF FTurn, Running, Up, FlowPhase
<1>7. ASSUME NEW b \in Broker, FReplyLocal(b) PROVE \E w : TakeFromWorker(b, w)
  <2>1. PICK w \in FromWorkers(b) :
          LET msg == Head(fromWorker[w])
          IN  /\ fromWorker' = [fromWorker EXCEPT ![w] = Tail(@)]
              /\ available_workers' = [available_workers EXCEPT ![b] = Append(@, w)]
              /\ fromCloud' = IF msg # WORKER_READY /\ msg.peer \in Peers(b)
                              THEN CloudReplied(<<msg.peer, b>>, msg.task) ELSE fromCloud
              /\ replies' = IF msg # WORKER_READY /\ msg.peer \notin Peers(b)
                            THEN Delivered(b, msg.task) ELSE replies
    BY <1>7 DEF FReplyLocal, ToPeer
  <2>2. UNCHANGED <<stops, taskVars, life, linked, known, requests, toCloud, toWorker>>
    BY <1>7 DEF FReplyLocal, FTurn
  <2>3. FTurn(b)
    BY <1>7 DEF FReplyLocal
  <2>4. TakeFromWorker(b, w)
    BY <1>6, <2>1, <2>2, <2>3 DEF TakeFromWorker
  <2>5. QED
    BY <2>4
<1>8. ASSUME NEW b \in Broker, FReplyCloud(b) PROVE \E p : TakeFromCloud(b, p)
  BY <1>6, <1>8 DEF FReplyCloud, FTurn, TakeFromCloud
<1>9. ASSUME NEW b \in Broker, FNoReply(b) PROVE Pass(b)
  BY <1>6, <1>9 DEF FNoReply, FTurn, Pass, netVars, cloudVars, localVars
<1>10. ASSUME NEW b \in Broker, Routing(b), phase' = phase PROVE Running(b)
  BY <1>1, <1>10 DEF Routing, Running, Up, FlowPhase
<1>11. ASSUME NEW b \in Broker, FDispatchCloud(b) PROVE \E p : GiveCloud(b, p)
  BY <1>2, <1>10, <1>11 DEF FDispatchCloud, Routing, GiveCloud, Give, ToWorker
<1>12. ASSUME NEW b \in Broker, FDispatchLocal(b) PROVE \E t : GiveLocal(b, t)
  BY <1>2, <1>10, <1>12 DEF FDispatchLocal, Routing, GiveLocal, Give, ToWorker
<1>13. ASSUME NEW b \in Broker, FReroute(b) PROVE \E p, t : Forward(b, p, t)
  BY <1>10, <1>13 DEF FReroute, Forward, flowBrokerVars, processVars
<1>14. ASSUME NEW b \in Broker, FEndTurn(b) PROVE Pass(b)
  BY <1>14 DEF FEndTurn, Pass, Running, Up, FlowPhase
<1>15. ASSUME NEW b \in Broker, FStep(b) PROVE CommonStep
  BY <1>7, <1>8, <1>9, <1>11, <1>12, <1>13, <1>14, <1>15 DEF FStep, CommonStep
<1>16. ASSUME NEW l \in Pairs, FConnect(l) PROVE Connect(l)
  BY <1>16 DEF FConnect, Connect, flowBrokerVars
<1>17. ASSUME NEW c \in Client, FlowClient(c) PROVE ClientStep(c)
  BY <1>17 DEF FlowClient, ClientStep, flowBrokerVars, InLoop, Up
<1>18. ASSUME NEW w \in Worker, FlowWorker(w) PROVE WorkerStep(w)
  BY <1>18 DEF FlowWorker, WorkerStep, flowBrokerVars, InLoop, Up
<1>19. QED
  BY <1>3, <1>4, <1>5, <1>15, <1>16, <1>17, <1>18 DEF FlowNext, CommonStep

LEMMA CapacityKept ==
  ASSUME FlowInv, FlowNext
  PROVE  capacity' \in [Broker -> Nat] /\ CapacityInv'
<1>1. /\ available_workers \in [Broker -> Seq(Worker)] /\ capacity \in [Broker -> Nat]
      /\ \A b \in Broker : capacity[b] = Len(available_workers[b])
  BY DEF FlowInv, ClusterInv, TasksTypeOK, ClusterBrokerTypeOK, CapacityInv
<1>2. ASSUME UNCHANGED <<available_workers, capacity>>
      PROVE  capacity' \in [Broker -> Nat] /\ CapacityInv'
  BY <1>1, <1>2 DEF CapacityInv
<1>3. ASSUME NEW b \in Broker, FStop(b)
      PROVE  capacity' \in [Broker -> Nat] /\ CapacityInv'
  <2>1. Len(<<>>) = 0
    OBVIOUS
  <2>2. QED
    BY <1>1, <1>3, <2>1 DEF FStop, CapacityInv
<1>4. ASSUME NEW b \in Broker, FReplyLocal(b)
      PROVE  capacity' \in [Broker -> Nat] /\ CapacityInv'
  <2>1. PICK w \in FromWorkers(b) :
          /\ available_workers' = [available_workers EXCEPT ![b] = Append(@, w)]
          /\ capacity' = [capacity EXCEPT ![b] = @ + 1]
    BY <1>4 DEF FReplyLocal, Grows
  <2>2. w \in Worker
    BY DEF FromWorkers
  <2>3. PICK list \in Seq(Worker) : list = available_workers[b]
    BY <1>1
  <2>4. Len(Append(list, w)) = Len(list) + 1 /\ Len(list) \in Nat
    BY <2>2
  <2>5. QED
    BY <1>1, <2>1, <2>3, <2>4 DEF CapacityInv
<1>5. ASSUME NEW b \in Broker, Routing(b), NEW peer, NEW t, ToWorker(b, peer, t)
      PROVE  capacity' \in [Broker -> Nat] /\ CapacityInv'
  <2>1. PICK list \in Seq(Worker) : list = available_workers[b]
    BY <1>1
  <2>2. capacity[b] = Len(list) /\ Len(list) > 0 /\ Len(list) \in Nat
    BY <1>1, <1>5, <2>1 DEF Routing
  <2>3. Len(Tail(list)) = Len(list) - 1
    BY <2>2
  <2>4. QED
    BY <1>1, <1>5, <2>1, <2>2, <2>3 DEF ToWorker, CapacityInv
<1>6. ASSUME NEW b \in Broker, FStep(b)
      PROVE  capacity' \in [Broker -> Nat] /\ CapacityInv'
  <2>1. CASE FReplyLocal(b)
    BY <1>4, <2>1
  <2>2. CASE FReplyCloud(b) \/ FNoReply(b) \/ FEndTurn(b) \/ FReroute(b)
    BY <1>2, <2>2 DEF FReplyCloud, FNoReply, FEndTurn, FReroute, flowBrokerVars, processVars
  <2>3. CASE FDispatchCloud(b) \/ FDispatchLocal(b)
    BY <1>5, <2>3 DEF FDispatchCloud, FDispatchLocal
  <2>4. QED
    BY <1>6, <2>1, <2>2, <2>3 DEF FStep
<1>7. ASSUME NEW b \in Broker, FStart(b) \/ FGo(b)
      PROVE  capacity' \in [Broker -> Nat] /\ CapacityInv'
  BY <1>2, <1>7 DEF FStart, FGo
<1>8. ASSUME NEW l \in Pairs, FConnect(l)
      PROVE  capacity' \in [Broker -> Nat] /\ CapacityInv'
  BY <1>2, <1>8 DEF FConnect, flowBrokerVars, processVars
<1>9. ASSUME NEW c \in Client, FlowClient(c)
      PROVE  capacity' \in [Broker -> Nat] /\ CapacityInv'
  BY <1>2, <1>9 DEF FlowClient, flowBrokerVars, processVars
<1>10. ASSUME NEW w \in Worker, FlowWorker(w)
       PROVE  capacity' \in [Broker -> Nat] /\ CapacityInv'
  BY <1>2, <1>10 DEF FlowWorker, flowBrokerVars, processVars
<1>11. QED
  BY <1>3, <1>6, <1>7, <1>8, <1>9, <1>10 DEF FlowNext

(* The same invariant for a cluster of task_flow.cpp, where the counter    *)
(* moreover is the length of the list of workers (task_flow.cpp:154-155,   *)
(* 230-233).                                                               *)
THEOREM FlowInvariant == FlowSpec => []FlowInv
<1>1. FlowInv /\ [FlowNext]_flowVars => FlowInv'
  <2>1. ASSUME FlowInv, FlowNext PROVE FlowInv'
    BY <2>1, FlowStepIs, CommonKeeps, CapacityKept DEF FlowInv
  <2>2. ASSUME FlowInv, UNCHANGED flowVars PROVE FlowInv'
    <3>1. UNCHANGED <<processVars, taskVars, life, netVars>> /\ capacity' = capacity
            /\ available_workers' = available_workers
      BY <2>2 DEF flowVars, flowBrokerVars, processVars
    <3>2. QED
      BY <2>2, <3>1, StutterKeeps DEF FlowInv, CapacityInv
  <2>3. QED
    BY <2>1, <2>2
<1>2. QED
  BY <1>1, FlowStarts, PTL DEF FlowSpec

(***************************************************************************)
(* What the invariants say: types.                                         *)
(***************************************************************************)

(* In a cluster of task_flow.cpp, all variables have their types.          *)
THEOREM FlowTypeCorrect == FlowSpec => []FlowTypeOK
<1>1. FlowInv => FlowTypeOK
  BY DEF FlowInv, ClusterInv, TasksTypeOK, FlowTypeOK
<1>2. QED
  BY <1>1, FlowInvariant, PTL

(* A list has no worker twice, so it is no longer than there are workers.  *)
LEMMA ListFits ==
  ASSUME ClusterInv, NEW b \in Broker
  PROVE  Len(available_workers[b]) \in Capacity
<1>1. /\ available_workers[b] \in Seq(Worker) /\ WorkersInv
      /\ IsFiniteSet(WorkerThread)
  BY ClusterAssumption DEF ClusterInv, TasksTypeOK, ClusterBrokerTypeOK
<1>2. PICK n : n = Len(available_workers[b]) /\ n \in Nat
  BY <1>1
<1>3. PICK f : f = [i \in 1..n |-> available_workers[b][i][2]]
  OBVIOUS
<1>4. ASSUME NEW i \in 1..n
      PROVE  /\ f[i] \in WorkerThread
             /\ available_workers[b][i] = <<b, f[i]>>
  <2>1. available_workers[b][i] \in Worker /\ f[i] = available_workers[b][i][2]
    BY <1>1, <1>2, <1>3, <1>4
  <2>2. available_workers[b][i][1] = b
    BY <1>1, <1>2, <1>4 DEF WorkersInv, Home
  <2>3. QED
    BY <2>1, <2>2 DEF Worker
<1>5. f \in [1..n -> WorkerThread]
  BY <1>3, <1>4
<1>6. ASSUME NEW i \in 1..n, NEW j \in 1..n, f[i] = f[j]
      PROVE  i = j
  <2>1. available_workers[b][i] = available_workers[b][j]
    BY <1>4, <1>6
  <2>2. QED
    BY <1>1, <1>2, <1>6, <2>1 DEF WorkersInv
<1>7. f \in Injection(1..n, WorkerThread)
  BY <1>5, <1>6 DEF Injection, IsInjective
<1>8. Cardinality(1..n) <= Cardinality(WorkerThread)
  BY <1>1, <1>7, FS_Injection
<1>9. Cardinality(1..n) = n /\ Cardinality(WorkerThread) \in Nat
  <2>1. Cardinality(WorkerThread) \in Nat
    BY <1>1, FS_CardinalityType
  <2>2. n \in Int /\ 1 \in Int
    BY <1>2
  <2>3. \A i, j \in Int : Cardinality(i..j) = IF i > j THEN 0 ELSE j - i + 1
    BY FS_Interval
  <2>4. Cardinality(1..n) = IF 1 > n THEN 0 ELSE n - 1 + 1
    BY <2>2, <2>3
  <2>5. QED
    BY <1>2, <2>1, <2>4
<1>10. QED
  BY <1>2, <1>8, <1>9 DEF Capacity

(* What a broker of prototype.cpp has besides.                             *)
AnnouncesInv ==
  /\ phase \in [Broker -> Phase]
  /\ previous_capacity \in [Broker -> Capacity]
  /\ cloud_capacity \in [Broker -> Capacity]
  /\ subscribed \subseteq Broker \X Broker
  /\ status \in [Broker \X Broker -> Seq(Capacity)]

LEMMA AnnouncesKept ==
  ASSUME ClusterInv, AnnouncesInv, Next
  PROVE  AnnouncesInv'
<1>1. \A b \in Broker : Len(available_workers[b]) \in Capacity
  BY ListFits
<1>2. 0 \in Capacity
  BY ClusterAssumption, FS_CardinalityType DEF Capacity
<1>3. ASSUME NEW b \in Broker, PStart(b) PROVE AnnouncesInv'
  BY <1>3 DEF AnnouncesInv, PStart, Phase
<1>4. ASSUME NEW b \in Broker, PSubscribe(b) PROVE AnnouncesInv'
  BY <1>4 DEF AnnouncesInv, PSubscribe, Sources, StateSource
<1>5. ASSUME NEW b \in Broker, PStop(b) PROVE AnnouncesInv'
  <2>1. <<>> \in Seq(Capacity)
    BY EmptySeq
  <2>2. status' \in [Broker \X Broker -> Seq(Capacity)]
    BY <1>5, <2>1 DEF AnnouncesInv, PStop
  <2>3. phase' \in [Broker -> Phase] /\ subscribed' \subseteq Broker \X Broker
    BY <1>5 DEF AnnouncesInv, PStop, Phase
  <2>4. /\ previous_capacity' \in [Broker -> Capacity]
        /\ cloud_capacity' \in [Broker -> Capacity]
    BY <1>2, <1>5 DEF AnnouncesInv, PStop
  <2>5. QED
    BY <2>2, <2>3, <2>4 DEF AnnouncesInv
<1>6. ASSUME NEW b \in Broker, ReadStatus(b), AnnouncesInv
      PROVE  /\ cloud_capacity' \in [Broker -> Capacity]
             /\ status' \in [Broker \X Broker -> Seq(Capacity)]
  <2>1. CASE UNCHANGED <<cloud_capacity, status>>
    BY <2>1 DEF AnnouncesInv
  <2>2. CASE \E s \in StatusFrom(b) :
               /\ cloud_capacity' = [cloud_capacity EXCEPT ![b] = Head(status[<<b, s>>])]
               /\ status' = [status EXCEPT ![<<b, s>>] = Tail(@)]
    <3>1. PICK s \in StatusFrom(b) :
            /\ cloud_capacity' = [cloud_capacity EXCEPT ![b] = Head(status[<<b, s>>])]
            /\ status' = [status EXCEPT ![<<b, s>>] = Tail(@)]
      BY <2>2
    <3>2. PICK l \in Broker \X Broker : l = <<b, s>>
      BY DEF StatusFrom
    <3>3. status[l] \in Seq(Capacity) /\ status[l] # <<>>
      BY <3>2 DEF AnnouncesInv, StatusFrom
    <3>4. Head(status[l]) \in Capacity /\ Tail(status[l]) \in Seq(Capacity)
      BY <3>3, TailPart
    <3>5. QED
      BY <3>1, <3>2, <3>4 DEF AnnouncesInv
  <2>3. QED
    BY <1>6, <2>1, <2>2 DEF ReadStatus
<1>7. ASSUME NEW b \in Broker, Turn(b) PROVE AnnouncesInv'
  BY <1>1, <1>6, <1>7 DEF AnnouncesInv, Turn, Phase, local_capacity
<1>8. ASSUME NEW b \in Broker, PEndTurn(b) PROVE AnnouncesInv'
  <2>1. Announced(b) \in [Broker \X Broker -> Seq(Capacity)]
    <3>1. ASSUME NEW l \in Broker \X Broker
          PROVE  Append(status[l], local_capacity(b)) \in Seq(Capacity)
      <4>1. status[l] \in Seq(Capacity) /\ local_capacity(b) \in Capacity
        BY <1>1 DEF AnnouncesInv, local_capacity
      <4>2. QED
        BY <4>1
    <3>2. QED
      BY <3>1 DEF Announced, AnnouncesInv
  <2>2. status' \in [Broker \X Broker -> Seq(Capacity)]
    BY <1>8, <2>1 DEF PEndTurn, AnnouncesInv
  <2>3. QED
    BY <1>2, <1>8, <2>2 DEF PEndTurn, AnnouncesInv, Phase
<1>9. ASSUME UNCHANGED <<phase, previous_capacity, cloud_capacity, subscribed, status>>
      PROVE  AnnouncesInv'
  BY <1>9 DEF AnnouncesInv
<1>10. ASSUME NEW b \in Broker, PStep(b) PROVE AnnouncesInv'
  <2>1. CASE PReplyLocal(b) \/ PReplyCloud(b) \/ PNoReply(b)
    BY <1>7, <2>1 DEF PReplyLocal, PReplyCloud, PNoReply
  <2>2. CASE PDispatchLocal(b) \/ PDispatchCloud(b) \/ PForward(b)
    BY <1>9, <2>2 DEF PDispatchLocal, PDispatchCloud, PForward, brokerVars, processVars
  <2>3. QED
    BY <1>8, <1>10, <2>1, <2>2 DEF PStep
<1>11. ASSUME NEW l \in Pairs, PConnect(l) PROVE AnnouncesInv'
  BY <1>9, <1>11 DEF PConnect, brokerVars, processVars
<1>12. ASSUME NEW c \in Client, ClientNext(c) PROVE AnnouncesInv'
  BY <1>9, <1>12 DEF ClientNext, brokerVars, processVars
<1>13. ASSUME NEW w \in Worker, WorkerNext(w) PROVE AnnouncesInv'
  BY <1>9, <1>13 DEF WorkerNext, brokerVars, processVars
<1>14. QED
  BY <1>3, <1>4, <1>5, <1>10, <1>11, <1>12, <1>13 DEF Next, BrokerNext

(* In a cluster of prototype.cpp, all variables have their types: no       *)
(* broker counts more workers than it has, and none announces more.        *)
THEOREM TypeCorrect == Spec => []TypeOK
<1>1. Init => AnnouncesInv
  <2>1. <<>> \in Seq(Capacity) /\ 0 \in Capacity
    BY ClusterAssumption, FS_CardinalityType, EmptySeq DEF Capacity
  <2>2. QED
    BY <2>1 DEF Init, PrototypeInit, ClusterBrokerInit, AnnouncesInv, Phase
<1>2. ClusterInv /\ AnnouncesInv /\ [Next]_vars => AnnouncesInv'
  <2>1. ASSUME AnnouncesInv, UNCHANGED vars PROVE AnnouncesInv'
    BY <2>1 DEF AnnouncesInv, vars, brokerVars, processVars
  <2>2. QED
    BY <2>1, AnnouncesKept
<1>3. ClusterInv /\ AnnouncesInv => TypeOK
  BY ListFits DEF ClusterInv, TasksTypeOK, AnnouncesInv, TypeOK, PrototypeTypeOK
<1>4. QED
  BY <1>1, <1>2, <1>3, PrototypeInvariant, PTL DEF Spec

(***************************************************************************)
(* What the invariants say: workers.                                       *)
(***************************************************************************)

(* A worker that has said it is ready is in one place.                     *)
LEMMA OnePlaceEach ==
  ASSUME ClusterInv, NEW w \in started
  PROVE  LET list == available_workers[Home(w)]
         IN  Cardinality({i \in 1..Len(list) : list[i] = w})
               + Len(toWorker[w]) + Len(fromWorker[w]) = 1
<1>1. /\ WorkersInv /\ w \in Worker /\ Home(w) \in Broker
      /\ available_workers[Home(w)] \in Seq(Worker)
      /\ toWorker[w] \in Seq(Envelope) /\ fromWorker[w] \in Seq(Envelope \cup {WORKER_READY})
      /\ Len(toWorker[w]) + Len(fromWorker[w]) <= 1
  BY Homes DEF ClusterInv, TasksTypeOK, ClusterNetTypeOK, ClusterTasksTypeOK,
     ClusterBrokerTypeOK
<1>2. PICK list \in Seq(Worker) : list = available_workers[Home(w)]
  BY <1>1
<1>3. PICK P : P = {i \in 1..Len(list) : list[i] = w}
  OBVIOUS
<1>4. \A i \in 1..Len(list) :
        list[i] = w => /\ toWorker[w] = <<>> /\ fromWorker[w] = <<>>
                       /\ \A j \in 1..Len(list) : list[j] = w => j = i
  BY <1>1, <1>2 DEF WorkersInv
<1>5. Len(<<>>) = 0
  OBVIOUS
<1>6. CASE \E i \in 1..Len(list) : list[i] = w
  <2>1. PICK i \in 1..Len(list) : list[i] = w
    BY <1>6
  <2>2. P = {i}
    BY <1>3, <1>4, <2>1
  <2>3. Cardinality(P) = 1
    BY <2>2, FS_Singleton
  <2>4. Len(toWorker[w]) = 0 /\ Len(fromWorker[w]) = 0
    BY <1>4, <1>5, <2>1
  <2>5. QED
    BY <1>2, <1>3, <2>3, <2>4
<1>7. CASE ~ \E i \in 1..Len(list) : list[i] = w
  <2>1. P = {}
    BY <1>3, <1>7
  <2>2. Cardinality(P) = 0
    BY <2>1, FS_EmptySet
  <2>3. toWorker[w] # <<>> \/ fromWorker[w] # <<>>
    BY <1>1, <1>2, <1>7 DEF WorkersInv, Listed
  <2>4. /\ toWorker[w] # <<>> => Len(toWorker[w]) = 1 /\ fromWorker[w] = <<>>
        /\ fromWorker[w] # <<>> => Len(fromWorker[w]) = 1 /\ toWorker[w] = <<>>
    BY <1>1, OneAtWorker DEF ClusterInv, TasksTypeOK
  <2>5. \/ Len(toWorker[w]) = 1 /\ Len(fromWorker[w]) = 0
        \/ Len(toWorker[w]) = 0 /\ Len(fromWorker[w]) = 1
    BY <1>5, <2>3, <2>4
  <2>6. 0 + 1 + 0 = 1 /\ 0 + 0 + 1 = 1
    OBVIOUS
  <2>7. QED
    BY <1>2, <1>3, <2>2, <2>5, <2>6
<1>8. QED
  BY <1>6, <1>7

(* No worker of prototype.cpp is listed twice, listed while a message is   *)
(* under way to it or from it, or forgotten (prototype.cpp:209, 282).      *)
THEOREM WorkersAreInOnePlace == Spec => []WorkersInOnePlace
<1>1. ClusterInv => WorkersInOnePlace
  BY OnePlaceEach DEF WorkersInOnePlace
<1>2. QED
  BY <1>1, PrototypeInvariant, PTL

(* Nor is any of task_flow.cpp, whose counter is right: the loop never     *)
(* takes a worker from an empty list (task_flow.cpp:154-155, 230-233).     *)
THEOREM WorkersAreCounted == FlowSpec => []WorkersCounted
<1>1. FlowInv => WorkersCounted
  BY OnePlaceEach DEF WorkersCounted, FlowInv, CapacityInv
<1>2. QED
  BY <1>1, FlowInvariant, PTL

(***************************************************************************)
(* What the invariants say: tasks.                                         *)
(***************************************************************************)
LEMMA ReadyIsNoEnvelope == \A e \in Envelope : e # WORKER_READY
<1>1. ASSUME NEW e \in Envelope, e = WORKER_READY PROVE FALSE
  <2>1. "task" \in DOMAIN e
    BY DEF Envelope
  <2>2. DOMAIN e = {"peer"}
    BY <1>1 DEF WORKER_READY
  <2>3. QED
    BY <2>1, <2>2
<1>2. QED
  BY <1>1

Has(pipes, t) == \E l \in Pairs : \E i \in 1..Len(pipes[l]) : pipes[l][i] = t

Carries(pipe, t) ==
  \E w \in Worker : \E i \in 1..Len(pipe[w]) : pipe[w][i] # WORKER_READY /\ pipe[w][i].task = t

LEMMA HasIsRange ==
  ASSUME NEW pipes \in [Pairs -> Seq(Task)], NEW t
  PROVE  t \in UNION {Range(pipes[l]) : l \in Pairs} <=> Has(pipes, t)
<1>1. \A l \in Pairs : Range(pipes[l]) = {pipes[l][i] : i \in 1..Len(pipes[l])}
  <2>1. ASSUME NEW l \in Pairs PROVE DOMAIN pipes[l] = 1..Len(pipes[l])
    <3>1. pipes[l] \in Seq(Task)
      OBVIOUS
    <3>2. QED
      BY <3>1
  <2>2. QED
    BY <2>1 DEF Range
<1>2. QED
  BY <1>1 DEF Has

WorkerPipes(pipe) == \A w \in Worker : DOMAIN pipe[w] = 1..Len(pipe[w])

LEMMA PipesOfWorkers == ClusterNetTypeOK => WorkerPipes(toWorker) /\ WorkerPipes(fromWorker)
<1>1. SUFFICES ASSUME ClusterNetTypeOK, NEW w \in Worker
      PROVE  /\ DOMAIN toWorker[w] = 1..Len(toWorker[w])
             /\ DOMAIN fromWorker[w] = 1..Len(fromWorker[w])
  BY DEF WorkerPipes
<1>2. toWorker[w] \in Seq(Envelope) /\ fromWorker[w] \in Seq(Envelope \cup {WORKER_READY})
  BY <1>1 DEF ClusterNetTypeOK
<1>3. QED
  BY <1>2

LEMMA CarriesIsCarried ==
  ASSUME NEW pipe, WorkerPipes(pipe), NEW t
  PROVE  /\ t \in {e.task : e \in Carried(pipe)} <=> Carries(pipe, t)
         /\ \A w \in Worker : w \in AtWorker(pipe, t) <=>
              \E i \in 1..Len(pipe[w]) : pipe[w][i] # WORKER_READY /\ pipe[w][i].task = t
<1>1. ASSUME NEW w \in Worker, NEW e
      PROVE  e \in Range(pipe[w]) <=> \E i \in 1..Len(pipe[w]) : pipe[w][i] = e
  BY DEF Range, WorkerPipes
<1>2. ASSUME NEW e
      PROVE  e \in Carried(pipe) <=>
               /\ e # WORKER_READY
               /\ \E w \in Worker : \E i \in 1..Len(pipe[w]) : pipe[w][i] = e
  <2> DEFINE X == UNION {Range(pipe[w]) : w \in Worker}
  <2>1. e \in X <=> \E w \in Worker : e \in Range(pipe[w])
    OBVIOUS
  <2>2. Carried(pipe) = X \ {WORKER_READY}
    BY DEF Carried
  <2> HIDE DEF X
  <2>3. QED
    BY <1>1, <2>1, <2>2
<1>3. t \in {e.task : e \in Carried(pipe)} <=> \E e \in Carried(pipe) : e.task = t
  OBVIOUS
<1>4. t \in {e.task : e \in Carried(pipe)} <=> Carries(pipe, t)
  BY <1>2, <1>3 DEF Carries
<1>5. ASSUME NEW w \in Worker
      PROVE  w \in AtWorker(pipe, t) <=>
               \E i \in 1..Len(pipe[w]) : pipe[w][i] # WORKER_READY /\ pipe[w][i].task = t
  BY ZenonT(30), <1>1 DEF AtWorker
<1>6. QED
  BY <1>4, <1>5

LEMMA QueuedAre ==
  ASSUME ClusterNetTypeOK, NEW t
  PROVE  /\ t \in Before <=> t \in requests \/ Has(toCloud, t) \/ Carries(toWorker, t)
         /\ t \in After <=> Has(fromCloud, t) \/ Carries(fromWorker, t)
         /\ t \in Queued <=> t \in Before \/ t \in After
<1> DEFINE X == UNION {Range(toCloud[l]) : l \in Pairs}
           Y == UNION {Range(fromCloud[l]) : l \in Pairs}
           Z == UNION {Range(toCloud[l]) \cup Range(fromCloud[l]) : l \in Pairs}
           U == {e.task : e \in Carried(toWorker)}
           V == {e.task : e \in Carried(fromWorker)}
           W == {e.task : e \in Carried(toWorker) \cup Carried(fromWorker)}
<1>1. (t \in X <=> Has(toCloud, t)) /\ (t \in Y <=> Has(fromCloud, t))
  <2>1. toCloud \in [Pairs -> Seq(Task)] /\ fromCloud \in [Pairs -> Seq(Task)]
    BY DEF ClusterNetTypeOK
  <2>2. t \in X <=> Has(toCloud, t)
    BY <2>1, HasIsRange
  <2>3. t \in Y <=> Has(fromCloud, t)
    BY <2>1, HasIsRange
  <2>4. QED
    BY <2>2, <2>3
<1>2. (t \in U <=> Carries(toWorker, t)) /\ (t \in V <=> Carries(fromWorker, t))
  BY CarriesIsCarried, PipesOfWorkers
<1>3. t \in Z <=> t \in X \/ t \in Y
  OBVIOUS
<1>4. t \in W <=> t \in U \/ t \in V
  OBVIOUS
<1>5. Before = requests \cup X \cup U
  BY DEF Before
<1>6. After = Y \cup V
  BY DEF After
<1>7. Queued = requests \cup Z \cup W
  BY DEF Queued
<1> HIDE DEF X, Y, Z, U, V, W
<1>8. QED
  BY <1>1, <1>2, <1>3, <1>4, <1>5, <1>6, <1>7

LEMMA NoneOrOne ==
  ASSUME NEW S, \A x, y \in S : x = y
  PROVE  Cardinality(S) = IF S = {} THEN 0 ELSE 1
<1>1. CASE S = {}
  BY <1>1, FS_EmptySet
<1>2. CASE S # {}
  <2>1. PICK x : x \in S
    BY <1>2
  <2>2. S = {x}
    BY <2>1
  <2>3. QED
    BY <1>2, <2>2, FS_Singleton
<1>3. QED
  BY <1>1, <1>2

LEMMA OnOneLink ==
  ASSUME NEW pipes \in [Pairs -> Seq(Task)], NEW at, NEW name, OnPipe(at, name, pipes),
         AllOnce(pipes), NEW t
  PROVE  /\ \A x, y \in OnLink(pipes, t) : x = y
         /\ OnLink(pipes, t) # {} => at[t][1] = name
         /\ Has(pipes, t) => OnLink(pipes, t) # {}
<1>1. ASSUME NEW x
      PROVE  x \in OnLink(pipes, t) <=>
               \E l \in Pairs : \E i \in 1..Len(pipes[l]) : pipes[l][i] = t /\ x = <<l, i>>
  <2>1. ASSUME NEW l \in Pairs PROVE DOMAIN pipes[l] = 1..Len(pipes[l])
    <3>1. pipes[l] \in Seq(Task)
      OBVIOUS
    <3>2. QED
      BY <3>1
  <2>2. QED
    BY <2>1 DEF OnLink
<1>2. ASSUME NEW x \in OnLink(pipes, t), NEW y \in OnLink(pipes, t)
      PROVE  x = y
  <2>1. PICK l \in Pairs : \E i \in 1..Len(pipes[l]) : pipes[l][i] = t /\ x = <<l, i>>
    BY <1>1
  <2>2. PICK i \in 1..Len(pipes[l]) : pipes[l][i] = t /\ x = <<l, i>>
    BY <2>1
  <2>3. PICK m \in Pairs : \E j \in 1..Len(pipes[m]) : pipes[m][j] = t /\ y = <<m, j>>
    BY <1>1
  <2>4. PICK j \in 1..Len(pipes[m]) : pipes[m][j] = t /\ y = <<m, j>>
    BY <2>3
  <2>5. at[t] = <<name, l>> /\ at[t] = <<name, m>>
    BY <2>2, <2>4 DEF OnPipe
  <2>6. l = m
    BY <2>5
  <2>7. i = j
    BY <2>2, <2>4, <2>6 DEF AllOnce, NoneTwice
  <2>8. QED
    BY <2>2, <2>4, <2>6, <2>7
<1>3. ASSUME NEW x \in OnLink(pipes, t)
      PROVE  at[t][1] = name
  <2>1. PICK l \in Pairs : \E i \in 1..Len(pipes[l]) : pipes[l][i] = t /\ x = <<l, i>>
    BY <1>1
  <2>2. at[t] = <<name, l>>
    BY <2>1 DEF OnPipe
  <2>3. QED
    BY <2>2
<1>4. Has(pipes, t) => OnLink(pipes, t) # {}
  BY <1>1 DEF Has
<1>5. QED
  BY <1>2, <1>3, <1>4

LEMMA AtOneWorker ==
  ASSUME ClusterNetTypeOK, NEW at, AtWorkers(at, toWorker, fromWorker), NEW t
  PROVE  /\ \A x, y \in AtWorker(toWorker, t) : x = y
         /\ \A x, y \in AtWorker(fromWorker, t) : x = y
         /\ AtWorker(toWorker, t) # {} => at[t][1] = "toWorker"
         /\ AtWorker(fromWorker, t) # {} => at[t][1] = "fromWorker"
         /\ Carries(toWorker, t) => AtWorker(toWorker, t) # {}
         /\ Carries(fromWorker, t) => AtWorker(fromWorker, t) # {}
<1>1. \A w \in Worker : w \in AtWorker(toWorker, t) <=>
        \E i \in 1..Len(toWorker[w]) : toWorker[w][i] # WORKER_READY /\ toWorker[w][i].task = t
  BY CarriesIsCarried, PipesOfWorkers
<1>2. \A w \in Worker : w \in AtWorker(fromWorker, t) <=>
        \E i \in 1..Len(fromWorker[w]) :
          fromWorker[w][i] # WORKER_READY /\ fromWorker[w][i].task = t
  BY CarriesIsCarried, PipesOfWorkers
<1>3. \A w \in AtWorker(toWorker, t) : w \in Worker /\ at[t] = <<"toWorker", w>>
  BY <1>1 DEF AtWorkers, AtWorker
<1>4. \A w \in AtWorker(fromWorker, t) : w \in Worker /\ at[t] = <<"fromWorker", w>>
  BY <1>2 DEF AtWorkers, AtWorker
<1>5. /\ \A x, y \in AtWorker(toWorker, t) : x = y
      /\ \A x, y \in AtWorker(fromWorker, t) : x = y
  <2>1. ASSUME NEW x \in AtWorker(toWorker, t), NEW y \in AtWorker(toWorker, t) PROVE x = y
    <3>1. <<"toWorker", x>> = <<"toWorker", y>>
      BY <1>3
    <3>2. QED
      BY <3>1
  <2>2. ASSUME NEW x \in AtWorker(fromWorker, t), NEW y \in AtWorker(fromWorker, t) PROVE x = y
    <3>1. <<"fromWorker", x>> = <<"fromWorker", y>>
      BY <1>4
    <3>2. QED
      BY <3>1
  <2>3. QED
    BY <2>1, <2>2
<1>6. /\ AtWorker(toWorker, t) # {} => at[t][1] = "toWorker"
      /\ AtWorker(fromWorker, t) # {} => at[t][1] = "fromWorker"
  BY <1>3, <1>4
<1>7. /\ Carries(toWorker, t) => AtWorker(toWorker, t) # {}
      /\ Carries(fromWorker, t) => AtWorker(fromWorker, t) # {}
  BY <1>1, <1>2 DEF Carries
<1>8. QED
  BY <1>5, <1>6, <1>7

LEMMA OneCopy ==
  ASSUME ClusterInv
  PROVE  TaskInOnePlace
<1>1. SUFFICES ASSUME NEW t \in Queued \cup replies
      PROVE  CopiesOf(t) = 1
  BY DEF TaskInOnePlace
<1>2. PICK at \in [Task -> Place] : Located(at) /\ Known(at)
  BY DEF ClusterInv, TasksInv
<1>3. ClusterNetTypeOK /\ AtWorkers(at, toWorker, fromWorker) /\ AtFrontend(at, requests, replies)
  BY <1>2 DEF ClusterInv, TasksTypeOK, Located
<1>4. /\ toCloud \in [Pairs -> Seq(Task)] /\ fromCloud \in [Pairs -> Seq(Task)]
      /\ OnPipe(at, "toCloud", toCloud) /\ OnPipe(at, "fromCloud", fromCloud)
      /\ AllOnce(toCloud) /\ AllOnce(fromCloud)
  BY <1>2, PipesAre
<1>5. PICK A : A = {t} \cap requests
  OBVIOUS
<1>6. PICK B : B = {t} \cap replies
  OBVIOUS
<1>7. PICK C : C = OnLink(toCloud, t)
  OBVIOUS
<1>8. PICK D : D = OnLink(fromCloud, t)
  OBVIOUS
<1>9. PICK E : E = AtWorker(toWorker, t)
  OBVIOUS
<1>10. PICK F : F = AtWorker(fromWorker, t)
  OBVIOUS
<1>11. /\ \A x, y \in A : x = y
       /\ \A x, y \in B : x = y
       /\ A # {} => at[t][1] = "requests"
       /\ B # {} => at[t][1] = "replies"
  BY <1>3, <1>5, <1>6 DEF AtFrontend
<1>12. /\ \A x, y \in C : x = y
       /\ C # {} => at[t][1] = "toCloud"
       /\ Has(toCloud, t) => C # {}
  BY <1>4, <1>7, OnOneLink
<1>13. /\ \A x, y \in D : x = y
       /\ D # {} => at[t][1] = "fromCloud"
       /\ Has(fromCloud, t) => D # {}
  BY <1>4, <1>8, OnOneLink
<1>14. /\ \A x, y \in E : x = y
       /\ \A x, y \in F : x = y
       /\ E # {} => at[t][1] = "toWorker"
       /\ F # {} => at[t][1] = "fromWorker"
       /\ Carries(toWorker, t) => E # {}
       /\ Carries(fromWorker, t) => F # {}
  BY <1>3, <1>9, <1>10, AtOneWorker
<1>15. /\ Cardinality(A) = IF A = {} THEN 0 ELSE 1
       /\ Cardinality(B) = IF B = {} THEN 0 ELSE 1
       /\ Cardinality(C) = IF C = {} THEN 0 ELSE 1
       /\ Cardinality(D) = IF D = {} THEN 0 ELSE 1
       /\ Cardinality(E) = IF E = {} THEN 0 ELSE 1
       /\ Cardinality(F) = IF F = {} THEN 0 ELSE 1
  BY <1>11, <1>12, <1>13, <1>14, NoneOrOne
<1>16. A # {} \/ B # {} \/ C # {} \/ D # {} \/ E # {} \/ F # {}
  BY <1>1, <1>3, <1>5, <1>6, <1>12, <1>13, <1>14, QueuedAre
<1>17. Cardinality(A) + Cardinality(B) + Cardinality(C) + Cardinality(D) + Cardinality(E)
         + Cardinality(F) = 1
  <2>1. CASE A # {}
    <3>1. B = {} /\ C = {} /\ D = {} /\ E = {} /\ F = {}
      BY <1>11, <1>12, <1>13, <1>14, <2>1
    <3>2. QED
      BY <1>15, <2>1, <3>1
  <2>2. CASE B # {}
    <3>1. A = {} /\ C = {} /\ D = {} /\ E = {} /\ F = {}
      BY <1>11, <1>12, <1>13, <1>14, <2>2
    <3>2. QED
      BY <1>15, <2>2, <3>1
  <2>3. CASE C # {}
    <3>1. A = {} /\ B = {} /\ D = {} /\ E = {} /\ F = {}
      BY <1>11, <1>12, <1>13, <1>14, <2>3
    <3>2. QED
      BY <1>15, <2>3, <3>1
  <2>4. CASE D # {}
    <3>1. A = {} /\ B = {} /\ C = {} /\ E = {} /\ F = {}
      BY <1>11, <1>12, <1>13, <1>14, <2>4
    <3>2. QED
      BY <1>15, <2>4, <3>1
  <2>5. CASE E # {}
    <3>1. A = {} /\ B = {} /\ C = {} /\ D = {} /\ F = {}
      BY <1>11, <1>12, <1>13, <1>14, <2>5
    <3>2. QED
      BY <1>15, <2>5, <3>1
  <2>6. CASE F # {}
    <3>1. A = {} /\ B = {} /\ C = {} /\ D = {} /\ E = {}
      BY <1>11, <1>12, <1>13, <1>14, <2>6
    <3>2. QED
      BY <1>15, <2>6, <3>1
  <2>7. QED
    BY <1>16, <2>1, <2>2, <2>3, <2>4, <2>5, <2>6
<1>18. QED
  BY <1>5, <1>6, <1>7, <1>8, <1>9, <1>10, <1>17 DEF CopiesOf

(* A task is in one place at a time, whatever brokers go down and come     *)
(* back (prototype.cpp:202-242, 273-291).                                  *)
THEOREM TasksAreInOnePlace == Spec => []TaskInOnePlace
<1>1. ClusterInv => TaskInOnePlace
  BY OneCopy
<1>2. QED
  BY <1>1, PrototypeInvariant, PTL

(* What a broker gets from a peer, its own workers execute: a task crosses *)
(* at most one connection (prototype.cpp:259-264, 270).                    *)
THEOREM TasksHopOnce == Spec => []OneHop
<1>1. ClusterInv => OneHop
  BY DEF ClusterInv, HopsInv, OneHop
<1>2. QED
  BY <1>1, PrototypeInvariant, PTL

LEMMA RepliesAwaited ==
  ASSUME ClusterInv
  PROVE  RepliesMatch
<1>1. PICK at \in [Task -> Place] : Located(at) /\ Known(at)
  BY DEF ClusterInv, TasksInv
<1>2. ASSUME NEW t \in replies
      PROVE  /\ t.seq = task_seq[t.client] /\ t.life = life[Home(t.client)]
             /\ cphase[t.client] # "idle"
  <2>1. t \in Task /\ at[t] # Nowhere
    BY <1>1, PlacesApart DEF ClusterInv, TasksTypeOK, ClusterNetTypeOK, Located, AtFrontend
  <2>2. Up(Home(t.client)) /\ t.life = life[Home(t.client)]
    BY DEF ClusterInv, RepliesInv
  <2>3. QED
    BY <1>1, <2>1, <2>2 DEF Known
<1>3. QED
  BY <1>2 DEF RepliesMatch

(* The reply a client reads is for the task it waits for, of this life of  *)
(* its process: the assertion of prototype.cpp:57 holds.                   *)
THEOREM RepliesAlwaysMatch == Spec => []RepliesMatch
<1>1. ClusterInv => RepliesMatch
  BY RepliesAwaited
<1>2. QED
  BY <1>1, PrototypeInvariant, PTL

(* The same holds of a cluster of task_flow.cpp: tasks are in one place,   *)
(* cross one connection at most, and come back to clients that wait for    *)
(* them (task_flow.cpp:34-41, 150-188, 206-233).                           *)
THEOREM FlowTasksSafe == FlowSpec => [](TaskInOnePlace /\ OneHop /\ RepliesMatch)
<1>1. FlowInv => TaskInOnePlace /\ OneHop /\ RepliesMatch
  <2>1. ClusterInv => TaskInOnePlace /\ RepliesMatch
    BY OneCopy, RepliesAwaited
  <2>2. ClusterInv => OneHop
    BY DEF ClusterInv, HopsInv, OneHop
  <2>3. QED
    BY <2>1, <2>2 DEF FlowInv
<1>2. QED
  BY <1>1, FlowInvariant, PTL

(***************************************************************************)
(* The cluster is a service: each step is a step of it, or none.           *)
(***************************************************************************)

(* As long as no broker has gone down, one that has tasks of its clients   *)
(* is connected to all its peers, so that nothing is dropped.              *)
NoneDropped ==
  stops = 0 =>
    \A c \in Client : task_seq[c] > 0 => \A p \in Peers(Home(c)) : <<Home(c), p>> \in linked

ServiceStep ==
  Service!Next \/ (UNCHANGED <<Before, After, replies, task_seq>> /\ (stops' > 0 <=> stops > 0))

IsBefore(asked, to, pipe, t) == t \in asked \/ Has(to, t) \/ Carries(pipe, t)

IsAfter(from, pipe, t) == Has(from, t) \/ Carries(pipe, t)

QueuedIs ==
  \A t : /\ t \in Before <=> IsBefore(requests, toCloud, toWorker, t)
         /\ t \in After <=> IsAfter(fromCloud, fromWorker, t)

LEMMA QueuedAlways == ClusterNetTypeOK => QueuedIs
  BY QueuedAre DEF QueuedIs, IsBefore, IsAfter

(* What a pipe holds, after a message has joined it or left it.            *)
Came(pipes, l, t, q) == q = [pipes EXCEPT ![l] = Append(@, t)]

LEMMA HasCame ==
  ASSUME NEW pipes \in [Pairs -> Seq(Task)], NEW l \in Pairs, NEW t \in Task, NEW q,
         Came(pipes, l, t, q), NEW u
  PROVE  Has(q, u) <=> Has(pipes, u) \/ u = t
<1>1. \A m \in Pairs : q[m] = IF m = l THEN Append(pipes[l], t) ELSE pipes[m]
  BY DEF Came
<1>2. PICK s \in Seq(Task) : s = pipes[l]
  OBVIOUS
<1>3. PICK n \in Nat : n = Len(s)
  OBVIOUS
<1>4. /\ Len(Append(s, t)) = n + 1
      /\ Append(s, t)[n + 1] = t
      /\ \A i \in 1..n : Append(s, t)[i] = s[i]
  BY <1>3
<1>5. \A i \in 1..(n + 1) : i \in 1..n \/ i = n + 1
  OBVIOUS
<1>6. 1..n \subseteq 1..(n + 1) /\ n + 1 \in 1..(n + 1)
  OBVIOUS
<1>7. ASSUME Has(q, u) PROVE Has(pipes, u) \/ u = t
  <2>1. PICK m \in Pairs : \E i \in 1..Len(q[m]) : q[m][i] = u
    BY <1>7 DEF Has
  <2>2. CASE m = l
    <3>1. PICK i \in 1..(n + 1) : Append(s, t)[i] = u
      BY <1>1, <1>2, <1>4, <2>1, <2>2
    <3>2. CASE i \in 1..n
      <4>1. s[i] = u
        BY <1>4, <3>1, <3>2
      <4>2. QED
        BY <1>2, <1>3, <3>2, <4>1 DEF Has
    <3>3. CASE i = n + 1
      BY <1>4, <3>1, <3>3
    <3>4. QED
      BY <1>5, <3>2, <3>3
  <2>3. CASE m # l
    BY <1>1, <2>1, <2>3 DEF Has
  <2>4. QED
    BY <2>2, <2>3
<1>8. ASSUME Has(pipes, u) PROVE Has(q, u)
  <2>1. PICK m \in Pairs : \E i \in 1..Len(pipes[m]) : pipes[m][i] = u
    BY <1>8 DEF Has
  <2>2. CASE m = l
    <3>1. PICK i \in 1..n : s[i] = u
      BY <1>2, <1>3, <2>1, <2>2
    <3>2. i \in 1..Len(q[l]) /\ q[l][i] = u
      BY <1>1, <1>2, <1>4, <1>6, <3>1
    <3>3. QED
      BY <3>2 DEF Has
  <2>3. CASE m # l
    BY <1>1, <2>1, <2>3 DEF Has
  <2>4. QED
    BY <2>2, <2>3
<1>9. Has(q, t)
  <2>1. q[l][n + 1] = t /\ n + 1 \in 1..Len(q[l])
    BY <1>1, <1>2, <1>4, <1>6
  <2>2. QED
    BY <2>1 DEF Has
<1>10. QED
  BY <1>7, <1>8, <1>9

LEMMA HasLeft ==
  ASSUME NEW pipes \in [Pairs -> Seq(Task)], NEW l \in Pairs, pipes[l] # <<>>, NEW q,
         Left(pipes, l, q), NEW u
  PROVE  /\ Has(pipes, u) <=> Has(q, u) \/ u = Head(pipes[l])
         /\ Head(pipes[l]) \in Task
<1>1. \A m \in Pairs : q[m] = IF m = l THEN Tail(pipes[l]) ELSE pipes[m]
  BY DEF Left
<1>2. PICK s \in Seq(Task) : s = pipes[l] /\ s # <<>>
  OBVIOUS
<1>3. PICK n \in Nat : n + 1 = Len(s)
  BY <1>2, EmptySeq
<1>4. /\ Len(Tail(s)) = n
      /\ Head(s) = s[1] /\ s[1] \in Task
      /\ \A i \in 1..n : Tail(s)[i] = s[i + 1]
  BY <1>2, <1>3
<1>5. ASSUME NEW i \in 1..(n + 1), i # 1 PROVE \E j \in 1..n : i = j + 1
  <2>1. i - 1 \in 1..n /\ i = (i - 1) + 1
    BY <1>5
  <2>2. QED
    BY <2>1
<1>6. 1 \in 1..(n + 1) /\ \A i \in 1..n : i + 1 \in 1..(n + 1)
  OBVIOUS
<1>7. ASSUME Has(pipes, u) PROVE Has(q, u) \/ u = Head(pipes[l])
  <2>1. PICK m \in Pairs : \E i \in 1..Len(pipes[m]) : pipes[m][i] = u
    BY <1>7 DEF Has
  <2>2. CASE m = l
    <3>1. PICK i \in 1..(n + 1) : s[i] = u
      BY <1>2, <1>3, <2>1, <2>2
    <3>2. CASE i = 1
      BY <1>2, <1>4, <3>1, <3>2
    <3>3. CASE i # 1
      <4>1. PICK j \in 1..n : i = j + 1
        BY <1>5, <3>3
      <4>2. Tail(s)[j] = u /\ q[l] = Tail(s)
        BY <1>1, <1>2, <1>4, <3>1, <4>1
      <4>3. QED
        BY <1>4, <4>1, <4>2 DEF Has
    <3>4. QED
      BY <3>2, <3>3
  <2>3. CASE m # l
    BY <1>1, <2>1, <2>3 DEF Has
  <2>4. QED
    BY <2>2, <2>3
<1>8. ASSUME Has(q, u) PROVE Has(pipes, u)
  <2>1. PICK m \in Pairs : \E i \in 1..Len(q[m]) : q[m][i] = u
    BY <1>8 DEF Has
  <2>2. CASE m = l
    <3>1. PICK i \in 1..n : Tail(s)[i] = u
      BY <1>1, <1>2, <1>4, <2>1, <2>2
    <3>2. s[i + 1] = u /\ i + 1 \in 1..Len(s)
      BY <1>3, <1>4, <1>6, <3>1
    <3>3. QED
      BY <1>2, <3>2 DEF Has
  <2>3. CASE m # l
    BY <1>1, <2>1, <2>3 DEF Has
  <2>4. QED
    BY <2>2, <2>3
<1>9. Has(pipes, Head(pipes[l]))
  BY <1>2, <1>3, <1>4, <1>6 DEF Has
<1>10. QED
  BY <1>2, <1>4, <1>7, <1>8, <1>9

(* A worker's pipe holds one message at most, and what it holds comes and  *)
(* goes as a whole.                                                        *)
Holds(msg, t) == msg # WORKER_READY /\ msg.task = t

LEMMA CarriesGiven ==
  ASSUME NEW S, NEW pipe \in [Worker -> Seq(S)], NEW w \in Worker, pipe[w] = <<>>,
         NEW msg \in S, NEW q, Came(pipe, w, msg, q), NEW u
  PROVE  Carries(q, u) <=> Carries(pipe, u) \/ Holds(msg, u)
<1>1. \A v \in Worker : q[v] = IF v = w THEN <<msg>> ELSE pipe[v]
  <2>1. Append(<<>>, msg) = <<msg>>
    OBVIOUS
  <2>2. QED
    BY <2>1 DEF Came
<1>2. Len(<<msg>>) = 1 /\ <<msg>>[1] = msg /\ 1..1 = {1} /\ Len(<<>>) = 0 /\ 1..0 = {}
  OBVIOUS
<1>3. ASSUME Carries(q, u) PROVE Carries(pipe, u) \/ Holds(msg, u)
  <2>1. PICK v \in Worker : \E i \in 1..Len(q[v]) : q[v][i] # WORKER_READY /\ q[v][i].task = u
    BY <1>3 DEF Carries
  <2>2. CASE v = w
    BY <1>1, <1>2, <2>1, <2>2 DEF Holds
  <2>3. CASE v # w
    BY <1>1, <2>1, <2>3 DEF Carries
  <2>4. QED
    BY <2>2, <2>3
<1>4. ASSUME Carries(pipe, u) PROVE Carries(q, u)
  <2>1. PICK v \in Worker :
          \E i \in 1..Len(pipe[v]) : pipe[v][i] # WORKER_READY /\ pipe[v][i].task = u
    BY <1>4 DEF Carries
  <2>2. v # w
    BY <1>2, <2>1
  <2>3. QED
    BY <1>1, <2>1, <2>2 DEF Carries
<1>5. ASSUME Holds(msg, u) PROVE Carries(q, u)
  <2>1. 1 \in 1..Len(q[w]) /\ q[w][1] = msg
    BY <1>1, <1>2
  <2>2. QED
    BY <1>5, <2>1 DEF Carries, Holds
<1>6. QED
  BY <1>3, <1>4, <1>5

LEMMA CarriesTaken ==
  ASSUME NEW S, NEW pipe \in [Worker -> Seq(S)], NEW w \in Worker, Len(pipe[w]) = 1,
         NEW q, Left(pipe, w, q), NEW u
  PROVE  /\ Carries(pipe, u) <=> Carries(q, u) \/ Holds(Head(pipe[w]), u)
         /\ Head(pipe[w]) \in S
<1>1. PICK msg : msg = Head(pipe[w])
  OBVIOUS
<1>2. /\ pipe[w][1] = msg /\ msg \in S /\ 1..Len(pipe[w]) = {1}
      /\ 1..Len(Tail(pipe[w])) = {}
  <2>1. PICK s \in Seq(S) : s = pipe[w] /\ Len(s) = 1
    OBVIOUS
  <2>2. Head(s) = s[1] /\ Head(s) \in S /\ Len(Tail(s)) = Len(s) - 1
    <3>1. s # <<>>
      <4>1. Len(<<>>) = 0 /\ 0 # 1
        OBVIOUS
      <4>2. QED
        BY <2>1, <4>1
    <3>2. Head(s) \in S /\ Head(s) = s[1]
      BY <2>1, <3>1, TailPart
    <3>3. QED
      BY <2>1, <3>1, <3>2, HeadTailProperties
  <2>3. 1..1 = {1} /\ 1..0 = {} /\ 1 - 1 = 0
    OBVIOUS
  <2>4. QED
    BY <1>1, <2>1, <2>2, <2>3
<1>3. \A v \in Worker : q[v] = IF v = w THEN Tail(pipe[w]) ELSE pipe[v]
  BY DEF Left
<1>4. ASSUME Carries(pipe, u) PROVE Carries(q, u) \/ Holds(msg, u)
  <2>1. PICK v \in Worker :
          \E i \in 1..Len(pipe[v]) : pipe[v][i] # WORKER_READY /\ pipe[v][i].task = u
    BY <1>4 DEF Carries
  <2>2. CASE v = w
    BY <1>2, <2>1, <2>2 DEF Holds
  <2>3. CASE v # w
    BY <1>3, <2>1, <2>3 DEF Carries
  <2>4. QED
    BY <2>2, <2>3
<1>5. ASSUME Carries(q, u) PROVE Carries(pipe, u)
  <2>1. PICK v \in Worker : \E i \in 1..Len(q[v]) : q[v][i] # WORKER_READY /\ q[v][i].task = u
    BY <1>5 DEF Carries
  <2>2. v # w
    BY <1>2, <1>3, <2>1
  <2>3. QED
    BY <1>3, <2>1, <2>2 DEF Carries
<1>6. ASSUME Holds(msg, u) PROVE Carries(pipe, u)
  BY <1>2, <1>6 DEF Carries, Holds
<1>7. QED
  BY <1>1, <1>2, <1>4, <1>5, <1>6

(* A task is in pipes of one kind.                                         *)
Apart(t) ==
  \E place :
    /\ t \in requests => place = "requests"
    /\ t \in replies => place = "replies"
    /\ Has(toCloud, t) => place = "toCloud"
    /\ Has(fromCloud, t) => place = "fromCloud"
    /\ Carries(toWorker, t) => place = "toWorker"
    /\ Carries(fromWorker, t) => place = "fromWorker"

AllApart == \A t : Apart(t)

LEMMA TasksApart == ClusterInv => AllApart
<1>1. SUFFICES ASSUME ClusterInv, NEW t PROVE Apart(t)
  BY DEF AllApart
<1>2. PICK at \in [Task -> Place] : Located(at) /\ Known(at)
  BY <1>1 DEF ClusterInv, TasksInv
<1>3. /\ t \in requests => at[t][1] = "requests"
      /\ t \in replies => at[t][1] = "replies"
  BY <1>2 DEF Located, AtFrontend
<1>4. /\ Has(toCloud, t) => at[t][1] = "toCloud"
      /\ Has(fromCloud, t) => at[t][1] = "fromCloud"
  <2>1. OnPipe(at, "toCloud", toCloud) /\ OnPipe(at, "fromCloud", fromCloud)
    BY <1>1, <1>2, PipesAre
  <2>2. ASSUME Has(toCloud, t) PROVE at[t][1] = "toCloud"
    <3>1. \E l : at[t] = <<"toCloud", l>>
      BY <2>1, <2>2 DEF OnPipe, Has
    <3>2. QED
      BY <3>1
  <2>3. ASSUME Has(fromCloud, t) PROVE at[t][1] = "fromCloud"
    <3>1. \E l : at[t] = <<"fromCloud", l>>
      BY <2>1, <2>3 DEF OnPipe, Has
    <3>2. QED
      BY <3>1
  <2>4. QED
    BY <2>2, <2>3
<1>5. /\ Carries(toWorker, t) => at[t][1] = "toWorker"
      /\ Carries(fromWorker, t) => at[t][1] = "fromWorker"
  <2>1. AtWorkers(at, toWorker, fromWorker)
    BY <1>2 DEF Located
  <2>2. ASSUME Carries(toWorker, t) PROVE at[t][1] = "toWorker"
    <3>1. \E w : at[t] = <<"toWorker", w>>
      BY <2>1, <2>2 DEF AtWorkers, Carries
    <3>2. QED
      BY <3>1
  <2>3. ASSUME Carries(fromWorker, t) PROVE at[t][1] = "fromWorker"
    <3>1. \E w : at[t] = <<"fromWorker", w>>
      BY <2>1, <2>3 DEF AtWorkers, Carries
    <3>2. QED
      BY <3>1
  <2>4. QED
    BY <2>2, <2>3
<1>6. QED
  BY <1>3, <1>4, <1>5 DEF Apart

(* What is before a worker, what is after, and what is delivered: no task  *)
(* is in two of them.                                                      *)
Sides ==
  QueuedIs /\ \A t : ~(t \in Before /\ t \in After) /\ ~(t \in After /\ t \in replies)

LEMMA SidesAre == ClusterInv => Sides
<1>1. SUFFICES ASSUME ClusterInv PROVE Sides
  OBVIOUS
<1>2. QueuedIs /\ AllApart
  BY <1>1, QueuedAlways, TasksApart DEF ClusterInv, TasksTypeOK
<1>3. ASSUME NEW t
      PROVE  ~(t \in Before /\ t \in After) /\ ~(t \in After /\ t \in replies)
  <2>1. PICK place :
          /\ t \in requests => place = "requests"
          /\ t \in replies => place = "replies"
          /\ Has(toCloud, t) => place = "toCloud"
          /\ Has(fromCloud, t) => place = "fromCloud"
          /\ Carries(toWorker, t) => place = "toWorker"
          /\ Carries(fromWorker, t) => place = "fromWorker"
    BY <1>2 DEF AllApart, Apart
  <2>2. QED
    BY <1>2, <2>1 DEF QueuedIs, IsBefore, IsAfter
<1>4. QED
  BY <1>2, <1>3 DEF Sides

LEMMA SidesStay == ClusterInv' => Sides'
  BY SidesAre, PTL

LEMMA SidesBoth ==
  ASSUME Sides, Sides'
  PROVE  /\ \A t : t \in Before <=> IsBefore(requests, toCloud, toWorker, t)
         /\ \A t : t \in After <=> IsAfter(fromCloud, fromWorker, t)
         /\ \A t : t \in Before' <=> IsBefore(requests', toCloud', toWorker', t)
         /\ \A t : t \in After' <=> IsAfter(fromCloud', fromWorker', t)
         /\ \A t : ~(t \in Before' /\ t \in After') /\ ~(t \in After' /\ t \in replies')
  BY DEF Sides, QueuedIs

(***************************************************************************)
(* The steps of the service.                                               *)
(***************************************************************************)
LEMMA NoStep ==
  ASSUME \A t : t \in Before' <=> t \in Before, \A t : t \in After' <=> t \in After,
         UNCHANGED <<replies, task_seq>>, stops' > 0 <=> stops > 0
  PROVE  ServiceStep
<1>1. Before' = Before /\ After' = After
  OBVIOUS
<1>2. QED
  BY <1>1 DEF ServiceStep

LEMMA FailStep ==
  ASSUME \A t : t \in Before' => t \in Before, \A t : t \in After' => t \in After,
         \A t : t \in replies' => t \in replies, UNCHANGED task_seq, stops' > 0
  PROVE  ServiceStep
<1>1. Before' \subseteq Before /\ After' \subseteq After /\ replies' \subseteq replies
  OBVIOUS
<1>2. (stops > 0)' = TRUE
  OBVIOUS
<1>3. Service!Fail
  BY <1>1, <1>2 DEF Service!Fail
<1>4. QED
  BY <1>3 DEF ServiceStep, Service!Next

LEMMA AskStep ==
  ASSUME NEW t \in Task, t.seq = task_seq[t.client] + 1,
         task_seq' = [task_seq EXCEPT ![t.client] = t.seq],
         \A u : u \in Before' <=> u \in Before \/ u = t, \A u : u \in After' <=> u \in After,
         UNCHANGED <<replies, stops>>
  PROVE  ServiceStep
<1>1. Before' = Before \cup {t} /\ After' = After
  OBVIOUS
<1>2. Service!Ask(t)
  BY <1>1 DEF Service!Ask
<1>3. QED
  BY <1>2 DEF ServiceStep, Service!Next

LEMMA ExecuteStep ==
  ASSUME NEW t \in Task, \A u : u \in Before <=> u \in Before' \/ u = t,
         \A u : u \in After' <=> u \in After \/ u = t, t \notin Before',
         UNCHANGED <<replies, stops, task_seq>>
  PROVE  ServiceStep
<1>1. Before' = Before \ {t} /\ After' = After \cup {t} /\ t \in Before
  OBVIOUS
<1>2. Service!Execute(t)
  BY <1>1 DEF Service!Execute
<1>3. QED
  BY <1>2 DEF ServiceStep, Service!Next

LEMMA DeliverStep ==
  ASSUME NEW t \in Task, \A u : u \in Before' <=> u \in Before,
         \A u : u \in After <=> u \in After' \/ u = t, t \notin After',
         replies' = replies \cup {t}, UNCHANGED <<stops, task_seq>>
  PROVE  ServiceStep
<1>1. Before' = Before /\ After' = After \ {t} /\ t \in After
  OBVIOUS
<1>2. Service!Deliver(t)
  BY <1>1 DEF Service!Deliver
<1>3. QED
  BY <1>2 DEF ServiceStep, Service!Next

LEMMA ReadStep ==
  ASSUME NEW t \in Task, t \in replies, replies' = replies \ {t},
         \A u : u \in Before' <=> u \in Before, \A u : u \in After' <=> u \in After,
         UNCHANGED <<stops, task_seq>>
  PROVE  ServiceStep
<1>1. Before' = Before /\ After' = After
  OBVIOUS
<1>2. Service!Read(t)
  BY <1>1 DEF Service!Read
<1>3. QED
  BY <1>2 DEF ServiceStep, Service!Next

(* The types those lemmas need.                                            *)
Pipes ==
  /\ toCloud \in [Pairs -> Seq(Task)] /\ fromCloud \in [Pairs -> Seq(Task)]
  /\ toWorker \in [Worker -> Seq(Envelope)]
  /\ fromWorker \in [Worker -> Seq(Envelope \cup {WORKER_READY})]
  /\ requests \subseteq Task /\ replies \subseteq Task
  /\ task_seq \in [Client -> 0..MaxTasks] /\ life \in [Broker -> 0..(MaxStops + 1)]
  /\ stops \in 0..MaxStops /\ linked \subseteq known
  /\ \A w \in Worker : Len(toWorker[w]) + Len(fromWorker[w]) <= 1

LEMMA PipesTyped == ClusterInv => Pipes
  BY DEF ClusterInv, TasksTypeOK, ClusterNetTypeOK, ClusterTasksTypeOK, ClusterBrokerTypeOK,
     Pipes

(* Of a worker's two pipes, one at least is empty.                         *)
LEMMA OneMessage ==
  ASSUME Pipes, NEW w \in Worker
  PROVE  /\ toWorker[w] # <<>> => Len(toWorker[w]) = 1 /\ fromWorker[w] = <<>>
         /\ fromWorker[w] # <<>> => Len(fromWorker[w]) = 1 /\ toWorker[w] = <<>>
<1>1. PICK p \in Seq(Envelope) : p = toWorker[w]
  BY DEF Pipes
<1>2. PICK q \in Seq(Envelope \cup {WORKER_READY}) : q = fromWorker[w]
  BY DEF Pipes
<1>3. /\ p # <<>> => Len(p) \in Nat \ {0}
      /\ q # <<>> => Len(q) \in Nat \ {0}
      /\ Len(p) \in Nat /\ Len(q) \in Nat
  BY EmptySeq, <1>1, <1>2
<1>4. Len(p) + Len(q) <= 1
  BY <1>1, <1>2 DEF Pipes
<1>5. PICK m \in Nat : m = Len(p)
  BY <1>3
<1>6. PICK n \in Nat : n = Len(q)
  BY <1>3
<1>7. (m > 0 => m = 1 /\ n = 0) /\ (n > 0 => n = 1 /\ m = 0)
  BY <1>4, <1>5, <1>6
<1>8. (p # <<>> => m = 1 /\ q = <<>>) /\ (q # <<>> => n = 1 /\ p = <<>>)
  BY <1>3, <1>5, <1>6, <1>7
<1>9. QED
  BY <1>1, <1>2, <1>5, <1>6, <1>8

(* The message that READY is carries no task.                              *)
LEMMA HeldTask ==
  /\ \A u : ~Holds(WORKER_READY, u)
  /\ \A e \in Envelope : e.task \in Task /\ \A u : Holds(e, u) <=> u = e.task
  /\ \A e \in Envelope \cup {WORKER_READY} : e # WORKER_READY => e \in Envelope
<1>1. \A e \in Envelope : e.task \in Task
  BY DEF Envelope
<1>2. QED
  BY <1>1, ReadyIsNoEnvelope DEF Holds

LEMMA TaskAsked ==
  ASSUME ClusterInv, ClusterInv', NEW c \in Client, CTask(c), UNCHANGED stops
  PROVE  ServiceStep
<1>1. PICK t : t = [client |-> c, life |-> life[Home(c)], seq |-> task_seq[c] + 1]
  OBVIOUS
<1>2. /\ requests' = requests \cup {t} /\ task_seq' = [task_seq EXCEPT ![c] = @ + 1]
      /\ UNCHANGED <<toCloud, fromCloud, replies, toWorker, fromWorker>>
  BY <1>1 DEF CTask, cloudVars
<1>3. t \in Task
  BY <1>2, PipesTyped DEF ClusterInv, TasksTypeOK, ClusterNetTypeOK
<1>4. t.client = c /\ t.seq = task_seq[c] + 1
  BY <1>1
<1>5. task_seq' = [task_seq EXCEPT ![t.client] = t.seq]
  BY <1>2, <1>4
<1>6. Sides /\ Sides'
  BY SidesAre, SidesStay
<1>7. (\A u : u \in Before' <=> u \in Before \/ u = t) /\ (\A u : u \in After' <=> u \in After)
  BY <1>2, <1>6, SidesBoth DEF IsBefore, IsAfter
<1>8. replies' = replies
  BY <1>2
<1>9. QED
  BY <1>3, <1>4, <1>5, <1>7, <1>8, AskStep

LEMMA TaskRead ==
  ASSUME ClusterInv, ClusterInv', NEW c \in Client, CReply(c), UNCHANGED stops
  PROVE  ServiceStep
<1>1. PICK t \in replies : replies' = replies \ {t}
  BY DEF CReply
<1>2. UNCHANGED <<toCloud, fromCloud, requests, toWorker, fromWorker, task_seq>>
  BY DEF CReply, cloudVars
<1>3. t \in Task
  BY PipesTyped DEF Pipes
<1>4. Sides /\ Sides'
  BY SidesAre, SidesStay
<1>5. (\A u : u \in Before' <=> u \in Before) /\ (\A u : u \in After' <=> u \in After)
  BY <1>2, <1>4, SidesBoth DEF IsBefore, IsAfter
<1>6. QED
  BY <1>1, <1>2, <1>3, <1>5, ReadStep

LEMMA TasksUntouched ==
  ASSUME ClusterInv, ClusterInv', stops' > 0 <=> stops > 0,
         UNCHANGED <<toCloud, fromCloud, requests, replies, toWorker, fromWorker, task_seq>>
  PROVE  ServiceStep
<1>1. Sides /\ Sides'
  BY SidesAre, SidesStay
<1>2. (\A u : u \in Before' <=> u \in Before) /\ (\A u : u \in After' <=> u \in After)
  BY <1>1, SidesBoth DEF IsBefore, IsAfter
<1>3. QED
  BY <1>2, NoStep

LEMMA ReadySaid ==
  ASSUME ClusterInv, ClusterInv', NEW w \in Worker, WReady(w), UNCHANGED stops
  PROVE  ServiceStep
<1>1. /\ fromWorker' = [fromWorker EXCEPT ![w] = Append(@, WORKER_READY)]
      /\ UNCHANGED <<toCloud, fromCloud, requests, replies, toWorker, task_seq>>
      /\ w \notin started
  BY DEF WReady, cloudVars
<1>2. fromWorker[w] = <<>>
  BY <1>1 DEF ClusterInv, WorkersInv
<1>3. fromWorker \in [Worker -> Seq(Envelope \cup {WORKER_READY})]
  BY PipesTyped DEF Pipes
<1>4. \A u : Carries(fromWorker', u) <=> Carries(fromWorker, u) \/ Holds(WORKER_READY, u)
  <2>1. PICK q : q = fromWorker'
    OBVIOUS
  <2>2. WORKER_READY \in Envelope \cup {WORKER_READY}
    OBVIOUS
  <2>3. Came(fromWorker, w, WORKER_READY, q)
    BY <1>1, <2>1 DEF Came
  <2>4. \A u : Carries(q, u) <=> Carries(fromWorker, u) \/ Holds(WORKER_READY, u)
    BY <1>2, <1>3, <2>2, <2>3, CarriesGiven
  <2>5. QED
    BY <2>1, <2>4
<1>5. Sides /\ Sides'
  BY SidesAre, SidesStay
<1>6. (\A u : u \in Before' <=> u \in Before) /\ (\A u : u \in After' <=> u \in After)
  BY <1>1, <1>4, <1>5, SidesBoth, HeldTask DEF IsBefore, IsAfter
<1>7. QED
  BY <1>1, <1>6, NoStep

LEMMA TaskExecuted ==
  ASSUME ClusterInv, ClusterInv', NEW w \in Worker, WTask(w), UNCHANGED stops
  PROVE  ServiceStep
<1>1. /\ toWorker[w] # <<>>
      /\ toWorker' = [toWorker EXCEPT ![w] = Tail(@)]
      /\ fromWorker' = [fromWorker EXCEPT ![w] = Append(@, Head(toWorker[w]))]
      /\ UNCHANGED <<toCloud, fromCloud, requests, replies, task_seq>>
  BY DEF WTask, cloudVars, taskVars
<1>2. Pipes /\ Len(toWorker[w]) = 1 /\ fromWorker[w] = <<>>
  BY <1>1, PipesTyped, OneMessage
<1>3. PICK msg : msg = Head(toWorker[w])
  OBVIOUS
<1>4. PICK p : p = toWorker'
  OBVIOUS
<1>5. PICK q : q = fromWorker'
  OBVIOUS
<1>6. \A u : /\ Carries(toWorker, u) <=> Carries(p, u) \/ Holds(msg, u)
             /\ msg \in Envelope
  <2>1. toWorker \in [Worker -> Seq(Envelope)] /\ Left(toWorker, w, p)
    BY <1>1, <1>2, <1>4 DEF Pipes, Left
  <2>2. QED
    BY <1>2, <1>3, <2>1, CarriesTaken
<1>7. msg \in Envelope /\ msg \in Envelope \cup {WORKER_READY}
  BY <1>6
<1>8. \A u : Carries(q, u) <=> Carries(fromWorker, u) \/ Holds(msg, u)
  <2>1. /\ fromWorker \in [Worker -> Seq(Envelope \cup {WORKER_READY})]
        /\ Came(fromWorker, w, msg, q)
    BY <1>1, <1>2, <1>3, <1>5 DEF Pipes, Came
  <2>2. QED
    BY <1>2, <1>7, <2>1, CarriesGiven
<1>9. PICK t \in Task : \A u : Holds(msg, u) <=> u = t
  BY <1>7, HeldTask
<1>10. Sides /\ Sides'
  BY SidesAre, SidesStay
<1>11. /\ \A u : u \in Before <=> u \in Before' \/ u = t
       /\ \A u : u \in After' <=> u \in After \/ u = t
  BY <1>1, <1>4, <1>5, <1>6, <1>8, <1>9, <1>10, SidesBoth DEF IsBefore, IsAfter
<1>12. t \notin Before'
  BY <1>10, <1>11, SidesBoth
<1>13. QED
  BY <1>1, <1>9, <1>11, <1>12, ExecuteStep

(* A task that is under way has been issued, in this life of its client or *)
(* an earlier one.                                                         *)
LEMMA QueuedKnown ==
  ASSUME ClusterInv, NEW t \in Task, t \in Before \/ t \in After
  PROVE  task_seq[t.client] > 0 /\ t.life <= life[Home(t.client)]
<1>1. PICK at \in [Task -> Place] : Located(at) /\ Known(at)
  BY DEF ClusterInv, TasksInv
<1>2. /\ AtFrontend(at, requests, replies) /\ AtWorkers(at, toWorker, fromWorker)
      /\ OnPipe(at, "toCloud", toCloud) /\ OnPipe(at, "fromCloud", fromCloud)
  BY <1>1, PipesAre DEF Located
<1>3. IsBefore(requests, toCloud, toWorker, t) \/ IsAfter(fromCloud, fromWorker, t)
  BY SidesAre DEF Sides, QueuedIs
<1>4. \/ at[t] = <<"requests">>
      \/ \E l : at[t] = <<"toCloud", l>>
      \/ \E l : at[t] = <<"fromCloud", l>>
      \/ \E w : at[t] = <<"toWorker", w>>
      \/ \E w : at[t] = <<"fromWorker", w>>
  BY <1>2, <1>3 DEF IsBefore, IsAfter, AtFrontend, AtWorkers, OnPipe, Has, Carries
<1>5. at[t] # Nowhere
  BY <1>4, PlacesApart
<1>6. t.seq <= task_seq[t.client] /\ t.life <= life[Home(t.client)]
  BY <1>1, <1>5 DEF Known
<1>7. t.seq \in 1..MaxTasks /\ t.client \in Client /\ task_seq \in [Client -> 0..MaxTasks]
  BY PipesTyped, Homes DEF Pipes
<1>8. QED
  BY <1>6, <1>7, Homes

(* A reply that does not reach its client is of an earlier life of it.     *)
LEMMA ReplyDelivered ==
  ASSUME ClusterInv, NEW t \in Task, t \in After
  PROVE  LET b == Home(t.client)
         IN  Delivered(b, t) = replies \cup {t} \/ (Delivered(b, t) = replies /\ stops > 0)
<1>1. PICK b \in Broker : b = Home(t.client)
  BY Homes
<1>2. t.life <= life[b] /\ t.life \in 1..(MaxStops + 1)
  BY <1>1, QueuedKnown, Homes
<1>3. life[b] <= stops + 1 /\ life[b] \in 0..(MaxStops + 1) /\ stops \in 0..MaxStops
  BY PipesTyped DEF ClusterInv, LivesInv, Pipes
<1>4. t.life = life[b] \/ stops > 0
  BY <1>2, <1>3, Homes
<1>5. QED
  BY <1>1, <1>4 DEF Delivered

LEMMA TakenFromWorker ==
  ASSUME ClusterInv, ClusterInv', NoneDropped, NEW b \in Broker, NEW w, TakeFromWorker(b, w)
  PROVE  ServiceStep
<1>1. PICK msg : msg = Head(fromWorker[w])
  OBVIOUS
<1>2. /\ w \in FromWorkers(b)
      /\ fromWorker' = [fromWorker EXCEPT ![w] = Tail(@)]
      /\ fromCloud' = IF msg # WORKER_READY /\ msg.peer \in Peers(b)
                      THEN CloudReplied(<<msg.peer, b>>, msg.task) ELSE fromCloud
      /\ replies' = IF msg # WORKER_READY /\ msg.peer \notin Peers(b)
                    THEN Delivered(b, msg.task) ELSE replies
      /\ UNCHANGED <<stops, task_seq, requests, toCloud, toWorker>>
  BY <1>1 DEF TakeFromWorker, taskVars
<1>3. w \in Worker /\ Pipes /\ Len(fromWorker[w]) = 1
  BY <1>2, PipesTyped, OneMessage DEF FromWorkers
<1>4. PICK q : q = fromWorker'
  OBVIOUS
<1>5. \A u : /\ Carries(fromWorker, u) <=> Carries(q, u) \/ Holds(msg, u)
             /\ msg \in Envelope \cup {WORKER_READY}
  <2>1. /\ fromWorker \in [Worker -> Seq(Envelope \cup {WORKER_READY})]
        /\ Left(fromWorker, w, q)
    BY <1>2, <1>3, <1>4 DEF Pipes, Left
  <2>2. QED
    BY <1>1, <1>3, <2>1, CarriesTaken
<1>6. Sides /\ Sides'
  BY SidesAre, SidesStay
<1>7. \A u : u \in Before' <=> u \in Before
  BY <1>2, <1>6, SidesBoth DEF IsBefore
<1>8. CASE msg = WORKER_READY
  <2>1. fromCloud' = fromCloud /\ replies' = replies
    BY <1>2, <1>8
  <2>2. \A u : u \in After' <=> u \in After
    BY <1>4, <1>5, <1>6, <1>8, <2>1, SidesBoth, HeldTask DEF IsAfter
  <2>3. QED
    BY <1>2, <1>7, <2>1, <2>2, NoStep
<1>9. CASE msg # WORKER_READY
  <2>1. msg \in Envelope
    BY <1>5, <1>9, HeldTask
  <2>2. PICK t \in Task : t = msg.task /\ \A u : Holds(msg, u) <=> u = t
    BY <2>1, HeldTask
  <2>3. msg.peer \in Broker /\ Home(t.client) = msg.peer
    <3>1. fromWorker[w][1] = msg /\ 1 \in 1..Len(fromWorker[w])
      BY <1>1, <1>3 DEF Pipes
    <3>2. QED
      BY <1>3, <1>9, <2>1, <2>2, <3>1 DEF ClusterInv, HopsInv, Envelope
  <2>4. /\ t \in After
        /\ \A u : IsAfter(fromCloud, fromWorker, u) <=>
                   Has(fromCloud, u) \/ Carries(q, u) \/ u = t
    BY <1>5, <1>6, <2>2, SidesBoth DEF IsAfter
  <2>5. CASE msg.peer \in Peers(b)
    <3>1. PICK l \in Pairs : l = <<msg.peer, b>>
      BY <2>5, Homes
    <3>2. fromCloud' = CloudReplied(l, t) /\ replies' = replies
      BY <1>2, <1>9, <2>2, <2>5, <3>1
    <3>3. CASE l \in linked
      <4>1. PICK r : r = fromCloud'
        OBVIOUS
      <4>2. Came(fromCloud, l, t, r) /\ fromCloud \in [Pairs -> Seq(Task)]
        BY <1>3, <3>2, <3>3, <4>1 DEF CloudReplied, Came, Pipes
      <4>3. \A u : Has(r, u) <=> Has(fromCloud, u) \/ u = t
        BY <4>2, HasCame
      <4>4. \A u : u \in After' <=> u \in After
        BY <1>4, <1>6, <2>4, <4>1, <4>3, SidesBoth DEF IsAfter
      <4>5. QED
        BY <1>2, <1>7, <3>2, <4>4, NoStep
    <3>4. CASE l \notin linked
      <4>1. fromCloud' = fromCloud
        BY <3>2, <3>4 DEF CloudReplied
      <4>2. \A u : u \in After' => u \in After
        BY <1>4, <1>6, <2>4, <4>1, SidesBoth DEF IsAfter
      <4>3. stops # 0
        <5>1. t.client \in Client /\ task_seq[t.client] > 0 /\ b \in Peers(Home(t.client))
          BY <2>3, <2>4, <2>5, QueuedKnown, Homes DEF Peers
        <5>2. <<Home(t.client), b>> \notin linked
          BY <2>3, <3>1, <3>4
        <5>3. QED
          BY <5>1, <5>2 DEF NoneDropped
      <4>4. stops' > 0
        BY <1>2, <1>3, <4>3, Homes DEF Pipes
      <4>5. QED
        BY <1>2, <1>7, <3>2, <4>2, <4>4, FailStep
    <3>5. QED
      BY <3>3, <3>4
  <2>6. CASE msg.peer \notin Peers(b)
    <3>1. Home(t.client) = b
      BY <2>3, <2>6 DEF Peers
    <3>2. fromCloud' = fromCloud /\ replies' = Delivered(b, t)
      BY <1>2, <1>9, <2>2, <2>6
    <3>3. \A u : u \in After <=> u \in After' \/ u = t
      BY <1>4, <1>6, <2>4, <3>2, SidesBoth DEF IsAfter
    <3>4. CASE replies' = replies \cup {t}
      <4>1. t \notin After'
        BY <1>6, <3>4, SidesBoth
      <4>2. QED
        BY <1>2, <1>7, <3>3, <3>4, <4>1, DeliverStep
    <3>5. CASE replies' = replies /\ stops > 0
      BY <1>2, <1>7, <3>3, <3>5, FailStep
    <3>6. QED
      BY <2>4, <3>1, <3>2, <3>4, <3>5, ReplyDelivered
  <2>7. QED
    BY <2>5, <2>6
<1>10. QED
  BY <1>8, <1>9

LEMMA TakenFromCloud ==
  ASSUME ClusterInv, ClusterInv', NEW b \in Broker, NEW p, TakeFromCloud(b, p)
  PROVE  ServiceStep
<1>1. /\ p \in FromClouds(b)
      /\ fromCloud' = [fromCloud EXCEPT ![<<b, p>>] = Tail(@)]
      /\ replies' = Delivered(b, Head(fromCloud[<<b, p>>]))
      /\ UNCHANGED <<stops, task_seq, requests, toCloud, toWorker, fromWorker>>
  BY DEF TakeFromCloud, taskVars
<1>2. PICK l \in Pairs : l = <<b, p>> /\ fromCloud[l] # <<>>
  BY <1>1, Homes DEF FromClouds
<1>3. Pipes
  BY PipesTyped
<1>4. PICK q : q = fromCloud'
  OBVIOUS
<1>5. PICK t : t = Head(fromCloud[l])
  OBVIOUS
<1>6. \A u : (Has(fromCloud, u) <=> Has(q, u) \/ u = t) /\ t \in Task
  <2>1. fromCloud \in [Pairs -> Seq(Task)] /\ Left(fromCloud, l, q)
    BY <1>1, <1>2, <1>3, <1>4 DEF Pipes, Left
  <2>2. QED
    BY <1>2, <1>5, <2>1, HasLeft
<1>7. t \in Task /\ Home(t.client) = b
  <2>1. PICK s \in Seq(Task) : s = fromCloud[l] /\ s # <<>>
    BY <1>2, <1>3 DEF Pipes
  <2>2. Head(s) = s[1] /\ 1 \in 1..Len(s)
    BY <2>1, EmptySeq
  <2>3. Home(s[1].client) = l[1]
    BY <2>1, <2>2 DEF ClusterInv, HopsInv
  <2>4. QED
    BY <1>2, <1>5, <1>6, <2>1, <2>2, <2>3
<1>8. Sides /\ Sides'
  BY SidesAre, SidesStay
<1>9. /\ \A u : u \in Before' <=> u \in Before
      /\ \A u : u \in After <=> u \in After' \/ u = t
  BY <1>1, <1>4, <1>6, <1>8, SidesBoth DEF IsBefore, IsAfter
<1>10. replies' = Delivered(b, t) /\ t \in After
  BY <1>1, <1>2, <1>5, <1>9
<1>11. CASE replies' = replies \cup {t}
  <2>1. t \notin After'
    BY <1>8, <1>11, SidesBoth
  <2>2. QED
    BY <1>1, <1>7, <1>9, <1>11, <2>1, DeliverStep
<1>12. CASE replies' = replies /\ stops > 0
  BY <1>1, <1>9, <1>12, FailStep
<1>13. QED
  BY <1>7, <1>10, <1>11, <1>12, ReplyDelivered

(* A free worker has nothing to read.                                      *)
LEMMA FreeWorker ==
  ASSUME ClusterInv, NEW b \in Broker, NEW peer, NEW t, Give(b, peer, t)
  PROVE  \E w \in Worker :
           /\ toWorker[w] = <<>>
           /\ Came(toWorker, w, [peer |-> peer, task |-> t], toWorker')
<1>1. PICK list \in Seq(Worker) : list = available_workers[b] /\ list # <<>>
  BY DEF Give, ClusterInv, TasksTypeOK, ClusterBrokerTypeOK
<1>2. Head(list) = list[1] /\ Head(list) \in Worker /\ 1 \in 1..Len(list)
  BY <1>1, EmptySeq
<1>3. toWorker[Head(list)] = <<>>
  BY <1>1, <1>2 DEF ClusterInv, WorkersInv
<1>4. Came(toWorker, Head(list), [peer |-> peer, task |-> t], toWorker')
  BY <1>1 DEF Give, Came
<1>5. QED
  BY <1>2, <1>3, <1>4

LEMMA GivenIsCarried ==
  ASSUME ClusterInv, NEW b \in Broker, NEW peer \in Broker, NEW t \in Task, Give(b, peer, t)
  PROVE  \A u : Carries(toWorker', u) <=> Carries(toWorker, u) \/ u = t
<1>1. PICK msg : msg = [peer |-> peer, task |-> t]
  OBVIOUS
<1>2. PICK q : q = toWorker'
  OBVIOUS
<1>3. PICK w \in Worker : toWorker[w] = <<>> /\ Came(toWorker, w, msg, q)
  BY <1>1, <1>2, FreeWorker
<1>4. msg \in Envelope /\ msg.task = t
  BY <1>1 DEF Envelope
<1>5. toWorker \in [Worker -> Seq(Envelope)]
  BY PipesTyped DEF Pipes
<1>6. \A u : Carries(q, u) <=> Carries(toWorker, u) \/ Holds(msg, u)
  BY <1>3, <1>4, <1>5, CarriesGiven
<1>7. QED
  BY <1>2, <1>4, <1>6, HeldTask

LEMMA GivenLocally ==
  ASSUME ClusterInv, ClusterInv', NEW b \in Broker, NEW t, GiveLocal(b, t)
  PROVE  ServiceStep
<1>1. /\ t \in requests /\ requests' = requests \ {t} /\ Give(b, b, t)
      /\ UNCHANGED <<stops, task_seq, toCloud, fromCloud, replies, fromWorker>>
  BY DEF GiveLocal, FromClients, taskVars, cloudVars
<1>2. t \in Task
  BY <1>1, PipesTyped DEF Pipes
<1>3. \A u : Carries(toWorker', u) <=> Carries(toWorker, u) \/ u = t
  BY <1>1, <1>2, GivenIsCarried
<1>4. Sides /\ Sides'
  BY SidesAre, SidesStay
<1>5. (\A u : u \in Before' <=> u \in Before) /\ (\A u : u \in After' <=> u \in After)
  BY <1>1, <1>3, <1>4, SidesBoth DEF IsBefore, IsAfter
<1>6. QED
  BY <1>1, <1>5, NoStep

LEMMA GivenFromCloud ==
  ASSUME ClusterInv, ClusterInv', NEW b \in Broker, NEW p, GiveCloud(b, p)
  PROVE  ServiceStep
<1>1. /\ p \in FromPeers(b)
      /\ toCloud' = [toCloud EXCEPT ![<<p, b>>] = Tail(@)]
      /\ Give(b, p, Head(toCloud[<<p, b>>]))
      /\ UNCHANGED <<stops, task_seq, fromCloud, requests, replies, fromWorker>>
  BY DEF GiveCloud, taskVars
<1>2. PICK l \in Pairs : l = <<p, b>> /\ toCloud[l] # <<>>
  BY <1>1, Homes DEF FromPeers
<1>3. p \in Broker /\ Pipes
  BY <1>1, PipesTyped DEF FromPeers, Peers
<1>4. PICK q : q = toCloud'
  OBVIOUS
<1>5. PICK t : t = Head(toCloud[l])
  OBVIOUS
<1>6. \A u : (Has(toCloud, u) <=> Has(q, u) \/ u = t) /\ t \in Task
  <2>1. toCloud \in [Pairs -> Seq(Task)] /\ Left(toCloud, l, q)
    BY <1>1, <1>2, <1>3, <1>4 DEF Pipes, Left
  <2>2. QED
    BY <1>2, <1>5, <2>1, HasLeft
<1>7. t \in Task /\ Give(b, p, t)
  BY <1>1, <1>2, <1>5, <1>6
<1>8. \A u : Carries(toWorker', u) <=> Carries(toWorker, u) \/ u = t
  BY <1>3, <1>7, GivenIsCarried
<1>9. Sides /\ Sides'
  BY SidesAre, SidesStay
<1>10. (\A u : u \in Before' <=> u \in Before) /\ (\A u : u \in After' <=> u \in After)
  BY <1>1, <1>4, <1>6, <1>8, <1>9, SidesBoth DEF IsBefore, IsAfter
<1>11. QED
  BY <1>1, <1>10, NoStep

LEMMA Forwarded ==
  ASSUME ClusterInv, ClusterInv', NoneDropped, NEW b \in Broker, NEW p, NEW t, Forward(b, p, t)
  PROVE  ServiceStep
<1>1. /\ t \in requests /\ Home(t.client) = b /\ p \in Peers(b) /\ requests' = requests \ {t}
      /\ SendToCloud(<<b, p>>, t)
      /\ UNCHANGED <<stops, task_seq, fromCloud, replies, toWorker, fromWorker>>
  BY DEF Forward, FromClients, taskVars
<1>2. PICK l \in Pairs : l = <<b, p>>
  BY <1>1, Homes
<1>3. Pipes /\ t \in Task
  BY <1>1, PipesTyped DEF Pipes
<1>4. Sides /\ Sides'
  BY SidesAre, SidesStay
<1>5. \A u : u \in After' <=> u \in After
  BY <1>1, <1>4, SidesBoth DEF IsAfter
<1>6. CASE l \in known
  <2>1. PICK q : q = toCloud'
    OBVIOUS
  <2>2. Came(toCloud, l, t, q) /\ toCloud \in [Pairs -> Seq(Task)]
    BY <1>1, <1>2, <1>3, <1>6, <2>1 DEF SendToCloud, Came, Pipes
  <2>3. \A u : Has(q, u) <=> Has(toCloud, u) \/ u = t
    BY <1>3, <2>2, HasCame
  <2>4. \A u : u \in Before' <=> u \in Before
    BY <1>1, <1>4, <2>1, <2>3, SidesBoth DEF IsBefore
  <2>5. QED
    BY <1>1, <1>5, <2>4, NoStep
<1>7. CASE l \notin known
  <2>1. toCloud' = toCloud
    BY <1>1, <1>2, <1>7 DEF SendToCloud
  <2>2. t \in Before /\ \A u : u \in Before' => u \in Before
    BY <1>1, <1>4, <2>1, SidesBoth DEF IsBefore
  <2>3. stops # 0
    <3>1. t.client \in Client /\ task_seq[t.client] > 0
      BY <1>3, <2>2, QueuedKnown, Homes
    <3>2. <<Home(t.client), p>> \notin linked /\ p \in Peers(Home(t.client))
      BY <1>1, <1>2, <1>3, <1>7 DEF Pipes
    <3>3. QED
      BY <3>1, <3>2 DEF NoneDropped
  <2>4. stops' > 0
    BY <1>1, <1>3, <2>3, Homes DEF Pipes
  <2>5. QED
    BY <1>1, <1>5, <2>2, <2>4, FailStep
<1>8. QED
  BY <1>6, <1>7

LEMMA PartsAreFewer ==
  ASSUME PartsOnly
  PROVE  \A u : /\ Has(toCloud', u) => Has(toCloud, u)
                /\ Has(fromCloud', u) => Has(fromCloud, u)
                /\ Carries(toWorker', u) => Carries(toWorker, u)
                /\ Carries(fromWorker', u) => Carries(fromWorker, u)
<1>1. ASSUME NEW l \in Pairs
      PROVE  /\ \A i \in 1..Len(toCloud'[l]) : \E j \in 1..Len(toCloud[l]) :
                  toCloud'[l][i] = toCloud[l][j]
             /\ \A i \in 1..Len(fromCloud'[l]) : \E j \in 1..Len(fromCloud[l]) :
                  fromCloud'[l][i] = fromCloud[l][j]
  BY PartOfPipe DEF PartsOnly
<1>2. ASSUME NEW w \in Worker
      PROVE  /\ \A i \in 1..Len(toWorker'[w]) : \E j \in 1..Len(toWorker[w]) :
                  toWorker'[w][i] = toWorker[w][j]
             /\ \A i \in 1..Len(fromWorker'[w]) : \E j \in 1..Len(fromWorker[w]) :
                  fromWorker'[w][i] = fromWorker[w][j]
  BY PartOfPipe DEF PartsOnly
<1>3. ASSUME NEW u, Has(toCloud', u) PROVE Has(toCloud, u)
  BY <1>1, <1>3 DEF Has
<1>4. ASSUME NEW u, Has(fromCloud', u) PROVE Has(fromCloud, u)
  BY <1>1, <1>4 DEF Has
<1>5. ASSUME NEW u, Carries(toWorker', u) PROVE Carries(toWorker, u)
  BY <1>2, <1>5 DEF Carries
<1>6. ASSUME NEW u, Carries(fromWorker', u) PROVE Carries(fromWorker, u)
  BY <1>2, <1>6 DEF Carries
<1>7. QED
  BY <1>3, <1>4, <1>5, <1>6

LEMMA Fallen ==
  ASSUME ClusterInv, ClusterInv', NEW b \in Broker, Fall(b)
  PROVE  ServiceStep
<1>1. SocketsClosed(b) /\ stops' = stops + 1 /\ task_seq' = task_seq
  BY DEF Fall, TasksEnd
<1>2. PartsOnly
  BY <1>1, ClosedParts DEF ClusterInv, TasksTypeOK
<1>3. Sides /\ Sides'
  BY SidesAre, SidesStay
<1>4. requests' \subseteq requests /\ replies' \subseteq replies
  BY <1>2 DEF PartsOnly
<1>5. (\A u : u \in Before' => u \in Before) /\ (\A u : u \in After' => u \in After)
  BY <1>2, <1>3, <1>4, PartsAreFewer, SidesBoth DEF IsBefore, IsAfter
<1>6. stops' > 0
  BY <1>1, PipesTyped, Homes DEF Pipes
<1>7. QED
  BY <1>1, <1>4, <1>5, <1>6, FailStep

(* Each step of a broker, a client or a worker is one of the service, or   *)
(* none of its steps.                                                      *)
LEMMA CommonServed ==
  ASSUME ClusterInv, ClusterInv', NoneDropped, CommonStep
  PROVE  ServiceStep
<1>1. ASSUME NEW b \in Broker, Rise(b) PROVE ServiceStep
  BY <1>1, TasksUntouched DEF Rise, taskVars, netVars, cloudVars, localVars
<1>2. ASSUME NEW b \in Broker, Fall(b) PROVE ServiceStep
  BY <1>2, Fallen
<1>3. ASSUME NEW b \in Broker, Pass(b) PROVE ServiceStep
  BY <1>3, TasksUntouched DEF Pass, taskVars, netVars, cloudVars, localVars
<1>4. ASSUME NEW l \in Pairs, Connect(l) PROVE ServiceStep
  BY <1>4, TasksUntouched DEF Connect, Link, processVars, taskVars, localVars
<1>5. ASSUME NEW b \in Broker, NEW w, TakeFromWorker(b, w) PROVE ServiceStep
  BY <1>5, TakenFromWorker
<1>6. ASSUME NEW b \in Broker, NEW p, TakeFromCloud(b, p) PROVE ServiceStep
  BY <1>6, TakenFromCloud
<1>7. ASSUME NEW b \in Broker, NEW p, GiveCloud(b, p) PROVE ServiceStep
  BY <1>7, GivenFromCloud
<1>8. ASSUME NEW b \in Broker, NEW t, GiveLocal(b, t) PROVE ServiceStep
  BY <1>8, GivenLocally
<1>9. ASSUME NEW b \in Broker, NEW p, NEW t, Forward(b, p, t) PROVE ServiceStep
  BY <1>9, Forwarded
<1>10. ASSUME NEW c \in Client, ClientStep(c) PROVE ServiceStep
  <2>1. UNCHANGED stops
    BY <1>10 DEF ClientStep, processVars
  <2>2. CASE CLost(c)
    BY <2>1, <2>2, TasksUntouched DEF CLost, netVars, cloudVars, localVars
  <2>3. QED
    BY <1>10, <2>1, <2>2, TaskAsked, TaskRead DEF ClientStep
<1>11. ASSUME NEW w \in Worker, WorkerStep(w) PROVE ServiceStep
  BY <1>11, ReadySaid, TaskExecuted DEF WorkerStep, processVars
<1>12. QED
  BY <1>1, <1>2, <1>3, <1>4, <1>5, <1>6, <1>7, <1>8, <1>9, <1>10, <1>11 DEF CommonStep

(***************************************************************************)
(* Nothing is lost between brokers that know each other.                   *)
(***************************************************************************)
QueuedIsBoth == \A t : t \in Queued <=> t \in Before \/ t \in After

LEMMA QueuedBoth == ClusterNetTypeOK => QueuedIsBoth
  BY QueuedAre DEF QueuedIsBoth

LEMMA QueuedStaysBoth == ClusterNetTypeOK' => QueuedIsBoth'
  BY QueuedBoth, PTL

LEMMA ServedKeeps ==
  ASSUME ClusterInv, ClusterInv', ServiceStep, stops' = 0
  PROVE  \A t \in Queued : t \in Queued' \cup replies'
<1>1. /\ \A t : t \in Queued <=> t \in Before \/ t \in After
      /\ \A t : t \in Queued' <=> t \in Before' \/ t \in After'
  BY QueuedBoth, QueuedStaysBoth DEF ClusterInv, TasksTypeOK, QueuedIsBoth
<1>2. ~Service!Fail
  <2>1. ~(stops' > 0)
    OBVIOUS
  <2>2. QED
    BY <2>1 DEF Service!Fail
<1>3. ASSUME NEW t \in Before \cup After PROVE t \in Before' \cup After' \cup replies'
  BY <1>2, <1>3 DEF ServiceStep, Service!Next, Service!Ask, Service!Execute, Service!Deliver,
     Service!Read
<1>4. QED
  BY <1>1, <1>3

(* Once every cloud backend knows all its peers, and as long as no broker  *)
(* goes down, no task is lost on its way (prototype.cpp:232-242, 265-292). *)
THEOREM TasksAlwaysSurvive == Spec => TasksSurvive
<1>1. ASSUME ClusterInv, ClusterInv', [Next]_vars, known = Pairs,
             \A b \in Broker : Up(b) /\ Up(b)', stops = 0
      PROVE  \A t \in Queued : t \in Queued' \cup replies'
  <2>1. NoneDropped
    <3>1. known \subseteq linked
      BY <1>1 DEF ClusterInv, LinksInv
    <3>2. ASSUME NEW c \in Client, NEW p \in Peers(Home(c))
          PROVE  <<Home(c), p>> \in linked
      BY <1>1, <3>1, Homes
    <3>3. QED
      BY <3>2 DEF NoneDropped
  <2>2. CASE Next
    <3>1. CommonStep
      BY <1>1, <2>2, PrototypeStep
    <3>2. ServiceStep
      BY <1>1, <2>1, <3>1, CommonServed
    <3>3. \A b \in Broker : phase'[b] # "down"
      BY <1>1 DEF Up
    <3>4. \A b \in Broker : ~Fall(b)
      BY <1>1, <3>3 DEF Fall, ClusterInv, TasksTypeOK
    <3>5. stops' = 0
      BY <1>1, <3>1, <3>4 DEF CommonStep, Rise, Pass, Connect, TakeFromWorker, TakeFromCloud,
         GiveCloud, GiveLocal, Forward, ClientStep, WorkerStep, processVars
    <3>6. QED
      BY <1>1, <3>2, <3>5, ServedKeeps
  <2>3. CASE UNCHANGED vars
    <3>1. /\ UNCHANGED <<toCloud, fromCloud, requests, replies, toWorker, fromWorker, task_seq>>
          /\ stops' = 0
      BY <1>1, <2>3 DEF vars, brokerVars, processVars, taskVars, netVars, cloudVars, localVars
    <3>2. ServiceStep
      BY <1>1, <3>1, TasksUntouched
    <3>3. QED
      BY <1>1, <3>1, <3>2, ServedKeeps
  <2>4. QED
    BY <1>1, <2>2, <2>3
<1>2. ClusterInv /\ ClusterInv' /\ [Next]_vars =>
        [known = Pairs /\ (\A b \in Broker : Up(b) /\ Up(b)') /\ stops = 0
           => \A t \in Queued : t \in Queued' \cup replies']_vars
  BY <1>1
<1>3. QED
  BY <1>2, PrototypeInvariant, PTL DEF Spec, TasksSurvive

(***************************************************************************)
(* The cluster of task_flow.cpp is the service.                            *)
(***************************************************************************)

(* Until a broker goes down, one whose loop runs is connected to all its   *)
(* peers, and only the clients of such a broker have issued tasks.         *)
LoopsInv ==
  stops = 0 =>
    /\ \A b \in Broker : InLoop(b) => \A p \in Peers(b) : <<b, p>> \in linked
    /\ \A c \in Client : task_seq[c] > 0 => InLoop(Home(c))

ServiceInv == FlowInv /\ LoopsInv

LEMMA LoopsDropNone == ServiceInv => NoneDropped
  BY Homes DEF ServiceInv, LoopsInv, NoneDropped

LEMMA LoopsStart == FlowInit => ServiceInv
<1>1. FlowInit => LoopsInv
  BY Homes DEF FlowInit, LoopsInv, InLoop, ClusterBrokerInit, ClusterTasksInit
<1>2. QED
  BY <1>1, FlowStarts DEF ServiceInv

LEMMA LoopsKept ==
  ASSUME ServiceInv, FlowNext
  PROVE  LoopsInv'
<1>1. /\ phase \in [Broker -> FlowPhase] /\ task_seq \in [Client -> 0..MaxTasks]
      /\ stops \in 0..MaxStops /\ LoopsInv
  BY DEF ServiceInv, FlowInv, ClusterInv, TasksTypeOK, ClusterTasksTypeOK, ClusterBrokerTypeOK
<1>2. ASSUME \A d \in Broker : InLoop(d)' = InLoop(d), linked \subseteq linked',
             UNCHANGED <<stops, task_seq>>
      PROVE  LoopsInv'
  BY <1>1, <1>2, Homes DEF LoopsInv
<1>3. ASSUME NEW b \in Broker, FStart(b) PROVE LoopsInv'
  <2>1. \A d \in Broker : InLoop(d)' = InLoop(d)
    BY <1>1, <1>3 DEF FStart, InLoop
  <2>2. QED
    BY <1>2, <1>3, <2>1 DEF FStart, taskVars, netVars, cloudVars
<1>4. ASSUME NEW b \in Broker, FGo(b) PROVE LoopsInv'
  <2>1. /\ \A d \in Broker : InLoop(d)' <=> InLoop(d) \/ d = b
        /\ UNCHANGED <<stops, task_seq, linked>>
        /\ \A p \in Peers(b) : <<b, p>> \in linked
    BY <1>1, <1>4 DEF FGo, InLoop, AllStarted, taskVars, netVars, cloudVars
  <2>2. QED
    BY <1>1, <2>1, Homes DEF LoopsInv
<1>5. ASSUME NEW b \in Broker, FStop(b) PROVE LoopsInv'
  BY <1>1, <1>5, Homes DEF FStop, LoopsInv
<1>6. ASSUME NEW b \in Broker, FStep(b) PROVE LoopsInv'
  <2>1. \A d \in Broker : InLoop(d)' = InLoop(d)
    <3>1. phase[b] \in {"poll", "route"}
      BY <1>6 DEF FStep, FTurn, FReplyLocal, FReplyCloud, FNoReply, FDispatchCloud,
         FDispatchLocal, FReroute, FEndTurn, Routing
    <3>2. \E x \in {"poll", "route"} : phase' = [phase EXCEPT ![b] = x]
      <4>1. ASSUME FTurn(b) \/ FEndTurn(b)
            PROVE  \E x \in {"poll", "route"} : phase' = [phase EXCEPT ![b] = x]
        BY <4>1 DEF FTurn, FEndTurn
      <4>2. ASSUME phase' = phase
            PROVE  \E x \in {"poll", "route"} : phase' = [phase EXCEPT ![b] = x]
        BY <1>1, <3>1, <4>2
      <4>3. QED
        BY <1>6, <4>1, <4>2 DEF FStep, FReplyLocal, FReplyCloud, FNoReply, FDispatchCloud,
           FDispatchLocal, FReroute, flowBrokerVars, processVars
    <3>3. QED
      BY <1>1, <3>1, <3>2 DEF InLoop
  <2>2. UNCHANGED <<stops, task_seq, linked>>
    BY <1>6 DEF FStep, FTurn, FReplyLocal, FReplyCloud, FNoReply, FDispatchCloud, FDispatchLocal,
       FReroute, FEndTurn, flowBrokerVars, processVars, taskVars, cloudVars, netVars
  <2>3. QED
    BY <1>2, <2>1, <2>2
<1>7. ASSUME NEW l \in Pairs, FConnect(l) PROVE LoopsInv'
  BY <1>2, <1>7 DEF FConnect, Link, flowBrokerVars, processVars, taskVars, InLoop
<1>8. ASSUME NEW c \in Client, FlowClient(c) PROVE LoopsInv'
  <2>1. /\ InLoop(Home(c)) /\ UNCHANGED <<phase, stops, linked>>
        /\ \A d \in Client : task_seq'[d] > 0 => task_seq[d] > 0 \/ d = c
    BY <1>1, <1>8 DEF FlowClient, CTask, CReply, flowBrokerVars, processVars, cloudVars
  <2>2. QED
    BY <1>1, <2>1 DEF LoopsInv, InLoop
<1>9. ASSUME NEW w \in Worker, FlowWorker(w) PROVE LoopsInv'
  BY <1>2, <1>9 DEF FlowWorker, WReady, WTask, flowBrokerVars, processVars, taskVars, cloudVars,
     InLoop
<1>10. QED
  BY <1>3, <1>4, <1>5, <1>6, <1>7, <1>8, <1>9 DEF FlowNext

(* In a cluster of task_flow.cpp that no broker has left, every broker     *)
(* whose clients have issued tasks is connected to all its peers           *)
(* (task_flow.cpp:117-134).                                                *)
THEOREM ServiceInvariant == FlowSpec => []ServiceInv
<1>1. ServiceInv /\ [FlowNext]_flowVars => ServiceInv'
  <2>1. ASSUME ServiceInv, FlowNext PROVE ServiceInv'
    BY <2>1, FlowStepIs, CommonKeeps, CapacityKept, LoopsKept DEF FlowInv, ServiceInv
  <2>2. ASSUME ServiceInv, UNCHANGED flowVars PROVE ServiceInv'
    <3>1. /\ UNCHANGED <<processVars, taskVars, life, netVars, capacity>>
          /\ UNCHANGED <<available_workers, phase, stops, task_seq, linked>>
      BY <2>2 DEF flowVars, flowBrokerVars, processVars, taskVars, netVars, cloudVars
    <3>2. FlowInv'
      BY <2>2, <3>1, StutterKeeps DEF ServiceInv, FlowInv, CapacityInv
    <3>3. LoopsInv'
      BY <2>2, <3>1 DEF ServiceInv, LoopsInv, InLoop
    <3>4. QED
      BY <3>2, <3>3 DEF ServiceInv
  <2>3. QED
    BY <2>1, <2>2
<1>2. QED
  BY <1>1, LoopsStart, PTL DEF FlowSpec

LEMMA ServiceStarts == FlowInit => Service!Init
<1>1. SUFFICES ASSUME FlowInit PROVE Service!Init
  OBVIOUS
<1>2. /\ requests = {} /\ replies = {} /\ stops = 0 /\ task_seq = [c \in Client |-> 0]
      /\ toCloud = [l \in Pairs |-> <<>>] /\ fromCloud = [l \in Pairs |-> <<>>]
      /\ toWorker = [w \in Worker |-> <<>>] /\ fromWorker = [w \in Worker |-> <<>>]
  BY <1>1 DEF FlowInit, ClusterNetInit, ClusterTasksInit, ClusterBrokerInit
<1>3. 1..Len(<<>>) = {}
  OBVIOUS
<1>4. \A u : /\ ~Has(toCloud, u) /\ ~Has(fromCloud, u)
             /\ ~Carries(toWorker, u) /\ ~Carries(fromWorker, u)
  BY <1>2, <1>3 DEF Has, Carries
<1>5. Sides
  BY <1>1, FlowStarts, SidesAre DEF FlowInv
<1>6. Before = {} /\ After = {}
  BY <1>2, <1>4, <1>5 DEF Sides, QueuedIs, IsBefore, IsAfter
<1>7. QED
  BY <1>2, <1>6 DEF Service!Init

(* The cluster implements the service: a task is executed once, by some    *)
(* worker, and its result delivered once, whatever the route of the task,  *)
(* and none is lost before a broker goes down (task_flow.cpp:136-235).     *)
THEOREM ClusterIsService == FlowSpec => FlowIsService
<1>1. ServiceInv /\ ServiceInv' /\ [FlowNext]_flowVars => [Service!Next]_(Service!vars)
  <2>1. ASSUME ServiceInv, ServiceInv', [FlowNext]_flowVars PROVE ServiceStep
    <3>1. CASE FlowNext
      BY <2>1, <3>1, FlowStepIs, LoopsDropNone, CommonServed DEF ServiceInv, FlowInv
    <3>2. CASE UNCHANGED flowVars
      <4>1. /\ UNCHANGED <<toCloud, fromCloud, requests, replies, toWorker, fromWorker>>
            /\ UNCHANGED <<task_seq, stops>>
        BY <3>2 DEF flowVars, flowBrokerVars, processVars, taskVars, netVars, cloudVars, localVars
      <4>2. QED
        BY <2>1, <4>1, TasksUntouched DEF ServiceInv, FlowInv
    <3>3. QED
      BY <2>1, <3>1, <3>2
  <2>2. ServiceStep => [Service!Next]_(Service!vars)
    BY DEF ServiceStep, Service!vars
  <2>3. QED
    BY <2>1, <2>2
<1>2. QED
  BY <1>1, ServiceStarts, ServiceInvariant, PTL DEF FlowSpec, FlowIsService, Service!Spec
=============================================================================
