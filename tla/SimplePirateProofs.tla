------------------------- MODULE SimplePirateProofs -------------------------
(***************************************************************************)
(* Theorems about the Simple Pirate pattern, for any sets of workers and   *)
(* clients and any bounds.                                                 *)
(***************************************************************************)
EXTENDS SimplePirate, PirateProofs

(***************************************************************************)
(* What makes the list correct: a worker has one place, the list, its pipe *)
(* to the queue, its pipe from the queue, or a request it works on.  The   *)
(* pipes need it to stay within HWM, since a REQ socket sends without      *)
(* waiting for room, and the list is not empty once the poll has reported  *)
(* the frontend.                                                           *)
(***************************************************************************)
Available == {available_workers[i] : i \in 1..Len(available_workers)}

OnePlace(w) ==
  /\ Len(toWorker[w]) + Len(fromWorker[w]) <= 1
  /\ wphase[w] = "work" => toWorker[w] = <<>> /\ fromWorker[w] = <<>>
  /\ wphase[w] = "off" => toWorker[w] = <<>> /\ fromWorker[w] = <<>> /\ w \notin Available
  /\ w \in Available => toWorker[w] = <<>> /\ fromWorker[w] = <<>> /\ wphase[w] # "work"

ListedOnce ==
  \A i, j \in 1..Len(available_workers) :
    available_workers[i] = available_workers[j] => i = j

OnlyRequests == toWorker \in [Worker -> Seq([kind : {"REQUEST"}, body : Request])]

PolledListed == "frontend" \in revents => available_workers # <<>>

PlaceInv ==
  /\ TypeOK
  /\ \A w \in Worker : OnePlace(w)
  /\ ListedOnce
  /\ OnlyRequests
  /\ PolledListed

(***************************************************************************)
(* What zlist_push and zlist_pop make of a list of distinct workers.       *)
(***************************************************************************)
Members(list) == {list[i] : i \in 1..Len(list)}

Distinct(list) == \A i, j \in 1..Len(list) : list[i] = list[j] => i = j

LEMMA PushDistinct ==
  ASSUME NEW list \in Seq(Worker), Distinct(list), NEW w \in Worker, w \notin Members(list)
  PROVE  /\ <<w>> \o list \in Seq(Worker)
         /\ Distinct(<<w>> \o list)
         /\ Members(<<w>> \o list) = Members(list) \cup {w}
         /\ <<w>> \o list # <<>>
<1> DEFINE h == <<w>>
           r == h \o list
<1>1. h \in Seq(Worker) /\ Len(h) = 1 /\ h[1] = w
  OBVIOUS
<1> HIDE DEF h
<1>2. /\ Len(list) \in Nat
      /\ Len(r) = 1 + Len(list) /\ r \in Seq(Worker)
      /\ \A i \in 1..(1 + Len(list)) : r[i] = IF i <= 1 THEN h[i] ELSE list[i - 1]
  <2>1. r \in Seq(Worker)
    BY <1>1, ConcatProperties
  <2>2. /\ Len(list) \in Nat /\ Len(r) = Len(h) + Len(list)
        /\ \A i \in 1..(Len(h) + Len(list)) : r[i] = IF i <= Len(h) THEN h[i] ELSE list[i - Len(h)]
    BY <1>1, ConcatIs
  <2> HIDE DEF r
  <2>3. QED
    BY <1>1, <2>1, <2>2
<1> HIDE DEF r
<1>3. /\ r[1] = w
      /\ \A i \in 2..Len(r) : i - 1 \in 1..Len(list) /\ r[i] = list[i - 1]
      /\ \A i \in 1..Len(list) : i + 1 \in 2..Len(r) /\ r[i + 1] = list[i]
  BY <1>1, <1>2
<1>4. \A i \in 2..Len(r) : r[i] # w
  BY <1>3 DEF Members
<1>5. Distinct(r)
  <2> SUFFICES ASSUME NEW i \in 1..Len(r), NEW j \in 1..Len(r), r[i] = r[j]
               PROVE  i = j
    BY DEF Distinct
  <2>1. (i = 1 \/ i \in 2..Len(r)) /\ (j = 1 \/ j \in 2..Len(r))
    BY <1>2
  <2>2. CASE i \in 2..Len(r) /\ j \in 2..Len(r)
    <3>1. i - 1 = j - 1
      BY <1>3, <2>2 DEF Distinct
    <3>2. QED
      BY <2>2, <3>1
  <2>3. QED
    BY <1>3, <1>4, <2>1, <2>2
<1>6. Members(r) = Members(list) \cup {w}
  <2>1. Members(r) \subseteq Members(list) \cup {w}
    <3>1. ASSUME NEW i \in 1..Len(r)
          PROVE  r[i] \in Members(list) \cup {w}
      BY <1>2, <1>3 DEF Members
    <3>2. QED
      BY <3>1 DEF Members
  <2>2. w \in Members(r)
    BY <1>2, <1>3 DEF Members
  <2>3. Members(list) \subseteq Members(r)
    <3>1. ASSUME NEW i \in 1..Len(list)
          PROVE  list[i] \in Members(r)
      BY <1>2, <1>3 DEF Members
    <3>2. QED
      BY <3>1 DEF Members
  <2>4. QED
    BY <2>1, <2>2, <2>3
<1>7. r # <<>>
  BY <1>2, EmptySeq
<1>8. QED
  BY <1>2, <1>5, <1>6, <1>7 DEF r, h

LEMMA PopDistinct ==
  ASSUME NEW list \in Seq(Worker), Distinct(list), list # <<>>
  PROVE  /\ Tail(list) \in Seq(Worker)
         /\ Distinct(Tail(list))
         /\ Head(list) \in Members(list)
         /\ Members(Tail(list)) \subseteq Members(list) \ {Head(list)}
<1>1. /\ Len(list) \in Nat \ {0} /\ Head(list) = list[1]
      /\ Tail(list) \in Seq(Worker) /\ Len(Tail(list)) = Len(list) - 1
      /\ \A i \in 1..Len(Tail(list)) : Tail(list)[i] = list[i + 1]
  BY HeadTailProperties, LenProperties, EmptySeq
<1>2. \A i \in 1..Len(Tail(list)) : i + 1 \in 1..Len(list) /\ i + 1 # 1 /\ 1 \in 1..Len(list)
  BY <1>1
<1>3. Distinct(Tail(list))
  BY <1>1, <1>2 DEF Distinct
<1>4. Head(list) \in Members(list)
  BY <1>1 DEF Members
<1>5. Members(Tail(list)) \subseteq Members(list) \ {Head(list)}
  BY <1>1, <1>2 DEF Members, Distinct
<1>6. QED
  BY <1>1, <1>3, <1>4, <1>5

LEMMA ListIsDistinct == ListedOnce <=> Distinct(available_workers)
  BY DEF ListedOnce, Distinct

LEMMA AvailableIsMembers == Available = Members(available_workers)
  BY DEF Available, Members

(***************************************************************************)
(* The steps.  Each lemma says what a step of one process makes of the     *)
(* invariant.                                                              *)
(***************************************************************************)
JobMessage == [kind : {"REQUEST"}, body : Request]

LEMMA JobMessages ==
  /\ JobMessage \subseteq QueueMessage
  /\ \A m \in Request : RequestMsg(m) \in JobMessage
  /\ \A x \in JobMessage : x.kind = "REQUEST" /\ x.body \in Request
  BY DEF JobMessage, QueueMessage, RequestMsg

(* What the invariant says of the pipes.                                   *)
LEMMA PlacePipes ==
  ASSUME PlaceInv
  PROVE  /\ toWorker \in [Worker -> Seq(JobMessage)]
         /\ fromWorker \in [Worker -> Seq(WorkerMessage)]
         /\ \A w \in Worker :
              /\ Len(toWorker[w]) \in Nat /\ Len(fromWorker[w]) \in Nat
              /\ Len(toWorker[w]) + Len(fromWorker[w]) <= 1
              /\ toWorker[w] # <<>> =>
                   /\ Len(toWorker[w]) = 1 /\ fromWorker[w] = <<>>
                   /\ Head(toWorker[w]) \in JobMessage /\ Tail(toWorker[w]) = <<>>
              /\ fromWorker[w] # <<>> =>
                   /\ Len(fromWorker[w]) = 1 /\ toWorker[w] = <<>>
                   /\ Head(fromWorker[w]) \in WorkerMessage /\ Tail(fromWorker[w]) = <<>>
<1>1. /\ toWorker \in [Worker -> Seq(JobMessage)]
      /\ fromWorker \in [Worker -> Seq(WorkerMessage)]
  BY DEF PlaceInv, TypeOK, PPNetTypeOK, OnlyRequests, JobMessage
<1>2. ASSUME NEW S, NEW s \in Seq(S)
      PROVE  /\ Len(s) \in Nat /\ (Len(s) = 0 => s = <<>>) /\ (s # <<>> => Len(s) # 0)
             /\ s # <<>> /\ Len(s) = 1 => Head(s) \in S /\ Tail(s) = <<>>
  <2>1. Len(s) \in Nat /\ (Len(s) = 0 => s = <<>>) /\ (s # <<>> => Len(s) # 0)
    BY LenProperties, EmptySeq
  <2>2. ASSUME s # <<>>, Len(s) = 1
        PROVE  Head(s) \in S /\ Tail(s) = <<>>
    <3>1. Head(s) \in S /\ Tail(s) \in Seq(S) /\ Len(Tail(s)) = 0
      BY <2>2, HeadTailProperties
    <3>2. QED
      BY <3>1, EmptySeq
  <2>3. QED
    BY <2>1, <2>2
<1>3. ASSUME NEW w \in Worker
      PROVE  /\ Len(toWorker[w]) \in Nat /\ Len(fromWorker[w]) \in Nat
             /\ Len(toWorker[w]) + Len(fromWorker[w]) <= 1
             /\ toWorker[w] # <<>> =>
                  /\ Len(toWorker[w]) = 1 /\ fromWorker[w] = <<>>
                  /\ Head(toWorker[w]) \in JobMessage /\ Tail(toWorker[w]) = <<>>
             /\ fromWorker[w] # <<>> =>
                  /\ Len(fromWorker[w]) = 1 /\ toWorker[w] = <<>>
                  /\ Head(fromWorker[w]) \in WorkerMessage /\ Tail(fromWorker[w]) = <<>>
  <2>1. toWorker[w] \in Seq(JobMessage) /\ fromWorker[w] \in Seq(WorkerMessage)
    BY <1>1
  <2>2. Len(toWorker[w]) + Len(fromWorker[w]) <= 1
    BY DEF PlaceInv, OnePlace
  <2>3. /\ Len(toWorker[w]) \in Nat /\ Len(fromWorker[w]) \in Nat
        /\ toWorker[w] # <<>> => Len(toWorker[w]) # 0
        /\ fromWorker[w] # <<>> => Len(fromWorker[w]) # 0
        /\ Len(toWorker[w]) = 0 => toWorker[w] = <<>>
        /\ Len(fromWorker[w]) = 0 => fromWorker[w] = <<>>
    BY <1>2, <2>1
  <2>4. /\ toWorker[w] # <<>> => Len(toWorker[w]) = 1 /\ fromWorker[w] = <<>>
        /\ fromWorker[w] # <<>> => Len(fromWorker[w]) = 1 /\ toWorker[w] = <<>>
    <3>1. \A a, b \in Nat : a + b <= 1 => (a # 0 => a = 1 /\ b = 0) /\ (b # 0 => b = 1 /\ a = 0)
      OBVIOUS
    <3>2. QED
      BY <2>2, <2>3, <3>1
  <2>5. /\ toWorker[w] # <<>> => Head(toWorker[w]) \in JobMessage /\ Tail(toWorker[w]) = <<>>
        /\ fromWorker[w] # <<>> =>
             Head(fromWorker[w]) \in WorkerMessage /\ Tail(fromWorker[w]) = <<>>
    BY <1>2, <2>1, <2>4, Zenon
  <2>6. QED
    BY <2>2, <2>3, <2>4, <2>5
<1>4. QED
  BY <1>1, <1>3

(* The type of the backend follows from the rest.                          *)
LEMMA PlaceNetType ==
  ASSUME NEW t \in [Worker -> Seq(JobMessage)], NEW f \in [Worker -> Seq(WorkerMessage)],
         \A w \in Worker : Len(t[w]) + Len(f[w]) <= 1
  PROVE  /\ t \in [Worker -> Seq(QueueMessage)]
         /\ \A w \in Worker : Len(t[w]) <= HWM /\ Len(f[w]) <= HWM
<1>1. \A w \in Worker : t[w] \in Seq(QueueMessage)
  <2>1. ASSUME NEW w \in Worker
        PROVE  t[w] \in Seq(QueueMessage)
    <3>1. t[w] \in Seq(JobMessage) /\ \A i \in 1..Len(t[w]) : t[w][i] \in QueueMessage
      BY ElementOfSeq, JobMessages
    <3>2. QED
      BY <3>1, SeqDef
  <2>2. QED
    BY <2>1
<1>2. \A w \in Worker : Len(t[w]) \in Nat /\ Len(f[w]) \in Nat
  BY LenProperties
<1>3. QED
  BY <1>1, <1>2, HWMAssumption

(* A step of the frontend and the queue's bookkeeping alone.               *)
LEMMA PlaceElsewhere ==
  ASSUME PlaceInv, UNCHANGED <<available_workers, netVars, workerVars>>,
         FrontendTypeOK', LPClientTypeOK', SPQueueTypeOK', PolledListed'
  PROVE  PlaceInv'
<1>1. PPNetTypeOK' /\ SPWorkerTypeOK'
  BY DEF PlaceInv, TypeOK, PPNetTypeOK, SPWorkerTypeOK, netVars, workerVars, Running
<1>2. OnlyRequests' /\ ListedOnce' /\ \A w \in Worker : OnePlace(w)'
  BY DEF PlaceInv, OnlyRequests, ListedOnce, OnePlace, Available, netVars, workerVars
<1>3. QED
  BY <1>1, <1>2 DEF PlaceInv, TypeOK

(* A step of one worker, which leaves it in the phase p with the job j and *)
(* its pipes as t and f.                                                   *)
WorkerTurn(w, t, f, p, j) ==
  /\ t \in Seq(JobMessage) /\ toWorker' = [toWorker EXCEPT ![w] = t]
  /\ f \in Seq(WorkerMessage) /\ fromWorker' = [fromWorker EXCEPT ![w] = f]
  /\ p \in WorkerPhase \ {"off"} /\ wphase' = [wphase EXCEPT ![w] = p]
  /\ j \in Request \cup {NoJob} /\ job' = [job EXCEPT ![w] = j]
  /\ j # NoJob <=> p = "work"
  /\ cycles' \in [Worker -> 0..CRASH_FREE_CYCLES]
  /\ online' = IF p \in {"wait", "work"} THEN online \cup {w} ELSE online \ {w}
  /\ Len(t) + Len(f) <= 1
  /\ p = "work" => t = <<>> /\ f = <<>> /\ w \notin Available
  /\ w \in Available => t = <<>> /\ f = <<>>

LEMMA PlaceWorkerStep ==
  ASSUME PlaceInv, NEW w \in Worker,
         UNCHANGED <<queueVars, clientVars, frontendVars>>,
         NEW t, NEW f, NEW p, NEW j, WorkerTurn(w, t, f, p, j)
  PROVE  PlaceInv'
<1> USE DEF WorkerTurn
<1>1. /\ FrontendTypeOK' /\ LPClientTypeOK' /\ SPQueueTypeOK'
      /\ PolledListed' /\ ListedOnce' /\ Available' = Available
  BY DEF PlaceInv, TypeOK, FrontendTypeOK, LPClientTypeOK, SPQueueTypeOK, PolledListed,
     ListedOnce, Available, queueVars, clientVars, frontendVars
<1>2. /\ toWorker' \in [Worker -> Seq(JobMessage)]
      /\ fromWorker' \in [Worker -> Seq(WorkerMessage)]
      /\ toWorker'[w] = t /\ fromWorker'[w] = f /\ wphase'[w] = p
      /\ \A v \in Worker \ {w} : /\ toWorker'[v] = toWorker[v]
                                /\ fromWorker'[v] = fromWorker[v]
                                /\ wphase'[v] = wphase[v]
  BY PlacePipes DEF PlaceInv, TypeOK, SPWorkerTypeOK
<1>3. \A v \in Worker : OnePlace(v)'
  <2> SUFFICES ASSUME NEW v \in Worker PROVE OnePlace(v)'
    OBVIOUS
  <2>1. CASE v = w
    BY <1>1, <1>2, <2>1 DEF OnePlace
  <2>2. CASE v # w
    BY <1>1, <1>2, <2>2 DEF PlaceInv, OnePlace
  <2>3. QED
    BY <2>1, <2>2
<1>4. PPNetTypeOK'
  <2>1. \A v \in Worker : Len(toWorker'[v]) + Len(fromWorker'[v]) <= 1
    BY <1>3 DEF OnePlace
  <2>2. /\ toWorker' \in [Worker -> Seq(QueueMessage)]
        /\ \A v \in Worker : Len(toWorker'[v]) <= HWM /\ Len(fromWorker'[v]) <= HWM
    <3>1. PICK t2, f2 : t2 = toWorker' /\ f2 = fromWorker'
      OBVIOUS
    <3>2. QED
      BY <1>2, <2>1, <3>1, PlaceNetType
  <2>3. online' \subseteq Worker
    BY DEF PlaceInv, TypeOK, PPNetTypeOK
  <2>4. QED
    BY <1>2, <2>2, <2>3 DEF PPNetTypeOK
<1>5. SPWorkerTypeOK'
  <2>1. /\ wphase' \in [Worker -> WorkerPhase]
        /\ job' \in [Worker -> Request \cup {NoJob}]
    BY DEF PlaceInv, TypeOK, SPWorkerTypeOK
  <2>2. \A v \in Worker : job'[v] # NoJob <=> wphase'[v] = "work"
    BY DEF PlaceInv, TypeOK, SPWorkerTypeOK
  <2>3. \A v \in Worker : Running(v)' <=> IF v = w THEN p \in {"wait", "work"} ELSE Running(v)
    BY <1>2 DEF Running
  <2>4. online' = {v \in Worker : Running(v)'}
    BY <2>3 DEF PlaceInv, TypeOK, SPWorkerTypeOK
  <2>5. QED
    BY <2>1, <2>2, <2>4 DEF SPWorkerTypeOK
<1>6. QED
  BY <1>1, <1>2, <1>3, <1>4, <1>5 DEF PlaceInv, TypeOK, OnlyRequests, JobMessage

LEMMA JobIsRequest == \A m \in Request : m # NoJob
<1>1. DOMAIN NoJob = {"kind"}
  BY DEF NoJob
<1>2. \A m \in Request : DOMAIN m = {"client", "route", "seq"}
  BY DEF Request
<1>3. {"kind"} # {"client", "route", "seq"}
  OBVIOUS
<1>4. QED
  BY <1>1, <1>2, <1>3

(* The prefix of what a worker sent that its closed socket leaves.         *)
LEMMA ClosedPipe ==
  ASSUME NEW s \in Seq(WorkerMessage), NEW n \in 0..Len(s)
  PROVE  /\ SubSeq(s, 1, n) \o <<>> \in Seq(WorkerMessage)
         /\ Len(SubSeq(s, 1, n) \o <<>>) = n
<1>1. Len(s) \in Nat /\ \A i \in 1..n : s[i] \in WorkerMessage
  BY LenProperties, ElementOfSeq
<1>2. SubSeq(s, 1, n) \in Seq(WorkerMessage) /\ Len(SubSeq(s, 1, n)) = n
  BY <1>1, SubSeqProperties
<1>3. <<>> \in Seq(WorkerMessage) /\ Len(<<>>) = 0
  BY EmptySeq
<1>4. QED
  BY <1>2, <1>3, ConcatProperties

LEMMA PlaceWorker ==
  ASSUME PlaceInv, NEW w \in Worker, UNCHANGED <<queueVars, clientVars>>,
         SWStart(w) \/ SWRequest(w) \/ SWReply(w) \/ SWExit(w)
  PROVE  PlaceInv'
<1>1. /\ toWorker \in [Worker -> Seq(JobMessage)]
      /\ fromWorker \in [Worker -> Seq(WorkerMessage)]
      /\ toWorker[w] \in Seq(JobMessage) /\ fromWorker[w] \in Seq(WorkerMessage)
      /\ <<>> \in Seq(JobMessage) /\ <<>> \in Seq(WorkerMessage) /\ Len(<<>>) = 0
  BY PlacePipes, EmptySeq
<1>2. /\ wphase \in [Worker -> WorkerPhase]
      /\ job \in [Worker -> Request \cup {NoJob}]
      /\ cycles \in [Worker -> 0..CRASH_FREE_CYCLES]
      /\ job[w] # NoJob <=> wphase[w] = "work"
      /\ \A v : v \in online <=> v \in Worker /\ Running(v)
  BY DEF PlaceInv, TypeOK, SPWorkerTypeOK
<1>3. /\ toWorker = [toWorker EXCEPT ![w] = toWorker[w]]
      /\ fromWorker = [fromWorker EXCEPT ![w] = fromWorker[w]]
      /\ job = [job EXCEPT ![w] = job[w]]
  BY <1>1, <1>2
<1>4. UNCHANGED frontendVars
  BY DEF SWStart, SWRequest, SWReply, SWExit, frontendVars
<1>5. OnePlace(w)
  BY DEF PlaceInv
<1>6. ASSUME NEW m \in WorkerMessage, fromWorker[w] = <<>>
      PROVE  /\ Append(fromWorker[w], m) \in Seq(WorkerMessage)
             /\ Len(Append(fromWorker[w], m)) = 1
  BY <1>1, <1>6, AppendProperties
<1>7. ASSUME NEW t, NEW f, NEW p, NEW j, WorkerTurn(w, t, f, p, j)
      PROVE  PlaceInv'
  BY <1>4, <1>7, PlaceWorkerStep
<1>8. CASE SWStart(w)
  <2>1. PICK f, t, j : f = Append(fromWorker[w], READY) /\ t = toWorker[w] /\ j = job[w]
    OBVIOUS
  <2>2. /\ f \in Seq(WorkerMessage) /\ Len(f) = 1 /\ t = <<>> /\ j = NoJob
        /\ w \notin Available
    BY <1>2, <1>5, <1>6, <1>8, <2>1, MessageTypes DEF SWStart, OnePlace
  <2>3. /\ fromWorker' = [fromWorker EXCEPT ![w] = f]
        /\ toWorker' = [toWorker EXCEPT ![w] = t]
        /\ job' = [job EXCEPT ![w] = j]
        /\ wphase' = [wphase EXCEPT ![w] = "wait"]
        /\ online' = online \cup {w} /\ cycles' = cycles
    BY <1>3, <1>8, <2>1 DEF SWStart, Sends
  <2>4. WorkerTurn(w, t, f, "wait", j)
    BY <1>1, <1>2, <2>2, <2>3 DEF WorkerPhase, WorkerTurn
  <2>5. QED
    BY <1>7, <2>4
<1>9. CASE SWRequest(w)
  <2>1. PICK f, t, j : f = fromWorker[w] /\ t = Tail(toWorker[w]) /\ j = Head(toWorker[w]).body
    OBVIOUS
  <2>2. /\ f = <<>> /\ t = <<>> /\ j \in Request /\ j # NoJob
        /\ w \notin Available /\ Running(w)
    BY <1>5, <1>9, <2>1, PlacePipes, JobMessages, JobIsRequest
    DEF SWRequest, OnePlace, Running
  <2>3. /\ fromWorker' = [fromWorker EXCEPT ![w] = f]
        /\ toWorker' = [toWorker EXCEPT ![w] = t]
        /\ job' = [job EXCEPT ![w] = j]
        /\ wphase' = [wphase EXCEPT ![w] = "work"]
        /\ online' = online
    BY <1>1, <1>3, <1>9, <2>1 DEF SWRequest
  <2>4. cycles' \in [Worker -> 0..CRASH_FREE_CYCLES]
    BY <1>2, <1>9, CyclesAssumption DEF SWRequest
  <2>5. online' = online \cup {w}
    BY <1>2, <2>2, <2>3
  <2>6. WorkerTurn(w, t, f, "work", j)
    <3>1. Len(t) + Len(f) <= 1 /\ t \in Seq(JobMessage) /\ f \in Seq(WorkerMessage)
      BY <1>1, <2>2
    <3>2. "work" \in WorkerPhase \ {"off"}
      BY DEF WorkerPhase
    <3>3. QED
      BY <2>2, <2>3, <2>4, <2>5, <3>1, <3>2 DEF WorkerTurn
  <2>7. QED
    BY <1>7, <2>6
<1>10. CASE SWReply(w)
  <2>1. PICK f, t : f = Append(fromWorker[w], ReplyMsg(job[w])) /\ t = toWorker[w]
    OBVIOUS
  <2>2. /\ f \in Seq(WorkerMessage) /\ Len(f) = 1 /\ t = <<>>
        /\ w \notin Available /\ Running(w)
    BY <1>2, <1>5, <1>6, <1>10, <2>1, MessageTypes DEF SWReply, OnePlace, Running
  <2>3. /\ fromWorker' = [fromWorker EXCEPT ![w] = f]
        /\ toWorker' = [toWorker EXCEPT ![w] = t]
        /\ job' = [job EXCEPT ![w] = NoJob]
        /\ wphase' = [wphase EXCEPT ![w] = "wait"]
        /\ online' = online /\ cycles' = cycles
    BY <1>3, <1>10, <2>1 DEF SWReply, Sends
  <2>4. online' = online \cup {w}
    BY <1>2, <2>2, <2>3
  <2>5. WorkerTurn(w, t, f, "wait", NoJob)
    BY <1>1, <1>2, <2>2, <2>3, <2>4 DEF WorkerPhase, WorkerTurn
  <2>6. QED
    BY <1>7, <2>5
<1>11. CASE SWExit(w)
  <2>1. PICK n \in 0..Len(fromWorker[w]) :
          fromWorker' = [fromWorker EXCEPT ![w] = SubSeq(@, 1, n) \o <<>>]
    BY <1>11 DEF SWExit, ClosePipes
  <2>2. PICK f : f = SubSeq(fromWorker[w], 1, n) \o <<>>
    OBVIOUS
  <2>3. /\ f \in Seq(WorkerMessage) /\ Len(f) = n
        /\ Len(f) <= 1 /\ (fromWorker[w] = <<>> => f = <<>>)
    <3>1. f \in Seq(WorkerMessage) /\ Len(f) = n
      BY <1>1, <2>2, ClosedPipe
    <3>2. Len(fromWorker[w]) \in Nat /\ Len(toWorker[w]) \in Nat
      BY PlacePipes
    <3>3. Len(f) <= 1 /\ (fromWorker[w] = <<>> => Len(f) = 0)
      BY <1>1, <1>5, <3>1, <3>2 DEF OnePlace
    <3>4. QED
      BY <3>1, <3>3, EmptySeq
  <2>4. /\ fromWorker' = [fromWorker EXCEPT ![w] = f]
        /\ toWorker' = [toWorker EXCEPT ![w] = <<>>]
        /\ job' = [job EXCEPT ![w] = NoJob]
        /\ wphase' = [wphase EXCEPT ![w] = "dead"]
        /\ online' = online \ {w}
        /\ cycles' = [cycles EXCEPT ![w] = 0]
    BY <1>1, <1>11, <2>1, <2>2 DEF SWExit, ClosePipes
  <2>5. cycles' \in [Worker -> 0..CRASH_FREE_CYCLES]
    BY <1>2, <2>4, CyclesAssumption
  <2>6. w \in Available => f = <<>>
    BY <1>5, <2>3 DEF OnePlace
  <2>7. WorkerTurn(w, <<>>, f, "dead", NoJob)
    <3>1. Len(f) \in Nat
      BY <2>3, LenProperties
    <3>2. QED
      BY <1>1, <2>3, <2>4, <2>5, <2>6, <3>1 DEF WorkerPhase, WorkerTurn
  <2>8. QED
    BY <1>7, <2>7
<1>12. QED
  BY <1>8, <1>9, <1>10, <1>11

LEMMA PlaceQueue ==
  ASSUME PlaceInv, UNCHANGED <<workerVars, clientVars>>,
         SQPoll \/ (\E w \in Worker : SQBackend(w)) \/ SQFrontend \/ SQStop \/ SQStart
  PROVE  PlaceInv'
<1>1. /\ FrontendTypeOK /\ LPClientTypeOK /\ PPNetTypeOK /\ SPQueueTypeOK /\ SPWorkerTypeOK
      /\ \A w \in Worker : OnePlace(w)
      /\ ListedOnce /\ OnlyRequests /\ PolledListed
  BY DEF PlaceInv, TypeOK
<1>2. LPClientTypeOK' /\ wphase' = wphase /\ job' = job /\ cycles' = cycles
  BY <1>1 DEF workerVars, clientVars, LPClientTypeOK
<1>3. /\ toWorker \in [Worker -> Seq(JobMessage)]
      /\ fromWorker \in [Worker -> Seq(WorkerMessage)]
  BY PlacePipes
<1>4. Distinct(available_workers) /\ Available = Members(available_workers)
  BY <1>1, ListIsDistinct, AvailableIsMembers
<1>5. ASSUME FrontendTypeOK', SPQueueTypeOK', ListedOnce', PolledListed',
             toWorker' \in [Worker -> Seq(JobMessage)],
             fromWorker' \in [Worker -> Seq(WorkerMessage)],
             online' = online, \A w \in Worker : OnePlace(w)'
      PROVE  PlaceInv'
  <2>1. PPNetTypeOK'
    <3>1. PICK t2, f2 : t2 = toWorker' /\ f2 = fromWorker'
      OBVIOUS
    <3>2. \A w \in Worker : Len(t2[w]) + Len(f2[w]) <= 1
      BY <1>5, <3>1 DEF OnePlace
    <3>3. /\ t2 \in [Worker -> Seq(QueueMessage)]
          /\ \A w \in Worker : Len(t2[w]) <= HWM /\ Len(f2[w]) <= HWM
      BY <1>5, <3>1, <3>2, PlaceNetType
    <3>4. QED
      BY <1>1, <1>5, <3>1, <3>3 DEF PPNetTypeOK
  <2>2. SPWorkerTypeOK'
    BY <1>1, <1>2, <1>5 DEF SPWorkerTypeOK, Running
  <2>3. QED
    BY <1>2, <1>5, <2>1, <2>2 DEF PlaceInv, TypeOK, OnlyRequests, JobMessage
<1>6. CASE SQPoll
  <2>1. UNCHANGED <<available_workers, netVars, workerVars>>
    BY <1>6 DEF SQPoll, queueVars
  <2>2. FrontendTypeOK' /\ SPQueueTypeOK' /\ PolledListed'
    BY <1>1, <1>6 DEF SQPoll, Polled, queueVars, FrontendTypeOK, SPQueueTypeOK, PolledListed
  <2>3. QED
    BY <1>2, <2>1, <2>2, PlaceElsewhere
<1>7. CASE SQStart
  <2>1. UNCHANGED <<available_workers, netVars, workerVars>>
    BY <1>7 DEF SQStart
  <2>2. FrontendTypeOK' /\ SPQueueTypeOK' /\ PolledListed'
    BY <1>1, <1>7 DEF SQStart, frontendVars, FrontendTypeOK, SPQueueTypeOK, PolledListed
  <2>3. QED
    BY <1>2, <2>1, <2>2, PlaceElsewhere
<1>8. ASSUME NEW w \in Worker, SQBackend(w)
      PROVE  PlaceInv'
  <2>1. /\ toWorker[w] = <<>> /\ Tail(fromWorker[w]) = <<>>
        /\ Head(fromWorker[w]) \in WorkerMessage
        /\ wphase[w] # "work" /\ wphase[w] # "off" /\ w \notin Available
    BY <1>1, <1>8, PlacePipes DEF SQBackend, OnePlace
  <2>2. /\ available_workers' \in Seq(Worker)
        /\ Distinct(available_workers)'
        /\ Available' = Available \cup {w}
        /\ available_workers' # <<>>
    <3>1. available_workers' = <<w>> \o available_workers
      BY <1>8 DEF SQBackend
    <3>2. PICK l, l2 : l = available_workers /\ l2 = <<w>> \o available_workers
      OBVIOUS
    <3>3. l2 \in Seq(Worker) /\ Distinct(l2) /\ Members(l2) = Members(l) \cup {w} /\ l2 # <<>>
      BY <1>1, <1>4, <2>1, <3>2, PushDistinct DEF SPQueueTypeOK
    <3>4. QED
      BY <1>4, <3>1, <3>2, <3>3 DEF Distinct, Members, Available
  <2>3. fromWorker' = [fromWorker EXCEPT ![w] = <<>>] /\ toWorker' = toWorker
    BY <1>8, <2>1 DEF SQBackend
  <2>4. fromWorker' \in [Worker -> Seq(WorkerMessage)]
    BY <1>3, <2>3, EmptySeq
  <2>5. FrontendTypeOK'
    <3>1. replies' \subseteq Request
      BY <1>1, <1>8, <2>1, MessageTypes DEF SQBackend, RoutedReplies, FrontendTypeOK
    <3>2. QED
      BY <1>1, <1>8, <3>1 DEF SQBackend, FrontendTypeOK
  <2>6. SPQueueTypeOK' /\ ListedOnce' /\ PolledListed'
    BY <1>1, <1>8, <2>2 DEF SQBackend, SPQueueTypeOK, ListedOnce, Distinct, PolledListed
  <2>7. \A v \in Worker : OnePlace(v)'
    <3>1. ASSUME NEW v \in Worker
          PROVE  OnePlace(v)'
      <4>1. CASE v = w
        BY <1>2, <1>3, <2>1, <2>3, <4>1, EmptySeq DEF OnePlace
      <4>2. CASE v # w
        BY <1>1, <1>2, <1>3, <2>2, <2>3, <4>2 DEF OnePlace
      <4>3. QED
        BY <4>1, <4>2
    <3>2. QED
      BY <3>1
  <2>8. online' = online
    BY <1>8 DEF SQBackend
  <2>9. QED
    BY <1>3, <1>5, <2>3, <2>4, <2>5, <2>6, <2>7, <2>8
<1>9. CASE SQFrontend
  <2>1. PICK m \in requests :
          /\ requests' = requests \ {m}
          /\ RouterSend({Head(available_workers)}, RequestMsg(m))
    BY <1>9 DEF SQFrontend
  <2>2. PICK w : w = Head(available_workers)
    OBVIOUS
  <2>3. /\ available_workers' \in Seq(Worker)
        /\ Distinct(available_workers)'
        /\ Available' \subseteq Available \ {w}
        /\ w \in Available
    <3>1. available_workers' = Tail(available_workers)
      BY <1>9 DEF SQFrontend, Popped
    <3>2. PICK l, l2 : l = available_workers /\ l2 = Tail(available_workers)
      OBVIOUS
    <3>3. l \in Seq(Worker) /\ Distinct(l) /\ l # <<>>
      BY <1>1, <1>4, <1>9, <3>2 DEF SQFrontend, SPQueueTypeOK, PolledListed
    <3>4. l2 \in Seq(Worker) /\ Distinct(l2) /\ w \in Members(l) /\ Members(l2) \subseteq Members(l) \ {w}
      BY <2>2, <3>2, <3>3, PopDistinct
    <3>5. Members(l) = Available /\ Members(l2) = Available'
      BY <1>4, <3>1, <3>2 DEF Members, Available
    <3>6. QED
      BY <3>1, <3>2, <3>4, <3>5 DEF Distinct
  <2>4. w \in Worker /\ toWorker[w] = <<>> /\ fromWorker[w] = <<>>
        /\ wphase[w] # "work" /\ wphase[w] # "off"
    <3>1. w \in Worker
      BY <1>1, <2>3, ElementOfSeq DEF Available, SPQueueTypeOK
    <3>2. QED
      BY <1>1, <2>3, <3>1 DEF OnePlace
  <2>5. /\ fromWorker' = fromWorker
        /\ \A v \in Worker : toWorker'[v] = IF v \in {w} \cap online /\ Len(toWorker[v]) < HWM
                                          THEN Append(toWorker[v], RequestMsg(m))
                                          ELSE toWorker[v]
        /\ toWorker' = [v \in Worker |-> toWorker'[v]]
    BY <1>9, <2>1, <2>2 DEF SQFrontend, RouterSend
  <2>6. /\ toWorker'[w] \in Seq(JobMessage) /\ Len(toWorker'[w]) <= 1
        /\ \A v \in Worker \ {w} : toWorker'[v] = toWorker[v]
    <3>1. RequestMsg(m) \in JobMessage
      BY <1>1, <2>1, JobMessages DEF FrontendTypeOK
    <3>2. <<>> \in Seq(JobMessage) /\ Len(<<>>) = 0
      BY EmptySeq
    <3>3. Append(<<>>, RequestMsg(m)) \in Seq(JobMessage) /\ Len(Append(<<>>, RequestMsg(m))) = 1
      BY <3>1, <3>2, AppendProperties
    <3>4. toWorker'[w] = <<>> \/ toWorker'[w] = Append(<<>>, RequestMsg(m))
      BY <2>4, <2>5
    <3>5. \A v \in Worker \ {w} : toWorker'[v] = toWorker[v]
      BY <2>5
    <3>6. toWorker'[w] \in Seq(JobMessage) /\ Len(toWorker'[w]) <= 1
      <4>1. CASE toWorker'[w] = <<>>
        BY <3>2, <4>1
      <4>2. CASE toWorker'[w] = Append(<<>>, RequestMsg(m))
        BY <3>3, <4>2
      <4>3. QED
        BY <3>4, <4>1, <4>2
    <3>7. QED
      BY <3>5, <3>6
  <2>7. toWorker' \in [Worker -> Seq(JobMessage)]
    <3>1. \A v \in Worker : toWorker'[v] \in Seq(JobMessage)
      BY <1>3, <2>6
    <3>2. QED
      BY <2>5, <3>1
  <2>8. FrontendTypeOK'
    BY <1>1, <1>9, <2>1 DEF SQFrontend, FrontendTypeOK
  <2>9. SPQueueTypeOK' /\ ListedOnce' /\ PolledListed'
    BY <1>1, <1>9, <2>3 DEF SQFrontend, SPQueueTypeOK, ListedOnce, Distinct, PolledListed
  <2>10. \A v \in Worker : OnePlace(v)'
    <3>1. ASSUME NEW v \in Worker
          PROVE  OnePlace(v)'
      <4>1. CASE v = w
        <5>1. Len(toWorker'[w]) \in Nat /\ Len(fromWorker'[w]) = 0
          BY <2>4, <2>5, <2>6, LenProperties, EmptySeq
        <5>2. QED
          BY <1>2, <2>3, <2>4, <2>5, <2>6, <4>1, <5>1 DEF OnePlace
      <4>2. CASE v # w
        BY <1>1, <1>2, <2>3, <2>5, <2>6, <4>2 DEF OnePlace
      <4>3. QED
        BY <4>1, <4>2
    <3>2. QED
      BY <3>1
  <2>11. online' = online
    BY <1>9 DEF SQFrontend
  <2>12. QED
    BY <1>3, <1>5, <2>5, <2>7, <2>8, <2>9, <2>10, <2>11
<1>10. CASE SQStop
  <2>1. FrontendTypeOK' /\ available_workers' = <<>> /\ stops' \in 0..MaxStops /\ up' \in BOOLEAN
    <3>1. FrontendTypeOK'
      BY <1>1, <1>10, FrontendDownType DEF SQStop
    <3>2. stops' \in 0..MaxStops
      BY <1>1, <1>10, StopsAssumption DEF SQStop, SPQueueTypeOK
    <3>3. available_workers' = <<>> /\ up' \in BOOLEAN
      BY <1>10 DEF SQStop
    <3>4. QED
      BY <3>1, <3>2, <3>3
  <2>2. SPQueueTypeOK' /\ ListedOnce' /\ PolledListed' /\ Available' = {}
    <3>1. <<>> \in Seq(Worker) /\ Len(<<>>) = 0 /\ revents' = {}
      BY <1>10, EmptySeq DEF SQStop, FrontendDown
    <3>2. QED
      BY <2>1, <3>1 DEF SPQueueTypeOK, ListedOnce, PolledListed, Available
  <2>3. PICK got \in [Worker -> 0..HWM], kept \in [Worker -> 0..HWM] :
          /\ \A w \in Worker : got[w] <= Len(toWorker[w]) /\ kept[w] <= Len(fromWorker[w])
          /\ toWorker' = [w \in Worker |-> SubSeq(toWorker[w], 1, got[w])]
          /\ fromWorker' = [w \in Worker |->
               SubSeq(fromWorker[w], kept[w] + 1, Len(fromWorker[w]))]
    BY <1>10 DEF SQStop, BackendDown
  <2>4. ASSUME NEW w \in Worker
        PROVE  /\ toWorker'[w] \in Seq(JobMessage) /\ fromWorker'[w] \in Seq(WorkerMessage)
               /\ Len(toWorker'[w]) \in Nat /\ Len(fromWorker'[w]) \in Nat
               /\ Len(toWorker'[w]) <= Len(toWorker[w])
               /\ Len(fromWorker'[w]) <= Len(fromWorker[w])
               /\ toWorker[w] = <<>> => toWorker'[w] = <<>>
               /\ fromWorker[w] = <<>> => fromWorker'[w] = <<>>
    <3>1. ASSUME NEW S, NEW s \in Seq(S), NEW i \in Nat \ {0}, NEW j \in 0..Len(s)
          PROVE  /\ SubSeq(s, i, j) \in Seq(S) /\ Len(SubSeq(s, i, j)) \in Nat
                 /\ Len(SubSeq(s, i, j)) <= Len(s) /\ (s = <<>> => SubSeq(s, i, j) = <<>>)
      <4>1. Len(s) \in Nat /\ \A k \in i..j : s[k] \in S
        BY LenProperties, ElementOfSeq
      <4>2. /\ SubSeq(s, i, j) \in Seq(S)
            /\ Len(SubSeq(s, i, j)) = IF i <= j THEN j - i + 1 ELSE 0
        BY <4>1, SubSeqProperties
      <4>3. Len(SubSeq(s, i, j)) \in Nat /\ Len(SubSeq(s, i, j)) <= Len(s)
        BY <4>1, <4>2
      <4>4. s = <<>> => Len(s) = 0
        BY EmptySeq
      <4>5. s = <<>> => SubSeq(s, i, j) = <<>>
        BY <4>1, <4>2, <4>3, <4>4, EmptySeq
      <4>6. QED
        BY <4>2, <4>3, <4>5
    <3>2. toWorker[w] \in Seq(JobMessage) /\ fromWorker[w] \in Seq(WorkerMessage)
      BY <1>3
    <3>3. /\ got[w] \in 0..Len(toWorker[w]) /\ kept[w] + 1 \in Nat \ {0}
          /\ Len(fromWorker[w]) \in 0..Len(fromWorker[w])
      BY <2>3, <3>2, LenProperties, HWMAssumption
    <3>4. /\ toWorker'[w] = SubSeq(toWorker[w], 1, got[w])
          /\ fromWorker'[w] = SubSeq(fromWorker[w], kept[w] + 1, Len(fromWorker[w]))
      BY <2>3
    <3>5. /\ toWorker'[w] \in Seq(JobMessage)
          /\ Len(toWorker'[w]) \in Nat
          /\ Len(toWorker'[w]) <= Len(toWorker[w])
          /\ toWorker[w] = <<>> => toWorker'[w] = <<>>
      BY <3>1, <3>2, <3>3, <3>4
    <3>6. QED
      BY SMTT(30), <3>1, <3>2, <3>3, <3>4, <3>5
  <2>5. /\ toWorker' \in [Worker -> Seq(JobMessage)]
        /\ fromWorker' \in [Worker -> Seq(WorkerMessage)]
    BY <2>3, <2>4
  <2>6. \A w \in Worker : OnePlace(w)'
    <3>1. ASSUME NEW w \in Worker
          PROVE  OnePlace(w)'
      <4>1. OnePlace(w) /\ Len(toWorker[w]) \in Nat /\ Len(fromWorker[w]) \in Nat
        BY <1>1, PlacePipes
      <4>2. Len(toWorker'[w]) + Len(fromWorker'[w]) <= 1
        <5>1. \A a, b, c, d \in Nat : a <= c /\ b <= d /\ c + d <= 1 => a + b <= 1
          OBVIOUS
        <5>2. QED
          BY <2>4, <4>1, <5>1 DEF OnePlace
      <4>3. wphase[w] = "work" \/ wphase[w] = "off" =>
              toWorker'[w] = <<>> /\ fromWorker'[w] = <<>>
        BY <2>4, <4>1 DEF OnePlace
      <4>4. QED
        BY <1>2, <2>2, <4>2, <4>3 DEF OnePlace
    <3>2. QED
      BY <3>1
  <2>7. online' = online
    BY <1>10 DEF SQStop
  <2>8. QED
    BY <1>5, <2>1, <2>2, <2>5, <2>6, <2>7
<1>11. QED
  BY <1>6, <1>7, <1>8, <1>9, <1>10

LEMMA PlaceInit == Init => PlaceInv
<1> SUFFICES ASSUME Init PROVE PlaceInv
  OBVIOUS
<1> USE DEF Init
<1>1. FrontendTypeOK
  BY DEF FrontendInit, FrontendTypeOK
<1>2. LPClientTypeOK
  BY RetriesAssumption DEF LPClientInit, LPClientTypeOK, ClientPhase
<1>3. PPNetTypeOK
  BY PipeEmpty, NetType DEF PPNetInit
<1>4. SPQueueTypeOK
  BY StopsAssumption, EmptySeq DEF SPQueueInit, SPQueueTypeOK
<1>5. SPWorkerTypeOK
  BY CyclesAssumption DEF SPWorkerInit, PPNetInit, SPWorkerTypeOK, WorkerPhase, Running
<1>6. OnlyRequests
  BY EmptySeq DEF PPNetInit, OnlyRequests
<1>7. Available = {} /\ ListedOnce /\ PolledListed
  BY EmptySeq DEF SPQueueInit, FrontendInit, Available, ListedOnce, PolledListed
<1>8. \A w \in Worker : OnePlace(w)
  BY <1>7, EmptySeq DEF PPNetInit, SPWorkerInit, OnePlace
<1>9. QED
  BY <1>1, <1>2, <1>3, <1>4, <1>5, <1>6, <1>7, <1>8 DEF PlaceInv, TypeOK

(* A client may close its socket: the poll's report stays true of the list.*)
LEMMA PlaceNext == PlaceInv /\ [Next]_vars => PlaceInv'
<1> SUFFICES ASSUME PlaceInv, [Next]_vars PROVE PlaceInv'
  OBVIOUS
<1>1. CASE QueueNext
  BY <1>1, PlaceQueue DEF QueueNext
<1>2. CASE WorkerNext
  <2>1. PICK w \in Worker :
          SWStart(w) \/ SWRequest(w) \/ SWReply(w) \/ SWExit(w)
    BY <1>2 DEF WorkerNext, SWCrash, SWInterrupt
  <2>2. UNCHANGED <<queueVars, clientVars>>
    BY <1>2 DEF WorkerNext
  <2>3. QED
    BY <2>1, <2>2, PlaceWorker
<1>3. CASE ClientNext
  <2>1. UNCHANGED <<queueVars, netVars, workerVars>>
    BY <1>3 DEF ClientNext
  <2>2. FrontendTypeOK' /\ LPClientTypeOK'
    BY <1>3, ClientTypes DEF ClientNext, PlaceInv, TypeOK
  <2>3. revents' = revents
    BY <1>3 DEF ClientNext, CSend, CReply, CRetry, CAbandon, CInterrupt, CExit
  <2>4. available_workers' = available_workers /\ SPQueueTypeOK' /\ PolledListed'
    BY <2>1, <2>3 DEF queueVars, PlaceInv, TypeOK, SPQueueTypeOK, PolledListed
  <2>5. QED
    BY <2>1, <2>2, <2>4, PlaceElsewhere
<1>4. CASE UNCHANGED vars
  <2>1. FrontendTypeOK' /\ LPClientTypeOK' /\ SPQueueTypeOK' /\ PolledListed'
    BY <1>4 DEF vars, queueVars, clientVars, frontendVars, PlaceInv, TypeOK,
       FrontendTypeOK, LPClientTypeOK, SPQueueTypeOK, PolledListed
  <2>2. QED
    BY <1>4, <2>1, PlaceElsewhere DEF vars, queueVars
<1>5. QED
  BY <1>1, <1>2, <1>3, <1>4 DEF Next

THEOREM PlaceInvariant == Spec => []PlaceInv
  BY PlaceInit, PlaceNext, PTL DEF Spec

(* Every variable keeps its type.  A worker's REQ socket sends without     *)
(* looking for room, and yet no pipe exceeds HWM, whatever HWM is: there   *)
(* is never more than one message in the pipes of a worker.                *)
THEOREM TypeCorrect == Spec => []TypeOK
<1>1. PlaceInv => TypeOK
  BY DEF PlaceInv
<1>2. QED
  BY <1>1, PlaceInvariant, PTL

(* A worker is listed at most once, and a listed worker neither works nor  *)
(* has a message under way (spqueue.cpp:39-55, spworker.cpp:33-54).        *)
THEOREM ListedAreIdle == Spec => []ListedOnceAndIdle
<1>1. PlaceInv => ListedOnceAndIdle
  <2> SUFFICES ASSUME PlaceInv, NEW i \in 1..Len(available_workers)
               PROVE  LET w == available_workers[i]
                      IN  /\ \A j \in 1..Len(available_workers) :
                               available_workers[j] = w => i = j
                          /\ wphase[w] # "work"
                          /\ toWorker[w] = <<>>
                          /\ fromWorker[w] = <<>>
    BY DEF ListedOnceAndIdle
  <2>1. available_workers[i] \in Worker /\ available_workers[i] \in Available
    BY ElementOfSeq DEF PlaceInv, TypeOK, SPQueueTypeOK, Available
  <2>2. OnePlace(available_workers[i]) /\ ListedOnce
    BY <2>1 DEF PlaceInv
  <2>3. QED
    BY <2>1, <2>2 DEF OnePlace, ListedOnce
<1>2. QED
  BY <1>1, PlaceInvariant, PTL

(***************************************************************************)
(* The copies of a request.                                                *)
(***************************************************************************)
Busy == {w \in Worker : wphase[w] = "work"}

SPHeld == Held(Busy, job, toWorker, fromWorker)

LEMMA HeldPrimed ==
  ASSUME NEW b, NEW j, NEW t, NEW f,
         Busy' = b, job' = j, toWorker' = t, fromWorker' = f,
         CopiesInv(Held(b, j, t, f))'
  PROVE  CopiesInv(SPHeld)'
<1>1. SPHeld' = Held(b, j, t, f)
  BY DEF SPHeld, Held, AtWork, InPipes, Cargo
<1>2. QED
  BY <1>1 DEF CopiesInv, OneCopy, RoutesPast, LiveAwaited, OneLive, HeldTypes, Underway,
     Live, Connected

Snapshot(b, j, t, f, b2, j2, t2, f2) ==
  /\ Busy = b /\ job = j /\ toWorker = t /\ fromWorker = f
  /\ Busy' = b2 /\ job' = j2 /\ toWorker' = t2 /\ fromWorker' = f2
  /\ CopiesInv(Held(b, j, t, f))
  /\ HeldTypes(Held(b2, j2, t2, f2))
  /\ t \in [Worker -> Seq(QueueMessage)]
  /\ f \in [Worker -> Seq(WorkerMessage)]

LEMMA TakeSnapshot ==
  ASSUME TypeOK, TypeOK', CopiesInv(SPHeld)
  PROVE  \E b, j, t, f, b2, j2, t2, f2 : Snapshot(b, j, t, f, b2, j2, t2, f2)
<1>1. PICK b, j, t, f : Busy = b /\ job = j /\ toWorker = t /\ fromWorker = f
  OBVIOUS
<1>2. PICK b2, j2, t2, f2 : Busy' = b2 /\ job' = j2 /\ toWorker' = t2 /\ fromWorker' = f2
  OBVIOUS
<1>3. /\ t \in [Worker -> Seq(QueueMessage)]
      /\ f \in [Worker -> Seq(WorkerMessage)]
  BY <1>1 DEF TypeOK, PPNetTypeOK
<1>4. /\ t2 \in [Worker -> Seq(QueueMessage)]
      /\ f2 \in [Worker -> Seq(WorkerMessage)]
      /\ \A w \in b2 : j2[w] \in Request
  BY <1>2 DEF TypeOK, PPNetTypeOK, SPWorkerTypeOK, Busy
<1>5. HeldTypes(Held(b2, j2, t2, f2))
  BY <1>4, HeldTypesOf
<1>6. CopiesInv(Held(b, j, t, f))
  BY <1>1 DEF SPHeld
<1>7. QED
  BY <1>1, <1>2, <1>3, <1>5, <1>6 DEF Snapshot

LEMMA KeepInPlaceStep ==
  ASSUME TypeOK, TypeOK', CopiesInv(SPHeld),
         UNCHANGED <<requests, replies, route, cphase, request_seq>>,
         Busy' \subseteq Busy, \A w \in Busy' : job'[w] = job[w],
         \A w \in Worker : /\ Window(toWorker'[w], toWorker[w], 0)
                          /\ Window(fromWorker'[w], fromWorker[w], 0)
  PROVE  CopiesInv(SPHeld)'
<1>1. PICK b, j, t, f, b2, j2, t2, f2 : Snapshot(b, j, t, f, b2, j2, t2, f2)
  BY TakeSnapshot
<1>2. CopiesInv(Held(b2, j2, t2, f2))'
  BY <1>1, KeepInPlace DEF Snapshot
<1>3. QED
  BY <1>1, <1>2, HeldPrimed DEF Snapshot

LEMMA QueueCopies ==
  ASSUME TypeOK, TypeOK', CopiesInv(SPHeld), UNCHANGED <<workerVars, clientVars>>,
         SQPoll \/ (\E w \in Worker : SQBackend(w)) \/ SQFrontend \/ SQStop \/ SQStart
  PROVE  CopiesInv(SPHeld)'
<1>1. /\ FrontendTypeOK /\ LPClientTypeOK
      /\ toWorker \in [Worker -> Seq(QueueMessage)]
      /\ fromWorker \in [Worker -> Seq(WorkerMessage)]
  BY DEF TypeOK, PPNetTypeOK
<1>2. Busy' = Busy /\ job' = job /\ cphase' = cphase /\ request_seq' = request_seq
  BY DEF workerVars, clientVars, Busy
<1>3. PICK b, j, t, f, b2, j2, t2, f2 : Snapshot(b, j, t, f, b2, j2, t2, f2)
  BY TakeSnapshot
<1>4. b2 = b /\ j2 = j
  BY <1>2, <1>3 DEF Snapshot
<1>5. SUFFICES CopiesInv(Held(b2, j2, t2, f2))'
  BY <1>3, HeldPrimed DEF Snapshot
<1>6. CASE SQPoll \/ SQStart
  <2>1. /\ UNCHANGED <<requests, replies, route>>
        /\ t2 = t /\ f2 = f
    BY <1>3, <1>6 DEF SQPoll, SQStart, netVars, frontendVars, Snapshot
  <2>2. \A w \in Worker : Window(t2[w], t[w], 0) /\ Window(f2[w], f[w], 0)
    BY <2>1, WindowSame
  <2>3. QED
    BY <1>2, <1>3, <1>4, <2>1, <2>2, KeepInPlace DEF Snapshot
<1>7. ASSUME NEW w \in Worker, SQBackend(w)
      PROVE  CopiesInv(Held(b2, j2, t2, f2))'
  <2>1. /\ UNCHANGED <<requests, route>>
        /\ t2 = t
        /\ f[w] # <<>>
        /\ f2 = [f EXCEPT ![w] = Tail(@)]
        /\ replies' = IF Head(f[w]).kind = "REPLY"
                      THEN RoutedReplies(Head(f[w]).body) ELSE replies
    BY <1>3, <1>7 DEF SQBackend, Snapshot
  <2>2. \A v \in Worker : f2[v] = IF v = w THEN Tail(f[v]) ELSE f[v]
    BY <1>3, <2>1 DEF Snapshot
  <2>3. /\ t \in [Worker -> Seq(QueueMessage)] /\ f \in [Worker -> Seq(WorkerMessage)]
        /\ CopiesInv(Held(b, j, t, f)) /\ HeldTypes(Held(b, j, t, f2))
    BY <1>3, <1>4, <2>1 DEF Snapshot
  <2>4. CopiesInv(Held(b, j, t, f2))'
    BY <1>2, <2>1, <2>2, <2>3, ReadHeld
  <2>5. QED
    BY <1>4, <2>1, <2>4
<1>8. CASE SQFrontend
  <2>1. PICK m \in requests :
          /\ requests' = requests \ {m}
          /\ RouterSend({Head(available_workers)}, RequestMsg(m))
    BY <1>8 DEF SQFrontend
  <2>2. UNCHANGED <<replies, route>> /\ f2 = f
    BY <1>3, <1>8 DEF SQFrontend, Snapshot
  <2>3. PICK w, S : w = Head(available_workers) /\ S = online
    OBVIOUS
  <2>4. Dispatched(t, t2, w, S, m)
    BY <1>3, <2>1, <2>3 DEF RouterSend, Dispatched, Snapshot
  <2>5. /\ t \in [Worker -> Seq(QueueMessage)]
        /\ CopiesInv(Held(b, j, t, f)) /\ HeldTypes(Held(b, j, t2, f))
    BY <1>3, <1>4, <2>2 DEF Snapshot
  <2>6. CopiesInv(Held(b, j, t2, f))'
    <3>1. UNCHANGED <<route, cphase, request_seq, replies>> /\ requests' = requests \ {m}
      BY <1>2, <2>1, <2>2
    <3>2. QED
      BY <2>4, <2>5, <3>1, DispatchHeld
  <2>7. QED
    BY <1>4, <2>2, <2>6
<1>9. CASE SQStop
  <2>1. PICK d \in [Worker -> Nat] :
          \A w \in Worker : /\ Window(toWorker'[w], toWorker[w], 0)
                           /\ Window(fromWorker'[w], fromWorker[w], d[w])
    BY <1>1, <1>9, BackendDownWindows DEF SQStop
  <2> DEFINE dt == [w \in Worker |-> 0]
  <2>2. Shift(b, j, t, f, b2, j2, t2, f2, dt, d)
    BY <1>3, <1>4, <2>1 DEF Shift, Snapshot
  <2> HIDE DEF dt
  <2>3. PICK h : \A y \in Held(b2, j2, t2, f2) :
                   \E x \in Held(b, j, t, f) : y = [at |-> h[x], msg |-> x.msg]
    BY <2>2, ShiftMoves DEF Lands
  <2>4. CopiesInv(Held(b, j, t, f)) /\ HeldTypes(Held(b2, j2, t2, f2))
    BY <1>3 DEF Snapshot
  <2>5. FrontendDown
    BY <1>9 DEF SQStop
  <2>6. QED
    BY <1>1, <1>2, <2>3, <2>4, <2>5, DownCopies
<1>10. QED
  BY <1>6, <1>7, <1>8, <1>9

LEMMA WorkerCopies ==
  ASSUME PlaceInv, TypeOK, TypeOK', CopiesInv(SPHeld), UNCHANGED clientVars, NEW w \in Worker,
         SWStart(w) \/ SWRequest(w) \/ SWReply(w) \/ SWExit(w)
  PROVE  CopiesInv(SPHeld)'
<1>1. /\ toWorker \in [Worker -> Seq(QueueMessage)]
      /\ fromWorker \in [Worker -> Seq(WorkerMessage)]
      /\ wphase \in [Worker -> WorkerPhase]
      /\ job \in [Worker -> Request \cup {NoJob}]
  BY DEF TypeOK, PPNetTypeOK, SPWorkerTypeOK
<1>2. UNCHANGED <<requests, replies, route, cphase, request_seq>>
  BY DEF clientVars, frontendVars, SWStart, SWRequest, SWReply, SWExit
<1>3. CASE SWStart(w)
  <2>1. Busy' = Busy /\ job' = job /\ toWorker' = toWorker
    BY <1>1, <1>3 DEF SWStart, Busy
  <2>2. Window(Append(fromWorker[w], READY), fromWorker[w], 0)
    BY <1>1, WindowAppend, MessageTypes, SignalsAreNoCargo
  <2>3. \A v \in Worker : Window(fromWorker'[v], fromWorker[v], 0)
    BY <1>1, <1>3, <2>2, WindowSame DEF SWStart, Sends
  <2>4. QED
    BY <1>2, <2>1, <2>3, WindowSame, KeepInPlaceStep
<1>4. CASE SWExit(w)
  <2>1. Busy' = Busy \ {w} /\ \A v \in Worker \ {w} : job'[v] = job[v]
    BY <1>1, <1>4 DEF SWExit, Busy
  <2>2. Busy \subseteq Worker
    BY DEF Busy
  <2>3. \A v \in Worker : /\ Window(toWorker'[v], toWorker[v], 0)
                         /\ Window(fromWorker'[v], fromWorker[v], 0)
    <3>1. <<>> \in Seq(WorkerMessage) /\ \A i \in 1..Len(<<>>) : ~Cargo(<<>>[i])
      BY EmptySeq
    <3>2. ClosePipes(w, <<>>)
      BY <1>4 DEF SWExit
    <3>3. QED
      BY <1>1, <3>1, <3>2, ClosePipesWindows
  <2>4. QED
    BY <1>2, <2>1, <2>2, <2>3, KeepInPlaceStep
<1>5. PICK b, j, t, f, b2, j2, t2, f2 : Snapshot(b, j, t, f, b2, j2, t2, f2)
  BY TakeSnapshot
<1>6. /\ t \in [Worker -> Seq(QueueMessage)] /\ f \in [Worker -> Seq(WorkerMessage)]
      /\ CopiesInv(Held(b, j, t, f)) /\ HeldTypes(Held(b2, j2, t2, f2))
  BY <1>5 DEF Snapshot
<1>7. ASSUME CopiesInv(Held(b2, j2, t2, f2))'
      PROVE  CopiesInv(SPHeld)'
  BY <1>5, <1>7, HeldPrimed DEF Snapshot
<1>8. CASE SWRequest(w)
  <2>1. Head(toWorker[w]).kind = "REQUEST"
    BY <1>8, PlacePipes, JobMessages DEF SWRequest
  <2>2. /\ b2 = b \cup {w} /\ w \notin b /\ b \subseteq Worker
        /\ t[w] # <<>> /\ Cargo(Head(t[w]))
        /\ t2 = [t EXCEPT ![w] = Tail(@)]
        /\ f2 = f
        /\ j2 = [j EXCEPT ![w] = Head(t[w]).body]
        /\ j \in [Worker -> Request \cup {NoJob}]
    BY <1>1, <1>5, <1>8, <2>1 DEF SWRequest, Busy, Snapshot, Cargo
  <2>3. /\ \A v \in Worker : t2[v] = IF v = w THEN Tail(t[v]) ELSE t[v]
        /\ j2[w] = Head(t[w]).body
        /\ \A v \in b : j2[v] = j[v]
    BY <1>6, <2>2
  <2>4. HeldTypes(Held(b \cup {w}, j2, t2, f))
    BY <1>6, <2>2
  <2>5. CopiesInv(Held(b \cup {w}, j2, t2, f))'
    BY <1>2, <1>6, <2>2, <2>3, <2>4, TakeHeld
  <2>6. QED
    BY <1>7, <2>2, <2>5
<1>9. CASE SWReply(w)
  <2>1. PICK r : r = <<>>
    OBVIOUS
  <2>2. /\ b2 = b \ {w} /\ w \in b /\ b \subseteq Worker
        /\ t2 = t
        /\ f2 = [f EXCEPT ![w] = Append(@, ReplyMsg(j[w]))]
        /\ j2 = [j EXCEPT ![w] = NoJob]
        /\ j \in [Worker -> Request \cup {NoJob}]
    BY <1>1, <1>5, <1>9 DEF SWReply, Sends, Busy, Snapshot
  <2>3. j[w] \in Request
    BY <1>5, <2>2 DEF TypeOK, SPWorkerTypeOK, Busy, Snapshot
  <2>4. ReplyMsg(j[w]) \in WorkerMessage /\ r \in Seq(WorkerMessage)
        /\ \A i \in 1..Len(r) : ~Cargo(r[i])
    BY <2>1, <2>3, MessageTypes, EmptySeq
  <2>5. Append(f[w], ReplyMsg(j[w])) = f[w] \o (<<ReplyMsg(j[w])>> \o r)
    BY <1>6, <2>1, <2>4, AppendIsConcat, ConcatEmptySeq
  <2>6. /\ \A v \in Worker : f2[v] = IF v = w THEN f[v] \o (<<ReplyMsg(j[w])>> \o r) ELSE f[v]
        /\ \A v \in b \ {w} : j2[v] = j[v]
    BY <1>6, <2>2, <2>5
  <2>7. HeldTypes(Held(b \ {w}, j2, t, f2))
    BY <1>6, <2>2
  <2>8. CopiesInv(Held(b \ {w}, j2, t, f2))'
    BY <1>2, <1>6, <2>2, <2>4, <2>6, <2>7, AnswerHeld
  <2>9. QED
    BY <1>7, <2>2, <2>8
<1>10. QED
  BY <1>3, <1>4, <1>8, <1>9

LEMMA CopiesNext ==
  PlaceInv /\ PlaceInv' /\ CopiesInv(SPHeld) /\ [Next]_vars => CopiesInv(SPHeld)'
<1> SUFFICES ASSUME PlaceInv, PlaceInv', CopiesInv(SPHeld), [Next]_vars
             PROVE  CopiesInv(SPHeld)'
  OBVIOUS
<1>1. TypeOK /\ TypeOK'
  BY DEF PlaceInv
<1>2. CASE QueueNext
  BY <1>1, <1>2, QueueCopies DEF QueueNext
<1>3. CASE WorkerNext
  <2>1. PICK w \in Worker : SWStart(w) \/ SWRequest(w) \/ SWReply(w) \/ SWExit(w)
    BY <1>3 DEF WorkerNext, SWCrash, SWInterrupt
  <2>2. UNCHANGED clientVars
    BY <1>3 DEF WorkerNext
  <2>3. QED
    BY <1>1, <2>1, <2>2, WorkerCopies
<1>4. CASE ClientNext
  <2>1. PICK c \in Client :
          CSend(c) \/ CReply(c) \/ CRetry(c) \/ CAbandon(c) \/ CInterrupt(c)
    BY <1>4 DEF ClientNext
  <2>2. FrontendTypeOK /\ LPClientTypeOK
    BY <1>1 DEF TypeOK
  <2>3. PICK b, j, t, f, b2, j2, t2, f2 : Snapshot(b, j, t, f, b2, j2, t2, f2)
    BY <1>1, TakeSnapshot
  <2>4. b2 = b /\ j2 = j /\ t2 = t /\ f2 = f
    BY <1>4, <2>3 DEF ClientNext, netVars, workerVars, Busy, Snapshot
  <2>5. CopiesInv(Held(b, j, t, f))
    BY <2>3 DEF Snapshot
  <2>6. CopiesInv(Held(b, j, t, f))'
    BY <2>1, <2>2, <2>5, ClientCopies
  <2>7. QED
    BY <2>3, <2>4, <2>6, HeldPrimed DEF Snapshot
<1>5. CASE UNCHANGED vars
  <2>1. /\ UNCHANGED <<requests, replies, route, cphase, request_seq, toWorker, fromWorker>>
        /\ Busy' = Busy /\ job' = job
    BY <1>5 DEF netVars, clientVars, frontendVars, vars, workerVars, Busy
  <2>2. QED
    BY <1>1, <2>1, WindowSame, KeepInPlaceStep
<1>6. QED
  BY <1>2, <1>3, <1>4, <1>5 DEF Next

(* A client of the Simple Pirate queue never reads a reply to an earlier   *)
(* request either (lpclient.cpp:47-57, 62-71).                             *)
THEOREM RepliesAreAwaited == Spec => []NoMalformedReply
<1>1. Init => CopiesInv(SPHeld)
  <2> SUFFICES ASSUME Init PROVE CopiesInv(SPHeld)
    OBVIOUS
  <2>1. SPHeld = {}
    BY DEF Init, PPNetInit, SPWorkerInit, SPHeld, Held, AtWork, InPipes, Busy
  <2>2. CopiesInv({})
    BY InitCopies DEF Init
  <2>3. QED
    BY <2>1, <2>2
<1>2. CopiesInv(SPHeld) => NoMalformedReply
  BY CopiesAreAwaited
<1>3. QED
  BY <1>1, <1>2, PlaceInvariant, CopiesNext, PTL DEF Spec
=============================================================================
