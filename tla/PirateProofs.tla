---------------------------- MODULE PirateProofs ----------------------------
(***************************************************************************)
(* What the proofs about the queues with workers share, for any clients,   *)
(* workers and bounds: the types of messages and pipes, and the copies of  *)
(* requests that workers and pipes hold.                                   *)
(***************************************************************************)
EXTENDS PPNet, ClientProofs, SequenceTheorems

(***************************************************************************)
(* The values that messages carry, and the types of pipes and sockets.     *)
(***************************************************************************)
LEMMA MessageTypes ==
  /\ READY \in WorkerMessage
  /\ HEARTBEAT \in WorkerMessage
  /\ HEARTBEAT \in QueueMessage
  /\ \A m \in Request : RequestMsg(m) \in QueueMessage /\ ReplyMsg(m) \in WorkerMessage
  /\ \A x \in WorkerMessage : x.kind = "REPLY" => x.body \in Request
  /\ \A x \in QueueMessage : x.kind = "REQUEST" => x.body \in Request
  BY DEF READY, HEARTBEAT, RequestMsg, ReplyMsg, WorkerMessage, QueueMessage

(* What the socket operations of Frontend and PPNet leave.                 *)
Pipe(S) == {s \in Seq(S) : Len(s) <= HWM}

LEMMA NetType ==
  PPNetTypeOK <=> /\ toWorker \in [Worker -> Pipe(QueueMessage)]
                  /\ fromWorker \in [Worker -> Pipe(WorkerMessage)]
                  /\ online \subseteq Worker
  BY DEF PPNetTypeOK, Pipe

LEMMA PipeEmpty == \A S : <<>> \in Pipe(S)
  BY HWMAssumption DEF Pipe

LEMMA PipeTail ==
  ASSUME NEW S, NEW s \in Pipe(S), s # <<>>
  PROVE  Tail(s) \in Pipe(S) /\ Head(s) \in S
<1>1. s \in Seq(S) /\ Len(s) <= HWM /\ Len(s) \in Nat
  BY LenProperties DEF Pipe
<1>2. Head(s) \in S /\ Tail(s) \in Seq(S) /\ Len(Tail(s)) = Len(s) - 1
  BY <1>1, HeadTailProperties
<1>3. QED
  BY <1>1, <1>2, HWMAssumption DEF Pipe

LEMMA PipeSub ==
  ASSUME NEW S, NEW s \in Pipe(S), NEW i \in Nat \ {0}, NEW j \in 0..Len(s)
  PROVE  SubSeq(s, i, j) \in Pipe(S) /\ Len(SubSeq(s, i, j)) <= j
<1>1. s \in Seq(S) /\ Len(s) <= HWM /\ Len(s) \in Nat
  BY LenProperties DEF Pipe
<1>2. \A n \in i..j : s[n] \in S
  BY <1>1, ElementOfSeq
<1>3. SubSeq(s, i, j) \in Seq(S) /\ Len(SubSeq(s, i, j)) = IF i <= j THEN j - i + 1 ELSE 0
  BY <1>1, <1>2, SubSeqProperties
<1>4. Len(SubSeq(s, i, j)) <= j
  BY <1>1, <1>3
<1>5. QED
  BY <1>1, <1>3, <1>4, HWMAssumption DEF Pipe

LEMMA PipeConcat ==
  ASSUME NEW S, NEW s \in Seq(S), NEW t \in Seq(S), Len(s) + Len(t) <= HWM
  PROVE  s \o t \in Pipe(S)
  BY ConcatProperties DEF Pipe

LEMMA RouterSendType ==
  ASSUME PPNetTypeOK, NEW S, NEW m \in QueueMessage, RouterSend(S, m)
  PROVE  toWorker' \in [Worker -> Pipe(QueueMessage)]
<1>1. toWorker \in [Worker -> Pipe(QueueMessage)]
  BY NetType
<1>2. ASSUME NEW s \in Pipe(QueueMessage), Len(s) < HWM
      PROVE  Append(s, m) \in Pipe(QueueMessage)
  <2>1. s \in Seq(QueueMessage) /\ Len(s) \in Nat
    BY LenProperties DEF Pipe
  <2>2. Append(s, m) \in Seq(QueueMessage) /\ Len(Append(s, m)) = Len(s) + 1
    BY <2>1, AppendProperties
  <2>3. QED
    BY <1>2, <2>1, <2>2, HWMAssumption DEF Pipe
<1>3. QED
  BY <1>1, <1>2 DEF RouterSend

LEMMA ClosePipesType ==
  ASSUME PPNetTypeOK, NEW w \in Worker, NEW first \in Seq(WorkerMessage),
         ClosePipes(w, first)
  PROVE  /\ toWorker' \in [Worker -> Pipe(QueueMessage)]
         /\ fromWorker' \in [Worker -> Pipe(WorkerMessage)]
<1>1. /\ toWorker \in [Worker -> Pipe(QueueMessage)]
      /\ fromWorker \in [Worker -> Pipe(WorkerMessage)]
  BY NetType
<1>2. PICK n \in 0..Len(fromWorker[w]) :
        /\ n + Len(first) <= HWM
        /\ fromWorker' = [fromWorker EXCEPT ![w] = SubSeq(@, 1, n) \o first]
  BY DEF ClosePipes
<1>3. SubSeq(fromWorker[w], 1, n) \o first \in Pipe(WorkerMessage)
  <2>1. fromWorker[w] \in Pipe(WorkerMessage)
    BY <1>1
  <2>2. /\ SubSeq(fromWorker[w], 1, n) \in Pipe(WorkerMessage)
        /\ Len(SubSeq(fromWorker[w], 1, n)) <= n
    BY <2>1, PipeSub
  <2>3. /\ SubSeq(fromWorker[w], 1, n) \in Seq(WorkerMessage)
        /\ Len(SubSeq(fromWorker[w], 1, n)) \in Nat
        /\ Len(first) \in Nat
        /\ Len(fromWorker[w]) \in Nat
    BY <2>1, <2>2, LenProperties DEF Pipe
  <2>4. Len(SubSeq(fromWorker[w], 1, n)) + Len(first) <= HWM
    BY <1>2, <2>2, <2>3, HWMAssumption
  <2>5. QED
    BY <2>3, <2>4, PipeConcat
<1>4. QED
  BY <1>1, <1>2, <1>3, PipeEmpty DEF ClosePipes

LEMMA BackendDownType ==
  ASSUME PPNetTypeOK, BackendDown
  PROVE  /\ toWorker' \in [Worker -> Pipe(QueueMessage)]
         /\ fromWorker' \in [Worker -> Pipe(WorkerMessage)]
<1>1. /\ toWorker \in [Worker -> Pipe(QueueMessage)]
      /\ fromWorker \in [Worker -> Pipe(WorkerMessage)]
  BY NetType
<1>2. PICK got \in [Worker -> 0..HWM], kept \in [Worker -> 0..HWM] :
        /\ \A w \in Worker : got[w] <= Len(toWorker[w])
                          /\ kept[w] <= Len(fromWorker[w])
        /\ toWorker' = [w \in Worker |-> SubSeq(toWorker[w], 1, got[w])]
        /\ fromWorker' = [w \in Worker |->
             SubSeq(fromWorker[w], kept[w] + 1, Len(fromWorker[w]))]
  BY DEF BackendDown
<1>3. ASSUME NEW w \in Worker
      PROVE  /\ SubSeq(toWorker[w], 1, got[w]) \in Pipe(QueueMessage)
             /\ SubSeq(fromWorker[w], kept[w] + 1, Len(fromWorker[w]))
                  \in Pipe(WorkerMessage)
  <2>1. toWorker[w] \in Pipe(QueueMessage) /\ fromWorker[w] \in Pipe(WorkerMessage)
    BY <1>1
  <2>2. Len(toWorker[w]) \in Nat /\ Len(fromWorker[w]) \in Nat
    BY <2>1, LenProperties DEF Pipe
  <2>3. got[w] \in 0..Len(toWorker[w]) /\ kept[w] + 1 \in Nat \ {0}
    BY <1>2, <2>2, HWMAssumption
  <2>4. QED
    BY <2>1, <2>2, <2>3, PipeSub
<1>4. QED
  BY <1>2, <1>3

(***************************************************************************)
(* What a service with workers holds: the requests at work and, in the     *)
(* pipes, those sent to the workers and the replies that echo them.        *)
(***************************************************************************)
Cargo(m) == m.kind \in {"REQUEST", "REPLY"}

AtWork(busy, jobs) == {[at |-> <<"job", w>>, msg |-> jobs[w]] : w \in busy}

InPipes(side, pipe) ==
  {[at |-> <<side, p[1], p[2]>>, msg |-> pipe[p[1]][p[2]].body] :
     p \in {q \in Worker \X Nat :
              q[2] \in 1..Len(pipe[q[1]]) /\ Cargo(pipe[q[1]][q[2]])}}

Held(busy, jobs, to, from) ==
  AtWork(busy, jobs) \cup InPipes("to", to) \cup InPipes("from", from)

LEMMA PipeHasItem ==
  ASSUME NEW side, NEW pipe, NEW w \in Worker, NEW i \in 1..Len(pipe[w]), Cargo(pipe[w][i])
  PROVE  [at |-> <<side, w, i>>, msg |-> pipe[w][i].body] \in InPipes(side, pipe)
<1> DEFINE q == <<w, i>>
<1>1. q \in Worker \X Nat /\ q[1] = w /\ q[2] = i
  OBVIOUS
<1>2. QED
  BY <1>1 DEF InPipes

LEMMA ItemOfPipe ==
  ASSUME NEW side, NEW pipe, NEW y \in InPipes(side, pipe)
  PROVE  \E w \in Worker : \E i \in 1..Len(pipe[w]) :
           Cargo(pipe[w][i]) /\ y = [at |-> <<side, w, i>>, msg |-> pipe[w][i].body]
  BY DEF InPipes

(* A pipe after a step: of what it carries, s2 has what s had from the     *)
(* place d + 1 on, or part of that.                                        *)
Window(s2, s, d) ==
  \A i \in 1..Len(s2) : Cargo(s2[i]) => i + d \in 1..Len(s) /\ s2[i] = s[i + d]

LEMMA WindowSame == \A s : Window(s, s, 0)
  BY DEF Window

LEMMA WindowTail ==
  ASSUME NEW S, NEW s \in Seq(S), s # <<>>
  PROVE  Window(Tail(s), s, 1)
  BY HeadTailProperties, LenProperties DEF Window

LEMMA ConcatIs ==
  ASSUME NEW S, NEW s \in Seq(S), NEW t \in Seq(S)
  PROVE  /\ Len(s) \in Nat /\ Len(t) \in Nat /\ Len(s \o t) = Len(s) + Len(t)
         /\ \A i \in 1..Len(s) + Len(t) :
              (s \o t)[i] = IF i <= Len(s) THEN s[i] ELSE t[i - Len(s)]
  BY ConcatProperties, LenProperties

LEMMA WindowConcat ==
  ASSUME NEW S, NEW s \in Seq(S), NEW t \in Seq(S), \A i \in 1..Len(t) : ~Cargo(t[i])
  PROVE  Window(s \o t, s, 0)
  BY ConcatIs DEF Window

LEMMA WindowPrefix ==
  ASSUME NEW S, NEW s \in Seq(S), NEW t \in Seq(S), NEW n \in 0..Len(s),
         \A i \in 1..Len(t) : ~Cargo(t[i])
  PROVE  Window(SubSeq(s, 1, n) \o t, s, 0)
<1> DEFINE p == SubSeq(s, 1, n)
<1>1. Len(s) \in Nat /\ \A i \in 1..n : s[i] \in S
  BY LenProperties, ElementOfSeq
<1>2. p \in Seq(S) /\ Len(p) = n /\ \A i \in 1..n : p[i] = s[i]
  BY <1>1, SubSeqProperties
<1> HIDE DEF p
<1>3. Window(p \o t, p, 0)
  BY <1>2, WindowConcat
<1>4. QED
  BY <1>1, <1>2, <1>3 DEF Window, p

LEMMA WindowSuffix ==
  ASSUME NEW S, NEW s \in Seq(S), NEW k \in 0..Len(s)
  PROVE  Window(SubSeq(s, k + 1, Len(s)), s, k)
<1>1. Len(s) \in Nat /\ \A i \in (k + 1)..Len(s) : s[i] \in S
  BY LenProperties, ElementOfSeq
<1>2. /\ Len(SubSeq(s, k + 1, Len(s))) = IF k + 1 <= Len(s) THEN Len(s) - k ELSE 0
      /\ \A i \in 1..(Len(s) - k) : SubSeq(s, k + 1, Len(s))[i] = s[k + i]
  BY <1>1, SubSeqProperties
<1>3. QED
  BY <1>1, <1>2 DEF Window

LEMMA WindowAppend ==
  ASSUME NEW S, NEW s \in Seq(S), NEW m \in S, ~Cargo(m)
  PROVE  Window(Append(s, m), s, 0)
<1>1. /\ Len(s) \in Nat /\ Len(Append(s, m)) = Len(s) + 1
      /\ \A i \in 1..(Len(s) + 1) : Append(s, m)[i] = IF i <= Len(s) THEN s[i] ELSE m
  BY AppendProperties, LenProperties
<1>2. QED
  BY <1>1 DEF Window

(* What a step leaves in place: jobs that go on, and windows of the pipes. *)
Shift(busy, jobs, to, from, busy2, jobs2, to2, from2, dt, df) ==
  /\ busy2 \subseteq busy
  /\ \A w \in busy2 : jobs2[w] = jobs[w]
  /\ dt \in [Worker -> Nat] /\ \A w \in Worker : Window(to2[w], to[w], dt[w])
  /\ df \in [Worker -> Nat] /\ \A w \in Worker : Window(from2[w], from[w], df[w])

(* Where the copies go that stay in their pipe or with their worker; the   *)
(* head of a pipe that is read, and the job of a worker that is done, are  *)
(* not among them.                                                         *)
Lands(h, H, G, busy2, dt, df) ==
  \A y \in G : \E x \in H :
    /\ y = [at |-> h[x], msg |-> x.msg]
    /\ \A w \in Worker : dt[w] > 0 => x.at # <<"to", w, 1>>
    /\ \A w \in Worker : df[w] > 0 => x.at # <<"from", w, 1>>
    /\ \A w : w \notin busy2 => x.at # <<"job", w>>

LEMMA ShiftMoves ==
  ASSUME NEW busy, NEW jobs, NEW to, NEW from, NEW busy2, NEW jobs2, NEW to2, NEW from2,
         NEW dt, NEW df, Shift(busy, jobs, to, from, busy2, jobs2, to2, from2, dt, df)
  PROVE  \E h : Lands(h, Held(busy, jobs, to, from), Held(busy2, jobs2, to2, from2),
                     busy2, dt, df)
<1> USE DEF Shift
<1> DEFINE H == Held(busy, jobs, to, from)
           h == [x \in H |->
                   IF x.at[1] = "to" THEN <<"to", x.at[2], x.at[3] - dt[x.at[2]]>>
                   ELSE IF x.at[1] = "from" THEN <<"from", x.at[2], x.at[3] - df[x.at[2]]>>
                   ELSE x.at]
<1>1. ASSUME NEW w \in busy2
      PROVE  \E x \in H : /\ x.at = <<"job", w>>
                          /\ [at |-> <<"job", w>>, msg |-> jobs2[w]] = [at |-> h[x], msg |-> x.msg]
  <2> DEFINE x == [at |-> <<"job", w>>, msg |-> jobs[w]]
  <2>1. x \in H /\ x.at = <<"job", w>>
    BY DEF Held, AtWork
  <2>2. x.at[1] = "job"
    OBVIOUS
  <2>3. h[x] = x.at
    BY <2>1, <2>2
  <2>4. QED
    BY <2>1, <2>3
<1>2. ASSUME NEW w \in Worker, NEW i \in 1..Len(to2[w]), Cargo(to2[w][i])
      PROVE  \E x \in H : /\ x.at = <<"to", w, i + dt[w]>>
                          /\ [at |-> <<"to", w, i>>, msg |-> to2[w][i].body]
                               = [at |-> h[x], msg |-> x.msg]
  <2> DEFINE x == [at |-> <<"to", w, i + dt[w]>>, msg |-> to2[w][i].body]
  <2>1. /\ i + dt[w] \in 1..Len(to[w]) /\ to2[w][i] = to[w][i + dt[w]]
        /\ dt[w] \in Nat /\ i \in Int
    <3>1. Window(to2[w], to[w], dt[w]) /\ dt[w] \in Nat
      OBVIOUS
    <3>2. QED
      BY <1>2, <3>1 DEF Window
  <2>2. x \in H
    BY <1>2, <2>1, PipeHasItem DEF Held
  <2>3. x.at[1] = "to" /\ x.at[2] = w /\ x.at[3] = i + dt[w]
    OBVIOUS
  <2>4. h[x] = <<"to", w, i>>
    <3>1. h[x] = <<"to", x.at[2], x.at[3] - dt[x.at[2]]>>
      BY <2>2, <2>3
    <3>2. x.at[2] = w /\ x.at[3] - dt[x.at[2]] = i
      BY <2>1, <2>3
    <3>3. QED
      BY <3>1, <3>2
  <2>5. QED
    BY <2>2, <2>4
<1>3. ASSUME NEW w \in Worker, NEW i \in 1..Len(from2[w]), Cargo(from2[w][i])
      PROVE  \E x \in H : /\ x.at = <<"from", w, i + df[w]>>
                          /\ [at |-> <<"from", w, i>>, msg |-> from2[w][i].body]
                               = [at |-> h[x], msg |-> x.msg]
  <2> DEFINE x == [at |-> <<"from", w, i + df[w]>>, msg |-> from2[w][i].body]
  <2>1. /\ i + df[w] \in 1..Len(from[w]) /\ from2[w][i] = from[w][i + df[w]]
        /\ df[w] \in Nat /\ i \in Int
    <3>1. Window(from2[w], from[w], df[w]) /\ df[w] \in Nat
      OBVIOUS
    <3>2. QED
      BY <1>3, <3>1 DEF Window
  <2>2. x \in H
    BY <1>3, <2>1, PipeHasItem DEF Held
  <2>3. x.at[1] = "from" /\ x.at[2] = w /\ x.at[3] = i + df[w]
    OBVIOUS
  <2>4. h[x] = <<"from", w, i>>
    <3>1. h[x] = <<"from", x.at[2], x.at[3] - df[x.at[2]]>>
      BY <2>2, <2>3
    <3>2. x.at[2] = w /\ x.at[3] - df[x.at[2]] = i
      BY <2>1, <2>3
    <3>3. QED
      BY <3>1, <3>2
  <2>5. QED
    BY <2>2, <2>4
<1> HIDE DEF h
<1>4. ASSUME NEW y \in Held(busy2, jobs2, to2, from2)
      PROVE  \E x \in H :
               /\ y = [at |-> h[x], msg |-> x.msg]
               /\ \A w \in Worker : dt[w] > 0 => x.at # <<"to", w, 1>>
               /\ \A w \in Worker : df[w] > 0 => x.at # <<"from", w, 1>>
               /\ \A w : w \notin busy2 => x.at # <<"job", w>>
  <2>1. CASE y \in AtWork(busy2, jobs2)
    <3>1. PICK v \in busy2 : y = [at |-> <<"job", v>>, msg |-> jobs2[v]]
      BY <2>1 DEF AtWork
    <3>2. PICK x \in H : x.at = <<"job", v>> /\ y = [at |-> h[x], msg |-> x.msg]
      BY <1>1, <3>1
    <3>3. /\ \A w : x.at # <<"to", w, 1>> /\ x.at # <<"from", w, 1>>
          /\ \A w : x.at = <<"job", w>> => w = v
      BY <3>2
    <3>4. QED
      BY <3>2, <3>3
  <2>2. CASE y \in InPipes("to", to2)
    <3>1. PICK w \in Worker :
            \E i \in 1..Len(to2[w]) :
              Cargo(to2[w][i]) /\ y = [at |-> <<"to", w, i>>, msg |-> to2[w][i].body]
      BY <2>2, ItemOfPipe
    <3>2. PICK i \in 1..Len(to2[w]) :
            Cargo(to2[w][i]) /\ y = [at |-> <<"to", w, i>>, msg |-> to2[w][i].body]
      BY <3>1
    <3>3. PICK x \in H : x.at = <<"to", w, i + dt[w]>> /\ y = [at |-> h[x], msg |-> x.msg]
      BY <1>2, <3>2
    <3>4. i + dt[w] \in Int /\ (dt[w] > 0 => i + dt[w] # 1)
      OBVIOUS
    <3>5. \A v : /\ x.at # <<"job", v>> /\ x.at # <<"from", v, 1>>
                /\ (dt[w] > 0 => x.at # <<"to", v, 1>>)
                /\ (x.at = <<"to", v, 1>> => v = w)
      BY <3>3, <3>4
    <3>6. QED
      BY <3>3, <3>5
  <2>3. CASE y \in InPipes("from", from2)
    <3>1. PICK w \in Worker :
            \E i \in 1..Len(from2[w]) :
              Cargo(from2[w][i]) /\ y = [at |-> <<"from", w, i>>, msg |-> from2[w][i].body]
      BY <2>3, ItemOfPipe
    <3>2. PICK i \in 1..Len(from2[w]) :
            Cargo(from2[w][i]) /\ y = [at |-> <<"from", w, i>>, msg |-> from2[w][i].body]
      BY <3>1
    <3>3. PICK x \in H : x.at = <<"from", w, i + df[w]>> /\ y = [at |-> h[x], msg |-> x.msg]
      BY <1>3, <3>2
    <3>4. i + df[w] \in Int /\ (df[w] > 0 => i + df[w] # 1)
      OBVIOUS
    <3>5. \A v : /\ x.at # <<"job", v>> /\ x.at # <<"to", v, 1>>
                /\ (df[w] > 0 => x.at # <<"from", v, 1>>)
                /\ (x.at = <<"from", v, 1>> => v = w)
      BY <3>3, <3>4
    <3>6. QED
      BY <3>3, <3>5
  <2>4. QED
    BY <2>1, <2>2, <2>3 DEF Held
<1>5. Lands(h, H, Held(busy2, jobs2, to2, from2), busy2, dt, df)
  BY <1>4 DEF Lands
<1>6. QED
  BY <1>5

LEMMA HeldTypesOf ==
  ASSUME NEW busy, NEW jobs, \A w \in busy : jobs[w] \in Request,
         NEW to \in [Worker -> Seq(QueueMessage)],
         NEW from \in [Worker -> Seq(WorkerMessage)]
  PROVE  HeldTypes(Held(busy, jobs, to, from))
<1>1. \A x \in AtWork(busy, jobs) :
        x.at # <<"client">> /\ x.at # <<"frontend">> /\ x.msg \in Request
  BY DEF AtWork
<1>2. \A x \in InPipes("to", to) :
        x.at # <<"client">> /\ x.at # <<"frontend">> /\ x.msg \in Request
  <2>1. ASSUME NEW w \in Worker, NEW i \in 1..Len(to[w]), Cargo(to[w][i])
        PROVE  to[w][i].body \in Request
    <3>1. to[w][i] \in QueueMessage
      BY ElementOfSeq
    <3>2. QED
      BY <2>1, <3>1 DEF QueueMessage, HEARTBEAT, Cargo
  <2>2. QED
    <3>1. ASSUME NEW x \in InPipes("to", to)
          PROVE  x.at # <<"client">> /\ x.at # <<"frontend">> /\ x.msg \in Request
      <4>1. PICK w \in Worker :
              \E i \in 1..Len(to[w]) :
                Cargo(to[w][i]) /\ x = [at |-> <<"to", w, i>>, msg |-> to[w][i].body]
        BY ItemOfPipe
      <4>2. QED
        BY <2>1, <4>1
    <3>2. QED
      BY <3>1
<1>3. \A x \in InPipes("from", from) :
        x.at # <<"client">> /\ x.at # <<"frontend">> /\ x.msg \in Request
  <2>1. ASSUME NEW w \in Worker, NEW i \in 1..Len(from[w]), Cargo(from[w][i])
        PROVE  from[w][i].body \in Request
    <3>1. from[w][i] \in WorkerMessage
      BY ElementOfSeq
    <3>2. QED
      BY <2>1, <3>1 DEF WorkerMessage, READY, HEARTBEAT, Cargo
  <2>2. QED
    <3>1. ASSUME NEW x \in InPipes("from", from)
          PROVE  x.at # <<"client">> /\ x.at # <<"frontend">> /\ x.msg \in Request
      <4>1. PICK w \in Worker :
              \E i \in 1..Len(from[w]) :
                Cargo(from[w][i]) /\ x = [at |-> <<"from", w, i>>, msg |-> from[w][i].body]
        BY ItemOfPipe
      <4>2. QED
        BY <2>1, <4>1
    <3>2. QED
      BY <3>1
<1>4. QED
  BY <1>1, <1>2, <1>3 DEF HeldTypes, Held

(* Nothing is handed over: messages without a request come and go, and     *)
(* requests are dropped.                                                   *)
LEMMA KeepHeld ==
  ASSUME UNCHANGED <<route, cphase, request_seq>>,
         requests' \subseteq requests, replies' \subseteq replies,
         NEW busy, NEW jobs, NEW to, NEW from, NEW busy2, NEW jobs2, NEW to2, NEW from2,
         NEW dt, NEW df, Shift(busy, jobs, to, from, busy2, jobs2, to2, from2, dt, df),
         CopiesInv(Held(busy, jobs, to, from)),
         HeldTypes(Held(busy2, jobs2, to2, from2))
  PROVE  CopiesInv(Held(busy2, jobs2, to2, from2))'
<1>1. PICK h : \A y \in Held(busy2, jobs2, to2, from2) :
                 \E x \in Held(busy, jobs, to, from) : y = [at |-> h[x], msg |-> x.msg]
  BY ShiftMoves DEF Lands
<1>2. QED
  BY <1>1, KeepCopies

(* The same for pipes that are cut at their end or that messages without a *)
(* request are added to.                                                   *)
LEMMA KeepInPlace ==
  ASSUME UNCHANGED <<route, cphase, request_seq>>,
         requests' \subseteq requests, replies' \subseteq replies,
         NEW busy, NEW jobs, NEW to, NEW from, NEW busy2, NEW jobs2, NEW to2, NEW from2,
         busy2 \subseteq busy, \A w \in busy2 : jobs2[w] = jobs[w],
         \A w \in Worker : Window(to2[w], to[w], 0) /\ Window(from2[w], from[w], 0),
         CopiesInv(Held(busy, jobs, to, from)),
         HeldTypes(Held(busy2, jobs2, to2, from2))
  PROVE  CopiesInv(Held(busy2, jobs2, to2, from2))'
<1> DEFINE d == [w \in Worker |-> 0]
<1>1. Shift(busy, jobs, to, from, busy2, jobs2, to2, from2, d, d)
  BY DEF Shift
<1> HIDE DEF d
<1>2. QED
  BY <1>1, KeepHeld

LEMMA WindowEmpty == \A s, d : Window(<<>>, s, d)
  BY DEF Window

LEMMA SignalsAreNoCargo == ~Cargo(READY) /\ ~Cargo(HEARTBEAT)
  BY DEF Cargo, READY, HEARTBEAT

(* ClosePipes and BackendDown leave windows of the pipes.                  *)
LEMMA ClosePipesWindows ==
  ASSUME toWorker \in [Worker -> Seq(QueueMessage)],
         fromWorker \in [Worker -> Seq(WorkerMessage)],
         NEW w \in Worker, NEW first \in Seq(WorkerMessage),
         \A i \in 1..Len(first) : ~Cargo(first[i]), ClosePipes(w, first)
  PROVE  \A v \in Worker : /\ Window(toWorker'[v], toWorker[v], 0)
                          /\ Window(fromWorker'[v], fromWorker[v], 0)
<1>1. PICK n \in 0..Len(fromWorker[w]) :
        fromWorker' = [fromWorker EXCEPT ![w] = SubSeq(@, 1, n) \o first]
  BY DEF ClosePipes
<1>2. fromWorker[w] \in Seq(WorkerMessage)
  OBVIOUS
<1>3. Window(SubSeq(fromWorker[w], 1, n) \o first, fromWorker[w], 0)
  BY <1>2, WindowPrefix
<1>4. \A v \in Worker : Window(fromWorker'[v], fromWorker[v], 0)
  BY <1>1, <1>3, WindowSame
<1>5. \A v \in Worker : Window(toWorker'[v], toWorker[v], 0)
  BY WindowSame, WindowEmpty DEF ClosePipes
<1>6. QED
  BY <1>4, <1>5

LEMMA BackendDownWindows ==
  ASSUME toWorker \in [Worker -> Seq(QueueMessage)],
         fromWorker \in [Worker -> Seq(WorkerMessage)], BackendDown
  PROVE  \E d \in [Worker -> Nat] :
           \A w \in Worker : /\ Window(toWorker'[w], toWorker[w], 0)
                            /\ Window(fromWorker'[w], fromWorker[w], d[w])
<1>1. PICK got \in [Worker -> 0..HWM], kept \in [Worker -> 0..HWM] :
        /\ \A w \in Worker : got[w] <= Len(toWorker[w]) /\ kept[w] <= Len(fromWorker[w])
        /\ toWorker' = [w \in Worker |-> SubSeq(toWorker[w], 1, got[w])]
        /\ fromWorker' = [w \in Worker |->
             SubSeq(fromWorker[w], kept[w] + 1, Len(fromWorker[w]))]
  BY DEF BackendDown
<1>2. ASSUME NEW w \in Worker
      PROVE  /\ Window(toWorker'[w], toWorker[w], 0)
             /\ Window(fromWorker'[w], fromWorker[w], kept[w])
  <2>1. /\ toWorker[w] \in Seq(QueueMessage) /\ Len(toWorker[w]) \in Nat
        /\ fromWorker[w] \in Seq(WorkerMessage) /\ Len(fromWorker[w]) \in Nat
    BY LenProperties
  <2>2. got[w] \in 0..Len(toWorker[w]) /\ kept[w] \in 0..Len(fromWorker[w])
    BY <1>1, <2>1, HWMAssumption
  <2>3. Window(SubSeq(fromWorker[w], kept[w] + 1, Len(fromWorker[w])), fromWorker[w], kept[w])
    BY <2>1, <2>2, WindowSuffix
  <2>4. Window(SubSeq(toWorker[w], 1, got[w]), toWorker[w], 0)
    <3>1. \A i \in 1..got[w] : toWorker[w][i] \in QueueMessage
      BY <2>1, <2>2, ElementOfSeq
    <3>2. /\ Len(SubSeq(toWorker[w], 1, got[w])) = got[w]
          /\ \A i \in 1..got[w] : SubSeq(toWorker[w], 1, got[w])[i] = toWorker[w][i]
      BY <2>2, <3>1, SubSeqProperties
    <3>3. QED
      BY <2>1, <2>2, <3>2 DEF Window
  <2>5. QED
    BY <1>1, <2>3, <2>4
<1>3. kept \in [Worker -> Nat]
  BY HWMAssumption
<1>4. QED
  BY <1>2, <1>3

LEMMA RouterSendWindows ==
  ASSUME toWorker \in [Worker -> Seq(QueueMessage)],
         NEW S, NEW m \in QueueMessage, ~Cargo(m), RouterSend(S, m)
  PROVE  \A w \in Worker : Window(toWorker'[w], toWorker[w], 0)
<1>1. ASSUME NEW w \in Worker
      PROVE  Window(toWorker'[w], toWorker[w], 0)
  <2>1. Window(Append(toWorker[w], m), toWorker[w], 0)
    BY WindowAppend
  <2>2. toWorker'[w] = toWorker[w] \/ toWorker'[w] = Append(toWorker[w], m)
    BY DEF RouterSend
  <2>3. QED
    BY <2>1, <2>2, WindowSame
<1>2. QED
  BY <1>1

(* A request goes from the frontend into the pipe of w, or is dropped.     *)
Dispatched(to, to2, w, S, m) ==
  \A v \in Worker : to2[v] = IF v \in {w} \cap S /\ Len(to[v]) < HWM
                            THEN Append(to[v], RequestMsg(m)) ELSE to[v]

LEMMA DispatchHeld ==
  ASSUME UNCHANGED <<route, cphase, request_seq, replies>>,
         NEW m \in requests, requests' = requests \ {m},
         NEW busy, NEW jobs, NEW w, NEW S,
         NEW to \in [Worker -> Seq(QueueMessage)], NEW to2, Dispatched(to, to2, w, S, m),
         NEW from,
         CopiesInv(Held(busy, jobs, to, from)),
         HeldTypes(Held(busy, jobs, to2, from))
  PROVE  CopiesInv(Held(busy, jobs, to2, from))'
<1> DEFINE H == Held(busy, jobs, to, from)
           z == [at |-> <<"frontend">>, msg |-> m]
           p == <<"to", w, Len(to[w]) + 1>>
           h == [x \in H |-> x.at]
<1>1. z \in Underway(H) /\ z \notin H
  BY DEF Underway, CopiesInv, HeldTypes
<1>2. ASSUME NEW y \in Held(busy, jobs, to2, from)
      PROVE  \/ \E x \in H : x # z /\ y = [at |-> h[x], msg |-> x.msg]
             \/ y = [at |-> p, msg |-> z.msg]
  <2>1. CASE y \in AtWork(busy, jobs)
    <3>1. y \in H /\ y = [at |-> y.at, msg |-> y.msg]
      BY <2>1 DEF Held, AtWork
    <3>2. QED
      BY <1>1, <3>1
  <2>2. CASE y \in InPipes("from", from)
    <3>1. y \in H /\ y = [at |-> y.at, msg |-> y.msg]
      BY <2>2, ItemOfPipe DEF Held
    <3>2. QED
      BY <1>1, <3>1
  <2>3. CASE y \in InPipes("to", to2)
    <3>1. PICK v \in Worker :
            \E i \in 1..Len(to2[v]) :
              Cargo(to2[v][i]) /\ y = [at |-> <<"to", v, i>>, msg |-> to2[v][i].body]
      BY <2>3, ItemOfPipe
    <3>2. PICK i \in 1..Len(to2[v]) :
            Cargo(to2[v][i]) /\ y = [at |-> <<"to", v, i>>, msg |-> to2[v][i].body]
      BY <3>1
    <3>3. /\ Len(to[v]) \in Nat
          /\ i \in 1..Len(to[v]) => to2[v][i] = to[v][i]
          /\ i \notin 1..Len(to[v]) => v = w /\ i = Len(to[v]) + 1 /\ to2[v][i] = RequestMsg(m)
      <4>1. to[v] \in Seq(QueueMessage) /\ Len(to[v]) \in Nat
        BY LenProperties
      <4>2. /\ Len(Append(to[v], RequestMsg(m))) = Len(to[v]) + 1
            /\ \A j \in 1..Len(to[v]) : Append(to[v], RequestMsg(m))[j] = to[v][j]
            /\ Append(to[v], RequestMsg(m))[Len(to[v]) + 1] = RequestMsg(m)
        BY <4>1
      <4>3. to2[v] = to[v] \/ (v = w /\ to2[v] = Append(to[v], RequestMsg(m)))
        BY DEF Dispatched
      <4>4. QED
        BY <3>2, <4>1, <4>2, <4>3
    <3>4. CASE i \in 1..Len(to[v])
      <4>1. y \in InPipes("to", to)
        BY <3>2, <3>3, <3>4, PipeHasItem
      <4>2. y \in H /\ y = [at |-> y.at, msg |-> y.msg]
        BY <3>2, <4>1 DEF Held
      <4>3. QED
        BY <1>1, <4>2
    <3>5. CASE i \notin 1..Len(to[v])
      <4>1. v = w /\ i = Len(to[w]) + 1 /\ to2[v][i].body = m
        BY <3>3, <3>5 DEF RequestMsg
      <4>2. QED
        BY <3>2, <4>1
    <3>6. QED
      BY <3>4, <3>5
  <2>4. QED
    BY <2>1, <2>2, <2>3 DEF Held
<1>3. \A n \in requests' : n \in requests /\ z # [at |-> <<"frontend">>, msg |-> n]
  OBVIOUS
<1>4. \A n \in replies' : n \in replies /\ z # [at |-> <<"client">>, msg |-> n]
  OBVIOUS
<1> HIDE DEF H, z, p, h
<1>5. Handover(H, Held(busy, jobs, to2, from), h, z, p)
  BY <1>2 DEF Handover
<1>6. QED
  BY <1>1, <1>3, <1>4, <1>5, TransferCopies DEF H

(* The service reads a message of w: a reply goes to its client, if the    *)
(* connection is still there.                                              *)
LEMMA ReadHeld ==
  ASSUME UNCHANGED <<route, cphase, request_seq, requests>>,
         NEW busy, NEW jobs,
         NEW to \in [Worker -> Seq(QueueMessage)],
         NEW from \in [Worker -> Seq(WorkerMessage)], NEW w \in Worker, from[w] # <<>>,
         replies' = IF Head(from[w]).kind = "REPLY"
                    THEN RoutedReplies(Head(from[w]).body) ELSE replies,
         NEW from2, \A v \in Worker : from2[v] = IF v = w THEN Tail(from[v]) ELSE from[v],
         CopiesInv(Held(busy, jobs, to, from)),
         HeldTypes(Held(busy, jobs, to, from2))
  PROVE  CopiesInv(Held(busy, jobs, to, from2))'
<1> DEFINE H == Held(busy, jobs, to, from)
           G == Held(busy, jobs, to, from2)
           z == [at |-> <<"from", w, 1>>, msg |-> Head(from[w]).body]
           dt == [v \in Worker |-> 0]
           df == [v \in Worker |-> IF v = w THEN 1 ELSE 0]
<1>1. PICK h : \A y \in G : \E x \in H :
        y = [at |-> h[x], msg |-> x.msg] /\ x.at # <<"from", w, 1>>
  <2>1. dt \in [Worker -> Nat] /\ df \in [Worker -> Nat] /\ df[w] > 0
    OBVIOUS
  <2>2. \A v \in Worker : Window(to[v], to[v], dt[v])
    BY WindowSame
  <2>3. \A v \in Worker : Window(from2[v], from[v], df[v])
    BY WindowSame, WindowTail
  <2> HIDE DEF dt, df
  <2>4. Shift(busy, jobs, to, from, busy, jobs, to, from2, dt, df)
    BY <2>1, <2>2, <2>3 DEF Shift
  <2>5. PICK h : Lands(h, H, G, busy, dt, df)
    BY <2>4, ShiftMoves
  <2>6. QED
    BY <2>1, <2>5 DEF Lands
<1>2. CASE replies' = replies
  <2>1. \A y \in G : \E x \in H : y = [at |-> h[x], msg |-> x.msg]
    BY <1>1
  <2> HIDE DEF H, G
  <2>2. QED
    BY <1>2, <2>1, KeepCopies DEF H, G
<1>3. CASE Head(from[w]).kind = "REPLY" /\ Connected(Head(from[w]).body)
  <2>1. from[w][1] = Head(from[w]) /\ 1 \in 1..Len(from[w])
    <3>1. from[w] \in Seq(WorkerMessage) /\ from[w] # <<>>
      OBVIOUS
    <3>2. Len(from[w]) \in Nat /\ Len(from[w]) # 0
      BY <3>1, LenProperties, EmptySeq
    <3>3. QED
      BY <3>1, <3>2, HeadTailProperties
  <2>2. z \in InPipes("from", from)
    BY <1>3, <2>1, PipeHasItem DEF Cargo
  <2>3. z \in Underway(H)
    BY <2>2 DEF Held, Underway
  <2>4. Handover(H, G, h, z, <<"client">>)
    <3>1. z.at = <<"from", w, 1>>
      OBVIOUS
    <3> HIDE DEF z
    <3>2. QED
      BY <1>1, <3>1 DEF Handover
  <2>5. \A m \in requests' : m \in requests /\ z # [at |-> <<"frontend">>, msg |-> m]
    OBVIOUS
  <2>6. \A m \in replies' :
          \/ m \in replies /\ z # [at |-> <<"client">>, msg |-> m]
          \/ m = z.msg /\ Connected(m)
    BY <1>3 DEF RoutedReplies
  <2> HIDE DEF H, G, z
  <2>7. QED
    BY <2>3, <2>4, <2>5, <2>6, TransferCopies DEF H, G
<1>4. QED
  BY <1>2, <1>3 DEF RoutedReplies

(* A worker that is free takes the request at the head of its pipe.        *)
LEMMA TakeHeld ==
  ASSUME UNCHANGED <<route, cphase, request_seq, requests, replies>>,
         NEW busy, NEW jobs, NEW to \in [Worker -> Seq(QueueMessage)], NEW from,
         NEW w \in Worker, w \notin busy, to[w] # <<>>, Cargo(Head(to[w])),
         NEW to2, \A v \in Worker : to2[v] = IF v = w THEN Tail(to[v]) ELSE to[v],
         NEW jobs2, jobs2[w] = Head(to[w]).body, \A v \in busy : jobs2[v] = jobs[v],
         CopiesInv(Held(busy, jobs, to, from)),
         HeldTypes(Held(busy \cup {w}, jobs2, to2, from))
  PROVE  CopiesInv(Held(busy \cup {w}, jobs2, to2, from))'
<1> DEFINE H == Held(busy, jobs, to, from)
           K == Held(busy, jobs2, to2, from)
           G == Held(busy \cup {w}, jobs2, to2, from)
           z == [at |-> <<"to", w, 1>>, msg |-> Head(to[w]).body]
           p == <<"job", w>>
           dt == [v \in Worker |-> IF v = w THEN 1 ELSE 0]
           df == [v \in Worker |-> 0]
<1>1. PICK h : Lands(h, H, K, busy, dt, df)
  <2>1. dt \in [Worker -> Nat] /\ df \in [Worker -> Nat]
    OBVIOUS
  <2>2. \A v \in Worker : Window(to2[v], to[v], dt[v])
    BY WindowSame, WindowTail
  <2>3. \A v \in Worker : Window(from[v], from[v], df[v])
    BY WindowSame
  <2> HIDE DEF dt, df
  <2>4. Shift(busy, jobs, to, from, busy, jobs2, to2, from, dt, df)
    BY <2>1, <2>2, <2>3 DEF Shift
  <2>5. QED
    BY <2>4, ShiftMoves
<1>2. z \in Underway(H)
  <2>1. to[w][1] = Head(to[w]) /\ 1 \in 1..Len(to[w])
    <3>1. to[w] \in Seq(QueueMessage) /\ to[w] # <<>>
      OBVIOUS
    <3>2. Len(to[w]) \in Nat /\ Len(to[w]) # 0
      BY <3>1, LenProperties, EmptySeq
    <3>3. QED
      BY <3>1, <3>2, HeadTailProperties
  <2>2. z \in InPipes("to", to)
    BY <2>1, PipeHasItem
  <2>3. QED
    BY <2>2 DEF Held, Underway
<1>3. ASSUME NEW y \in G
      PROVE  y \in K \/ y = [at |-> p, msg |-> z.msg]
  BY DEF Held, AtWork
<1>4. Handover(H, G, h, z, p)
  <2>1. dt[w] > 0 /\ z.at = <<"to", w, 1>>
    OBVIOUS
  <2>2. \A y \in K : \E x \in H : x # z /\ y = [at |-> h[x], msg |-> x.msg]
    <3> HIDE DEF H, K, z, dt, df
    <3>1. QED
      BY <1>1, <2>1 DEF Lands
  <2> HIDE DEF H, K, G, z, p
  <2>3. QED
    BY <1>3, <2>2 DEF Handover
<1>5. /\ \A m \in requests' : m \in requests /\ z # [at |-> <<"frontend">>, msg |-> m]
      /\ \A m \in replies' : m \in replies /\ z # [at |-> <<"client">>, msg |-> m]
  OBVIOUS
<1> HIDE DEF H, G, z, p
<1>6. QED
  BY <1>2, <1>4, <1>5, TransferCopies DEF H, G

(* A worker that is done sends the reply, and messages without a request.  *)
LEMMA AnswerHeld ==
  ASSUME UNCHANGED <<route, cphase, request_seq, requests, replies>>,
         NEW busy, NEW jobs, NEW to, NEW from \in [Worker -> Seq(WorkerMessage)],
         NEW w \in Worker, w \in busy,
         NEW more \in Seq(WorkerMessage), \A i \in 1..Len(more) : ~Cargo(more[i]),
         ReplyMsg(jobs[w]) \in WorkerMessage,
         NEW from2,
         \A v \in Worker :
           from2[v] = IF v = w THEN from[v] \o (<<ReplyMsg(jobs[w])>> \o more) ELSE from[v],
         NEW jobs2, \A v \in busy \ {w} : jobs2[v] = jobs[v],
         CopiesInv(Held(busy, jobs, to, from)),
         HeldTypes(Held(busy \ {w}, jobs2, to, from2))
  PROVE  CopiesInv(Held(busy \ {w}, jobs2, to, from2))'
<1> DEFINE H == Held(busy, jobs, to, from)
           G == Held(busy \ {w}, jobs2, to, from2)
           z == [at |-> <<"job", w>>, msg |-> jobs[w]]
           p == <<"from", w, Len(from[w]) + 1>>
           h == [x \in H |-> x.at]
<1>1. z \in H /\ z \in Underway(H)
  BY DEF Held, AtWork, Underway
<1>2. ASSUME NEW y \in G
      PROVE  \/ \E x \in H : x # z /\ y = [at |-> h[x], msg |-> x.msg]
             \/ y = [at |-> p, msg |-> z.msg]
  <2>1. CASE y \in AtWork(busy \ {w}, jobs2)
    <3>1. y \in H /\ y = [at |-> y.at, msg |-> y.msg] /\ y # z
      BY <2>1 DEF Held, AtWork
    <3>2. QED
      BY <3>1
  <2>2. CASE y \in InPipes("to", to)
    <3>1. y \in H /\ y = [at |-> y.at, msg |-> y.msg] /\ y # z
      BY <2>2, ItemOfPipe DEF Held
    <3>2. QED
      BY <3>1
  <2>3. CASE y \in InPipes("from", from2)
    <3>1. PICK v \in Worker :
            \E i \in 1..Len(from2[v]) :
              Cargo(from2[v][i]) /\ y = [at |-> <<"from", v, i>>, msg |-> from2[v][i].body]
      BY <2>3, ItemOfPipe
    <3>2. PICK i \in 1..Len(from2[v]) :
            Cargo(from2[v][i]) /\ y = [at |-> <<"from", v, i>>, msg |-> from2[v][i].body]
      BY <3>1
    <3>3. /\ Len(from[v]) \in Nat
          /\ i \in 1..Len(from[v]) => from2[v][i] = from[v][i]
          /\ i \notin 1..Len(from[v]) =>
               v = w /\ i = Len(from[v]) + 1 /\ from2[v][i] = ReplyMsg(jobs[w])
      <4> DEFINE r == <<ReplyMsg(jobs[w])>>
                 t == r \o more
      <4>1. from[v] \in Seq(WorkerMessage) /\ Len(from[v]) \in Nat
        BY LenProperties
      <4>2. /\ r \in Seq(WorkerMessage) /\ Len(r) = 1 /\ r[1] = ReplyMsg(jobs[w])
            /\ Len(more) \in Nat
        BY LenProperties
      <4> HIDE DEF r
      <4>3. /\ t \in Seq(WorkerMessage) /\ Len(t) = 1 + Len(more)
            /\ \A j \in 1..(1 + Len(more)) : t[j] = IF j <= 1 THEN r[j] ELSE more[j - 1]
        BY <4>2, ConcatProperties
      <4>4. t[1] = ReplyMsg(jobs[w]) /\ \A j \in 1..Len(t) : j > 1 => ~Cargo(t[j])
        BY <4>2, <4>3
      <4>5. from2[v] = IF v = w THEN from[v] \o t ELSE from[v]
        BY DEF r
      <4> HIDE DEF t
      <4>6. /\ Len(from[v] \o t) = Len(from[v]) + Len(t)
            /\ \A j \in 1..(Len(from[v]) + Len(t)) :
                 (from[v] \o t)[j] = IF j <= Len(from[v]) THEN from[v][j]
                                     ELSE t[j - Len(from[v])]
        <5>1. t \in Seq(WorkerMessage)
          BY <4>3
        <5>2. QED
          BY <4>1, <5>1, ConcatIs
      <4>7. CASE v # w
        BY <3>2, <4>1, <4>5, <4>7
      <4>8. CASE v = w
        <5>1. from2[v] = from[v] \o t /\ Len(t) \in Nat
          BY <4>2, <4>3, <4>5, <4>8
        <5>2. CASE i \in 1..Len(from[v])
          BY <4>1, <4>6, <5>1, <5>2
        <5>3. CASE i \notin 1..Len(from[v])
          <6>1. i - Len(from[v]) \in 1..Len(t) /\ from2[v][i] = t[i - Len(from[v])]
            BY <4>1, <4>6, <5>1, <5>3
          <6>2. i - Len(from[v]) = 1
            BY <3>2, <4>4, <6>1
          <6>3. QED
            BY <4>1, <4>4, <4>8, <5>3, <6>1, <6>2
        <5>4. QED
          BY <4>1, <5>2, <5>3
      <4>9. QED
        BY <4>7, <4>8
    <3>4. CASE i \in 1..Len(from[v])
      <4>1. y \in InPipes("from", from)
        BY <3>2, <3>3, <3>4, PipeHasItem
      <4>2. y \in H /\ y = [at |-> y.at, msg |-> y.msg] /\ y # z
        BY <3>2, <4>1 DEF Held
      <4>3. QED
        BY <4>2
    <3>5. CASE i \notin 1..Len(from[v])
      <4>1. v = w /\ i = Len(from[w]) + 1 /\ from2[v][i].body = jobs[w]
        BY <3>3, <3>5 DEF ReplyMsg
      <4>2. QED
        BY <3>2, <4>1
    <3>6. QED
      BY <3>4, <3>5
  <2>4. QED
    BY <2>1, <2>2, <2>3 DEF Held
<1>3. /\ \A m \in requests' : m \in requests /\ z # [at |-> <<"frontend">>, msg |-> m]
      /\ \A m \in replies' : m \in replies /\ z # [at |-> <<"client">>, msg |-> m]
  OBVIOUS
<1> HIDE DEF H, G, z, p, h
<1>4. Handover(H, G, h, z, p)
  BY <1>2 DEF Handover
<1>5. QED
  BY <1>1, <1>3, <1>4, TransferCopies DEF H, G

=============================================================================
