# Verification of zeromq-practices

TLA+ models of the messaging patterns of this repository, the TLC runs that
check them on small instances, and TLAPS proofs of what should hold in every
instance. Line numbers are those of the files under `src/`.

1. [The system](#1-the-system)
2. [Modules](#2-modules)
3. [How the models relate to the code](#3-how-the-models-relate-to-the-code)
4. [Runs](#4-runs)
5. [What the runs found](#5-what-the-runs-found)
6. [Fairness](#6-fairness)
7. [Proofs](#7-proofs)
8. [What is not modelled](#8-what-is-not-modelled)
9. [Plan](#9-plan)

## 1. The system

The repository holds small programs over ZeroMQ and CZMQ, in the order of the
ZeroMQ guide. They are separate programs: what they share are protocols, and
`lpclient.cpp` is the client of three of them. Every program is one thread
around a `zmq_poll` loop, so the hard part is seldom a data race: it is the
interleaving of several processes over pipes, with time-outs, retries, restarts
and lists that go stale. Threads share memory in two places only: the table of
`zmq_x.c`, and the buffer for endpoint names of `cluster/endpoint.cpp`.

### Chapter 4: reliable request-reply (the core)

| Component | State | Operations | Talks to |
|---|---|---|---|
| Paranoid Pirate queue, `ppqueue.c` | list of workers with expiry, `heartbeat_at`, the poll's result | poll; message of a worker (`s_worker_ready`); request (`s_workers_next`); heartbeats and `s_workers_purge`; stop, start | workers (ROUTER, one identity each), clients (ROUTER) |
| Paranoid Pirate worker, `ppworker.c` | `liveness`, `interval`, `cycles`, `heartbeat_at`, the job | start with READY; request and reply; heartbeat; silence; back-off and new socket; simulated crash and overload | the queue (DEALER) |
| Lazy Pirate client, `lpclient.cpp` | `sequence`, `retries_left`, its socket | send; reply; time-out and retry on a new socket; abandon | any of the services (REQ) |
| Lazy Pirate server, `lpserver.cpp` | `cycles`, the request at hand | receive; reply; simulated crash; killed and restarted | clients (REP) |
| Simple Pirate queue, `spqueue.cpp` | list of available workers | poll; worker's message; request; stop, start | workers and clients (ROUTER) |
| Simple Pirate worker, `spworker.cpp` | `cycles`, the job | READY; request; reply; simulated crash | the queue (REQ) |
| Majordomo broker, `mdbroker.c` | tables of services and workers, two waiting lists, request queues, `worker_num` | READY, REPLY, HEARTBEAT, DISCONNECT of workers; requests; MMI requests; dispatch; purge | workers and clients (one ROUTER) |
| Majordomo worker API, `mdwrkapi.c`, driven by `mdworker.c` | socket, `liveness`, `expect_reply`, `reply_to` | connect with READY; receive; reply; heartbeats; give up and reconnect | the broker (DEALER) |
| Majordomo client API, `mdcliapi.c`, driven by `mdclient.c` | socket, `retries_left`, the requests of the call | `mdcli_send`: send; reply; time-out and retry on a new socket; give up | the broker (REQ) |

What makes them correct:

- **The queue's list**: no worker twice; oldest first, since the purge stops at
  the first worker that is alive; never popped when empty, since
  `s_workers_next` does not look; every worker heard from is in it, every
  expired one leaves it in the turn it is seen to have expired.
- **Retries**: each attempt of a request is executed at most once, the request
  at most `REQUEST_RETRIES` times; the late reply to an attempt given up never
  passes for the reply to another request; every request ends.
- **Membership**: dead workers leave the list for good, live ones come back to
  it, also after a restart of the queue.
- **Counters**: the worker tests `--liveness == 0` and the client
  `--retries_left == 0`, and neither may step over zero; the back-off doubles and must stay bounded.
- **Majordomo**: the broker's and the services' waiting lists agree, the count
  of workers agrees with the table, no request waits while a worker of its
  service does, each request is in one place at a time, requests are dispatched
  to workers that are alive, and a call of the client returns the reply to one
  of its own attempts.

### Chapter 3: `cluster/`

`prototype.cpp` is a broker with clients and workers of its own. It exchanges
requests with its peers (cloud frontend and backend) and announces its free
workers to them (state backend and frontend). `task_flow.cpp` and
`state_flow.cpp` are the two halves it was put together from; `endpoint.cpp`
makes the names of the endpoints. State: the list of available workers, their
number, the capacity of the cloud, and what is under way on the connections
between brokers. What makes it correct: a worker is in one place, a task is in
one place, a request crosses at most one connection, replies find their way
back through four sockets, a client reads only the reply to its task, and the
capacity of the cloud is that of the peers. The broker of `task_flow.cpp`, which
sends one request in five to a random peer, is to execute and answer every task
once, and no two of its brokers may wait for each other.

### `zmq_x/` and `czmq_x/`: names for endpoints

`zmq_x.c` lets programs bind and connect to names (`ipc://x`, `inproc://x`)
where only TCP is available. The first process that initialises the library
binds a well-known port and answers questions of the others from a thread. State:
each process's table of names and endpoints, a REQ socket to the resolver, the
role. Operations: initialisation, `zmq_bind_x`, `zmq_unbind_x`, `zmq_connect_x`,
`zmq_disconnect_x`, and the lookup behind all of them, which asks the resolver;
`czmq_x.c` wraps the four. What makes it correct: what a table holds for a name
was bound under that name, a name has one binder, an endpoint found in a table is
where the name is bound, and a call returns, with -1 for a name nobody has bound.

### The rest
- `rtdealer.cpp`, `rtreq.cpp`: least-recently-used and load-balancing routing;
  `asyncsrv.cpp`: many requests under way per client; `mtrelay.cpp`: a chain of
  threads that signal each other; `identity.cpp`, `task_*.cpp`, `sync_wu_*`,
  `mtrand.cpp`, chapter 2's `pub.cpp`, `sub.cpp` and `hello*`: single loops.
- `named_pipe_win/`: two Windows programs without ZeroMQ.
- `zhelpers.h`, `time_util.h`, `depends/`: helpers and a vendored binding.

Everything that is hard to test in the modelled parts is listed, at its line
and with the properties that watch it, under `hazards` in `PROJECT.json`.

## 2. Modules

```
Frontend ──┬── LPClient ──────────────────────────┐
           ├── PPNet ──┬── PPQueue ── WorkerLeases │   (PPQueue implements WorkerLeases)
           │           ├── PPWorker                │
           │           ├── SPQueue                 │
           │           └── SPWorker                │
           └── LPServer                            │
  ParanoidPirate = PPQueue + PPWorker + LPClient ──┤
  SimplePirate   = SPQueue + SPWorker + LPClient ──┤
  LazyPirate     = LPServer + LPClient ────────────┘

MDNet ──┬── MDBroker ┐
        ├── MDWorker ┼── Majordomo
        └── MDClient ┘

ClusterNet ── ClusterTasks ── ClusterBroker ──┬── PrototypeBroker ── Cluster
                                              └── TaskFlow ── TaskService
                                                    (TaskFlow implements TaskService)
Endpoint

ZmqX

proofs:
  ClientProofs ──┬── PirateProofs ──┬── ParanoidPirateProofs
                 │                  └── SimplePirateProofs
                 └── LazyPirateProofs
  MajordomoProofs
  ClusterProofs   (Cluster and TaskFlow)
  ZmqXProofs
```

| Module | Models |
|---|---|
| `Frontend` | the clients' side of a service: REQ sockets, the frontend socket, what is between them (external) |
| `LPClient` | `lpclient.cpp` |
| `PPNet` | the queue's backend and the workers' sockets, a pipe each way (external) |
| `PPQueue` | `ppqueue.c`, and the properties of its list |
| `WorkerLeases` | abstract: what that list promises |
| `PPWorker` | `ppworker.c` |
| `ParanoidPirate` | the pattern as a whole: time, safety, liveness |
| `LPServer`, `LazyPirate` | `lpserver.cpp`; the pattern |
| `SPQueue`, `SPWorker`, `SimplePirate` | `spqueue.cpp`, `spworker.cpp`; the pattern |
| `MDNet` | the broker's ROUTER, the workers' DEALERs and the clients' REQs (external) |
| `MDBroker` | `mdbroker.c`: each handler is an operator from the broker object to the object it leaves and the messages it sends |
| `MDWorker` | `mdwrkapi.c` with the loop of `mdworker.c` |
| `MDClient` | `mdcliapi.c` with the loop of `mdclient.c` |
| `Majordomo` | the three together |
| `ClusterNet`, `ClusterTasks` | the sockets of the cluster (external); the client and worker threads of both programs |
| `ClusterBroker` | what the brokers of both programs have: a process that is up or not, the list of free workers |
| `PrototypeBroker`, `Cluster` | `main` of `prototype.cpp`; the cluster |
| `TaskFlow` | `main` of `task_flow.cpp` and its cluster, which implements `TaskService` |
| `TaskService` | abstract: each task executed once and answered once, nothing lost while every broker is up |
| `Endpoint` | the static buffer of `endpoint.cpp` under the threads of `prototype.cpp` |
| `ZmqX` | `zmq_x.c`, and `zsocket_bind_x` of `czmq_x.c` |
| `MC*` | symmetry sets for TLC; each `.cfg` is one run |
| `*Proofs` | theorems and their proofs: section 7 |

Definitions marked *(seeded fault)* are not part of any specification. Each is
a plausible mistake in the definition that follows it (a dropped guard, a
missing reset, a wrong order); with it in place of that definition TLC finds the
property listed beside it in `PROJECT.json` (`mutants`) violated, so each
property is known to depend on the code it is about.

## 3. How the models relate to the code

**Steps.** A process is single-threaded, so one action is what it does between
two points where others can interfere: one call that receives, with all that
follows from it up to the next. In `PPQueue` a turn is `QPoll` (the poll and the
`revents` it sets, lines 111-116), `QBackend` and `QFrontend` (each consumes one
of the `revents`, in that order), and `QHeartbeat` (heartbeats, purge, back to
the poll). What a poll reported is state of its own, `revents`: messages may
arrive, sockets close and leases run out before it is acted upon. `SPQueue`
handles one message per turn. A worker's turn is one action up to a sleep in
it. The Majordomo broker's handlers are atomic. A turn of the cluster's broker
is one action for the reply and the status it takes (`PReplyLocal`,
`PReplyCloud`, `PNoReply`; what it polls can only grow meanwhile), one for each
request it routes, and `PEndTurn`, which announces the capacity if it changed;
the broker of `task_flow.cpp` likewise. A call of `mdcli_send` is an action for
each attempt and one for its end. In `ZmqX` a call that needs the resolver is in
two parts, before and after the answer, and `BindNew` and `BindInsert` are two:
between them the endpoint is bound and the name is not in the table. The
functions of `czmq_x.c` look a name up and then call the function of `zmq_x.c`,
which looks it up again; only `zsocket_bind_x` differs from what it wraps (it
refuses a name that is known), since the others find in the table the second
time what the first lookup put there.

**Time.** The code compares stored times with `zclock_time()` and nothing else.
In the Paranoid Pirate each stored time is kept as the time left until it, and
`Tick` brings all of them one tick closer; ticks have any length, and any
number of steps fits between two. A worker that sleeps or polls wakes when its
time is up, not before. In the other patterns only the Majordomo broker's
expiries are measured so; there a time-out of a poll that found nothing to read
may strike at any moment, which covers every setting of the intervals. A
client's time-out is never measured.

**Sockets.** ZeroMQ is outside `src/`. What the code relies on is assumed:
- a pipe keeps the order of its messages; between pipes there is none;
- a ROUTER drops a message to an identity it does not know or whose pipe is
  full; a DEALER or REQ blocks;
- a REQ socket alternates; a new socket has a new identity unless the program
  sets one, as `ppworker.c` does;
- when a socket closes (linger 0), a prefix of what it had sent arrives, any
  prefix; what was sent to it is gone, so the model tries every prefix;
- a socket that connects keeps what it has not yet sent while the other side
  restarts; the side that bound forgets the connection;
- when a worker reconnects under its old identity, the queue has seen the old
  connection end before it accepts the new one;
- the system gives no wildcard port out twice (`ZmqX`), and a well-known port is
  free as soon as the socket that held it is closed.

**Data.** A request is its client, the connection it came on and its number: the
text is compared by `lpclient.cpp` only through the number, and by
`prototype.cpp` as a whole. An envelope is the identities in it. What is
printed is left out, with the `monitor` socket that exists only to print. The
cluster models take for granted that threads connect where they meant to;
`Endpoint` looks at that moment alone, and shows that they may not.

**Numbers.** `liveness`, `retries_left`, `interval` are integers far from 2^31:
`interval` never exceeds twice `INTERVAL_MAX` (`BackoffBounded`). `cycles` is
only ever compared with 3: it is counted up to that. `local_capacity` of the
cluster is changed exactly where its list is, and is the list's length.

**Assertions.** `CMakeLists.txt` asks for a Release build, where `assert` is
compiled out: the models do what the code does without them. The resolver of
`zmq_x.c` dies of an unknown name in either build, by the assertion of line 33
or by `strlen(NULL)` of line 35: `AnswerUnknown` ends its process.

**A frame out of place.** `mdcliapi.c:83-84` pushes the header and then the
service, which puts the service first on the wire; the comment of lines 81-82
and the check of the reply in line 112 have the header first. The code that
would take the header off, the broker's `main`, is not written; `MDClient` sends
what the broker's handler reads (`mdbroker.c:179`).

**The Majordomo broker is unfinished.** `mdbroker.c` declares
`s_worker_require`, `s_worker_delete`, `s_worker_send` and `s_worker_waiting`
and does not define them; `main` is missing. Those, and the timer of the main
loop, are modelled from how the handlers use them and marked external:
`require` finds or creates, `delete` removes from both lists, the count and the
table, `waiting` appends to both lists, sets the expiry and dispatches, the
timer purges and sends heartbeats to those that wait. `self` in
`s_service_dispatch` is taken for the service it is given, and `zlist_remove`
while iterating for what CZMQ documents. Properties of `Majordomo` are about the
handlers under this reading.

## 4. Runs

States are distinct states; times are those of two TLC workers.

| Run | Bounds | States | What it shows |
|---|---|---|---|
| `pp_pair` | 2 workers, 1 client, 1 request, 2 attempts, pipes of 2 | 3.6 M, 130 s | `LRUOrder`, `ListIsLeases`: the list is in order and implements `WorkerLeases`; `SingleCopy` while the retry and the first attempt travel through different workers, which crash, back off and reconnect. |
| `pp_restart` | 1 worker, 1 client, 1 request, one restart of the queue, interrupts of client and worker, back-off 1, 2, 4 over a maximum of 3 | 367 k, 130 s | `SingleCopy`, `TypeOK`, `LivenessPositive`, `BackoffBounded`, `NoPopFromEmpty` with every kind of failure at once; under fairness `DeadWorkersLeave`, `LiveWorkersReturn`, `RequestEnds`. |
| `sp` | 2 workers, 2 clients, 1 request each, 2 attempts, one restart | 175 k, 75 s | `ListedOnceAndIdle`, `WorkersReturn`, `RequestEnds`. |
| `lp` | 2 clients, 2 requests, the code's 3 attempts, 1 kill, crashes | 2.8 M, 75 s | `CopiesBounded`; `NoMalformedReply`, `AttemptsLeft`: no late reply is read in place of another, and none costs an attempt. |
| `md` | 2 processes on 3 identities, 1 client with 2 attempts, 1 service and MMI, 2 requests, pipes of 1, one restart | 1.2 M, 140 s | `ListsAgree`, `CountsAgree`, `NoIdleWhileQueued`, `AtMostOnce`, `WaitingAreIdle`, `ReplyIsForCall`; `DispatchToLive` for one service. |
| `cluster` | 2 brokers, 2 clients and 1 worker each, 3 tasks in all, or 2 and one process that goes down and may come back | 841 k, 60 s | `WorkersInOnePlace`, `TaskInOnePlace`, `OneHop`, `RepliesMatch`, `TasksSurvive`. |
| `task_flow` | 2 brokers, 2 clients and 1 worker each, 3 tasks in all, one broker goes down and may come back | 206 k, 105 s | `WorkersCounted`; `FlowIsService`: the cluster implements `TaskService`; `TasksAnswered` while no broker goes down. |
| `zmq_x` | 2 processes, 2 names, 3 endpoints, one process interrupted, two resolvers | 540 k, 30 s | `ItemsHold`, `OneBinder`, `LookupsReach`. |
| `md_purge`, `cluster_state`, `cluster_plug`, `zmq_x_unbound` | as in their `.cfg` | | A statement of a comment that the code contradicts, one each: section 5. |

Why the bounds are enough for what they are meant to show:

- Two attempts are the least with a late reply, three the least at which a
  late reply leaves older copies behind that outnumber the attempts of the
  client's present request (section 7, Lazy Pirate); two requests the least for a
  late reply to meet a *different* request (`lp` has both, with the same client;
  for the other two patterns `NoMalformedReply` is proved); two workers the least for retries
  to overtake each other.
- Pipes of one or two messages are full often, which is the interesting case;
  the constants of the code (thousands) would only make it rarer.
- Liveness counters of 1 or 2 pass through zero in every way 3 does; the proofs
  of section 7 do not depend on them.
- Three tasks are the least for a request to arrive from a peer at a broker
  that has no worker free and believes in capacity elsewhere: the case `OneHop`
  is about. In `task_flow` they let both brokers send each other a request while
  their own worker is busy, the case `TasksAnswered` is about.
- In `cluster` a task and a restart share one bound, `MaxEvents`: two tasks are
  the least for a late reply from the life before to meet another task. With
  `MaxEvents = 4`, three tasks and a restart, the properties hold too (2.6 M
  states, up to five minutes).
- Three endpoints are the least for a name that is bound anew after its process
  died while another name is in use; two resolvers for tables that outlive
  the resolver they were filled by.
- Symmetry is used over interchangeable workers, processes, identities,
  brokers and client threads, and in safety runs only.

`CHECK_DEADLOCK FALSE` stands in the runs whose system may really stop: clients
that have sent all their requests and processes that are dead do nothing more,
and neither `spqueue.cpp`, `spworker.cpp` nor `lpserver.cpp` polls with a
time-out. The Paranoid Pirate runs check for deadlock: time always passes
there.

Bounds in guards: `MaxRequests` and `MaxTasks` (what clients issue), `MaxStops`
(processes that go down from outside), `MaxEvents` (both together in
`cluster`), `MayInterrupt` (who may be interrupted), `HWM` (length of a pipe; in
`cluster` of the pipe of announcements), `MmiFrom` (requests sent before a
client asks for an MMI service), `MaxStarts` (resolvers that are started),
`MayEnd` (processes of `ZmqX` that end of themselves or are killed),
`Endpoint` (ports the system gives out).

## 5. What the runs found

- **An expired worker is used** (`md_purge`, `DispatchToLive`). The HEARTBEAT
  branch, `mdbroker.c:159`, renews the expiry of a waiting worker and leaves it
  in its place, so the list is no longer in the order which lets the purge stop
  early (lines 212-213, 222-223). A worker of one service that pings shields the
  expired worker of another behind it, which then gets the next request. With
  one service (`md`) the property holds: the head of the one list is what is
  dispatched, and the head is always looked at.
- **The cloud is the broker itself** (`cluster_state`, `CapacityIsOfPeers`).
  `prototype.cpp:158` connects the state frontend to `state_endpoint(self)` once
  per peer. A broker whose peers were never started takes its own free workers
  for theirs, and what it then sends to the cloud is dropped; a broker whose
  workers are all busy forwards nothing once it has read its own "0", however
  free its peers are.

- **Threads connect to each other's endpoints** (`cluster_plug`, `PluggedIn`).
  `endpoint.cpp:7` has one static buffer for all names. Every thread of
  `prototype.cpp` calls `localfe_endpoint(self)` and the like without a buffer of
  its own (lines 35, 37, 79; `task_flow.cpp:30, 52`) and connects to whatever
  the buffer holds a moment later: a client may plug into the workers' socket.

- **A question about an unbound name is never answered** (`zmq_x_unbound`,
  `NotBoundYet`). `zmq_x.c:100, 114, 128` return -1 with the comment "not bound
  yet", `czmq_x.c:46, 63, 80` say "not mapped yet". A client process does not get
  there: its question reaches the resolver, which finds NULL, fails the assertion
  of line 33 (or reads NULL in line 35) and ends with its process, and the client
  waits in line 162 for good. In the run nothing is interrupted or killed.
  `zmq_bind_x` asks before it binds (line 84), so a process that is not the
  resolver cannot bind a new name either, save after an interrupted call.

The passing runs have all but the third of these in them: `md` renews in place
what it has waiting, with one service; `cluster` has the wrong
connection of line 158, and still forwards requests on the strength of a stale
number; in `zmq_x` the resolver ends by an unknown name as it does in the code
(`AnswerUnknown`), and no property of that run says that a call returns.

Seen while modelling, without a run of their own:

- `ppqueue.c:126` lists a worker for any message. A heartbeat that crosses a
  request on its way lists the worker while it works, and the queue hands it a
  second request, which is delayed and not lost: `SingleCopy` and `RequestEnds`
  hold with it.
- `mdbroker.c:132` compares the *sender* with the reserved prefix `mmi.`, not the
  service: a worker that offers such a service is accepted and counted, and
  never gets a request.
- A table of `zmq_x.c` outlives the resolver it was filled by. `OneBinder` and
  `LookupsReach` are stated for the time of the first resolver: after a second
  one has started, a name can be bound twice, and looked up where it was before.
- `zmq_x.c:47` writes to a table of 100 entries without looking at the count.
  The tables of `ZmqX` have no limit.

## 6. Fairness

Safety runs use `Spec`, without fairness. Liveness runs use `FairSpec`:

- Weak fairness of each process's own step: the operating system schedules
  every process in the end. `ParanoidPirate` has it for the poll, the frontend
  and the end of a turn of the queue, for every worker's turn and for the
  client; `Tick` is weakly fair, time passes.
- Strong fairness of `QBackend(w)` and `SQBackend(w)` for each worker: the
  ROUTER takes messages from its pipes in turn (fair queueing is ZeroMQ's
  documented behaviour), so a pipe that has a message again and again is read
  in the end.
- `ParanoidPirate` has weak fairness of `QStart`: "restart the queue" is what
  the pattern is for, and without a queue no worker can be listed.
- Nothing is assumed of what comes from outside: no fairness makes a process
  stop, crash, be interrupted or be started for the first time.

`WorkersReturn` of `SimplePirate` is claimed only until the queue is restarted:
a waiting worker has no time-out (`spworker.cpp:37`) and never announces itself
to the new queue. That is the difference between this pattern and the next.

`TaskFlow` has weak fairness of each broker's loop, of connections, of what
workers and clients do with messages they have, and of `FGo`: the program asks
for Enter "when all brokers are started", and the user who is asked presses it.
No fairness makes a broker start or stop, or a client issue a task. Which request
is rerouted is left open, so nothing is assumed of the random number.

`ZmqX` has weak fairness of receiving an answer, of finishing a bind, and of the
resolver's answer to each process: its REP socket reads its clients in turn. The
one run that uses it, `zmq_x_unbound`, also lets no call be interrupted and no
process end from outside (`MayInterrupt` and `MayEnd` are empty).

`Majordomo` and `Cluster` have no liveness properties: their clients may find
every worker gone, and the code gives no promise that would survive that.

## 7. Proofs

`tlapm` checks every obligation of the eight proof modules. They hold for any
number of workers, clients, processes, names, attempts, pipes and restarts, from
the named assumptions on the constants alone. TLC evaluates these in the runs;
each says what the code's constant is or what a set of identities is: counters
and bounds are natural, `REQUEST_RETRIES`, `HWM` and the liveness counts positive
(`HWM > 1` where one turn sends a reply and a heartbeat), "no socket" and "no
service" not among the identities and names. The brokers of a cluster, their
clients and their workers are finite sets, as the command line and `NBR_CLIENTS`
and `NBR_WORKERS` make them. No other set is assumed finite: where something is
counted, the invariant bounds it.

| Theorem | Says |
|---|---|
| **`ParanoidPirateProofs`** | |
| `ReadyKeepsGood`, `NextKeepsGood`, `PurgeKeepsGood`, `TickKeepsGood` | what each operation of the list leaves is again typed, ordered and free of duplicates; the purge leaves exactly the live workers |
| `QueueInvariant`, `ListCorrect`, `NeverPopsFromEmpty` | `UniqueWorkers`, `LRUOrder`, `NoPopFromEmpty` for the whole pattern |
| `ListImplementsLeases` | `Spec => ListIsLeases`: the list implements `WorkerLeases` |
| `TypeCorrect`, `LivenessNeverSkipsZero`, `BackoffStaysBounded` | types; a worker that polls or works has `liveness > 0`; `interval` stays between `INTERVAL_INIT` and twice `INTERVAL_MAX` |
| `CopiesInvariant`, `RequestsNeverMultiply`, `RepliesAreAwaited` | `SingleCopy`, `NoMalformedReply` |
| **`SimplePirateProofs`** | |
| `PlaceInvariant`, `TypeCorrect`, `ListedAreIdle`, `RepliesAreAwaited` | types, `ListedOnceAndIdle`, `NoMalformedReply` |
| **`LazyPirateProofs`** | |
| `RetryInvariant`, `TypeCorrect`, `CopiesStayBounded`, `RepliesAreAwaited`, `AttemptsStayLeft` | types, which no run checks, `CopiesBounded`, `NoMalformedReply`, `AttemptsLeft` |
| **`MajordomoProofs`** | |
| `SystemInvariant`, `TypeCorrect` | the inductive invariant; types |
| `ListsAlwaysAgree`, `CountsAlwaysAgree`, `NobodyIdleWhileQueued` | `ListsAgree`, `CountsAgree`, `NoIdleWhileQueued` |
| `WaitingWorkersAreIdle`, `RequestsOnce`, `RepliesAreForTheCall` | `WaitingAreIdle`, `AtMostOnce`, `ReplyIsForCall` |
| `DispatchedAreAlive` | `DispatchToLive`, when `Offered` has one element, as in `md`: all workers offer the same service |
| **`ClusterProofs`**, of `prototype.cpp` | |
| `PrototypeInvariant`, `TypeCorrect` | the inductive invariant; types, with capacities that never exceed the number of workers |
| `WorkersAreInOnePlace`, `TasksAreInOnePlace`, `TasksHopOnce` | `WorkersInOnePlace`, `TaskInOnePlace`, `OneHop` |
| `RepliesAlwaysMatch` | `RepliesMatch`: the assertion of line 57 |
| `TasksAlwaysSurvive` | `Spec => TasksSurvive`: between brokers that know each other and stay up no step loses a task |
| **`ClusterProofs`**, of `task_flow.cpp` | |
| `FlowInvariant`, `FlowTypeCorrect`, `WorkersAreCounted` | the invariant; types, `WorkersCounted` |
| `FlowTasksSafe` | `TaskInOnePlace`, `OneHop`, `RepliesMatch` for this program too, which no run checks |
| `ServiceInvariant`, `ClusterIsService` | `FlowSpec => FlowIsService`: the cluster implements `TaskService` |
| **`ZmqXProofs`** | |
| `ResolverInvariant`, `TypeCorrect`, `TablesHold`, `NamesHaveOneBinder`, `LookupsAlwaysReach` | types, `ItemsHold`, `OneBinder`, `LookupsReach` |

### The Paranoid Pirate's list

`LRUOrder` alone is inductive only because of how workers are refreshed: a
refreshed worker gets the latest expiry of all *and* moves to the end, and time
takes the same from every entry but those at zero, so order survives both.
`GoodList` is that order, uniqueness and the type. `NoPopFromEmpty` needs more:
between the poll that saw a worker and the pop, only this turn's `QBackend` may
change the list, and it only adds. That is `QueueInv`:

```
GoodList(workers) /\ NoPopFromEmpty
  /\ revents \subseteq {"backend", "frontend"}
  /\ (revents # {} => qphase = "handle")
```

The last conjunct is there for `QStop` and `QStart`: a queue that came back with
something reported and an empty list would break `NoPopFromEmpty`.

**Refinement.** `lease` is the function from listed workers to their expiry, and
`turn` is `qphase`. `ReadyRenews`, `PurgeSweeps`, `TickElapses` and
`EmptyForgets` say what the list operations do to that function; the head of an
ordered list is a worker with the oldest lease, which makes the pop a `Take`; and
the purge that stops at the first live worker removes every expired one
*because* the list is ordered, which makes it a `Sweep`. The abstract module
says nothing of lists and lets no turn end without a sweep.

**Types.** `TypeInv` is `TypeOK`, `LivenessPositive` and `QueueInv` together.
They need each other: the worker's counter stays natural because it is positive
where it is decremented, and the queue's part types the list.

### Copies of requests: the three Pirate patterns

`CopiesInv(held)` of `ClientProofs` is proved once for the client of all three.
`held` is the set of copies the service holds, each with its place: in a pipe, at
its position, in a worker or in the server. With those at the frontend and at
the client they are `Underway(held)`, and

```
OneCopy      two copies of the same attempt are the same copy
RoutesPast   no copy is of a connection its client has not made yet
LiveAwaited  a copy whose answer can still reach the client is of the request
             the client waits for
OneLive      and there is one such copy at most
```

`SingleCopy` is `OneCopy` seen from outside; `NoMalformedReply` is `LiveAwaited`
at the client. Neither is inductive alone: a retry is a new connection, and
that its number is nobody's is `RoutesPast`; that the old copies can no longer
answer is what makes the new copy the one live one. A step of the service only
*moves* copies: `CopiesMove` reduces each to a map from the copies after the step
to those before, and `PirateProofs` gives that map for a pipe that is appended
to, read from, or cut to a prefix when a socket closes.

**Simple Pirate.** `PlaceInv` says that each worker has one place: the list, its
pipe to the queue, its pipe from the queue, or a request at work. A worker that
is off has none. `TypeOK` itself needs it, for a REQ socket sends without looking
for room, and the pipes stay within `HWM` only because they hold one message.

**Lazy Pirate.** `RetryInv` adds to `CopiesInv` that a client which waits has an
attempt left, one about to send has all of them, and the number of copies of
*every* request, past ones too, is within the attempts its client spent on it.
The proof showed the bound first stated, the attempts of the *present* request,
to be wrong with the code's three attempts: a reply to the third attempt sets
`retries_left` back while two older copies are still with the server. With
two attempts TLC had not reached it. `CopiesBounded` now says what is true, and
the run has the code's constant. The attempt a waiting client has left is
`AttemptsLeft`: line 59 tests `--retries_left == 0` exactly, and a reply to an
earlier request, which line 55 would also count, must never take the last one.

### Majordomo

The broker's handlers are operators from a broker object to the next.
The first part of the module shows that each keeps `BrokerInv`, and what each does to the
waiting lists and to the requests it queues or sends: `dispatch` pairs the heads
of two lists and takes the worker out of the broker's list wherever it is, so
that both lists remain subsequences of one order. `BrokerInv` has `ListsAgree`,
`CountsAgree` and `NoIdleWhileQueued` as parts, together with the types: they
cannot be had apart, since the count is decremented without a look (a natural
number only because the worker is in the table), and the removal from the
broker's list is right only because the service's list agrees.

`SystemInv` is three invariants on top of that:

- `PlacesInv`: of each identity, what is in its two pipes and at work (`SoundAt`):
  a worker that the broker has waiting carries nothing; one with a READY on its
  way is not waiting; there is one request or reply at most on its way to, in or
  from it; a socket belongs to one process; nothing is sent to a closed one. It
  is why the worker that a READY or REPLY makes wait does not wait yet.
- `SessionInv`: a client that waits in a call waits for an attempt of that call.
- `OnceInv`: a request is in one of five kinds of place, once, and was issued.
  It needs `PlacesInv`: that a dispatched request joins no other at its worker.

`Places(n)` of `AtMostOnce` lists places by position, the proofs by what is
*carried* where; the lemmas after `OnceInv` show that the one bounds the other.

`DispatchToLive` is a statement about two lists. By `NoIdleWhileQueued` no service
has both a request and a waiting worker when a handler begins, so a client's
request is handed to one worker at most, the head of its service's list. The
purge before it looks at the head of the *broker's* list, and stops at the first
live worker. With one offered service the two lists have the same order, so the
head is that live worker (`HeadIsAlive`); the worker a READY or REPLY makes wait is
dispatched alone. `OfferedInv`, that known workers and READYs under way are for
offered services, carries the hypothesis into the states. With two services the
argument fails at the order of the lists, and `md_purge` shows that the property
fails there too.

### The clusters

The two programs take the same steps on the same sockets, in other orders and on
other conditions. Those steps are operators of `ClusterProofs` (a process rises
or falls, a worker's message is taken, a worker is given a task, a task is
forwarded, ...), with one lemma each that it keeps `ClusterInv`, and every action of
either program is shown to be one of them. `ClusterInv` has, besides the types:

- `WorkersInv`: a worker is listed by its own broker, once and with both pipes
  empty, or has a message under way, or has not said READY yet. Without "empty
  pipes" a worker could be listed again when its reply arrives.
- `HopsInv`: a task on a connection, or with a worker, is a task of the side that
  connected, which is what the peer in its envelope says. The way back needs it:
  a reply that the broker sends to a peer goes to the client's own broker.
- `TasksInv`: there is a function `at` from tasks to places such that whatever
  holds a task is the place `at` gives it (`Located`); so two places cannot hold
  it. A task that is somewhere has been issued, in a life of its client that was
  reached, and if in the present life it is the one its client waits for
  (`Known`). A task just issued is therefore nowhere, which is what lets it enter
  `requests`, and a reply of a former life is never delivered (`RepliesInv`).
- `OnceInv` (not twice in one pipe), `LivesInv` (lives count restarts), and
  `LinksInv`: until a process goes down, who is known is connected.

`TaskInOnePlace` counts boxes that hold a task (`CopiesOf`); the last lemmas
take the count from `Located`. That brokers, clients and workers are finite is
used for the bound on the tasks issued and for capacities: the list of a broker
is no longer than its workers are many.

**Refinement.** `Sides` says which tasks are before execution, which after, and
which are replies that wait for their client: membership in the pipes, and by
`at` the three are disjoint. Each common step is then one step of `TaskService`
(`Ask`, `Execute`, `Deliver`, `Read`, `Fail`) or a stutter. What has to be shown
is that no step but a process that goes down loses a task before the first such
fall. A ROUTER loses what is for an identity it does not know, so this needs that
brokers which route are connected. For `TasksSurvive` the property itself asks
for that. For `FlowIsService` it is a fact about the prompt: clients issue tasks
only once their broker is past "Press Enter when all brokers are started", every
broker has connected to all its peers by then, and a connection stays while
`stops = 0` (`LoopsInv`).

### Names for endpoints

`ItemsHold` needs to know what is under way between a process and the resolver:
one question or one answer at most, for the one name its socket waits for
(`OneMessage`), and every answer holds what was drawn for that name
(`DrawnHold`). `OneBinder` is about *who* knows the name: while the first resolver
runs (`stops = 0`), every binding, table and answer repeats what its table says
(`Canonical`), so two bindings of a name have one endpoint, and the system lets
one socket have it; `LookupsReach` follows in the same way for a table and a
binding. It needs that items are never taken out: if `zmq_unbind_x` forgot the
name, the next bind would draw another endpoint, and tables elsewhere would keep
the old one (the seeded fault `CallKnownForgets`). Processes whose call was
interrupted are left out of this as they are in both properties: they may read
the answer to an old question, and they bind a name as if nobody had.

### Only model-checked

- **Liveness**: `DeadWorkersLeave`, `LiveWorkersReturn`, `RequestEnds`,
  `WorkersReturn`, `TasksAnswered`. They need fairness and
  `ENABLED`, which are out of the prover's reach.
- `DispatchToLive` is proved for one offered service only: with more it is
  false (`md_purge`).
- `Endpoint`, of which the one property is false, and `NotBoundYet` of `ZmqX`,
  which is false too.

No proof is by induction over data: where one was needed (the purge, the
handlers that loop over a list) it is a proof by least counterexample, from
`WFMin` on the natural numbers.

## 8. What is not modelled

- The two setters of `mdwrkapi.c`, and the branch of `mdbroker.c:165` for an
  unknown command, which no program of `src/` sends.
- Two workers of `ppworker.c` started in the same second get the same identity
  (line 41, `srandom(time(0))`): identities differ by construction in the model.
- Whether a peer's request may starve behind a broker's own clients
  (`prototype.cpp:273`): the number of tasks is bounded here.
- `state_flow.cpp`: it prints what peers publish and publishes random numbers,
  and keeps no state to be wrong about.
- In `zmq_x.c`, addresses that are not names, errors of the system other than a
  port in use, the size of the table, and two threads of a process that call the
  library at once.
- The routing and relay examples of chapter 3 (`rtdealer.cpp`, `rtreq.cpp`,
  `asyncsrv.cpp`, `mtrelay.cpp`) and the quit handshake of `hello.cpp`: small
  programs of one loop, planned after the proofs.
- Single-loop examples, helpers, Windows pipes, vendored code: no state of their
  own, or not this program's.

## 9. Plan

Done: models and runs of the Paranoid, Lazy and Simple Pirate, Majordomo with
its client, both brokers of the cluster, the endpoints' names and `zmq_x`; proofs
of every safety property and action property of the passing runs, and of both
refinements.

Next: smaller modules for `rtdealer.cpp`, `rtreq.cpp`, `mtrelay.cpp` and the quit
handshake of `hello.cpp`, with their proofs.
