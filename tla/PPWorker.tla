------------------------------ MODULE PPWorker ------------------------------
(***************************************************************************)
(* chap4-reliable-req-rep-patterns/ppworker.c: the Paranoid Pirate worker. *)
(* It answers requests one at a time, sends heartbeats, and when it hears  *)
(* nothing from the queue for HEARTBEAT_LIVENESS polls it sleeps and opens *)
(* a new socket under the same identity, doubling the sleep every time.    *)
(*                                                                         *)
(* As in PPQueue a stored time is kept as the time left until it; since    *)
(* line 109 compares with ">", heartbeat_due is -1 once the heartbeat is   *)
(* due.  Each action is one turn of the loop, up to the sleep in it if     *)
(* there is one, and the turn ends with the heartbeat of lines 108-114.    *)
(***************************************************************************)
EXTENDS PPNet, Integers

CONSTANTS
  WORKER_LIVENESS,    \* HEARTBEAT_LIVENESS in ppworker.c: 3
  WORKER_INTERVAL,    \* HEARTBEAT_INTERVAL in ppworker.c: 1000 msecs
  INTERVAL_INIT,      \* 1000 msecs
  INTERVAL_MAX,       \* 32000 msecs
  WORK_TIME,          \* line 75: 1000 msecs
  OVERLOAD_TIME,      \* line 72: 3000 msecs
  CRASH_FREE_CYCLES   \* line 66: requests before simulated failures, 3

ASSUME WorkerAssumption ==
  /\ WORKER_LIVENESS \in Nat \ {0}
  /\ WORKER_INTERVAL \in Nat \ {0}
  /\ INTERVAL_INIT \in Nat \ {0}
  /\ INTERVAL_MAX \in Nat
  /\ INTERVAL_INIT <= INTERVAL_MAX
  /\ WORK_TIME \in Nat
  /\ OVERLOAD_TIME \in Nat
  /\ CRASH_FREE_CYCLES \in Nat

(* A turn of the loop sends a reply and a heartbeat at most: there must be *)
(* room for both, since a blocked turn sends neither here.                 *)
ASSUME RoomAssumption == HWM > 1

VARIABLES
  wphase,          \* where each worker is in its loop
  liveness,
  interval,
  cycles,          \* requests received, counted up to CRASH_FREE_CYCLES
  heartbeat_due,   \* heartbeat_at, as time left
  nap,             \* time left in the poll or in a zclock_sleep
  job              \* the request the worker is working on, or NoJob

workerVars == <<wphase, liveness, interval, cycles, heartbeat_due, nap, job>>

NoJob == [kind |-> "NONE"]

(* "off": not started; "poll": in zmq_poll; "work": in the sleeps of lines *)
(* 72-75; "backoff": in the sleep of line 100; "dead": the process ended.  *)
WorkerPhase == {"off", "poll", "work", "backoff", "dead"}

Running(w) == wphase[w] \in {"poll", "work", "backoff"}

PPWorkerTypeOK ==
  /\ wphase \in [Worker -> WorkerPhase]
  /\ liveness \in [Worker -> 0..WORKER_LIVENESS]
  /\ interval \in [Worker -> Nat \ {0}]
  /\ cycles \in [Worker -> 0..CRASH_FREE_CYCLES]
  /\ heartbeat_due \in [Worker -> -1..WORKER_INTERVAL]
  /\ nap \in [Worker -> Nat]
  /\ job \in [Worker -> Request \cup {NoJob}]
  /\ \A w \in Worker : job[w] # NoJob <=> wphase[w] = "work"
  /\ online = {w \in Worker : Running(w)}

PPWorkerInit ==
  /\ wphase = [w \in Worker |-> "off"]
  /\ liveness = [w \in Worker |-> 0]
  /\ interval = [w \in Worker |-> INTERVAL_INIT]
  /\ cycles = [w \in Worker |-> 0]
  /\ heartbeat_due = [w \in Worker |-> 0]
  /\ nap = [w \in Worker |-> 0]
  /\ job = [w \in Worker |-> NoJob]

(* Lines 108-114: the end of a turn, and the next poll.                    *)
Beat(w) == IF heartbeat_due[w] < 0 THEN <<HEARTBEAT>> ELSE <<>>

EndTurn(w) ==
  /\ heartbeat_due' = [heartbeat_due EXCEPT
                         ![w] = IF @ < 0 THEN WORKER_INTERVAL ELSE @]
  /\ wphase' = [wphase EXCEPT ![w] = "poll"]
  /\ nap' = [nap EXCEPT ![w] = WORKER_INTERVAL]

(* The send does not wait for room (seeded fault).                         *)
SendUnbounded(w, msgs) ==
  fromWorker' = [fromWorker EXCEPT ![w] = @ \o msgs]

(* The DEALER blocks until there is room for what the turn sends.          *)
DealerSend(w, msgs) ==
  /\ Len(fromWorker[w]) + Len(msgs) <= HWM
  /\ fromWorker' = [fromWorker EXCEPT ![w] = @ \o msgs]

(* Lines 40-49: the process starts, with a socket that has sent READY.     *)
WStart(w) ==
  /\ wphase[w] = "off"
  /\ DealerSend(w, <<READY>>)
  /\ online' = online \cup {w}
  /\ wphase' = [wphase EXCEPT ![w] = "poll"]
  /\ liveness' = [liveness EXCEPT ![w] = WORKER_LIVENESS]
  /\ heartbeat_due' = [heartbeat_due EXCEPT ![w] = WORKER_INTERVAL]
  /\ nap' = [nap EXCEPT ![w] = WORKER_INTERVAL]
  /\ UNCHANGED <<interval, cycles, job, toWorker, frontendVars>>

Receives(w, kind) ==
  /\ wphase[w] = "poll"
  /\ toWorker[w] # <<>>
  /\ Head(toWorker[w]).kind = kind
  /\ toWorker' = [toWorker EXCEPT ![w] = Tail(@)]

(* Lines 78-92: a heartbeat from the queue.                                *)
WHeartbeat(w) ==
  /\ Receives(w, "HEARTBEAT")
  /\ liveness' = [liveness EXCEPT ![w] = WORKER_LIVENESS]
  /\ interval' = [interval EXCEPT ![w] = INTERVAL_INIT]
  /\ DealerSend(w, Beat(w))
  /\ EndTurn(w)
  /\ UNCHANGED <<cycles, job, online, frontendVars>>

(* Lines 64-75: a request; the reply waits for the sleeps.  Past the first *)
(* CRASH_FREE_CYCLES requests the worker may first be overloaded.          *)
WRequest(w) ==
  /\ Receives(w, "REQUEST")
  /\ job' = [job EXCEPT ![w] = Head(toWorker[w]).body]
  /\ wphase' = [wphase EXCEPT ![w] = "work"]
  /\ cycles' = [cycles EXCEPT ![w] = IF @ < CRASH_FREE_CYCLES THEN @ + 1 ELSE @]
  /\ \E overload \in {0} \cup
          IF cycles[w] = CRASH_FREE_CYCLES THEN {OVERLOAD_TIME} ELSE {} :
       nap' = [nap EXCEPT ![w] = WORK_TIME + overload]
  /\ UNCHANGED <<liveness, interval, heartbeat_due, fromWorker, online,
                 frontendVars>>

(* Lines 76-77 and 92: the reply, to where the request came from.          *)
WReply(w) ==
  /\ wphase[w] = "work"
  /\ nap[w] = 0
  /\ DealerSend(w, <<ReplyMsg(job[w])>> \o Beat(w))
  /\ job' = [job EXCEPT ![w] = NoJob]
  /\ liveness' = [liveness EXCEPT ![w] = WORKER_LIVENESS]
  /\ interval' = [interval EXCEPT ![w] = INTERVAL_INIT]
  /\ EndTurn(w)
  /\ UNCHANGED <<cycles, toWorker, online, frontendVars>>

SilentPoll(w) ==
  /\ wphase[w] = "poll"
  /\ toWorker[w] = <<>>
  /\ nap[w] = 0

(* Line 97: a poll without a message, and the queue may still be there.    *)
WSilence(w) ==
  /\ SilentPoll(w)
  /\ liveness[w] # 1
  /\ liveness' = [liveness EXCEPT ![w] = @ - 1]
  /\ DealerSend(w, Beat(w))
  /\ EndTurn(w)
  /\ UNCHANGED <<interval, cycles, job, toWorker, online, frontendVars>>

(* Lines 97-100: the queue is taken for dead; sleep before reconnecting.   *)
WGiveUp(w) ==
  /\ SilentPoll(w)
  /\ liveness[w] = 1
  /\ liveness' = [liveness EXCEPT ![w] = 0]
  /\ wphase' = [wphase EXCEPT ![w] = "backoff"]
  /\ nap' = [nap EXCEPT ![w] = interval[w]]
  /\ UNCHANGED <<interval, cycles, heartbeat_due, job, netVars, frontendVars>>

(* The sleep doubles whatever it is (seeded fault).                        *)
DoubleAlways(i) == 2 * i

(* Lines 102-103.                                                          *)
Backoff(i) == IF i < INTERVAL_MAX THEN 2 * i ELSE i

(* liveness is not set again, line 106 (seeded fault).                     *)
ReconnectAtZero(w) ==
  /\ wphase[w] = "backoff"
  /\ nap[w] = 0
  /\ interval' = [interval EXCEPT ![w] = Backoff(@)]
  /\ ClosePipes(w, <<READY>> \o Beat(w))
  /\ EndTurn(w)
  /\ UNCHANGED <<liveness, cycles, job, online, frontendVars>>

(* Lines 102-106: a new socket, which sends READY, and the heartbeat.      *)
WReconnect(w) ==
  /\ wphase[w] = "backoff"
  /\ nap[w] = 0
  /\ interval' = [interval EXCEPT ![w] = Backoff(@)]
  /\ liveness' = [liveness EXCEPT ![w] = WORKER_LIVENESS]
  /\ ClosePipes(w, <<READY>> \o Beat(w))
  /\ EndTurn(w)
  /\ UNCHANGED <<cycles, job, online, frontendVars>>

(* zctx_destroy, line 117.                                                 *)
WExit(w) ==
  /\ wphase' = [wphase EXCEPT ![w] = "dead"]
  /\ job' = [job EXCEPT ![w] = NoJob]
  /\ online' = online \ {w}
  /\ ClosePipes(w, <<>>)
  /\ liveness' = [liveness EXCEPT ![w] = 0]
  /\ interval' = [interval EXCEPT ![w] = INTERVAL_INIT]
  /\ cycles' = [cycles EXCEPT ![w] = 0]
  /\ heartbeat_due' = [heartbeat_due EXCEPT ![w] = 0]
  /\ nap' = [nap EXCEPT ![w] = 0]
  /\ UNCHANGED frontendVars

(* Lines 66-69: past the first CRASH_FREE_CYCLES requests the worker may   *)
(* crash on a request, which is lost.                                      *)
WCrash(w) ==
  /\ wphase[w] = "poll"
  /\ toWorker[w] # <<>>
  /\ Head(toWorker[w]).kind = "REQUEST"
  /\ cycles[w] = CRASH_FREE_CYCLES
  /\ WExit(w)

(* Lines 53-54 and 58-59: interrupted, or killed, anywhere in the loop.    *)
WInterrupt(w) ==
  /\ w \in MayInterrupt
  /\ Running(w)
  /\ WExit(w)

WStep(w) ==
  \/ WHeartbeat(w) \/ WRequest(w) \/ WReply(w)
  \/ WSilence(w) \/ WGiveUp(w) \/ WReconnect(w)

(* One tick: the times a running worker measures come one tick closer.     *)
WTick ==
  /\ nap' = [w \in Worker |-> IF nap[w] = 0 THEN 0 ELSE nap[w] - 1]
  /\ heartbeat_due' = [w \in Worker |->
       IF Running(w) /\ heartbeat_due[w] >= 0
       THEN heartbeat_due[w] - 1 ELSE heartbeat_due[w]]

(***************************************************************************)
(* Properties of the worker.                                               *)
(***************************************************************************)

(* The reconnect interval starts at INTERVAL_INIT and is doubled at most   *)
(* once past INTERVAL_MAX / 2: it stays below twice INTERVAL_MAX, and the  *)
(* sleep of line 100 with it (ppworker.c:92, 99-103).                      *)
BackoffBounded ==
  \A w \in Worker :
    /\ INTERVAL_INIT <= interval[w]
    /\ interval[w] < 2 * INTERVAL_MAX

(* A worker that polls or works has silence to go before it gives up: line *)
(* 97 tests the counter for being exactly zero, and a turn that began with *)
(* zero would count down past it and never reconnect again.                *)
LivenessPositive ==
  \A w \in Worker : wphase[w] \in {"poll", "work"} => liveness[w] > 0
=============================================================================
