------------------------------ MODULE SPWorker ------------------------------
(***************************************************************************)
(* chap4-reliable-req-rep-patterns/spworker.cpp: the Simple Pirate worker. *)
(* Its REQ socket sends READY, then answers one request after another; it  *)
(* waits for the next one without a timeout.  How long the sleeps of lines *)
(* 48 and 51 last is not measured.                                         *)
(***************************************************************************)
EXTENDS PPNet

CONSTANT CRASH_FREE_CYCLES   \* line 42: requests before simulated failures, 3

ASSUME CyclesAssumption == CRASH_FREE_CYCLES \in Nat

VARIABLES
  wphase,   \* where each worker is
  cycles,   \* requests received, counted up to CRASH_FREE_CYCLES
  job       \* the request the worker is working on, or NoJob

workerVars == <<wphase, cycles, job>>

NoJob == [kind |-> "NONE"]

(* "off": not started; "wait": in zmsg_recv; "work": in a sleep of lines   *)
(* 42-52; "dead": the process ended.                                       *)
WorkerPhase == {"off", "wait", "work", "dead"}

Running(w) == wphase[w] \in {"wait", "work"}

SPWorkerTypeOK ==
  /\ wphase \in [Worker -> WorkerPhase]
  /\ cycles \in [Worker -> 0..CRASH_FREE_CYCLES]
  /\ job \in [Worker -> Request \cup {NoJob}]
  /\ \A w \in Worker : job[w] # NoJob <=> wphase[w] = "work"
  /\ online = {w \in Worker : Running(w)}

SPWorkerInit ==
  /\ wphase = [w \in Worker |-> "off"]
  /\ cycles = [w \in Worker |-> 0]
  /\ job = [w \in Worker |-> NoJob]

Sends(w, msg) == fromWorker' = [fromWorker EXCEPT ![w] = Append(@, msg)]

(* Lines 20-33: the process starts and sends READY.                        *)
SWStart(w) ==
  /\ wphase[w] = "off"
  /\ wphase' = [wphase EXCEPT ![w] = "wait"]
  /\ online' = online \cup {w}
  /\ Sends(w, READY)
  /\ UNCHANGED <<cycles, job, toWorker, frontendVars>>

(* Lines 37-41 and 46-52.                                                  *)
SWRequest(w) ==
  /\ wphase[w] = "wait"
  /\ toWorker[w] # <<>>
  /\ toWorker' = [toWorker EXCEPT ![w] = Tail(@)]
  /\ job' = [job EXCEPT ![w] = Head(toWorker[w]).body]
  /\ cycles' = [cycles EXCEPT ![w] = IF @ < CRASH_FREE_CYCLES THEN @ + 1 ELSE @]
  /\ wphase' = [wphase EXCEPT ![w] = "work"]
  /\ UNCHANGED <<fromWorker, online, frontendVars>>

(* The worker replies and goes on with the same job (seeded fault).        *)
ReplyKeepsJob(w) ==
  /\ wphase[w] = "work"
  /\ Sends(w, ReplyMsg(job[w]))
  /\ UNCHANGED <<wphase, cycles, job, toWorker, online, frontendVars>>

(* Lines 53-54: the request goes back as the reply.                        *)
SWReply(w) ==
  /\ wphase[w] = "work"
  /\ Sends(w, ReplyMsg(job[w]))
  /\ job' = [job EXCEPT ![w] = NoJob]
  /\ wphase' = [wphase EXCEPT ![w] = "wait"]
  /\ UNCHANGED <<cycles, toWorker, online, frontendVars>>

SWExit(w) ==
  /\ wphase' = [wphase EXCEPT ![w] = "dead"]
  /\ job' = [job EXCEPT ![w] = NoJob]
  /\ cycles' = [cycles EXCEPT ![w] = 0]
  /\ online' = online \ {w}
  /\ ClosePipes(w, <<>>)
  /\ UNCHANGED frontendVars

(* Lines 42-45 and 57: a crash on a request past CRASH_FREE_CYCLES.        *)
SWCrash(w) ==
  /\ wphase[w] = "wait"
  /\ toWorker[w] # <<>>
  /\ cycles[w] = CRASH_FREE_CYCLES
  /\ SWExit(w)

(* Lines 38-39: interrupted; or killed at work.                            *)
SWInterrupt(w) ==
  /\ w \in MayInterrupt
  /\ Running(w)
  /\ SWExit(w)
=============================================================================
