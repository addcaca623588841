------------------------------ MODULE MDWorker ------------------------------
(***************************************************************************)
(* chap4-reliable-req-rep-patterns/majordomo/mdwrkapi.c, driven by the     *)
(* loop of mdworker.c, which echoes every request.  The times of the API   *)
(* (heartbeat_at, the poll's time-out, reconnect_delay) are not measured:  *)
(* a heartbeat may be due at the end of any turn, and a poll that finds    *)
(* nothing may time out.                                                   *)
(*                                                                         *)
(* The assertions on the protocol envelope, lines 147-152, are compiled    *)
(* out, as in the Release build CMakeLists.txt asks for.                   *)
(***************************************************************************)
EXTENDS MDNet

CONSTANTS
  Process,              \* worker processes
  Offered,              \* service names given to mdwrk_new
  HEARTBEAT_LIVENESS    \* 3 in the code

NoSocket == "none"
NoJob == [id |-> 0]

ASSUME WorkerAssumption ==
  /\ HEARTBEAT_LIVENESS \in Nat \ {0}
  /\ Offered \subseteq ServiceName \cup Mmi
  /\ NoSocket \notin Identity

VARIABLES
  wphase,     \* where each process is
  service,    \* the service it offers, given to mdwrk_new
  socket,     \* identity of its socket, or NoSocket
  liveness,
  job         \* the request mdwrk_recv returned last, or NoJob

workerVars == <<wphase, service, socket, liveness, job>>

(* "off": not started; "poll": in the loop of mdwrk_recv; "work": between  *)
(* two calls of it; "sleep": at line 176; "dead": the process ended.       *)
WorkerPhase == {"off", "poll", "work", "sleep", "dead"}

MDWorkerTypeOK ==
  /\ wphase \in [Process -> WorkerPhase]
  /\ service \in [Process -> Offered]
  /\ socket \in [Process -> Identity \cup {NoSocket}]
  /\ liveness \in [Process -> 0..HEARTBEAT_LIVENESS]
  /\ job \in [Process -> Request \cup {NoJob}]
  /\ \A p \in Process :
       /\ job[p] # NoJob <=> wphase[p] = "work"
       /\ socket[p] # NoSocket <=> wphase[p] \in {"poll", "work", "sleep"}
  /\ online = {socket[p] : p \in Process} \ {NoSocket}

MDWorkerInit ==
  /\ wphase = [p \in Process |-> "off"]
  /\ service \in [Process -> Offered]
  /\ socket = [p \in Process |-> NoSocket]
  /\ liveness = [p \in Process |-> 0]
  /\ job = [p \in Process |-> NoJob]

(* Lines 54-69: the old socket, if any, gives way to a new one, which      *)
(* sends READY.  An identity is new to the broker when it is used.         *)
Fresh == {w \in Identity : w \notin online /\ fromWorker[w] = <<>>}

Connect(p) ==
  /\ \E w \in Fresh :
       /\ socket' = [socket EXCEPT ![p] = w]
       /\ Reconnect({socket[p]} \ {NoSocket}, {w}, <<ReadyMsg(service[p])>>)
  /\ liveness' = [liveness EXCEPT ![p] = HEARTBEAT_LIVENESS]
  /\ wphase' = [wphase EXCEPT ![p] = "poll"]
  /\ UNCHANGED <<service, job, requestVars>>

(* mdwrk_new, lines 72-89.                                                 *)
MWStart(p) == wphase[p] = "off" /\ Connect(p)

(* What p sends joins its pipe if there is room.                           *)
Sends(p, msgs) ==
  /\ Len(fromWorker[socket[p]]) + Len(msgs) <= HWM
  /\ fromWorker' = [fromWorker EXCEPT ![socket[p]] = @ \o msgs]

(* Lines 182-186: the end of a turn, with a heartbeat if one is due.       *)
EndTurn(p) == \E beat \in {<<>>, <<HEARTBEAT>>} : Sends(p, beat)

Receives(p, command) ==
  /\ wphase[p] = "poll"
  /\ toWorker[socket[p]] # <<>>
  /\ Head(toWorker[socket[p]]).command = command

Consume(p) == toWorker' = [toWorker EXCEPT ![socket[p]] = Tail(@)]

(* Lines 138-158: mdwrk_recv returns a request.                            *)
MWRequest(p) ==
  /\ Receives(p, "REQUEST")
  /\ Consume(p)
  /\ liveness' = [liveness EXCEPT ![p] = HEARTBEAT_LIVENESS]
  /\ job' = [job EXCEPT ![p] = Head(toWorker[socket[p]]).body]
  /\ wphase' = [wphase EXCEPT ![p] = "work"]
  /\ UNCHANGED <<service, socket, fromWorker, online, requestVars>>

(* The reply is not cleared once it is flushed (seeded fault).             *)
ReplyAgain(p) ==
  /\ wphase[p] = "work"
  /\ Sends(p, <<ReplyMsg(job[p])>>)
  /\ UNCHANGED <<wphase, service, socket, liveness, job, toWorker, online, requestVars>>

(* Lines 123-128: the next call of mdwrk_recv flushes the reply.           *)
MWReply(p) ==
  /\ wphase[p] = "work"
  /\ Sends(p, <<ReplyMsg(job[p])>>)
  /\ job' = [job EXCEPT ![p] = NoJob]
  /\ wphase' = [wphase EXCEPT ![p] = "poll"]
  /\ UNCHANGED <<service, socket, liveness, toWorker, online, requestVars>>

(* Lines 159-160: a heartbeat from the broker.                             *)
MWHeartbeat(p) ==
  /\ Receives(p, "HEARTBEAT")
  /\ Consume(p)
  /\ liveness' = [liveness EXCEPT ![p] = HEARTBEAT_LIVENESS]
  /\ EndTurn(p)
  /\ UNCHANGED <<wphase, service, socket, job, online, requestVars>>

(* Lines 161-163: the broker does not know this socket any more.           *)
MWDisconnect(p) == Receives(p, "DISCONNECT") /\ Connect(p)

SilentPoll(p) == wphase[p] = "poll" /\ toWorker[socket[p]] = <<>>

(* Lines 167-170.                                                          *)
MWSilence(p) ==
  /\ SilentPoll(p)
  /\ liveness[p] > 1
  /\ liveness' = [liveness EXCEPT ![p] = @ - 1]
  /\ EndTurn(p)
  /\ UNCHANGED <<wphase, service, socket, job, toWorker, online, requestVars>>

(* Lines 171-176: the broker is considered offline; DISCONNECT, and sleep. *)
MWGiveUp(p) ==
  /\ SilentPoll(p)
  /\ liveness[p] = 1
  /\ liveness' = [liveness EXCEPT ![p] = 0]
  /\ Sends(p, <<DISCONNECT>>)
  /\ wphase' = [wphase EXCEPT ![p] = "sleep"]
  /\ UNCHANGED <<service, socket, job, toWorker, online, requestVars>>

(* Line 179.                                                               *)
MWReconnect(p) == wphase[p] = "sleep" /\ Connect(p)

(* mdwrk_destroy, lines 92-103, or a crash: the process ends.              *)
MWExit(p) ==
  /\ wphase[p] \in {"poll", "work", "sleep"}
  /\ Reconnect({socket[p]}, {}, <<>>)
  /\ wphase' = [wphase EXCEPT ![p] = "dead"]
  /\ socket' = [socket EXCEPT ![p] = NoSocket]
  /\ liveness' = [liveness EXCEPT ![p] = 0]
  /\ job' = [job EXCEPT ![p] = NoJob]
  /\ UNCHANGED <<service, requestVars>>
=============================================================================
