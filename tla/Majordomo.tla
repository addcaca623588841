----------------------------- MODULE Majordomo -----------------------------
(***************************************************************************)
(* The Majordomo broker of mdbroker.c with worker processes that use       *)
(* mdwrkapi.c and client processes that use mdcliapi.c.                    *)
(***************************************************************************)
EXTENDS MDBroker, MDWorker, MDClient

vars == <<brokerVars, netVars, requestVars, workerVars, clientVars>>

TypeOK == MDNetTypeOK /\ MDBrokerTypeOK /\ MDWorkerTypeOK /\ MDClientTypeOK

Init == MDNetInit /\ MDBrokerInit /\ MDWorkerInit /\ MDClientInit

BrokerNext ==
  /\ (\E w \in Identity : MWorkerMsg(w)) \/ MClientMsg \/ MMmi \/ MHeartbeat \/ MRestart
  /\ UNCHANGED <<workerVars, clientVars>>

(* A socket's identity is drawn anew by ZeroMQ: the broker does not know   *)
(* it yet.                                                                 *)
FreshToBroker ==
  online' \ online \subseteq Identity \ Known(broker)

WorkerNext ==
  /\ \E p \in Process :
       \/ MWStart(p) \/ MWRequest(p) \/ MWReply(p) \/ MWHeartbeat(p)
       \/ MWDisconnect(p) \/ MWSilence(p) \/ MWGiveUp(p) \/ MWReconnect(p)
       \/ MWExit(p)
  /\ FreshToBroker
  /\ UNCHANGED <<brokerVars, clientVars>>

ClientNext ==
  /\ \E c \in Caller :
       MCall(c) \/ MReply(c) \/ MRetry(c) \/ MAbandon(c) \/ MInterrupt(c)
  /\ UNCHANGED <<brokerVars, workerVars>>

Tick == MTick /\ UNCHANGED <<stops, netVars, requestVars, workerVars, clientVars>>

Next ==
  \/ BrokerNext
  \/ WorkerNext
  \/ ClientNext
  \/ Tick

Spec == Init /\ [][Next]_vars

(***************************************************************************)
(* Safety.                                                                 *)
(***************************************************************************)

(* The broker keeps the workers that wait in two lists, its own and their  *)
(* service's, which are changed in different functions (mdbroker.c:275-277,*)
(* 216-226): they always hold the same workers, each once, in the same     *)
(* order, and all of them are in the table.                                *)
ListsAgree ==
  /\ IsInjective(broker.waiting)
  /\ ToSet(broker.waiting) \subseteq Known(broker)
  /\ \A s \in Names :
       LET list == broker.services[s].waiting
       IN  /\ ToSet(list) = ToSet(broker.waiting) \cap WorkersOf(broker, s)
           /\ SameOrder(list, broker.waiting)

(* worker_num counts the workers of a service, idle or busy: what the      *)
(* answer to mmi.service is computed from (mdbroker.c:139, 191).           *)
CountsAgree ==
  \A s \in Names : broker.services[s].worker_num = Cardinality(WorkersOf(broker, s))

(* No service has a request queued and a worker waiting (mdbroker.c:274-   *)
(* 281): every event that could bring the two together dispatches.         *)
NoIdleWhileQueued ==
  \A s \in Names :
    broker.services[s].requests = <<>> \/ broker.services[s].waiting = <<>>

(* Where each request, or the reply to it, is.                             *)
Carried(pipe) ==
  {c \in Identity \X (1..HWM) :
     c[2] <= Len(pipe[c[1]]) /\ pipe[c[1]][c[2]].command \in {"REQUEST", "REPLY"}}

Places(n) ==
  {<<"incoming", m>> : m \in {x \in incoming : x.id = n}}
    \cup {<<"answer", m>> : m \in {x \in answers : x.id = n}}
    \cup (UNION {{<<"queued", s, i>> :
            i \in {j \in 1..Len(broker.services[s].requests) :
                     broker.services[s].requests[j].id = n}} : s \in Names})
    \cup {<<"to", c>> : c \in {x \in Carried(toWorker) : toWorker[x[1]][x[2]].body.id = n}}
    \cup {<<"from", c>> : c \in {x \in Carried(fromWorker) : fromWorker[x[1]][x[2]].body.id = n}}
    \cup {<<"job", p>> : p \in {x \in Process : job[x].id = n}}

(* A request is in one place at a time: it is executed at most once and    *)
(* answered at most once, whatever workers come, go or are taken for dead  *)
(* (mdbroker.c:143-156 and 275-281, mdwrkapi.c:123-128, 155-158).          *)
AtMostOnce == \A n \in 1..MaxRequests : Cardinality(Places(n)) <= 1

(* A worker the broker takes for idle has no request under way to it, in   *)
(* work, or answered and not yet received.                                 *)
WaitingAreIdle ==
  \A w \in ToSet(broker.waiting) :
    /\ \A c \in Carried(toWorker) \cup Carried(fromWorker) : c[1] # w
    /\ \A p \in Process : socket[p] = w => wphase[p] # "work"

(***************************************************************************)
(* What comments of the code say.                                          *)
(***************************************************************************)

(* mdbroker.c:212-213: the purge "deletes any idle workers which haven't   *)
(* pinged the broker for a while", so what is dispatched after it goes to  *)
(* workers that have.                                                      *)
DispatchToLive ==
  [][\A w \in Known(broker) :
       w \in ToSet(broker.waiting) /\ w \in Known(broker') /\ w \notin ToSet(broker'.waiting)
         => broker.workers[w].expiry > 0]_broker
=============================================================================
