-------------------------------- MODULE MDNet --------------------------------
(***************************************************************************)
(* The sockets of the Majordomo broker (one ROUTER for clients and workers *)
(* alike, mdbroker.c) and of its workers (a DEALER each, mdwrkapi.c).      *)
(* ZeroMQ and the main loop the broker still lacks are outside src/.  As   *)
(* in PPNet a pipe keeps its order, the ROUTER drops what it cannot        *)
(* deliver and a DEALER blocks on a full pipe; but a worker sets no        *)
(* identity here, so each socket it opens has a fresh one.                 *)
(*                                                                         *)
(* Every request a client sends is numbered, a retry like any other, and   *)
(* what the broker answers is kept.                                        *)
(***************************************************************************)
EXTENDS Integers, Sequences, FiniteSets

CONSTANTS
  Identity,       \* identities of worker sockets
  ServiceName,    \* names of services
  Mmi,            \* the names that begin with "mmi."
  MmiService,     \* "mmi.service"
  MaxRequests,    \* bound: requests all clients send
  HWM             \* bound: messages a pipe holds

ASSUME NetAssumption ==
  /\ MmiService \in Mmi
  /\ MaxRequests \in Nat
  /\ HWM \in Nat \ {0}

VARIABLES
  toWorker,     \* toWorker[w]: from the broker to the socket w, oldest first
  fromWorker,   \* fromWorker[w]: from the socket w to the broker
  online,       \* identities of the open sockets
  issued,       \* requests sent so far
  incoming,     \* requests the broker has not received
  answers       \* what the broker sent to clients

netVars == <<toWorker, fromWorker, online>>
requestVars == <<issued, incoming, answers>>

(* "about" is the body of a request to mmi.service.                        *)
Request == [id : 1..MaxRequests, service : ServiceName \cup Mmi, about : ServiceName]
Answer == [id : 1..MaxRequests, code : {"reply", "200", "404", "501"}]

(* The messages of mdp.h.                                                  *)
ReadyMsg(s) == [command |-> "READY", service |-> s]
RequestMsg(m) == [command |-> "REQUEST", body |-> m]
ReplyMsg(m) == [command |-> "REPLY", body |-> m]
HEARTBEAT == [command |-> "HEARTBEAT"]
DISCONNECT == [command |-> "DISCONNECT"]

WorkerMessage ==
  [command : {"READY"}, service : ServiceName \cup Mmi]
    \cup [command : {"REPLY"}, body : Request]
    \cup {HEARTBEAT, DISCONNECT}
BrokerMessage == [command : {"REQUEST"}, body : Request] \cup {HEARTBEAT, DISCONNECT}

MDNetTypeOK ==
  /\ toWorker \in [Identity -> Seq(BrokerMessage)]
  /\ fromWorker \in [Identity -> Seq(WorkerMessage)]
  /\ online \subseteq Identity
  /\ issued \in 0..MaxRequests
  /\ incoming \subseteq Request
  /\ answers \subseteq Answer

MDNetInit ==
  /\ toWorker = [w \in Identity |-> <<>>]
  /\ fromWorker = [w \in Identity |-> <<>>]
  /\ online = {}
  /\ issued = 0
  /\ incoming = {}
  /\ answers = {}

(* The ROUTER sends out[w] to every socket w in the domain of out.         *)
RouterSend(out) ==
  toWorker' = [w \in Identity |->
                 IF w \in DOMAIN out \cap online /\ Len(toWorker[w]) < HWM
                 THEN Append(toWorker[w], out[w]) ELSE toWorker[w]]

(* The sockets of old are closed: a prefix of what each sent reaches the   *)
(* broker.  Those of new are opened and send first.                        *)
Reconnect(old, new, first) ==
  /\ online' = (online \ old) \cup new
  /\ toWorker' = [w \in Identity |-> IF w \in old THEN <<>> ELSE toWorker[w]]
  /\ \E n \in [old -> 0..HWM] :
       /\ \A w \in old : n[w] <= Len(fromWorker[w])
       /\ fromWorker' = [w \in Identity |->
            IF w \in old THEN SubSeq(fromWorker[w], 1, n[w])
            ELSE IF w \in new THEN first ELSE fromWorker[w]]
=============================================================================
