------------------------------ MODULE MDClient ------------------------------
(***************************************************************************)
(* chap4-reliable-req-rep-patterns/majordomo/mdcliapi.c, driven by the     *)
(* loop of mdclient.c: one call of mdcli_send after the other on one       *)
(* session, until a call returns NULL.  The time-out is not measured: a    *)
(* poll that finds no reply may time out.  mdclient.c asks for "echo"; any *)
(* service will do here.                                                   *)
(*                                                                         *)
(* Lines 83-84 put the service in front of the header, while lines 81-82   *)
(* say, and line 112 checks in the reply, that the header comes first; the *)
(* frames are left out, and the broker takes a request as it is meant.     *)
(***************************************************************************)
EXTENDS MDNet

CONSTANTS
  Caller,   \* client processes
  RETRIES,  \* retries, 3 in the code
  MmiFrom   \* bound: requests sent before one asks for an MMI service

ASSUME ClientAssumption == RETRIES \in Nat \ {0} /\ MmiFrom \in Nat

VARIABLES
  mphase,         \* "idle": between two calls; "poll": in a call; "done"
  retries_left,
  attempts,       \* the requests of the present call, one for each attempt
  awaited         \* the request its REQ socket waits for an answer to, or 0

clientVars == <<mphase, retries_left, attempts, awaited>>

MDClientTypeOK ==
  /\ mphase \in [Caller -> {"idle", "poll", "done"}]
  /\ retries_left \in [Caller -> 0..RETRIES]
  /\ attempts \in [Caller -> SUBSET Request]
  /\ awaited \in [Caller -> 0..MaxRequests]
  /\ \A c \in Caller : mphase[c] # "poll" => attempts[c] = {} /\ retries_left[c] = 0

MDClientInit ==
  /\ mphase = [c \in Caller |-> "idle"]
  /\ retries_left = [c \in Caller |-> 0]
  /\ attempts = [c \in Caller |-> {}]
  /\ awaited = [c \in Caller |-> 0]

(* What is sent on the REQ socket of c, which has sent "last" and not been *)
(* answered if that is not 0: then the send fails, and nobody looks.       *)
Attempt(c, last, s, t, lost) ==
  LET m == [id |-> issued + 1, service |-> s, about |-> t]
  IN  /\ issued < MaxRequests
      /\ issued' = issued + 1
      /\ attempts' = [attempts EXCEPT ![c] = @ \cup {m}]
      /\ awaited' = [awaited EXCEPT ![c] = IF last = 0 THEN m.id ELSE last]
      /\ incoming' = (incoming \ lost) \cup (IF last = 0 THEN {m} ELSE {})
      /\ UNCHANGED <<answers, netVars>>

(* A request still in the socket of c when it is closed may be gone.       *)
Unsent(c) == {m \in incoming : m.id = awaited[c]}

Answered(c) == {a \in answers : a.id = awaited[c]}

(* mdclient.c:14-17, mdcliapi.c:83-94: the next call, its first attempt.   *)
MCall(c) ==
  /\ mphase[c] = "idle"
  /\ mphase' = [mphase EXCEPT ![c] = "poll"]
  /\ retries_left' = [retries_left EXCEPT ![c] = RETRIES]
  /\ \E s \in ServiceName \cup Mmi, t \in ServiceName :
       /\ s \in ServiceName => t = s
       /\ s \in Mmi => issued >= MmiFrom
       /\ Attempt(c, awaited[c], s, t, {})

(* The call returns, and the next one may begin.                           *)
Returned(c, phase) ==
  /\ mphase' = [mphase EXCEPT ![c] = phase]
  /\ retries_left' = [retries_left EXCEPT ![c] = 0]
  /\ attempts' = [attempts EXCEPT ![c] = {}]
  /\ UNCHANGED <<issued, answers, netVars>>

(* Lines 103-120: a reply, which is returned.                              *)
MReply(c) ==
  /\ mphase[c] = "poll"
  /\ Answered(c) # {}
  /\ awaited' = [awaited EXCEPT ![c] = 0]
  /\ Returned(c, "idle")
  /\ UNCHANGED incoming

TimedOut(c) == mphase[c] = "poll" /\ Answered(c) = {}

(* Lines 121-124 and 93-94: a new socket, the request again.               *)
MRetry(c) ==
  /\ TimedOut(c)
  /\ retries_left[c] > 1
  /\ retries_left' = [retries_left EXCEPT ![c] = @ - 1]
  /\ \E m \in attempts[c], lost \in SUBSET Unsent(c) : Attempt(c, 0, m.service, m.about, lost)
  /\ UNCHANGED mphase

(* The caller goes on with the next request after NULL (seeded fault).     *)
GoOn(c) ==
  /\ Returned(c, "idle")
  /\ UNCHANGED <<incoming, awaited>>

(* mdclient.c:20-24: NULL ends the loop, and the session is destroyed.     *)
GiveUp(c) ==
  /\ Returned(c, "done")
  /\ awaited' = [awaited EXCEPT ![c] = 0]
  /\ \E lost \in SUBSET Unsent(c) : incoming' = incoming \ lost

(* Lines 125-128: the last attempt timed out; the socket is kept.          *)
MAbandon(c) == TimedOut(c) /\ retries_left[c] = 1 /\ GiveUp(c)

(* Lines 100-101 and 131-135: interrupted.                                 *)
MInterrupt(c) == mphase[c] = "poll" /\ GiveUp(c)

(* What mdcli_send can return as the reply to a call answers an attempt of *)
(* that call: the socket is made anew for every attempt but the first, and *)
(* not used after the last one failed (mdcliapi.c:103-128,                 *)
(* mdclient.c:18-21).                                                      *)
ReplyIsForCall ==
  \A c \in Caller : mphase[c] = "poll" =>
    \A a \in Answered(c) : \E m \in attempts[c] : m.id = a.id
=============================================================================
