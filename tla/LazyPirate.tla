----------------------------- MODULE LazyPirate -----------------------------
(***************************************************************************)
(* The Lazy Pirate pattern: one lpserver.cpp and the lpclient.cpp          *)
(* processes, "start lpserver and then randomly kill/restart it".          *)
(***************************************************************************)
EXTENDS LPServer, LPClient, FiniteSets

vars == <<serverVars, clientVars, frontendVars>>

TypeOK ==
  /\ FrontendTypeOK
  /\ LPClientTypeOK
  /\ LPServerTypeOK

Init ==
  /\ FrontendInit
  /\ LPClientInit
  /\ LPServerInit

ServerNext ==
  /\ LReceive \/ LReply \/ LCrash \/ LKill \/ LStart
  /\ UNCHANGED clientVars

ClientNext ==
  /\ \E c \in Client :
       CSend(c) \/ CReply(c) \/ CRetry(c) \/ CAbandon(c) \/ CInterrupt(c)
  /\ UNCHANGED serverVars

Next == ServerNext \/ ClientNext

Spec == Init /\ [][Next]_vars

UnderWay(c) == {m \in requests \cup job \cup replies : m.client = c}

Copies(c, n) == {m \in UnderWay(c) : m.seq = n}

(* What the retries add to the server's work is bounded: a request has no  *)
(* more copies waiting, in work or answered than its client has started    *)
(* attempts, or may start, if it is one the client no longer waits for,    *)
(* however often the server went down in between (lpclient.cpp:59-71,      *)
(* lpserver.cpp:29-42).                                                    *)
CopiesBounded ==
  \A c \in Client : \A n \in 1..request_seq[c] :
    Cardinality(Copies(c, n)) <= IF cphase[c] = "wait" /\ n = request_seq[c]
                                 THEN 1 + REQUEST_RETRIES - retries_left[c]
                                 ELSE REQUEST_RETRIES
=============================================================================
