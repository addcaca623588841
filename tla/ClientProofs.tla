---------------------------- MODULE ClientProofs ----------------------------
(***************************************************************************)
(* What the proofs about the services of lpclient.cpp share, for any       *)
(* clients and bounds: the types of the client's steps, and where the      *)
(* copies of a request may be.                                             *)
(***************************************************************************)
EXTENDS LPClient, TLAPS

(***************************************************************************)
(* The types of sockets and clients.                                       *)
(***************************************************************************)
LEMMA FrontendDownType ==
  ASSUME FrontendTypeOK, FrontendDown
  PROVE  FrontendTypeOK'
<1>1. PICK kept \in SUBSET {m \in requests : Connected(m)} :
        requests' = {[m EXCEPT !.route = @ + 1] : m \in kept}
  BY DEF FrontendDown
<1>2. \A m \in Request : [m EXCEPT !.route = @ + 1] \in Request
  BY DEF Request
<1>3. requests' \subseteq Request
  BY <1>1, <1>2 DEF FrontendTypeOK
<1>4. QED
  BY <1>3 DEF FrontendTypeOK, FrontendDown

LEMMA ClientTypes ==
  ASSUME FrontendTypeOK, LPClientTypeOK, NEW c \in Client,
         CSend(c) \/ CReply(c) \/ CRetry(c) \/ CAbandon(c) \/ CInterrupt(c)
  PROVE  FrontendTypeOK' /\ LPClientTypeOK'
<1> USE RetriesAssumption DEF FrontendTypeOK, LPClientTypeOK, ClientPhase
<1>1. \A n \in Nat : SendRequest(c, n) \in Request
  BY DEF SendRequest, Request
<1>2. \A n \in Nat : [SendRequest(c, n) EXCEPT !.route = @ + 1] \in Request
  BY <1>1 DEF Request
<1>3. ASSUME NEW lost, CloseSocket(c, lost)
      PROVE  replies' \subseteq Request /\ route' \in [Client -> Nat]
  BY <1>3 DEF CloseSocket
<1>4. CASE CSend(c)
  <2>1. requests' \subseteq Request
    BY <1>1, <1>4 DEF CSend
  <2>2. QED
    BY <1>4, <2>1 DEF CSend
<1>5. CASE CReply(c)
  <2>1. PICK m \in replies :
          /\ replies' = replies \ {m}
          /\ retries_left' = [retries_left EXCEPT
               ![c] = IF m.seq = request_seq[c] THEN REQUEST_RETRIES ELSE @ - 1]
          /\ cphase' = [cphase EXCEPT
               ![c] = IF m.seq = request_seq[c] THEN "send" ELSE @]
    BY <1>5 DEF CReply
  <2>2. retries_left' \in [Client -> Int] /\ cphase' \in [Client -> ClientPhase]
    BY <2>1
  <2>3. QED
    BY <1>5, <2>1, <2>2 DEF CReply
<1>6. CASE CRetry(c)
  <2>1. PICK lost \in SUBSET Unsent(c) :
          /\ CloseSocket(c, lost)
          /\ requests' = (requests \ lost) \cup
                           {[SendRequest(c, request_seq[c]) EXCEPT !.route = @ + 1]}
    BY <1>6 DEF CRetry
  <2>2. requests' \subseteq Request
    BY <1>2, <2>1
  <2>3. replies' \subseteq Request /\ route' \in [Client -> Nat]
    BY <1>3, <2>1
  <2>4. retries_left' \in [Client -> Int]
    BY <1>6 DEF CRetry
  <2>5. revents' = revents /\ cphase' = cphase /\ request_seq' = request_seq
    BY <1>6 DEF CRetry
  <2>6. QED
    BY <2>2, <2>3, <2>4, <2>5
<1>7. ASSUME CExit(c)
      PROVE  /\ FrontendTypeOK'
             /\ cphase' \in [Client -> ClientPhase]
             /\ request_seq' = request_seq
  <2>1. PICK lost \in SUBSET Unsent(c) :
          CloseSocket(c, lost) /\ requests' = requests \ lost
    BY <1>7 DEF CExit
  <2>2. replies' \subseteq Request /\ route' \in [Client -> Nat]
    BY <1>3, <2>1
  <2>3. QED
    BY <1>7, <2>1, <2>2 DEF CExit
<1>8. CASE CAbandon(c)
  BY <1>7, <1>8 DEF CAbandon
<1>9. CASE CInterrupt(c)
  BY <1>7, <1>9 DEF CInterrupt
<1>10. QED
  BY <1>4, <1>5, <1>6, <1>8, <1>9

(***************************************************************************)
(* The copies of requests that are under way: in the frontend, in the      *)
(* socket of their client, or held by the service, the parameter of what   *)
(* follows.  A copy is live if an answer to it can reach its client, or    *)
(* has.                                                                    *)
(***************************************************************************)
Underway(held) ==
  {[at |-> <<"frontend">>, msg |-> m] : m \in requests}
    \cup {[at |-> <<"client">>, msg |-> m] : m \in replies}
    \cup held

Live(x) == x.at = <<"client">> \/ Connected(x.msg)

(* What makes SingleCopy and NoMalformedReply inductive.  Connections are  *)
(* numbered upwards, so a new one is nobody's; a live copy is of the       *)
(* request its client waits for, and it is the only one.                   *)
OneCopy(held) ==
  \A x, y \in Underway(held) :
    x.msg.client = y.msg.client /\ x.msg.route = y.msg.route => x = y

RoutesPast(held) ==
  \A x \in Underway(held) : x.msg.route <= route[x.msg.client]

LiveAwaited(held) ==
  \A x \in Underway(held) :
    Live(x) => cphase[x.msg.client] = "wait" /\ x.msg.seq = request_seq[x.msg.client]

OneLive(held) ==
  \A x, y \in Underway(held) :
    Live(x) /\ Live(y) /\ x.msg.client = y.msg.client => x = y

HeldTypes(held) ==
  \A x \in held : x.at # <<"client">> /\ x.at # <<"frontend">> /\ x.msg \in Request

CopiesInv(held) ==
  OneCopy(held) /\ RoutesPast(held) /\ LiveAwaited(held) /\ OneLive(held) /\ HeldTypes(held)

LEMMA UnderwayTypes ==
  ASSUME FrontendTypeOK, NEW H, HeldTypes(H), NEW x \in Underway(H)
  PROVE  x.msg \in Request
  BY DEF FrontendTypeOK, Underway, HeldTypes

(* Copies that only move keep the invariant: every copy after the step is  *)
(* where h takes one there was before it.                                  *)
LEMMA CopiesMove ==
  ASSUME NEW H, NEW G, NEW h, CopiesInv(H), HeldTypes(G),
         UNCHANGED <<route, cphase, request_seq>>,
         \A y \in Underway(G)' :
           \E x \in Underway(H) :
             y = [at |-> h[x], msg |-> x.msg] /\ (y.at = <<"client">> => Live(x))
  PROVE  CopiesInv(G)'
<1>1. PICK U, V : U = Underway(H) /\ V = Underway(G)'
  OBVIOUS
<1>2. \A y \in V : \E x \in U : y = [at |-> h[x], msg |-> x.msg] /\ (Live(y) => Live(x))
  BY SMTT(30), <1>1 DEF Live, Connected
<1>3. \A x, y \in U :
        /\ x.msg.client = y.msg.client /\ x.msg.route = y.msg.route => x = y
        /\ Live(x) /\ Live(y) /\ x.msg.client = y.msg.client => x = y
  BY <1>1 DEF CopiesInv, OneCopy, OneLive
<1>4. \A x \in U :
        /\ x.msg.route <= route[x.msg.client]
        /\ Live(x) => cphase[x.msg.client] = "wait" /\ x.msg.seq = request_seq[x.msg.client]
  BY <1>1 DEF CopiesInv, RoutesPast, LiveAwaited
<1>5. \A x, y \in V :
        /\ x.msg.client = y.msg.client /\ x.msg.route = y.msg.route => x = y
        /\ Live(x) /\ Live(y) /\ x.msg.client = y.msg.client => x = y
  <2> SUFFICES ASSUME NEW x \in V, NEW y \in V
               PROVE  /\ x.msg.client = y.msg.client /\ x.msg.route = y.msg.route => x = y
                      /\ Live(x) /\ Live(y) /\ x.msg.client = y.msg.client => x = y
    OBVIOUS
  <2>1. PICK p \in U : x = [at |-> h[p], msg |-> p.msg] /\ (Live(x) => Live(p))
    BY <1>2
  <2>2. PICK q \in U : y = [at |-> h[q], msg |-> q.msg] /\ (Live(y) => Live(q))
    BY <1>2
  <2>3. x.msg = p.msg /\ y.msg = q.msg /\ (p = q => x = y)
    BY <2>1, <2>2
  <2>4. QED
    BY <1>3, <2>1, <2>2, <2>3
<1>6. \A x \in V :
        /\ x.msg.route <= route[x.msg.client]
        /\ Live(x) => cphase[x.msg.client] = "wait" /\ x.msg.seq = request_seq[x.msg.client]
  BY <1>2, <1>4
<1>7. OneCopy(G)' /\ OneLive(G)'
  BY <1>1, <1>5 DEF OneCopy, OneLive, Live, Connected
<1>8. RoutesPast(G)' /\ LiveAwaited(G)'
  BY <1>1, <1>6 DEF RoutesPast, LiveAwaited, Live, Connected
<1>9. QED
  BY <1>7, <1>8 DEF CopiesInv, HeldTypes

(* Nothing changes hands: what the service holds may move or be dropped.   *)
LEMMA KeepCopies ==
  ASSUME UNCHANGED <<route, cphase, request_seq>>,
         requests' \subseteq requests, replies' \subseteq replies,
         NEW H, NEW G, NEW h, CopiesInv(H), HeldTypes(G),
         \A y \in G : \E x \in H : y = [at |-> h[x], msg |-> x.msg]
  PROVE  CopiesInv(G)'
<1> DEFINE k == [x \in Underway(H) |-> IF x \in H THEN h[x] ELSE x.at]
<1>1. ASSUME NEW y \in Underway(G)'
      PROVE  \E x \in Underway(H) :
               y = [at |-> k[x], msg |-> x.msg] /\ (y.at = <<"client">> => Live(x))
  <2>1. CASE y \in G
    <3>1. PICK x \in H : y = [at |-> h[x], msg |-> x.msg]
      BY <2>1
    <3>2. x \in Underway(H) /\ k[x] = h[x]
      BY DEF Underway
    <3>3. y.at # <<"client">>
      BY <2>1 DEF HeldTypes
    <3>4. QED
      BY <3>1, <3>2, <3>3
  <2>2. ASSUME NEW m \in requests, y = [at |-> <<"frontend">>, msg |-> m]
        PROVE  y \in Underway(H) /\ k[y] = y.at /\ y.at # <<"client">>
    BY <2>2 DEF Underway, CopiesInv, HeldTypes
  <2>3. ASSUME NEW m \in replies, y = [at |-> <<"client">>, msg |-> m]
        PROVE  y \in Underway(H) /\ k[y] = y.at /\ Live(y)
    BY <2>3 DEF Underway, CopiesInv, HeldTypes, Live
  <2> HIDE DEF k
  <2>4. QED
    BY <2>1, <2>2, <2>3 DEF Underway
<1> HIDE DEF k
<1>2. QED
  BY <1>1, CopiesMove

(* The copy z goes to the place p, and the others move or are dropped.     *)
Handover(H, G, h, z, p) ==
  \A y \in G :
    \/ \E x \in H : x # z /\ y = [at |-> h[x], msg |-> x.msg]
    \/ y = [at |-> p, msg |-> z.msg]

LEMMA TransferCopies ==
  ASSUME UNCHANGED <<route, cphase, request_seq>>,
         NEW H, NEW G, NEW h, CopiesInv(H), HeldTypes(G),
         NEW z, z \in Underway(H), NEW p, Handover(H, G, h, z, p),
         \A m \in requests' : m \in requests /\ z # [at |-> <<"frontend">>, msg |-> m],
         \A m \in replies' :
           \/ m \in replies /\ z # [at |-> <<"client">>, msg |-> m]
           \/ m = z.msg /\ p = <<"client">> /\ Connected(m)
  PROVE  CopiesInv(G)'
<1> DEFINE k == [x \in Underway(H) |-> IF x = z THEN p ELSE IF x \in H THEN h[x] ELSE x.at]
<1>1. ASSUME NEW y \in Underway(G)'
      PROVE  \E x \in Underway(H) :
               y = [at |-> k[x], msg |-> x.msg] /\ (y.at = <<"client">> => Live(x))
  <2>1. CASE y \in G
    <3>1. y.at # <<"client">>
      BY <2>1 DEF HeldTypes
    <3>2. CASE y = [at |-> p, msg |-> z.msg]
      BY <3>1, <3>2
    <3>3. ASSUME NEW x \in H, x # z, y = [at |-> h[x], msg |-> x.msg]
          PROVE  x \in Underway(H) /\ k[x] = h[x]
      BY <3>3 DEF Underway
    <3>4. QED
      BY <2>1, <3>1, <3>2, <3>3 DEF Handover
  <2>2. ASSUME NEW m \in requests', y = [at |-> <<"frontend">>, msg |-> m]
        PROVE  y \in Underway(H) /\ k[y] = y.at /\ y.at # <<"client">>
    BY <2>2 DEF Underway, CopiesInv, HeldTypes
  <2>3. ASSUME NEW m \in replies', y = [at |-> <<"client">>, msg |-> m]
        PROVE  \E x \in Underway(H) : y = [at |-> k[x], msg |-> x.msg] /\ Live(x)
    <3>1. CASE m \in replies /\ z # y
      <4>1. y \in Underway(H) /\ Live(y) /\ y \notin H
        BY <2>3, <3>1 DEF Underway, CopiesInv, HeldTypes, Live
      <4>2. k[y] = y.at /\ y = [at |-> y.at, msg |-> y.msg]
        BY <2>3, <3>1, <4>1
      <4> HIDE DEF k
      <4>3. QED
        BY <4>1, <4>2
    <3>2. CASE m = z.msg /\ p = <<"client">> /\ Connected(m)
      BY <2>3, <3>2 DEF Live
    <3>3. QED
      BY <2>3, <3>1, <3>2
  <2> HIDE DEF k
  <2>4. QED
    BY <2>1, <2>2, <2>3 DEF Underway
<1> HIDE DEF k
<1>2. QED
  BY <1>1, CopiesMove

(* What the client does.                                                   *)
LEMMA SendCopies ==
  ASSUME FrontendTypeOK, LPClientTypeOK, NEW H, CopiesInv(H), NEW c \in Client, CSend(c)
  PROVE  CopiesInv(H)'
<1> DEFINE new == [at |-> <<"frontend">>, msg |-> SendRequest(c, request_seq[c] + 1)]
<1>1. PICK U, V : U = Underway(H) /\ V = Underway(H)'
  OBVIOUS
<1>2. V = U \cup {new}
  BY <1>1 DEF CSend, Underway
<1>3. /\ new.msg.client = c /\ new.msg.route = route[c]
      /\ new.msg.seq = request_seq'[c] /\ cphase'[c] = "wait"
  BY DEF CSend, SendRequest, LPClientTypeOK
<1>4. \A x \in U : x.msg.client = c => ~Live(x) /\ x.msg.route # route[c]
  BY <1>1 DEF CopiesInv, LiveAwaited, Live, Connected, CSend
<1>5. route' = route
  BY DEF CSend
<1>6. /\ \A x \in U : x.msg \in Request
      /\ \A d \in Client \ {c} : cphase'[d] = cphase[d] /\ request_seq'[d] = request_seq[d]
  BY <1>1, UnderwayTypes DEF CopiesInv, CSend, LPClientTypeOK
<1> HIDE DEF new
<1>7. OneCopy(H)'
  BY <1>1, <1>2, <1>3, <1>4 DEF CopiesInv, OneCopy
<1>8. OneLive(H)'
  BY <1>1, <1>2, <1>3, <1>4, <1>5 DEF CopiesInv, OneLive, Live, Connected
<1>9. RoutesPast(H)'
  BY <1>1, <1>2, <1>3, <1>5 DEF CopiesInv, RoutesPast, FrontendTypeOK
<1>10. LiveAwaited(H)'
  BY <1>1, <1>2, <1>3, <1>4, <1>5, <1>6 DEF CopiesInv, LiveAwaited, Live, Connected, Request
<1>11. QED
  BY <1>7, <1>8, <1>9, <1>10 DEF CopiesInv, HeldTypes

LEMMA ReplyCopies ==
  ASSUME FrontendTypeOK, LPClientTypeOK, NEW H, CopiesInv(H), NEW c \in Client, CReply(c)
  PROVE  CopiesInv(H)'
<1>1. PICK U, V : U = Underway(H) /\ V = Underway(H)'
  OBVIOUS
<1>2. PICK m \in replies :
        /\ m.client = c
        /\ replies' = replies \ {m}
        /\ cphase' = [cphase EXCEPT ![c] = IF m.seq = request_seq[c] THEN "send" ELSE @]
  BY DEF CReply
<1> DEFINE z == [at |-> <<"client">>, msg |-> m]
<1>3. z \in U /\ z.msg = m /\ Live(z)
  BY <1>1 DEF Underway, Live
<1>4. V = U \ {z}
  BY <1>1, <1>2 DEF CReply, Underway, CopiesInv, HeldTypes
<1>5. route' = route /\ request_seq' = request_seq
  BY DEF CReply
<1>6. \A x \in V : x.msg.client = c => ~Live(x)
  BY <1>1, <1>2, <1>3, <1>4 DEF CopiesInv, OneLive
<1>7. /\ \A x \in U : x.msg \in Request
      /\ \A d \in Client \ {c} : cphase'[d] = cphase[d]
  BY <1>1, <1>2, UnderwayTypes DEF CopiesInv, LPClientTypeOK
<1> HIDE DEF z
<1>8. OneCopy(H)' /\ OneLive(H)'
  BY <1>1, <1>4, <1>5 DEF CopiesInv, OneCopy, OneLive, Live, Connected
<1>9. RoutesPast(H)'
  BY <1>1, <1>4, <1>5 DEF CopiesInv, RoutesPast
<1>10. LiveAwaited(H)'
  BY <1>1, <1>4, <1>5, <1>6, <1>7 DEF CopiesInv, LiveAwaited, Live, Connected, Request
<1>11. QED
  BY <1>8, <1>9, <1>10 DEF CopiesInv, HeldTypes

(* A socket that is closed leaves no live copy of its client's requests;   *)
(* "new" is what the next socket sends, if there is one.                   *)
LEMMA CloseCopies ==
  ASSUME FrontendTypeOK, LPClientTypeOK, NEW H, CopiesInv(H), NEW c \in Client,
         NEW lost, CloseSocket(c, lost),
         NEW new \in SUBSET {[SendRequest(c, request_seq[c]) EXCEPT !.route = @ + 1]},
         requests' = (requests \ lost) \cup new,
         \A d \in Client \ {c} : cphase'[d] = cphase[d],
         new # {} => cphase'[c] = "wait",
         request_seq' = request_seq
  PROVE  CopiesInv(H)'
<1> DEFINE z == [at |-> <<"frontend">>,
                 msg |-> [SendRequest(c, request_seq[c]) EXCEPT !.route = @ + 1]]
<1>1. PICK U, V : U = Underway(H) /\ V = Underway(H)'
  OBVIOUS
<1>2. /\ \A x \in V : x \in U \/ x = z
      /\ z \in V \ U => new # {}
  BY <1>1 DEF Underway, CloseSocket
<1>3. z.msg.client = c /\ z.msg.route = route[c] + 1 /\ z.msg.seq = request_seq[c]
  BY DEF SendRequest
<1>4. \A x \in U : x.msg \in Request /\ x.msg.route <= route[x.msg.client]
  BY <1>1, UnderwayTypes DEF CopiesInv, RoutesPast
<1>5. \A d \in Client : /\ route[d] \in Nat
                       /\ route'[d] = IF d = c THEN route[d] + 1 ELSE route[d]
  BY DEF FrontendTypeOK, CloseSocket
<1>6. \A x \in V : x.at = <<"client">> => x.msg.client # c
  BY <1>1 DEF Underway, CloseSocket, CopiesInv, HeldTypes
<1> HIDE DEF z
<1>7. z \notin U
  BY <1>3, <1>4, <1>5 DEF Request
<1>8. \A x \in V \cap U : x.msg.client = c => ~(x.at = <<"client">> \/ route'[c] = x.msg.route)
  BY <1>4, <1>5, <1>6 DEF Request
<1>9. OneCopy(H)'
  BY <1>1, <1>2, <1>3, <1>4, <1>5 DEF CopiesInv, OneCopy, Request
<1>10. RoutesPast(H)'
  BY <1>1, <1>2, <1>3, <1>4, <1>5 DEF RoutesPast, Request
<1>11. OneLive(H)'
  BY <1>1, <1>2, <1>3, <1>4, <1>5, <1>8 DEF CopiesInv, OneLive, Live, Connected, Request
<1>12. LiveAwaited(H)'
  BY <1>1, <1>2, <1>3, <1>4, <1>5, <1>7, <1>8
  DEF CopiesInv, LiveAwaited, Live, Connected, Request
<1>13. QED
  BY <1>9, <1>10, <1>11, <1>12 DEF CopiesInv, HeldTypes

LEMMA ClientCopies ==
  ASSUME FrontendTypeOK, LPClientTypeOK, NEW H, CopiesInv(H), NEW c \in Client,
         CSend(c) \/ CReply(c) \/ CRetry(c) \/ CAbandon(c) \/ CInterrupt(c)
  PROVE  CopiesInv(H)'
<1>1. CASE CSend(c)
  BY <1>1, SendCopies
<1>2. CASE CReply(c)
  BY <1>2, ReplyCopies
<1>3. CASE CRetry(c)
  <2>1. PICK lost \in SUBSET Unsent(c) :
          /\ CloseSocket(c, lost)
          /\ requests' = (requests \ lost) \cup
                           {[SendRequest(c, request_seq[c]) EXCEPT !.route = @ + 1]}
    BY <1>3 DEF CRetry
  <2>2. cphase' = cphase /\ request_seq' = request_seq /\ cphase[c] = "wait"
    BY <1>3 DEF CRetry, Silent
  <2>3. QED
    BY <2>1, <2>2, CloseCopies
<1>4. CASE CExit(c)
  <2>1. PICK lost \in SUBSET Unsent(c) :
          CloseSocket(c, lost) /\ requests' = (requests \ lost) \cup {}
    BY <1>4 DEF CExit
  <2>2. request_seq' = request_seq /\ \A d \in Client \ {c} : cphase'[d] = cphase[d]
    BY <1>4 DEF CExit, LPClientTypeOK
  <2>3. QED
    BY <2>1, <2>2, CloseCopies
<1>5. QED
  BY <1>1, <1>2, <1>3, <1>4 DEF CAbandon, CInterrupt

(* The service goes down: what it still holds afterwards, in messages that *)
(* survive, is of connections that are gone.                               *)
LEMMA DownCopies ==
  ASSUME FrontendTypeOK, LPClientTypeOK, FrontendDown,
         UNCHANGED <<cphase, request_seq>>,
         NEW H, NEW G, NEW h, CopiesInv(H), HeldTypes(G),
         \A y \in G : \E x \in H : y = [at |-> h[x], msg |-> x.msg]
  PROVE  CopiesInv(G)'
<1>1. PICK U, V : U = Underway(H) /\ V = Underway(G)'
  OBVIOUS
<1>2. PICK kept \in SUBSET {m \in requests : Connected(m)} :
        requests' = {[m EXCEPT !.route = @ + 1] : m \in kept}
  BY DEF FrontendDown
<1>3. /\ \A d \in Client : route[d] \in Nat /\ route'[d] = route[d] + 1
      /\ replies' \subseteq replies
  BY DEF FrontendTypeOK, FrontendDown
<1> DEFINE Old(m) == [at |-> <<"frontend">>, msg |-> m]
           Resent(y) == \E m \in kept : y = Old([m EXCEPT !.route = @ + 1])
           Received(y) == y.at = <<"client">> /\ y \in U
           Held(y) == y.at # <<"client">> /\ \E x \in H : y = [at |-> h[x], msg |-> x.msg]
<1>4. \A y \in V : Resent(y) \/ Received(y) \/ Held(y)
  BY <1>1, <1>2, <1>3 DEF Underway, HeldTypes
<1>5. \A x \in U : x.msg \in Request /\ x.msg.route <= route[x.msg.client]
  BY <1>1, UnderwayTypes DEF CopiesInv, RoutesPast
<1>6. \A m \in kept : /\ m \in Request /\ m.route = route[m.client]
                     /\ Old(m) \in U /\ Old(m).at # <<"client">>
  BY <1>1, <1>2 DEF Underway, Connected, FrontendTypeOK
<1>7. \A x \in H : x \in U /\ x.at # <<"client">>
  BY <1>1 DEF Underway, CopiesInv, HeldTypes
<1>8. \A y \in V :
        /\ Resent(y) => /\ y.msg.client \in Client
                        /\ y.msg.route = route'[y.msg.client]
                        /\ y.at # <<"client">>
        /\ Received(y) \/ Held(y) => /\ y.msg.client \in Client
                                     /\ y.msg.route \in Nat
                                     /\ y.msg.route < route'[y.msg.client]
  <2>1. ASSUME NEW y \in V, Resent(y)
        PROVE  /\ y.msg.client \in Client
               /\ y.msg.route = route'[y.msg.client]
               /\ y.at # <<"client">>
    <3>1. PICK m \in kept : y = Old([m EXCEPT !.route = @ + 1])
      BY <2>1
    <3>2. QED
      BY <1>3, <1>6, <3>1 DEF Request
  <2>2. ASSUME NEW x \in U
        PROVE  /\ x.msg.client \in Client
               /\ x.msg.route \in Nat
               /\ x.msg.route < route'[x.msg.client]
    BY <1>3, <1>5 DEF Request
  <2>3. QED
    BY <1>7, <2>1, <2>2
<1>9. \A x, y \in U :
        /\ x.msg.client = y.msg.client /\ x.msg.route = y.msg.route => x = y
        /\ Live(x) /\ Live(y) /\ x.msg.client = y.msg.client => x = y
  BY <1>1 DEF CopiesInv, OneCopy, OneLive
<1>10. \A m, n \in kept : m.client = n.client => m = n
  <2>1. ASSUME NEW m \in kept, NEW n \in kept, m.client = n.client
        PROVE  Old(m) = Old(n)
    BY <1>6, <1>9, <2>1
  <2>2. QED
    BY <2>1
<1>11. ASSUME NEW x \in V, NEW y \in V, x.msg.client = y.msg.client, x.msg.route = y.msg.route
       PROVE  x = y
  <2>1. CASE Resent(x) /\ Resent(y)
    <3>1. PICK m \in kept : x = Old([m EXCEPT !.route = @ + 1])
      BY <2>1
    <3>2. PICK n \in kept : y = Old([n EXCEPT !.route = @ + 1])
      BY <2>1
    <3>3. x.msg.client = m.client /\ y.msg.client = n.client
      BY <1>6, <3>1, <3>2 DEF Request
    <3>4. m = n
      BY <1>10, <1>11, <3>3
    <3>5. QED
      BY <3>1, <3>2, <3>4
  <2>2. CASE Resent(x) /\ (Received(y) \/ Held(y))
    BY <1>3, <1>8, <1>11, <2>2
  <2>3. CASE Resent(y) /\ (Received(x) \/ Held(x))
    BY <1>3, <1>8, <1>11, <2>3
  <2>4. CASE (Received(x) \/ Held(x)) /\ (Received(y) \/ Held(y))
    <3>1. \A u \in V : Received(u) => u \in U /\ u.at = <<"client">>
      OBVIOUS
    <3>2. \A u \in V : Held(u) => /\ u.at # <<"client">>
                                 /\ \E p \in U : /\ u = [at |-> h[p], msg |-> p.msg]
                                                /\ p.at # <<"client">>
      BY <1>7
    <3> HIDE DEF Received, Held
    <3>3. CASE Received(x) /\ Received(y)
      BY <1>9, <1>11, <3>1, <3>3
    <3>4. CASE Held(x) /\ Held(y)
      <4>1. PICK p \in U : x = [at |-> h[p], msg |-> p.msg]
        BY <3>2, <3>4
      <4>2. PICK q \in U : y = [at |-> h[q], msg |-> q.msg]
        BY <3>2, <3>4
      <4>3. p = q
        BY <1>9, <1>11, <4>1, <4>2
      <4>4. QED
        BY <4>1, <4>2, <4>3
    <3>5. ASSUME NEW u \in V, Received(u), NEW v \in V, Held(v),
                 u.msg.client = v.msg.client, u.msg.route = v.msg.route
          PROVE  FALSE
      <4>1. PICK p \in U : v = [at |-> h[p], msg |-> p.msg] /\ p.at # <<"client">>
        BY <3>2, <3>5
      <4>2. u = p
        BY <1>9, <3>1, <3>5, <4>1
      <4>3. QED
        BY <3>1, <3>5, <4>1, <4>2
    <3>6. QED
      BY <1>11, <2>4, <3>3, <3>4, <3>5
  <2>5. QED
    BY <1>4, <2>1, <2>2, <2>3, <2>4
<1>12. ASSUME NEW x \in V, x.at = <<"client">> \/ route'[x.msg.client] = x.msg.route
       PROVE  Resent(x) \/ Received(x)
  BY <1>3, <1>4, <1>8, <1>12
<1>13. ASSUME NEW x \in V, NEW y \in V, x.msg.client = y.msg.client,
              Resent(x) \/ Received(x), Resent(y) \/ Received(y)
       PROVE  x = y
  <2>1. ASSUME NEW u \in V, Resent(u)
        PROVE  \E m \in kept : /\ u = Old([m EXCEPT !.route = @ + 1])
                              /\ u.msg.client = m.client /\ Live(Old(m))
    <3>1. PICK m \in kept : u = Old([m EXCEPT !.route = @ + 1])
      BY <2>1
    <3>2. u.msg.client = m.client /\ Live(Old(m))
      BY <1>6, <3>1 DEF Live, Connected, Request
    <3>3. QED
      BY <3>1, <3>2
  <2>2. ASSUME NEW u \in V, Received(u)
        PROVE  u \in U /\ Live(u) /\ u.at = <<"client">>
    BY <2>2 DEF Live
  <2>3. CASE Resent(x) /\ Resent(y)
    <3>1. PICK m \in kept : x = Old([m EXCEPT !.route = @ + 1]) /\ x.msg.client = m.client
      BY <2>1, <2>3
    <3>2. PICK n \in kept : y = Old([n EXCEPT !.route = @ + 1]) /\ y.msg.client = n.client
      BY <2>1, <2>3
    <3>3. m = n
      BY <1>10, <1>13, <3>1, <3>2
    <3>4. QED
      BY <3>1, <3>2, <3>3
  <2>4. CASE Received(x) /\ Received(y)
    BY <1>9, <1>13, <2>2, <2>4
  <2>5. ASSUME NEW u \in V, Resent(u), NEW v \in V, Received(v), u.msg.client = v.msg.client
        PROVE  FALSE
    <3>1. PICK m \in kept : u.msg.client = m.client /\ Live(Old(m))
      BY <2>1, <2>5
    <3>2. Old(m) \in U /\ Old(m).at # <<"client">> /\ Old(m).msg = m
      BY <1>6
    <3>3. v \in U /\ Live(v) /\ v.at = <<"client">>
      BY <2>2, <2>5, Zenon
    <3> HIDE DEF Old, Resent, Received
    <3>4. Old(m) = v
      BY <1>9, <2>5, <3>1, <3>2, <3>3
    <3>5. QED
      BY <3>2, <3>3, <3>4
  <2>6. ~(Resent(x) /\ Received(y)) /\ ~(Received(x) /\ Resent(y))
    BY <1>13, <2>5
  <2>7. QED
    BY <1>13, <2>3, <2>4, <2>6
<1>14. ASSUME NEW x \in V, Resent(x) \/ Received(x)
       PROVE  cphase[x.msg.client] = "wait" /\ x.msg.seq = request_seq[x.msg.client]
  <2>1. \A u \in U : Live(u) => cphase[u.msg.client] = "wait" /\ u.msg.seq = request_seq[u.msg.client]
    BY <1>1 DEF CopiesInv, LiveAwaited
  <2>2. CASE Received(x)
    BY <2>1, <2>2 DEF Live
  <2>3. CASE Resent(x)
    <3>1. PICK m \in kept : x = Old([m EXCEPT !.route = @ + 1])
      BY <2>3
    <3>2. Live(Old(m)) /\ x.msg.client = m.client /\ x.msg.seq = m.seq
      BY <1>6, <3>1 DEF Live, Connected, Request
    <3>3. QED
      BY <1>6, <2>1, <3>2
  <2>4. QED
    BY <1>14, <2>2, <2>3
<1> HIDE DEF Resent, Received, Held, Old
<1>15. OneCopy(G)'
  BY <1>1, <1>11 DEF OneCopy
<1>16. RoutesPast(G)'
  BY <1>1, <1>3, <1>4, <1>8 DEF RoutesPast
<1>17. OneLive(G)' /\ LiveAwaited(G)'
  BY <1>1, <1>12, <1>13, <1>14 DEF OneLive, LiveAwaited, Live, Connected
<1>18. QED
  BY <1>15, <1>16, <1>17 DEF CopiesInv, HeldTypes

LEMMA InitCopies ==
  ASSUME FrontendInit
  PROVE  CopiesInv({})
  BY DEF FrontendInit, CopiesInv, OneCopy, RoutesPast, LiveAwaited, OneLive, HeldTypes,
     Underway

(* What the invariant says of the client.                                  *)
LEMMA CopiesAreAwaited ==
  ASSUME NEW H, CopiesInv(H)
  PROVE  NoMalformedReply
<1>1. ASSUME NEW m \in replies
      PROVE  cphase[m.client] = "wait" /\ m.seq = request_seq[m.client]
  <2> DEFINE x == [at |-> <<"client">>, msg |-> m]
  <2>1. x \in Underway(H) /\ Live(x) /\ x.msg = m
    BY DEF Underway, Live
  <2>2. QED
    BY <2>1 DEF CopiesInv, LiveAwaited
<1>2. QED
  BY <1>1 DEF NoMalformedReply
=============================================================================
