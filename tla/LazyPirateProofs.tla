-------------------------- MODULE LazyPirateProofs --------------------------
(***************************************************************************)
(* Theorems about the Lazy Pirate pattern, for any clients, any number of  *)
(* retries and any bounds.                                                 *)
(***************************************************************************)
EXTENDS LazyPirate, ClientProofs, FiniteSetTheorems

(* What the server holds.                                                  *)
LPHeld == {[at |-> <<"server">>, msg |-> m] : m \in job}

(***************************************************************************)
(* Types and copies.                                                       *)
(***************************************************************************)
LEMMA InitTypes == Init => TypeOK /\ CopiesInv(LPHeld)
<1> SUFFICES ASSUME Init PROVE TypeOK /\ CopiesInv(LPHeld)
  OBVIOUS
<1>1. TypeOK
  BY ServerAssumption, RetriesAssumption DEF Init, FrontendInit, LPClientInit, LPServerInit,
     TypeOK, FrontendTypeOK, LPClientTypeOK, LPServerTypeOK, ClientPhase
<1>2. LPHeld = {}
  BY DEF Init, LPServerInit, LPHeld
<1>3. QED
  BY <1>1, <1>2, InitCopies DEF Init

LEMMA HeldTyped == TypeOK => HeldTypes(LPHeld)
  BY DEF TypeOK, LPServerTypeOK, HeldTypes, LPHeld

LEMMA ServerTypes ==
  ASSUME TypeOK, ServerNext
  PROVE  TypeOK'
<1> USE ServerAssumption DEF LPServerTypeOK
<1>1. LPClientTypeOK' /\ FrontendTypeOK /\ LPServerTypeOK
  BY DEF ServerNext, clientVars, TypeOK, LPClientTypeOK
<1>2. CASE LReceive
  BY <1>1, <1>2 DEF LReceive, FrontendTypeOK, TypeOK
<1>3. CASE LReply
  <2>1. PICK m \in job : replies' = RoutedReplies(m)
    BY <1>3 DEF LReply
  <2>2. replies' \subseteq replies \cup {m} /\ m \in Request
    BY <1>1, <2>1 DEF RoutedReplies
  <2>3. FrontendTypeOK'
    BY <1>1, <1>3, <2>2 DEF LReply, FrontendTypeOK
  <2>4. QED
    BY <1>1, <1>3, <2>3 DEF LReply, TypeOK
<1>4. CASE LCrash
  BY <1>1, <1>4, FrontendDownType DEF LCrash, LDown, TypeOK
<1>5. CASE LKill
  BY <1>1, <1>5, FrontendDownType DEF LKill, LDown, TypeOK
<1>6. CASE LStart
  BY <1>1, <1>6 DEF LStart, frontendVars, FrontendTypeOK, TypeOK
<1>7. QED
  BY <1>2, <1>3, <1>4, <1>5, <1>6 DEF ServerNext

LEMMA TypesNext == TypeOK /\ [Next]_vars => TypeOK'
<1> SUFFICES ASSUME TypeOK, [Next]_vars PROVE TypeOK'
  OBVIOUS
<1>1. CASE ServerNext
  BY <1>1, ServerTypes
<1>2. CASE ClientNext
  <2>1. FrontendTypeOK' /\ LPClientTypeOK'
    BY <1>2, ClientTypes DEF ClientNext, TypeOK
  <2>2. LPServerTypeOK'
    BY <1>2 DEF ClientNext, serverVars, TypeOK, LPServerTypeOK
  <2>3. QED
    BY <2>1, <2>2 DEF TypeOK
<1>3. CASE UNCHANGED vars
  BY <1>3 DEF vars, serverVars, clientVars, frontendVars, TypeOK, FrontendTypeOK,
     LPClientTypeOK, LPServerTypeOK
<1>4. QED
  BY <1>1, <1>2, <1>3 DEF Next

(* The request passes from the frontend to the server, and from the server *)
(* to the socket of its client, if that is still open.                     *)
LEMMA ReceiveCopies ==
  ASSUME TypeOK, TypeOK', CopiesInv(LPHeld), LReceive, UNCHANGED clientVars
  PROVE  CopiesInv(LPHeld)'
<1>1. PICK m \in requests : requests' = requests \ {m} /\ job' = {m}
  BY DEF LReceive
<1>2. PICK H, G, p : H = LPHeld /\ G = {[at |-> <<"server">>, msg |-> m]} /\ p = <<"server">>
  OBVIOUS
<1>3. PICK z : z = [at |-> <<"frontend">>, msg |-> m]
  OBVIOUS
<1>4. UNCHANGED <<route, cphase, request_seq, replies>> /\ LPHeld' = G
  BY <1>1, <1>2 DEF LReceive, clientVars, LPHeld
<1>5. z \in Underway(H) /\ z.at = <<"frontend">> /\ z.msg = m
  BY <1>3 DEF Underway
<1>6. HeldTypes(G)
  BY <1>1, <1>2 DEF HeldTypes, TypeOK, FrontendTypeOK
<1>7. PICK h : h = [x \in H |-> p]
  OBVIOUS
<1>8. Handover(H, G, h, z, p)
  BY <1>2, <1>5 DEF Handover
<1>9. /\ \A n \in requests' : n \in requests /\ z # [at |-> <<"frontend">>, msg |-> n]
      /\ \A n \in replies' : n \in replies /\ z # [at |-> <<"client">>, msg |-> n]
  BY <1>1, <1>4, <1>5
<1>10. CopiesInv(G)'
  BY <1>2, <1>4, <1>5, <1>6, <1>8, <1>9, TransferCopies
<1>11. QED
  BY <1>4, <1>10 DEF CopiesInv, OneCopy, RoutesPast, LiveAwaited, OneLive, HeldTypes, Underway

LEMMA ReplyCopiesLP ==
  ASSUME TypeOK, CopiesInv(LPHeld), LReply, UNCHANGED clientVars
  PROVE  CopiesInv(LPHeld)'
<1>1. PICK m \in job : replies' = RoutedReplies(m)
  BY DEF LReply
<1>2. PICK H, G, p : H = LPHeld /\ G = {} /\ p = <<"client">>
  OBVIOUS
<1>3. PICK z : z = [at |-> <<"server">>, msg |-> m]
  OBVIOUS
<1>4. UNCHANGED <<route, cphase, request_seq, requests>> /\ LPHeld' = G
  BY <1>1, <1>2 DEF LReply, clientVars, LPHeld
<1>5. z \in Underway(H) /\ z.at = <<"server">> /\ z.msg = m
  BY <1>2, <1>3 DEF Underway, LPHeld
<1>6. HeldTypes(G)
  BY <1>2 DEF HeldTypes
<1>7. PICK h : h = [x \in H |-> p]
  OBVIOUS
<1>8. Handover(H, G, h, z, p)
  BY <1>2 DEF Handover
<1>9. /\ \A n \in requests' : n \in requests /\ z # [at |-> <<"frontend">>, msg |-> n]
      /\ \A n \in replies' : \/ n \in replies /\ z # [at |-> <<"client">>, msg |-> n]
                             \/ n = z.msg /\ p = <<"client">> /\ Connected(n)
  BY <1>1, <1>2, <1>4, <1>5 DEF RoutedReplies
<1>10. CopiesInv(G)'
  BY <1>2, <1>4, <1>5, <1>6, <1>8, <1>9, TransferCopies
<1>11. QED
  BY <1>4, <1>10 DEF CopiesInv, OneCopy, RoutesPast, LiveAwaited, OneLive, HeldTypes, Underway

LEMMA CopiesNext == TypeOK /\ TypeOK' /\ CopiesInv(LPHeld) /\ [Next]_vars => CopiesInv(LPHeld)'
<1> SUFFICES ASSUME TypeOK, TypeOK', CopiesInv(LPHeld), [Next]_vars
             PROVE  CopiesInv(LPHeld)'
  OBVIOUS
<1>1. ASSUME UNCHANGED clientVars, LReceive PROVE CopiesInv(LPHeld)'
  BY <1>1, ReceiveCopies
<1>2. ASSUME UNCHANGED clientVars, LReply PROVE CopiesInv(LPHeld)'
  BY <1>2, ReplyCopiesLP
<1>3. ASSUME UNCHANGED clientVars, LDown PROVE CopiesInv(LPHeld)'
  <2>1. PICK H, G, h : H = LPHeld /\ G = {} /\ h = [x \in H |-> x.at]
    OBVIOUS
  <2>2. LPHeld' = G /\ HeldTypes(G) /\ FrontendDown /\ UNCHANGED <<cphase, request_seq>>
    BY <1>3, <2>1 DEF LDown, LPHeld, HeldTypes, clientVars
  <2>3. FrontendTypeOK /\ LPClientTypeOK
    BY DEF TypeOK
  <2>4. \A y \in G : \E x \in H : y = [at |-> h[x], msg |-> x.msg]
    BY <2>1
  <2>5. CopiesInv(G)'
    BY <2>1, <2>2, <2>3, <2>4, DownCopies
  <2>6. QED
    BY <2>2, <2>5
    DEF CopiesInv, OneCopy, RoutesPast, LiveAwaited, OneLive, HeldTypes, Underway
<1>4. CASE ServerNext
  <2>1. CASE LStart
    BY <1>4, <2>1 DEF ServerNext, LStart, frontendVars, clientVars, CopiesInv, OneCopy,
       RoutesPast, LiveAwaited, OneLive, HeldTypes, Underway, Live, Connected, LPHeld
  <2>2. QED
    BY <1>1, <1>2, <1>3, <1>4, <2>1 DEF ServerNext, LCrash, LKill
<1>5. CASE ClientNext
  <2>1. PICK H : H = LPHeld
    OBVIOUS
  <2>2. LPHeld' = H /\ FrontendTypeOK /\ LPClientTypeOK
    BY <1>5, <2>1 DEF ClientNext, serverVars, LPHeld, TypeOK
  <2>3. CopiesInv(H)'
    BY <1>5, <2>1, <2>2, ClientCopies DEF ClientNext
  <2>4. QED
    BY <2>2, <2>3
    DEF CopiesInv, OneCopy, RoutesPast, LiveAwaited, OneLive, HeldTypes, Underway
<1>6. CASE UNCHANGED vars
  BY <1>6 DEF vars, serverVars, frontendVars, clientVars, CopiesInv, OneCopy,
     RoutesPast, LiveAwaited, OneLive, HeldTypes, Underway, Live, Connected, LPHeld
<1>7. QED
  BY <1>4, <1>5, <1>6 DEF Next

(***************************************************************************)
(* How many copies.  A client that waits has an attempt left and one that  *)
(* is about to send has them all; no copy is of a request not yet made;    *)
(* and the copies of a request are no more than its attempts.              *)
(***************************************************************************)
Attempts(c, n) ==
  IF cphase[c] = "wait" /\ n = request_seq[c]
  THEN 1 + REQUEST_RETRIES - retries_left[c]
  ELSE REQUEST_RETRIES

KnownRequests ==
  \A m \in requests \cup job \cup replies : m.seq <= request_seq[m.client]

AtMost(S, k) == IsFiniteSet(S) /\ Cardinality(S) <= k

FewCopies == \A c \in Client : \A n \in Nat : AtMost(Copies(c, n), Attempts(c, n))

RetryInv == TypeOK /\ CopiesInv(LPHeld) /\ AttemptsLeft /\ KnownRequests /\ FewCopies

LEMMA FewerAtMost ==
  ASSUME NEW S, NEW T, T \subseteq S, NEW k \in Int, NEW l \in Int, k <= l, AtMost(S, k)
  PROVE  AtMost(T, l)
<1>1. IsFiniteSet(T) /\ Cardinality(T) <= Cardinality(S)
  BY FS_Subset DEF AtMost
<1>2. Cardinality(T) \in Nat /\ Cardinality(S) \in Nat
  BY <1>1, FS_CardinalityType DEF AtMost
<1>3. QED
  BY <1>1, <1>2 DEF AtMost

LEMMA OneMoreAtMost ==
  ASSUME NEW S, NEW T, NEW x, T \subseteq S \cup {x}, NEW k \in Int, AtMost(S, k)
  PROVE  AtMost(T, k + 1)
<1>1. IsFiniteSet(S) /\ Cardinality(S) <= k /\ Cardinality(S) \in Nat
  BY FS_CardinalityType DEF AtMost
<1>2. PICK U : U = S \cup {x}
  OBVIOUS
<1>3. /\ IsFiniteSet(U)
      /\ Cardinality(U) = IF x \in S THEN Cardinality(S) ELSE Cardinality(S) + 1
  BY <1>1, <1>2, FS_AddElement
<1>4. AtMost(U, k + 1)
  BY <1>1, <1>3 DEF AtMost
<1>5. QED
  BY <1>2, <1>4, FewerAtMost

LEMMA ImageAtMost ==
  ASSUME NEW S, NEW T, NEW f \in [S -> T], \A y \in T : \E x \in S : y = f[x],
         NEW k \in Int, AtMost(S, k)
  PROVE  AtMost(T, k)
<1>1. f \in Surjection(S, T)
  BY DEF Surjection
<1>2. IsFiniteSet(T) /\ Cardinality(T) <= Cardinality(S)
  BY <1>1, FS_Surjection DEF AtMost
<1>3. Cardinality(T) \in Nat /\ Cardinality(S) \in Nat
  BY <1>2, FS_CardinalityType DEF AtMost
<1>4. QED
  BY <1>2, <1>3 DEF AtMost

LEMMA AttemptsInt == TypeOK => \A c \in Client : \A n \in Nat : Attempts(c, n) \in Int
  BY RetriesAssumption DEF TypeOK, LPClientTypeOK, Attempts

(* A step that makes no copy and takes no attempt back.                    *)
LEMMA KeepFew ==
  ASSUME TypeOK, TypeOK', FewCopies, NEW c \in Client, NEW n \in Nat,
         Copies(c, n)' \subseteq Copies(c, n), Attempts(c, n) <= Attempts(c, n)'
  PROVE  AtMost(Copies(c, n), Attempts(c, n))'
<1>1. PICK S, T, k, l : S = Copies(c, n) /\ T = Copies(c, n)'
                        /\ k = Attempts(c, n) /\ l = Attempts(c, n)'
  OBVIOUS
<1>2. k \in Int /\ l \in Int
  BY <1>1, RetriesAssumption DEF TypeOK, LPClientTypeOK, Attempts
<1>3. AtMost(S, k)
  BY <1>1 DEF FewCopies
<1>4. AtMost(T, l)
  BY <1>1, <1>2, <1>3, FewerAtMost
<1>5. QED
  BY <1>1, <1>4 DEF AtMost

(* The server goes down: what is sent again replaces what was sent.        *)
LEMMA DownFew ==
  ASSUME TypeOK, CopiesInv(LPHeld), LDown, NEW c \in Client, NEW n \in Nat,
         NEW k \in Int, AtMost(Copies(c, n), k)
  PROVE  AtMost(Copies(c, n)', k)
<1> DEFINE Resent(m) == [m EXCEPT !.route = @ + 1]
<1>1. PICK kept \in SUBSET {m \in requests : Connected(m)} :
        requests' = {Resent(m) : m \in kept}
  BY DEF LDown, FrontendDown
<1>2. PICK S, T : S = Copies(c, n) /\ T = Copies(c, n)'
  OBVIOUS
<1>3. replies' \subseteq replies /\ job' = {}
  BY DEF LDown, FrontendDown
<1>4. replies \cap requests = {}
  <2> SUFFICES ASSUME NEW m \in replies, m \in requests PROVE FALSE
    OBVIOUS
  <2> DEFINE x == [at |-> <<"frontend">>, msg |-> m]
             y == [at |-> <<"client">>, msg |-> m]
  <2>1. x \in Underway(LPHeld) /\ y \in Underway(LPHeld) /\ x.msg = m /\ y.msg = m
    BY DEF Underway
  <2>2. x.at # y.at
    OBVIOUS
  <2>3. QED
    BY <2>1, <2>2 DEF CopiesInv, OneCopy
<1>5. \A m \in kept : m \in Request /\ Resent(m).client = m.client /\ Resent(m).seq = m.seq
  BY DEF TypeOK, FrontendTypeOK, Request
<1> DEFINE Now(m) == IF m \in kept THEN Resent(m) ELSE m
           D == {m \in S : Now(m) \in T}
           f == [m \in D |-> Now(m)]
<1>6. \A y \in T : \E x \in D : y = Now(x)
  <2> SUFFICES ASSUME NEW y \in T PROVE \E x \in S : y = Now(x)
    OBVIOUS
  <2>1. y.client = c /\ y.seq = n /\ (y \in requests' \/ y \in replies')
    BY <1>2, <1>3 DEF Copies, UnderWay
  <2>2. CASE y \in requests'
    <3>1. PICK m \in kept : y = Resent(m)
      BY <1>1, <2>2
    <3>2. m \in S
      BY <1>2, <1>5, <2>1, <3>1 DEF Copies, UnderWay
    <3>3. QED
      BY <3>1, <3>2
  <2>3. CASE y \in replies'
    <3>1. y \in S /\ y \notin kept
      BY <1>2, <1>3, <1>4, <2>1, <2>3 DEF Copies, UnderWay
    <3>2. QED
      BY <3>1
  <2>4. QED
    BY <2>1, <2>2, <2>3
<1>7. AtMost(D, k)
  <2>1. D \subseteq S /\ k <= k /\ AtMost(S, k)
    BY <1>2
  <2> HIDE DEF D
  <2>2. QED
    BY <2>1, FewerAtMost
<1>8. f \in [D -> T] /\ \A y \in T : \E x \in D : y = f[x]
  BY <1>6
<1> HIDE DEF f, D
<1>9. AtMost(T, k)
  BY <1>7, <1>8, ImageAtMost
<1>10. QED
  BY <1>2, <1>9

LEMMA ServerFew ==
  ASSUME RetryInv, TypeOK', ServerNext
  PROVE  AttemptsLeft' /\ KnownRequests' /\ FewCopies'
<1> USE DEF RetryInv
<1>1. UNCHANGED <<cphase, request_seq, retries_left>>
  BY DEF ServerNext, clientVars
<1>2. AttemptsLeft'
  BY <1>1 DEF AttemptsLeft
<1>3. \A c \in Client : \A n \in Nat : Attempts(c, n)' = Attempts(c, n)
  BY <1>1 DEF Attempts
<1>4. CASE LReceive \/ LReply \/ LStart
  <2>1. (requests \cup job \cup replies)' \subseteq requests \cup job \cup replies
    BY <1>4 DEF LReceive, LReply, LStart, RoutedReplies, frontendVars
  <2>2. KnownRequests'
    BY <1>1, <2>1 DEF KnownRequests
  <2>3. ASSUME NEW c \in Client, NEW n \in Nat
        PROVE  AtMost(Copies(c, n), Attempts(c, n))'
    <3>1. Copies(c, n)' \subseteq Copies(c, n)
      BY <2>1 DEF Copies, UnderWay
    <3>2. Attempts(c, n) <= Attempts(c, n)'
      BY <1>3, AttemptsInt
    <3>3. QED
      BY <3>1, <3>2, KeepFew
  <2>4. QED
    BY <1>2, <2>2, <2>3 DEF FewCopies
<1>5. CASE LDown
  <2>1. KnownRequests'
    <3>1. PICK kept \in SUBSET {m \in requests : Connected(m)} :
            requests' = {[m EXCEPT !.route = @ + 1] : m \in kept}
      BY <1>5 DEF LDown, FrontendDown
    <3>2. \A m \in requests : /\ [m EXCEPT !.route = @ + 1].client = m.client
                             /\ [m EXCEPT !.route = @ + 1].seq = m.seq
      BY DEF TypeOK, FrontendTypeOK, Request
    <3>3. replies' \subseteq replies /\ job' = {}
      BY <1>5 DEF LDown, FrontendDown
    <3>4. QED
      BY <1>1, <3>1, <3>2, <3>3 DEF KnownRequests
  <2>2. ASSUME NEW c \in Client, NEW n \in Nat
        PROVE  AtMost(Copies(c, n), Attempts(c, n))'
    <3>1. PICK k : k = Attempts(c, n)
      OBVIOUS
    <3>2. k \in Int /\ AtMost(Copies(c, n), k) /\ Attempts(c, n)' = k
      BY <1>3, <3>1, AttemptsInt DEF FewCopies
    <3>3. AtMost(Copies(c, n)', k)
      BY <1>5, <3>2, DownFew
    <3>4. QED
      BY <3>2, <3>3 DEF AtMost
  <2>3. QED
    BY <1>2, <2>1, <2>2 DEF FewCopies
<1>6. QED
  BY <1>4, <1>5 DEF ServerNext, LCrash, LKill

(* A client gives its socket up: copies may be lost, none is made but what *)
(* it sends on the next one.                                               *)
LEMMA ClosedFew ==
  ASSUME NEW c \in Client, NEW lost, CloseSocket(c, lost), NEW new,
         requests' = (requests \ lost) \cup new, UNCHANGED job
  PROVE  (requests \cup job \cup replies)' \subseteq (requests \cup job \cup replies) \cup new
  BY DEF CloseSocket

LEMMA ClientFew ==
  ASSUME RetryInv, TypeOK', NEW c \in Client,
         CSend(c) \/ CReply(c) \/ CRetry(c) \/ CAbandon(c) \/ CInterrupt(c),
         UNCHANGED serverVars
  PROVE  AttemptsLeft' /\ KnownRequests' /\ FewCopies'
<1> USE RetriesAssumption DEF RetryInv
<1>1. /\ cphase \in [Client -> ClientPhase] /\ cphase' \in [Client -> ClientPhase]
      /\ request_seq \in [Client -> Nat] /\ retries_left \in [Client -> Int]
      /\ job' = job
  BY DEF TypeOK, LPClientTypeOK, serverVars
<1>2. /\ \A d \in Client : \A n \in Nat : Attempts(d, n) \in Int /\ Attempts(d, n)' \in Int
      /\ \A m \in requests \cup job \cup replies : m.client \in Client /\ m.seq \in Nat
  BY AttemptsInt DEF TypeOK, FrontendTypeOK, LPClientTypeOK, LPServerTypeOK, Request, Attempts
<1>3. CASE CSend(c)
  <2>1. PICK new : new = SendRequest(c, request_seq[c] + 1)
    OBVIOUS
  <2>2. /\ new.client = c /\ new.seq = request_seq[c] + 1
        /\ requests' = requests \cup {new} /\ replies' = replies
        /\ cphase[c] = "send" /\ retries_left[c] = REQUEST_RETRIES
        /\ request_seq' = [request_seq EXCEPT ![c] = @ + 1]
        /\ cphase' = [cphase EXCEPT ![c] = "wait"] /\ retries_left' = retries_left
    BY <1>3, <2>1 DEF CSend, SendRequest, AttemptsLeft
  <2>3. AttemptsLeft'
    BY <1>1, <2>2 DEF AttemptsLeft
  <2>4. KnownRequests'
    BY <1>1, <1>2, <2>2 DEF KnownRequests
  <2>5. ASSUME NEW d \in Client, NEW n \in Nat
        PROVE  AtMost(Copies(d, n), Attempts(d, n))'
    <3>1. CASE d = c /\ n = request_seq[c] + 1
      <4>1. Copies(d, n) = {}
        BY <1>1, <1>2, <3>1 DEF KnownRequests, Copies, UnderWay
      <4>2. Copies(d, n)' = {new}
        BY <1>1, <2>2, <3>1, <4>1 DEF Copies, UnderWay
      <4>3. Attempts(d, n)' = 1
        BY <1>1, <2>2, <3>1 DEF Attempts
      <4>4. AtMost({new}, 1)
        <5>1. IsFiniteSet({new}) /\ Cardinality({new}) = 1
          BY FS_Singleton
        <5>2. QED
          BY <5>1 DEF AtMost
      <4>5. QED
        BY <4>2, <4>3, <4>4 DEF AtMost
    <3>2. CASE ~(d = c /\ n = request_seq[c] + 1)
      <4>1. Copies(d, n)' \subseteq Copies(d, n)
        BY <1>1, <2>2, <3>2 DEF Copies, UnderWay
      <4>2. Attempts(d, n)' = Attempts(d, n)
        BY <1>1, <2>2, <3>2 DEF Attempts
      <4>3. QED
        BY <1>2, <4>1, <4>2, KeepFew
    <3>3. QED
      BY <3>1, <3>2
  <2>6. QED
    BY <2>3, <2>4, <2>5 DEF FewCopies
<1>4. ASSUME UNCHANGED request_seq,
             \A d \in Client \ {c} : cphase'[d] = cphase[d] /\ retries_left'[d] = retries_left[d],
             cphase[c] = "wait", cphase'[c] # "wait",
             cphase'[c] = "send" => retries_left'[c] = REQUEST_RETRIES,
             (requests \cup job \cup replies)' \subseteq requests \cup job \cup replies
      PROVE  AttemptsLeft' /\ KnownRequests' /\ FewCopies'
  <2>1. AttemptsLeft'
    BY <1>1, <1>4 DEF AttemptsLeft
  <2>2. KnownRequests'
    BY <1>4 DEF KnownRequests
  <2>3. ASSUME NEW d \in Client, NEW n \in Nat
        PROVE  AtMost(Copies(d, n), Attempts(d, n))'
    <3>1. Copies(d, n)' \subseteq Copies(d, n)
      BY <1>4 DEF Copies, UnderWay
    <3>2. Attempts(d, n) <= Attempts(d, n)'
      BY <1>1, <1>4 DEF AttemptsLeft, Attempts
    <3>3. QED
      BY <3>1, <3>2, KeepFew
  <2>4. QED
    BY <2>1, <2>2, <2>3 DEF FewCopies
<1>5. CASE CReply(c)
  <2>1. PICK m \in replies :
          /\ m.client = c
          /\ replies' = replies \ {m}
          /\ retries_left' = [retries_left EXCEPT
               ![c] = IF m.seq = request_seq[c] THEN REQUEST_RETRIES ELSE @ - 1]
          /\ cphase' = [cphase EXCEPT
               ![c] = IF m.seq = request_seq[c] THEN "send" ELSE @]
    BY <1>5 DEF CReply
  <2>2. m.seq = request_seq[c]
    BY <2>1, CopiesAreAwaited DEF NoMalformedReply
  <2>3. QED
    BY <1>1, <1>4, <1>5, <2>1, <2>2 DEF CReply
<1>6. ASSUME CExit(c), cphase[c] = "wait",
             \A d \in Client \ {c} : retries_left'[d] = retries_left[d]
      PROVE  AttemptsLeft' /\ KnownRequests' /\ FewCopies'
  <2>1. PICK lost \in SUBSET Unsent(c) :
          CloseSocket(c, lost) /\ requests' = (requests \ lost) \cup {}
    BY <1>6 DEF CExit
  <2>2. (requests \cup job \cup replies)' \subseteq (requests \cup job \cup replies) \cup {}
    BY <1>1, <2>1, ClosedFew
  <2>3. cphase' = [cphase EXCEPT ![c] = "done"] /\ UNCHANGED request_seq
    BY <1>6 DEF CExit
  <2>4. QED
    BY <1>1, <1>4, <1>6, <2>2, <2>3
<1>7. CASE CAbandon(c)
  BY <1>1, <1>6, <1>7 DEF CAbandon, Silent
<1>8. CASE CInterrupt(c)
  BY <1>6, <1>8 DEF CInterrupt
<1>9. CASE CRetry(c)
  <2>1. PICK new : new = [SendRequest(c, request_seq[c]) EXCEPT !.route = @ + 1]
    OBVIOUS
  <2>2. new.client = c /\ new.seq = request_seq[c]
    BY <2>1 DEF SendRequest
  <2>3. PICK lost \in SUBSET Unsent(c) :
          CloseSocket(c, lost) /\ requests' = (requests \ lost) \cup {new}
    BY <1>9, <2>1 DEF CRetry
  <2>4. (requests \cup job \cup replies)' \subseteq (requests \cup job \cup replies) \cup {new}
    BY <1>1, <2>3, ClosedFew
  <2>5. /\ cphase[c] = "wait" /\ retries_left[c] # 1
        /\ retries_left' = [retries_left EXCEPT ![c] = @ - 1]
        /\ cphase' = cphase /\ request_seq' = request_seq
    BY <1>9 DEF CRetry, Silent
  <2>6. AttemptsLeft'
    BY <1>1, <2>5 DEF AttemptsLeft
  <2>7. KnownRequests'
    BY <1>1, <2>2, <2>4, <2>5 DEF KnownRequests
  <2>8. ASSUME NEW d \in Client, NEW n \in Nat
        PROVE  AtMost(Copies(d, n), Attempts(d, n))'
    <3>1. CASE d = c /\ n = request_seq[c]
      <4>1. PICK S, T, k : S = Copies(d, n) /\ T = Copies(d, n)' /\ k = Attempts(d, n)
        OBVIOUS
      <4>2. T \subseteq S \cup {new}
        BY <2>4, <4>1 DEF Copies, UnderWay
      <4>3. Attempts(d, n)' = k + 1
        BY <1>1, <2>5, <3>1, <4>1 DEF Attempts
      <4>4. k \in Int /\ AtMost(S, k)
        BY <1>2, <4>1 DEF FewCopies
      <4>5. AtMost(T, k + 1)
        BY <4>2, <4>4, OneMoreAtMost
      <4>6. QED
        BY <4>1, <4>3, <4>5 DEF AtMost
    <3>2. CASE ~(d = c /\ n = request_seq[c])
      <4>1. Copies(d, n)' \subseteq Copies(d, n)
        BY <2>2, <2>4, <3>2 DEF Copies, UnderWay
      <4>2. Attempts(d, n)' = Attempts(d, n)
        BY <1>1, <2>5, <3>2 DEF Attempts
      <4>3. QED
        BY <1>2, <4>1, <4>2, KeepFew
    <3>3. QED
      BY <3>1, <3>2
  <2>9. QED
    BY <2>6, <2>7, <2>8 DEF FewCopies
<1>10. QED
  BY <1>3, <1>5, <1>7, <1>8, <1>9

(***************************************************************************)
(* The theorems.                                                           *)
(***************************************************************************)

(* The inductive invariant: a client that waits has an attempt left, and a *)
(* request has no more copies than attempts (lpclient.cpp:20-75,           *)
(* lpserver.cpp:27-46).                                                    *)
THEOREM RetryInvariant == Spec => []RetryInv
<1>1. Init => RetryInv
  <2> SUFFICES ASSUME Init PROVE RetryInv
    OBVIOUS
  <2>1. TypeOK /\ CopiesInv(LPHeld)
    BY InitTypes
  <2>2. requests = {} /\ replies = {} /\ job = {}
    BY DEF Init, FrontendInit, LPServerInit
  <2>3. AttemptsLeft
    BY DEF Init, LPClientInit, AttemptsLeft
  <2>4. KnownRequests
    BY <2>2 DEF KnownRequests
  <2>5. ASSUME NEW c \in Client, NEW n \in Nat
        PROVE  AtMost(Copies(c, n), Attempts(c, n))
    <3>1. Copies(c, n) = {} /\ Attempts(c, n) = REQUEST_RETRIES
      BY <2>2 DEF Init, LPClientInit, Copies, UnderWay, Attempts
    <3>2. QED
      BY <3>1, FS_EmptySet, RetriesAssumption DEF AtMost
  <2>6. QED
    BY <2>1, <2>3, <2>4, <2>5 DEF RetryInv, FewCopies
<1>2. RetryInv /\ [Next]_vars => RetryInv'
  <2> SUFFICES ASSUME RetryInv, [Next]_vars PROVE RetryInv'
    OBVIOUS
  <2>1. TypeOK'
    BY TypesNext DEF RetryInv
  <2>2. CopiesInv(LPHeld)'
    BY <2>1, CopiesNext DEF RetryInv
  <2>3. CASE ServerNext
    BY <2>1, <2>2, <2>3, ServerFew DEF RetryInv
  <2>4. CASE ClientNext
    <3>1. PICK c \in Client :
            CSend(c) \/ CReply(c) \/ CRetry(c) \/ CAbandon(c) \/ CInterrupt(c)
      BY <2>4 DEF ClientNext
    <3>2. AttemptsLeft' /\ KnownRequests' /\ FewCopies'
      BY <2>1, <2>4, <3>1, ClientFew DEF ClientNext
    <3>3. QED
      BY <2>1, <2>2, <3>2 DEF RetryInv
  <2>5. CASE UNCHANGED vars
    <3>1. AttemptsLeft' /\ KnownRequests' /\ FewCopies'
      BY <2>5 DEF RetryInv, AttemptsLeft, KnownRequests, FewCopies, AtMost, Copies,
         UnderWay, Attempts, vars, serverVars, clientVars, frontendVars
    <3>2. QED
      BY <2>1, <2>2, <3>1 DEF RetryInv
  <2>6. QED
    BY <2>3, <2>4, <2>5 DEF Next
<1>3. QED
  BY <1>1, <1>2, PTL DEF Spec

(* Everything has its type: the server works on a request exactly when it  *)
(* is between receive and send (lpserver.cpp:29-43).                       *)
THEOREM TypeCorrect == Spec => []TypeOK
<1>1. RetryInv => TypeOK
  BY DEF RetryInv
<1>2. QED
  BY <1>1, RetryInvariant, PTL

(* However often a client sends a request again, and however often the     *)
(* server crashes, is killed and comes back, there are never more copies   *)
(* of the request than attempts (lpclient.cpp:59-71, lpserver.cpp:29-42).  *)
THEOREM CopiesStayBounded == Spec => []CopiesBounded
<1>1. RetryInv => CopiesBounded
  <2> SUFFICES ASSUME RetryInv, NEW c \in Client, NEW n \in 1..request_seq[c]
               PROVE  Cardinality(Copies(c, n)) <= Attempts(c, n)
    BY DEF CopiesBounded, Attempts
  <2>1. n \in Nat
    BY DEF RetryInv, TypeOK, LPClientTypeOK
  <2>2. QED
    BY <2>1 DEF RetryInv, FewCopies, AtMost
<1>2. QED
  BY <1>1, RetryInvariant, PTL

(* A client that waits has an attempt left, so the test for zero of line   *)
(* 59 is never stepped over, however late the server's replies to earlier  *)
(* attempts come (lpclient.cpp:55-61).                                     *)
THEOREM AttemptsStayLeft == Spec => []AttemptsLeft
<1>1. RetryInv => AttemptsLeft
  BY DEF RetryInv
<1>2. QED
  BY <1>1, RetryInvariant, PTL

(* A client of the Lazy Pirate server never reads a reply to an earlier    *)
(* request: retries_left is only counted down by a time-out                *)
(* (lpclient.cpp:47-59).                                                   *)
THEOREM RepliesAreAwaited == Spec => []NoMalformedReply
<1>1. RetryInv => NoMalformedReply
  BY CopiesAreAwaited DEF RetryInv
<1>2. QED
  BY <1>1, RetryInvariant, PTL
=============================================================================
