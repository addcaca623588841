-------------------------------- MODULE ZmqX --------------------------------
(***************************************************************************)
(* zmq_x/zmq_x.c: named addresses ("ipc://...", "inproc://...") on top of  *)
(* TCP, with the wrapper of czmq_x/czmq_x.c that differs from it.  The     *)
(* first process that initialises the library binds a well-known port and  *)
(* becomes the resolver; later ones ask it.  Each process keeps a table of *)
(* the names it knows, to which items are only added.                      *)
(*                                                                         *)
(* One thread of a process calls the library; in the resolver process the  *)
(* thread of ipc_server_task reads the same table, and sees an item once   *)
(* it is complete.  Other addresses go to ZeroMQ as they are and are left  *)
(* out, and so are errors other than an interrupted call and an endpoint   *)
(* in use.                                                                 *)
(***************************************************************************)
EXTENDS Naturals, Sequences, FiniteSets, SequencesExt

CONSTANTS
  Proc,          \* processes
  Name,          \* named addresses
  Endpoint,      \* endpoints the system draws for the wildcard, each once
  MayInterrupt,  \* processes whose blocking calls may be interrupted
  MayEnd,        \* processes that may end of themselves, or be killed
  MaxStarts,     \* bound: resolvers that are started
  None           \* no process, no name

ASSUME ZmqXAssumption ==
  /\ MayInterrupt \subseteq Proc
  /\ MayEnd \subseteq Proc
  /\ MaxStarts \in Nat
  /\ None \notin Proc \cup Name

VARIABLES
  role,         \* "down", "server", "client" or, its resolver thread gone, "alone"
  s_endpoints,  \* the table of each process
  call,         \* the call its thread is in
  awaits,       \* the name its REQ socket waits for an answer to, or None
  asked,        \* requests on their way to the resolver
  told,         \* answers on their way to the clients
  bound,        \* the process that holds an endpoint, and for which name
  drawnFor,     \* the name an endpoint was drawn for, or None
  stops         \* how many resolvers have ended

procVars == <<role, s_endpoints, call, awaits>>
wireVars == <<asked, told>>
sockVars == <<bound, drawnFor>>
vars == <<procVars, wireVars, sockVars, stops>>

Idle == [at |-> "idle"]
Unbound == [proc |-> None, addr |-> None]
Item == [addr : Name, endpoint : Endpoint]
Op == {"bind", "zsocket_bind", "unbind", "connect"}
Binds == {"bind", "zsocket_bind"}

TypeOK ==
  /\ role \in [Proc -> {"down", "server", "client", "alone"}]
  /\ Cardinality({p \in Proc : role[p] = "server"}) <= 1
  /\ s_endpoints \in [Proc -> Seq(Item)]
  /\ call \in [Proc -> {Idle} \cup [at : {"wait"}, op : Op, addr : Name]
                              \cup [at : {"drawn"}, item : Item]]
  /\ awaits \in [Proc -> Name \cup {None}]
  /\ \A p \in Proc : call[p].at = "wait" => role[p] = "client" /\ awaits[p] = call[p].addr
  /\ asked \subseteq [from : Proc \cup {None}, addr : Name]
  /\ told \subseteq [to : Proc, endpoint : Endpoint]
  /\ bound \in [Endpoint -> {Unbound} \cup [proc : Proc, addr : Name]]
  /\ drawnFor \in [Endpoint -> Name \cup {None}]
  /\ stops \in 0..MaxStarts

Init ==
  /\ role = [p \in Proc |-> "down"]
  /\ s_endpoints = [p \in Proc |-> <<>>]
  /\ call = [p \in Proc |-> Idle]
  /\ awaits = [p \in Proc |-> None]
  /\ asked = {}
  /\ told = {}
  /\ bound = [e \in Endpoint |-> Unbound]
  /\ drawnFor = [e \in Endpoint |-> None]
  /\ stops = 0

(* The system lets several processes bind the port (seeded fault).         *)
PortShared == FALSE

(* The well-known port is in use (lines 177, 39).                          *)
PortHeld == \E p \in Proc : role[p] = "server"

(* Lines 174-201: the well-known port is free, or a resolver holds it.     *)
InitX(p) ==
  /\ role[p] = "down"
  /\ PortHeld \/ stops < MaxStarts
  /\ role' = [role EXCEPT ![p] = IF PortHeld THEN "client" ELSE "server"]
  /\ UNCHANGED <<s_endpoints, call, awaits, wireVars, sockVars, stops>>

(* Lines 147-152: the first item with that name counts.  Its index, or 0,  *)
(* and its endpoint.                                                       *)
Find(p, a) == SelectInSeq(s_endpoints[p], LAMBDA t : t.addr = a)

Found(p, a) == s_endpoints[p][Find(p, a)].endpoint

(* Lines 45-52.                                                            *)
Insert(p, item) == s_endpoints' = [s_endpoints EXCEPT ![p] = Append(@, item)]

Return(p) == call' = [call EXCEPT ![p] = Idle]

(***************************************************************************)
(* What a call does with the result of zmq_endpoint_x.                     *)
(***************************************************************************)

(* Lines 88, 102, 116, 130, and czmq_x.c:30-31: the endpoint e is known.   *)
(* zmq_bind fails if it is in use, zsocket_bind_x always.  A connection is *)
(* its socket's alone, so "connect" stands for zmq_disconnect_x as well.   *)
(* The other wrappers of czmq_x.c look the name up twice; the second time  *)
(* it is in the table, so they are the calls they wrap.                    *)
Resolved(p, op, a, e) ==
  /\ bound' =
       CASE op = "bind" /\ bound[e] = Unbound ->
              [bound EXCEPT ![e] = [proc |-> p, addr |-> a]]
         [] op = "unbind" /\ bound[e].proc = p -> [bound EXCEPT ![e] = Unbound]
         [] OTHER -> bound
  /\ Return(p)
  /\ UNCHANGED drawnFor

(* Lines 54-65: an endpoint from the wildcard.                             *)
BindNew(p, a) ==
  \E e \in Endpoint :
    /\ drawnFor[e] = None
    /\ drawnFor' = [drawnFor EXCEPT ![e] = a]
    /\ bound' = [bound EXCEPT ![e] = [proc |-> p, addr |-> a]]
    /\ call' = [call EXCEPT ![p] = [at |-> "drawn", item |-> [addr |-> a, endpoint |-> e]]]

(* Lines 86, 100, 114, 128: NULL.  Only a bind goes on, with an endpoint   *)
(* of its own.                                                             *)
Unresolved(p, op, a) ==
  \/ op \in Binds /\ BindNew(p, a)
  \/ op \notin Binds /\ Return(p) /\ UNCHANGED sockVars

(* Lines 66-67: the item, and the call returns.                            *)
BindInsert(p) ==
  /\ call[p].at = "drawn"
  /\ Insert(p, call[p].item)
  /\ Return(p)
  /\ UNCHANGED <<role, awaits, wireVars, sockVars, stops>>

(***************************************************************************)
(* zmq_endpoint_x.                                                         *)
(***************************************************************************)

(* To unbind a name takes it out of the table (seeded fault).              *)
CallKnownForgets(p, op, a) ==
  /\ Find(p, a) # 0
  /\ Resolved(p, op, a, Found(p, a))
  /\ s_endpoints' = IF op = "unbind"
                    THEN [s_endpoints EXCEPT ![p] = RemoveAt(@, Find(p, a))]
                    ELSE s_endpoints
  /\ UNCHANGED <<role, awaits, wireVars, stops>>

CallKnown(p, op, a) ==
  /\ Find(p, a) # 0
  /\ Resolved(p, op, a, Found(p, a))
  /\ UNCHANGED <<role, s_endpoints, awaits, wireVars, stops>>

(* The request is sent whatever the socket waits for (seeded fault).       *)
AskAlways(p) == role[p] = "client"

(* No name is asked for that a process wants to bind (seeded fault).       *)
AskNever(p) == FALSE

(* Lines 154-161: a client asks, but ZeroMQ refuses to send on a socket    *)
(* that still waits for the answer to an interrupted call.                 *)
CanAsk(p) == role[p] = "client" /\ awaits[p] = None

CallUnknown(p, op, a) ==
  /\ Find(p, a) = 0
  /\ ~CanAsk(p)
  /\ Unresolved(p, op, a)
  /\ UNCHANGED <<role, s_endpoints, awaits, wireVars, stops>>

CallAsk(p, op, a) ==
  /\ Find(p, a) = 0
  /\ CanAsk(p)
  /\ asked' = asked \cup {[from |-> p, addr |-> a]}
  /\ awaits' = [awaits EXCEPT ![p] = a]
  /\ call' = [call EXCEPT ![p] = [at |-> "wait", op |-> op, addr |-> a]]
  /\ UNCHANGED <<role, s_endpoints, told, sockVars, stops>>

Call(p) ==
  /\ role[p] # "down"
  /\ call[p] = Idle
  /\ \E op \in Op, a \in Name : CallKnown(p, op, a) \/ CallUnknown(p, op, a) \/ CallAsk(p, op, a)

(* Lines 162-167: the answer, which goes into the table.                   *)
Receive(p) ==
  /\ call[p].at = "wait"
  /\ \E t \in told :
       /\ t.to = p
       /\ told' = told \ {t}
       /\ Insert(p, [addr |-> call[p].addr, endpoint |-> t.endpoint])
       /\ Resolved(p, call[p].op, call[p].addr, t.endpoint)
  /\ awaits' = [awaits EXCEPT ![p] = None]
  /\ UNCHANGED <<role, asked, stops>>

(* Lines 163-164: NULL; the socket goes on waiting.                        *)
Interrupted(p) ==
  /\ p \in MayInterrupt
  /\ call[p].at = "wait"
  /\ Unresolved(p, call[p].op, call[p].addr)
  /\ UNCHANGED <<role, s_endpoints, awaits, wireVars, stops>>

(***************************************************************************)
(* The resolver thread, and the end of a process.                          *)
(***************************************************************************)

(* Lines 28-35: a name in the table; nobody hears the answer to a process  *)
(* that is gone.                                                           *)
Answer(q, m) ==
  /\ role[q] = "server"
  /\ Find(q, m.addr) # 0
  /\ asked' = asked \ {m}
  /\ told' = told \cup {[to |-> p, endpoint |-> Found(q, m.addr)] :
                         p \in {m.from} \ {None}}
  /\ UNCHANGED <<procVars, sockVars, stops>>

(* A process ends, and its sockets with it.  The requests in "lost" are    *)
(* gone, the others it made go on to the resolver; a resolver may take     *)
(* requests and answers with it.                                           *)
Gone(p, lost) ==
  LET serves == role[p] = "server"
  IN  /\ role' = [role EXCEPT ![p] = "down"]
      /\ s_endpoints' = [s_endpoints EXCEPT ![p] = <<>>]
      /\ Return(p)
      /\ awaits' = [awaits EXCEPT ![p] = None]
      /\ lost \subseteq IF serves THEN asked ELSE {x \in asked : x.from = p}
      /\ asked' = {[x EXCEPT !.from = IF @ = p THEN None ELSE @] : x \in asked \ lost}
      /\ \E t \in SUBSET (IF serves THEN told ELSE {}) : told' = {x \in told \ t : x.to # p}
      /\ bound' = [e \in Endpoint |-> IF bound[e].proc = p THEN Unbound ELSE bound[e]]
      /\ stops' = IF serves THEN stops + 1 ELSE stops
      /\ UNCHANGED drawnFor

(* Lines 32-35: NULL fails the assertion, or is read by strlen where       *)
(* assertions are compiled out.                                            *)
AnswerUnknown(q, m) ==
  /\ role[q] = "server"
  /\ Find(q, m.addr) = 0
  /\ \E lost \in SUBSET asked : m \in lost /\ Gone(q, lost)

(* Its main returns, or it is killed.                                      *)
Exit(p) ==
  /\ p \in MayEnd
  /\ role[p] # "down"
  /\ \E lost \in SUBSET asked : Gone(p, lost)

(* Lines 29-30 and 39-42: the thread ends, the process goes on.            *)
ResolverEnd(q) ==
  /\ q \in MayInterrupt
  /\ role[q] = "server"
  /\ role' = [role EXCEPT ![q] = "alone"]
  /\ \E kept \in SUBSET asked : asked' = kept
  /\ stops' = stops + 1
  /\ UNCHANGED <<s_endpoints, call, awaits, told, sockVars>>

Next ==
  \/ \E p \in Proc :
       \/ InitX(p) \/ Call(p) \/ BindInsert(p) \/ Receive(p) \/ Interrupted(p)
       \/ Exit(p) \/ ResolverEnd(p)
  \/ \E q \in Proc : \E m \in asked : Answer(q, m) \/ AnswerUnknown(q, m)

Spec == Init /\ [][Next]_vars

(* Every call and the resolver thread go on, and the resolver's socket     *)
(* reads its clients in turn.  Nothing makes a process start, call, be     *)
(* interrupted or end.                                                     *)
AnswerTo(p) ==
  \E q \in Proc : \E m \in asked : m.from = p /\ (Answer(q, m) \/ AnswerUnknown(q, m))

Fairness ==
  \A p \in Proc : WF_vars(AnswerTo(p)) /\ WF_vars(Receive(p)) /\ WF_vars(BindInsert(p))

FairSpec == Spec /\ Fairness

(* Whatever a process has in its table for a name, in the resolver or in a *)
(* client, was drawn for that name: no answer of the resolver is taken for *)
(* the answer to another question, though calls are interrupted and left   *)
(* unanswered and resolvers come and go (zmq_x.c:28-35, 158-167).          *)
ItemsHold ==
  \A p \in Proc : \A t \in ToSet(s_endpoints[p]) : drawnFor[t.endpoint] = t.addr

(* As long as the first resolver runs, a name is bound by one socket at a  *)
(* time in all processes together, except by a process whose call was      *)
(* interrupted, which takes NULL for "not bound yet" and binds the name    *)
(* once more (zmq_x.c:84-88, 160-164).                                     *)
OneBinder ==
  stops = 0 =>
    \A e, f \in Endpoint :
      e # f /\ bound[e] # Unbound /\ bound[e].addr = bound[f].addr =>
        \E p \in {bound[e].proc, bound[f].proc} : awaits[p] # None /\ call[p].at # "wait"

(* As long as the first resolver runs, an endpoint found in a table is the *)
(* one at which the name is bound, if it is bound at all, whoever bound    *)
(* it, unbound it and bound it again since the item was entered; processes *)
(* with an interrupted call aside.  A table is looked at first and never   *)
(* refreshed (zmq_x.c:147-152, 165-166), so a process that found another   *)
(* endpoint there would connect to a port nobody listens on for good.      *)
LookupsReach ==
  stops = 0 =>
    \A p \in Proc, e \in Endpoint :
      bound[e] # Unbound /\ Find(p, bound[e].addr) # 0 =>
        \/ Found(p, bound[e].addr) = e
        \/ \E q \in {p, bound[e].proc} : awaits[q] # None /\ call[q].at # "wait"

(* To unbind, connect or disconnect a name nobody has bound fails: the     *)
(* call returns, with -1, "not bound yet" (zmq_x.c:100, 114, 128; "not     *)
(* mapped yet" in czmq_x.c:46, 63, 80).                                    *)
AsksForUnbound(p) ==
  /\ call[p].at = "wait"
  /\ call[p].op \notin Binds
  /\ \A e \in Endpoint : drawnFor[e] # call[p].addr

NotBoundYet == \A p \in Proc : AsksForUnbound(p) ~> call[p].at # "wait"
=============================================================================
