------------------------------ MODULE ZmqXProofs ------------------------------
(***************************************************************************)
(* Theorems about zmq_x.c, for any processes, names and endpoints and any  *)
(* number of resolvers: what a table holds for a name was drawn for it,    *)
(* and as long as the first resolver runs a name has one endpoint, which   *)
(* is the one the tables have.                                             *)
(***************************************************************************)
EXTENDS ZmqX, TLAPS, SequenceTheorems, FiniteSetTheorems, WellFoundedInduction

(***************************************************************************)
(* The inductive invariant.                                                *)
(***************************************************************************)

(* An interrupted call has left the socket of the process waiting.         *)
Confused(p) == awaits[p] # None /\ call[p].at # "wait"

Drawn(p, a, e) == call[p] = [at |-> "drawn", item |-> [addr |-> a, endpoint |-> e]]

(* The resolver has e for the name a, or is about to have it.              *)
Canonical(a, e) ==
  \E q \in Proc :
    /\ role[q] = "server"
    /\ IF Find(q, a) # 0 THEN Found(q, a) = e ELSE Drawn(q, a, e)

OneServer ==
  /\ \A p, q \in Proc : role[p] = "server" /\ role[q] = "server" => p = q
  /\ PortHeld => stops < MaxStarts

RolesHold ==
  \A p \in Proc :
    /\ role[p] = "down" => s_endpoints[p] = <<>> /\ call[p] = Idle
    /\ role[p] # "client" => awaits[p] = None
    /\ role[p] = "client" /\ call[p].at = "drawn" => awaits[p] # None
    /\ role[p] = "alone" => stops > 0

(* A process is asked about, or told of, the one name its socket waits for. *)
OneMessage ==
  /\ \A m \in asked : m.from # None => awaits[m.from] = m.addr /\ \A t \in told : t.to # m.from
  /\ \A t \in told : awaits[t.to] # None /\ \A u \in told : u.to = t.to => u = t

TableHolds(p) ==
  \A i \in 1..Len(s_endpoints[p]) : drawnFor[s_endpoints[p][i].endpoint] = s_endpoints[p][i].addr

DrawnHold ==
  /\ \A p \in Proc : TableHolds(p)
  /\ \A p \in Proc : call[p].at = "drawn" => drawnFor[call[p].item.endpoint] = call[p].item.addr
  /\ \A t \in told : drawnFor[t.endpoint] = awaits[t.to]

(* While the first resolver runs, what is bound, known and told is its     *)
(* word, processes with an interrupted call aside.                         *)
BoundCanonical(e) ==
  bound[e] # Unbound /\ ~Confused(bound[e].proc) => Canonical(bound[e].addr, e)

TableCanonical(p) ==
  role[p] = "client" /\ ~Confused(p) =>
    \A i \in 1..Len(s_endpoints[p]) : Canonical(s_endpoints[p][i].addr, s_endpoints[p][i].endpoint)

AllCanonical ==
  stops = 0 =>
    /\ \A e \in Endpoint : BoundCanonical(e)
    /\ \A p \in Proc : TableCanonical(p)
    /\ \A t \in told : Canonical(awaits[t.to], t.endpoint)

ResolverInv ==
  TypeOK /\ OneServer /\ RolesHold /\ OneMessage /\ DrawnHold /\ AllCanonical

(***************************************************************************)
(* The table: the first item with a name counts, so an item at the end     *)
(* changes nothing for a name that is known.                               *)
(***************************************************************************)
Index(s, a) == SelectInSeq(s, LAMBDA t : t.addr = a)

LEMMA FindIsIndex == \A p, a : Find(p, a) = Index(s_endpoints[p], a)
  BY DEF Find, Index

LEMMA FindIsIndexNext == (\A p, a : Find(p, a) = Index(s_endpoints[p], a))'
  BY FindIsIndex, PTL

LEMMA IndexIsFirst ==
  ASSUME NEW s \in Seq(Item), NEW a
  PROVE  \/ Index(s, a) = 0 /\ \A i \in 1..Len(s) : s[i].addr # a
         \/ /\ Index(s, a) \in 1..Len(s)
            /\ s[Index(s, a)].addr = a
            /\ \A i \in 1..Len(s) : s[i].addr = a => Index(s, a) <= i
<1> DEFINE I == {i \in 1..Len(s) : s[i].addr = a}
<1>1. Index(s, a) = IF I # {} THEN Min(I) ELSE 0
  BY DEF Index, SelectInSeq
<1>2. CASE I = {}
  BY <1>1, <1>2
<1>3. CASE I # {}
  <2>1. I \subseteq Nat
    BY LenProperties
  <2>2. PICK x \in I : \A y \in I : ~ (<<y, x>> \in OpToRel(<, Nat))
    BY <1>3, <2>1, NatLessThanWellFounded, WFMin
  <2>3. \A y \in I : x <= y
    <3>1. TAKE y \in I
    <3>2. ~ (y < x)
      BY <2>1, <2>2, Zenon DEF OpToRel
    <3>3. x \in Nat /\ y \in Nat
      BY <2>1
    <3>4. QED
      BY <3>2, <3>3
  <2> HIDE DEF I
  <2>4. Min(I) \in I /\ \A y \in I : Min(I) <= y
    BY <2>3 DEF Min
  <2>5. QED
    BY <1>1, <1>3, <2>4 DEF I
<1>4. QED
  BY <1>2, <1>3

LEMMA IndexOfAppend ==
  ASSUME NEW s \in Seq(Item), NEW item \in Item, NEW a
  PROVE  /\ Index(s, a) # 0 =>
              /\ Index(Append(s, item), a) = Index(s, a)
              /\ Append(s, item)[Index(s, a)] = s[Index(s, a)]
         /\ Index(s, a) = 0 /\ item.addr = a =>
              /\ Index(Append(s, item), a) # 0
              /\ Append(s, item)[Index(Append(s, item), a)] = item
         /\ Index(s, a) = 0 /\ item.addr # a => Index(Append(s, item), a) = 0
<1> DEFINE r == Append(s, item)
<1>1. /\ r \in Seq(Item) /\ Len(s) \in Nat
      /\ Len(r) = Len(s) + 1
      /\ \A i \in 1..Len(s) : r[i] = s[i]
      /\ r[Len(s) + 1] = item
  BY AppendProperties, LenProperties
<1> HIDE DEF r
<1>2. /\ \/ Index(s, a) = 0 /\ \A i \in 1..Len(s) : s[i].addr # a
         \/ /\ Index(s, a) \in 1..Len(s)
            /\ s[Index(s, a)].addr = a
            /\ \A i \in 1..Len(s) : s[i].addr = a => Index(s, a) <= i
  BY IndexIsFirst
<1>3. /\ \/ Index(r, a) = 0 /\ \A i \in 1..Len(r) : r[i].addr # a
         \/ /\ Index(r, a) \in 1..Len(r)
            /\ r[Index(r, a)].addr = a
            /\ \A i \in 1..Len(r) : r[i].addr = a => Index(r, a) <= i
  BY <1>1, IndexIsFirst
<1>4. ASSUME Index(s, a) # 0
      PROVE  Index(r, a) = Index(s, a) /\ r[Index(s, a)] = s[Index(s, a)]
  BY <1>1, <1>2, <1>3, <1>4
<1>5. ASSUME Index(s, a) = 0, item.addr = a
      PROVE  Index(r, a) # 0 /\ r[Index(r, a)] = item
  BY <1>1, <1>2, <1>3, <1>5
<1>6. ASSUME Index(s, a) = 0, item.addr # a
      PROVE  Index(r, a) = 0
  BY <1>1, <1>2, <1>3, <1>6
<1>7. QED
  BY <1>4, <1>5, <1>6 DEF r

(***************************************************************************)
(* The word of the resolver: one endpoint for a name, and for good as long *)
(* as its process goes on.                                                 *)
(***************************************************************************)
LEMMA CanonicalIsOne ==
  ASSUME OneServer, NEW a, NEW e, NEW f, e # f
  PROVE  ~ (Canonical(a, e) /\ Canonical(a, f))
<1> SUFFICES ASSUME Canonical(a, e), Canonical(a, f) PROVE FALSE
  OBVIOUS
<1>1. PICK p \in Proc :
        role[p] = "server" /\ IF Find(p, a) # 0 THEN Found(p, a) = e ELSE Drawn(p, a, e)
  BY DEF Canonical
<1>2. PICK q \in Proc :
        role[q] = "server" /\ IF Find(q, a) # 0 THEN Found(q, a) = f ELSE Drawn(q, a, f)
  BY DEF Canonical
<1>3. p = q
  BY <1>1, <1>2 DEF OneServer
<1>4. CASE Find(p, a) # 0
  BY <1>1, <1>2, <1>3, <1>4
<1>5. CASE Find(p, a) = 0
  <2>1. /\ call[p] = [at |-> "drawn", item |-> [addr |-> a, endpoint |-> e]]
        /\ call[p] = [at |-> "drawn", item |-> [addr |-> a, endpoint |-> f]]
    BY <1>1, <1>2, <1>3, <1>5 DEF Drawn
  <2>2. call[p].item.endpoint = e /\ call[p].item.endpoint = f
    BY <2>1
  <2>3. QED
    BY <2>2
<1>6. QED
  BY <1>4, <1>5

SameTable(q) == s_endpoints'[q] = s_endpoints[q]

(* The resolver is idle, goes on with its call, or enters what it has drawn. *)
ServerGoesOn(q) ==
  /\ role'[q] = "server"
  /\ \/ SameTable(q) /\ (call[q] = Idle \/ call'[q] = call[q])
     \/ /\ call[q].at = "drawn"
        /\ s_endpoints'[q] = Append(s_endpoints[q], call[q].item)

ServersGoOn == \A q \in Proc : role[q] = "server" => ServerGoesOn(q)

LEMMA CallType ==
  ASSUME TypeOK, NEW p \in Proc
  PROVE  /\ call[p].at \in {"idle", "wait", "drawn"}
         /\ call[p].at = "idle" => call[p] = Idle
         /\ call[p].at = "wait" => call[p].op \in Op /\ call[p].addr \in Name
         /\ call[p].at = "drawn" => call[p].item \in Item
<1>1. call[p] \in {Idle} \cup [at : {"wait"}, op : Op, addr : Name] \cup [at : {"drawn"}, item : Item]
  BY DEF TypeOK
<1>2. CASE call[p] = Idle
  BY <1>2 DEF Idle
<1>3. CASE call[p] \in [at : {"wait"}, op : Op, addr : Name]
  BY <1>3
<1>4. CASE call[p] \in [at : {"drawn"}, item : Item]
  BY <1>4
<1>5. QED
  BY <1>1, <1>2, <1>3, <1>4

LEMMA CanonicalStays ==
  ASSUME TypeOK, ServersGoOn, NEW a, NEW e, Canonical(a, e)
  PROVE  Canonical(a, e)'
<1>1. PICK q \in Proc :
        role[q] = "server" /\ IF Find(q, a) # 0 THEN Found(q, a) = e ELSE Drawn(q, a, e)
  BY DEF Canonical
<1> DEFINE s == s_endpoints[q]
           r == s_endpoints'[q]
<1>2. s \in Seq(Item)
  BY DEF TypeOK
<1>3. /\ Find(q, a) = Index(s, a) /\ Found(q, a) = s[Index(s, a)].endpoint
      /\ Find(q, a)' = Index(r, a) /\ Found(q, a)' = r[Index(r, a)].endpoint
  <2>1. Find(q, a) = Index(s, a) /\ Find(q, a)' = Index(r, a)
    <3>1. Find(q, a) = Index(s, a)
      BY FindIsIndex
    <3>2. Find(q, a)' = Index(s_endpoints[q], a)'
      BY FindIsIndexNext
    <3>3. QED
      BY <3>1, <3>2
  <2>2. /\ Found(q, a) = s_endpoints[q][Find(q, a)].endpoint
        /\ Found(q, a)' = s_endpoints'[q][Find(q, a)'].endpoint
    BY DEF Found
  <2>3. QED
    BY <2>1, <2>2
<1>4. Drawn(q, a, e) <=> call[q] = [at |-> "drawn", item |-> [addr |-> a, endpoint |-> e]]
  BY DEF Drawn
<1>5. Drawn(q, a, e)' <=> call'[q] = [at |-> "drawn", item |-> [addr |-> a, endpoint |-> e]]
  BY DEF Drawn
<1>6. SUFFICES IF Find(q, a)' # 0 THEN Found(q, a)' = e ELSE Drawn(q, a, e)'
  <2>1. role'[q] = "server"
    BY <1>1 DEF ServersGoOn, ServerGoesOn
  <2>2. QED
    BY <2>1 DEF Canonical
<1>7. CASE SameTable(q) /\ (call[q] = Idle \/ call'[q] = call[q])
  <2>1. r = s
    BY <1>7 DEF SameTable
  <2>2. call[q] = Idle => ~ Drawn(q, a, e)
    BY <1>4 DEF Idle
  <2>3. call'[q] = call[q] /\ Drawn(q, a, e) => Drawn(q, a, e)'
    BY <1>4, <1>5
  <2> HIDE DEF s, r
  <2>4. QED
    BY <1>1, <1>3, <1>7, <2>1, <2>2, <2>3
<1>8. CASE /\ call[q].at = "drawn"
           /\ s_endpoints'[q] = Append(s_endpoints[q], call[q].item)
  <2>1. PICK item : item = call[q].item
    OBVIOUS
  <2>2. item \in Item /\ r = Append(s, item)
    BY <1>8, <2>1, CallType
  <2>3. Drawn(q, a, e) => item.addr = a /\ item.endpoint = e
    BY <1>4, <2>1
  <2> HIDE DEF s, r
  <2>4. /\ Index(s, a) # 0 => Index(r, a) = Index(s, a) /\ r[Index(s, a)] = s[Index(s, a)]
        /\ Index(s, a) = 0 /\ item.addr = a => Index(r, a) # 0 /\ r[Index(r, a)] = item
    BY ZenonT(30), <1>2, <2>2, IndexOfAppend
  <2>5. QED
    BY <1>1, <1>3, <2>3, <2>4
<1>9. QED
  BY <1>1, <1>7, <1>8 DEF ServersGoOn, ServerGoesOn

(***************************************************************************)
(* What a step keeps, as long as no resolver has ended: what is bound,     *)
(* known or told after it either was before or is the resolver's word, and *)
(* a process with an interrupted call stays one or ends.                   *)
(***************************************************************************)
StaysConfused(p) ==
  \/ awaits'[p] # None /\ call'[p].at # "wait"
  \/ role'[p] = "down" /\ \A e \in Endpoint : bound'[e].proc # p

KeepsBound(e) == bound'[e] \in {bound[e], Unbound} \/ BoundCanonical(e)'

KeepsTable(p) == (role'[p] = role[p] /\ SameTable(p)) \/ TableCanonical(p)'

KeepsTold(t) ==
  (t \in told /\ awaits'[t.to] = awaits[t.to]) \/ Canonical(awaits[t.to], t.endpoint)'

KeepsCanonical ==
  /\ stops' = stops
  /\ ServersGoOn
  /\ \A p \in Proc : Confused(p) => StaysConfused(p)
  /\ \A e \in Endpoint : KeepsBound(e)
  /\ \A p \in Proc : KeepsTable(p)
  /\ \A t \in told' : KeepsTold(t)

LEMMA CanonicalNext ==
  ASSUME TypeOK, AllCanonical, stops' = 0 => KeepsCanonical
  PROVE  AllCanonical'
<1> SUFFICES ASSUME stops' = 0
             PROVE  /\ \A e \in Endpoint : BoundCanonical(e)'
                    /\ \A p \in Proc : TableCanonical(p)'
                    /\ \A t \in told' : Canonical(awaits[t.to], t.endpoint)'
  BY DEF AllCanonical
<1>1. KeepsCanonical
  OBVIOUS
<1>2. stops = 0 /\ ServersGoOn
  BY <1>1 DEF KeepsCanonical
<1>3. ASSUME NEW e \in Endpoint PROVE BoundCanonical(e)'
  <2>1. PICK b : b = bound'[e]
    OBVIOUS
  <2>2. SUFFICES ASSUME bound'[e] = bound[e], b # Unbound, ~ Confused(b.proc)'
                 PROVE  Canonical(b.addr, e)'
    <3>1. KeepsBound(e)
      BY <1>1 DEF KeepsCanonical
    <3>2. CASE BoundCanonical(e)'
      BY <3>2
    <3>3. CASE bound'[e] = Unbound
      BY <3>3 DEF BoundCanonical
    <3>4. CASE bound'[e] = bound[e]
      <4>1. BoundCanonical(e)' <=> (b # Unbound /\ ~ Confused(b.proc)' => Canonical(b.addr, e)')
        BY <2>1, Zenon DEF BoundCanonical, Confused, Canonical, Drawn
      <4>2. QED
        BY <2>2, <3>4, <4>1
    <3>5. QED
      BY <3>1, <3>2, <3>3, <3>4 DEF KeepsBound
  <2>3. b \in [proc : Proc, addr : Name] /\ b.proc \in Proc
    BY <2>1, <2>2 DEF TypeOK
  <2>4. ~ Confused(b.proc)
    <3>1. SUFFICES ASSUME Confused(b.proc) PROVE FALSE
      OBVIOUS
    <3>2. StaysConfused(b.proc)
      BY <1>1, <2>3, <3>1 DEF KeepsCanonical
    <3>3. QED
      BY <2>1, <2>2, <3>2 DEF StaysConfused, Confused
  <2>5. Canonical(b.addr, e)
    BY <1>2, <2>1, <2>2, <2>4 DEF AllCanonical, BoundCanonical
  <2>6. QED
    BY <1>2, <2>5, CanonicalStays
<1>4. ASSUME NEW p \in Proc PROVE TableCanonical(p)'
  <2>1. SUFFICES ASSUME role'[p] = role[p], SameTable(p), role'[p] = "client", ~ Confused(p)',
                        NEW i \in 1..Len(s_endpoints'[p])
                 PROVE  Canonical(s_endpoints[p][i].addr, s_endpoints[p][i].endpoint)'
    <3>1. KeepsTable(p)
      BY <1>1 DEF KeepsCanonical
    <3>2. QED
      BY <3>1 DEF KeepsTable, TableCanonical
  <2>2. PICK x : x = s_endpoints[p][i]
    OBVIOUS
  <2>3. x = s_endpoints'[p][i] /\ i \in 1..Len(s_endpoints[p])
    BY <2>1, <2>2 DEF SameTable
  <2>4. ~ Confused(p)
    BY <1>1, <2>1 DEF KeepsCanonical, StaysConfused, Confused
  <2>5. Canonical(x.addr, x.endpoint)
    <3>1. TableCanonical(p)
      BY <1>2 DEF AllCanonical
    <3>2. Canonical(s_endpoints[p][i].addr, s_endpoints[p][i].endpoint)
      BY <2>1, <2>3, <2>4, <3>1 DEF TableCanonical
    <3>3. QED
      BY <2>2, <3>2
  <2>6. Canonical(x.addr, x.endpoint)'
    BY <1>2, <2>5, CanonicalStays
  <2>7. QED
    BY <2>3, <2>6
<1>5. ASSUME NEW t \in told' PROVE Canonical(awaits[t.to], t.endpoint)'
  <2>1. SUFFICES ASSUME t \in told, awaits'[t.to] = awaits[t.to]
                 PROVE  Canonical(awaits[t.to], t.endpoint)'
    <3>1. KeepsTold(t)
      BY <1>1 DEF KeepsCanonical
    <3>2. QED
      BY <3>1 DEF KeepsTold
  <2>2. PICK a : a = awaits[t.to]
    OBVIOUS
  <2>3. Canonical(a, t.endpoint)
    BY <1>2, <2>1, <2>2 DEF AllCanonical
  <2>4. Canonical(a, t.endpoint)'
    BY <1>2, <2>3, CanonicalStays
  <2>5. QED
    BY <2>1, <2>2, <2>4
<1>6. QED
  BY <1>3, <1>4, <1>5

(***************************************************************************)
(* TypeOK counts the resolvers; OneServer says the same without counting.  *)
(***************************************************************************)
TypesHold ==
  /\ role \in [Proc -> {"down", "server", "client", "alone"}]
  /\ s_endpoints \in [Proc -> Seq(Item)]
  /\ call \in [Proc -> {Idle} \cup [at : {"wait"}, op : Op, addr : Name]
                              \cup [at : {"drawn"}, item : Item]]
  /\ awaits \in [Proc -> Name \cup {None}]
  /\ \A p \in Proc : call[p].at = "wait" => role[p] = "client" /\ awaits[p] = call[p].addr
  /\ asked \subseteq [from : Proc \cup {None}, addr : Name]
  /\ told \subseteq [to : Proc, endpoint : Endpoint]
  /\ bound \in [Endpoint -> {Unbound} \cup [proc : Proc, addr : Name]]
  /\ drawnFor \in [Endpoint -> Name \cup {None}]
  /\ stops \in 0..MaxStarts

LEMMA AtMostOneCounts == OneServer => Cardinality({p \in Proc : role[p] = "server"}) <= 1
<1> SUFFICES ASSUME OneServer PROVE Cardinality({p \in Proc : role[p] = "server"}) <= 1
  OBVIOUS
<1> DEFINE S == {p \in Proc : role[p] = "server"}
<1>1. CASE S = {}
  BY <1>1, FS_EmptySet
<1>2. CASE S # {}
  <2>1. PICK p : p \in S
    BY <1>2
  <2>2. S = {p}
    BY <2>1 DEF OneServer
  <2> HIDE DEF S
  <2>3. Cardinality(S) = 1
    BY <2>2, FS_Singleton
  <2>4. QED
    BY <2>3 DEF S
<1>3. QED
  BY <1>1, <1>2

LEMMA TypesAreTypeOK == OneServer /\ TypesHold => TypeOK
  BY AtMostOneCounts DEF TypesHold, TypeOK

LEMMA NextTypesAreTypeOK == (OneServer /\ TypesHold => TypeOK)'
  BY TypesAreTypeOK, PTL

LEMMA TypesOfTypeOK == TypeOK => TypesHold
  BY DEF TypesHold, TypeOK

(***************************************************************************)
(* The steps.  A process initialises the library.                          *)
(***************************************************************************)
LEMMA InitXKeeps ==
  ASSUME ResolverInv, NEW p \in Proc, InitX(p)
  PROVE  ResolverInv'
<1>1. /\ TypeOK /\ TypesHold /\ OneServer /\ RolesHold /\ OneMessage /\ DrawnHold /\ AllCanonical
  BY TypesOfTypeOK DEF ResolverInv
<1>2. /\ role[p] = "down"
      /\ PortHeld \/ stops < MaxStarts
      /\ role' = [role EXCEPT ![p] = IF PortHeld THEN "client" ELSE "server"]
      /\ s_endpoints' = s_endpoints /\ call' = call /\ awaits' = awaits
      /\ asked' = asked /\ told' = told /\ bound' = bound /\ drawnFor' = drawnFor
      /\ stops' = stops
  BY DEF InitX, wireVars, sockVars
<1>3. s_endpoints[p] = <<>> /\ call[p] = Idle /\ awaits[p] = None
  BY <1>1, <1>2 DEF RolesHold
<1>4. TypesHold'
  BY <1>1, <1>2 DEF TypesHold
<1>5. OneServer'
  <2>1. role \in [Proc -> {"down", "server", "client", "alone"}]
    BY <1>1 DEF TypesHold
  <2>2. \A q \in Proc : role'[q] = IF q = p THEN (IF PortHeld THEN "client" ELSE "server") ELSE role[q]
    BY <1>2, <2>1
  <2>3. QED
    BY <1>1, <1>2, <2>2 DEF OneServer, PortHeld
<1>6. RolesHold'
  BY <1>1, <1>2, <1>3 DEF RolesHold, TypesHold, Idle
<1>7. OneMessage'
  BY <1>1, <1>2 DEF OneMessage
<1>8. DrawnHold'
  BY <1>1, <1>2 DEF DrawnHold, TableHolds
<1>9. AllCanonical'
  <2>1. ServersGoOn
    BY <1>1, <1>2 DEF ServersGoOn, ServerGoesOn, SameTable, TypesHold
  <2>2. \A q \in Proc : Confused(q) => StaysConfused(q)
    BY <1>2 DEF Confused, StaysConfused
  <2>3. \A e \in Endpoint : KeepsBound(e)
    BY <1>2 DEF KeepsBound
  <2>4. ASSUME NEW q \in Proc PROVE KeepsTable(q)
    <3>1. CASE q = p
      <4>1. s_endpoints'[p] = <<>>
        BY <1>2, <1>3
      <4>2. \A i \in 1..Len(s_endpoints'[p]) : FALSE
        BY <4>1, EmptySeq
      <4>3. TableCanonical(p)'
        BY <4>2 DEF TableCanonical
      <4>4. QED
        BY <3>1, <4>3 DEF KeepsTable
    <3>2. CASE q # p
      BY <1>1, <1>2, <3>2 DEF KeepsTable, SameTable, TypesHold
    <3>3. QED
      BY <3>1, <3>2
  <2>5. \A t \in told' : KeepsTold(t)
    BY <1>2 DEF KeepsTold
  <2>6. QED
    BY <1>1, <1>2, <2>1, <2>2, <2>3, <2>4, <2>5, CanonicalNext DEF KeepsCanonical
<1>10. QED
  BY <1>4, <1>5, <1>6, <1>7, <1>8, <1>9, NextTypesAreTypeOK DEF ResolverInv

(***************************************************************************)
(* A client asks.                                                          *)
(***************************************************************************)
LEMMA CallAskKeeps ==
  ASSUME ResolverInv, NEW p \in Proc, NEW op \in Op, NEW a \in Name,
         call[p] = Idle, CallAsk(p, op, a)
  PROVE  ResolverInv'
<1>1. /\ TypeOK /\ TypesHold /\ OneServer /\ RolesHold /\ OneMessage /\ DrawnHold /\ AllCanonical
  BY TypesOfTypeOK DEF ResolverInv
<1>2. /\ role[p] = "client" /\ awaits[p] = None
      /\ asked' = asked \cup {[from |-> p, addr |-> a]}
      /\ awaits' = [awaits EXCEPT ![p] = a]
      /\ call' = [call EXCEPT ![p] = [at |-> "wait", op |-> op, addr |-> a]]
      /\ role' = role /\ s_endpoints' = s_endpoints /\ told' = told
      /\ bound' = bound /\ drawnFor' = drawnFor /\ stops' = stops
  BY DEF CallAsk, CanAsk, sockVars
<1>3. a # None
  BY ZmqXAssumption
<1>4. TypesHold'
  BY <1>1, <1>2 DEF TypesHold
<1>5. OneServer'
  BY <1>1, <1>2 DEF OneServer, PortHeld
<1>6. RolesHold'
  BY <1>1, <1>2, <1>3 DEF RolesHold, TypesHold, Idle
<1>7. OneMessage'
  <2>1. \A q \in Proc : awaits'[q] = IF q = p THEN a ELSE awaits[q]
    BY <1>1, <1>2 DEF TypesHold
  <2>2. \A t \in told : t.to \in Proc /\ t.to # p
    BY <1>1, <1>2 DEF OneMessage, TypesHold
  <2>3. ASSUME NEW m \in asked', m.from # None
        PROVE  awaits'[m.from] = m.addr /\ \A t \in told' : t.to # m.from
    <3>1. CASE m = [from |-> p, addr |-> a]
      BY <1>2, <2>1, <2>2, <3>1
    <3>2. CASE m \in asked
      <4>1. m.from \in Proc /\ m.addr \in Name /\ awaits[m.from] = m.addr
        BY <1>1, <2>3, <3>2 DEF OneMessage, TypesHold
      <4>2. m.from # p
        BY <1>2, <4>1, ZmqXAssumption
      <4>3. QED
        BY <1>1, <1>2, <2>1, <2>3, <3>2, <4>1, <4>2 DEF OneMessage
    <3>3. QED
      BY <1>2, <3>1, <3>2
  <2>4. \A t \in told' : awaits'[t.to] # None /\ \A u \in told' : u.to = t.to => u = t
    BY <1>1, <1>2, <2>1, <2>2 DEF OneMessage
  <2>5. QED
    BY <2>3, <2>4 DEF OneMessage
<1>8. DrawnHold'
  <2>1. \A q \in Proc : TableHolds(q)'
    BY <1>1, <1>2 DEF DrawnHold, TableHolds
  <2>2. \A q \in Proc : call'[q].at = "drawn" => drawnFor'[call'[q].item.endpoint] = call'[q].item.addr
    BY <1>1, <1>2 DEF DrawnHold, TypesHold
  <2>3. \A t \in told' : drawnFor'[t.endpoint] = awaits'[t.to]
    BY <1>1, <1>2 DEF DrawnHold, OneMessage, TypesHold
  <2>4. QED
    BY <2>1, <2>2, <2>3 DEF DrawnHold
<1>9. AllCanonical'
  <2>1. ServersGoOn
    BY <1>1, <1>2 DEF ServersGoOn, ServerGoesOn, SameTable, TypesHold
  <2>2. \A q \in Proc : Confused(q) => StaysConfused(q)
    BY <1>1, <1>2 DEF Confused, StaysConfused, TypesHold
  <2>3. \A e \in Endpoint : KeepsBound(e)
    BY <1>2 DEF KeepsBound
  <2>4. \A q \in Proc : KeepsTable(q)
    BY <1>2 DEF KeepsTable, SameTable
  <2>5. \A t \in told' : KeepsTold(t)
    BY <1>1, <1>2 DEF KeepsTold, OneMessage, TypesHold
  <2>6. QED
    BY <1>1, <1>2, <2>1, <2>2, <2>3, <2>4, <2>5, CanonicalNext DEF KeepsCanonical
<1>10. QED
  BY <1>4, <1>5, <1>6, <1>7, <1>8, <1>9, NextTypesAreTypeOK DEF ResolverInv

(***************************************************************************)
(* What was drawn enters the table.                                        *)
(***************************************************************************)
LEMMA ItemsOfAppend ==
  ASSUME NEW s \in Seq(Item), NEW item \in Item
  PROVE  /\ Append(s, item) \in Seq(Item)
         /\ \A i \in 1..Len(Append(s, item)) :
              (i \in 1..Len(s) /\ Append(s, item)[i] = s[i]) \/ Append(s, item)[i] = item
<1> DEFINE r == Append(s, item)
<1>1. /\ r \in Seq(Item) /\ Len(s) \in Nat
      /\ Len(r) = Len(s) + 1
      /\ \A i \in 1..Len(s) : r[i] = s[i]
      /\ r[Len(s) + 1] = item
  BY AppendProperties, LenProperties
<1> HIDE DEF r
<1>2. \A i \in 1..Len(r) : (i \in 1..Len(s) /\ r[i] = s[i]) \/ r[i] = item
  BY <1>1
<1>3. QED
  BY <1>1, <1>2 DEF r

LEMMA BindInsertKeeps ==
  ASSUME ResolverInv, NEW p \in Proc, BindInsert(p)
  PROVE  ResolverInv'
<1>1. /\ TypeOK /\ TypesHold /\ OneServer /\ RolesHold /\ OneMessage /\ DrawnHold /\ AllCanonical
  BY TypesOfTypeOK DEF ResolverInv
<1> DEFINE item == call[p].item
           r == Append(s_endpoints[p], item)
<1>2. /\ call[p].at = "drawn"
      /\ s_endpoints' = [s_endpoints EXCEPT ![p] = r]
      /\ call' = [call EXCEPT ![p] = Idle]
      /\ role' = role /\ awaits' = awaits /\ asked' = asked /\ told' = told
      /\ bound' = bound /\ drawnFor' = drawnFor /\ stops' = stops
  BY DEF BindInsert, Insert, Return, wireVars, sockVars
<1>3. item \in Item /\ s_endpoints[p] \in Seq(Item)
  BY <1>1, <1>2, CallType DEF TypesHold
<1>4. /\ r \in Seq(Item)
      /\ \A i \in 1..Len(r) : (i \in 1..Len(s_endpoints[p]) /\ r[i] = s_endpoints[p][i]) \/ r[i] = item
  BY <1>3, ItemsOfAppend
<1>5. /\ s_endpoints'[p] = r
      /\ \A q \in Proc : q # p => s_endpoints'[q] = s_endpoints[q]
      /\ call'[p] = Idle
      /\ \A q \in Proc : q # p => call'[q] = call[q]
  BY <1>1, <1>2 DEF TypesHold
<1>6. /\ drawnFor[item.endpoint] = item.addr
      /\ role[p] # "down"
      /\ role[p] = "client" => awaits[p] # None
  BY <1>1, <1>2 DEF DrawnHold, RolesHold, Idle
<1>7. Idle.at = "idle"
  BY DEF Idle
<1> HIDE DEF r
<1>8. TypesHold'
  BY <1>1, <1>2, <1>4, <1>5, <1>7 DEF TypesHold
<1>9. OneServer'
  BY <1>1, <1>2 DEF OneServer, PortHeld
<1>10. RolesHold'
  BY <1>1, <1>2, <1>5, <1>6, <1>7 DEF RolesHold
<1>11. OneMessage'
  BY <1>1, <1>2 DEF OneMessage
<1>12. DrawnHold'
  <2>1. ASSUME NEW q \in Proc PROVE TableHolds(q)'
    <3>1. TableHolds(q)
      BY <1>1 DEF DrawnHold
    <3>2. CASE q = p
      BY <1>2, <1>4, <1>5, <1>6, <3>1, <3>2 DEF TableHolds
    <3>3. CASE q # p
      BY <1>2, <1>5, <3>1, <3>3 DEF TableHolds
    <3>4. QED
      BY <3>2, <3>3
  <2>2. \A q \in Proc : call'[q].at = "drawn" => drawnFor'[call'[q].item.endpoint] = call'[q].item.addr
    BY <1>1, <1>2, <1>5, <1>7 DEF DrawnHold
  <2>3. QED
    BY <1>1, <1>2, <2>1, <2>2 DEF DrawnHold
<1>13. AllCanonical'
  <2>1. ServersGoOn
    BY <1>2, <1>5 DEF ServersGoOn, ServerGoesOn, SameTable, r
  <2>2. \A q \in Proc : Confused(q) => StaysConfused(q)
    BY <1>2, <1>5, <1>7 DEF Confused, StaysConfused
  <2>3. \A e \in Endpoint : KeepsBound(e)
    BY <1>2 DEF KeepsBound
  <2>4. ASSUME NEW q \in Proc PROVE KeepsTable(q)
    <3>1. CASE q = p
      BY <1>2, <1>5, <1>6, <1>7, <3>1 DEF KeepsTable, TableCanonical, Confused
    <3>2. CASE q # p
      BY <1>2, <1>5, <3>2 DEF KeepsTable, SameTable
    <3>3. QED
      BY <3>1, <3>2
  <2>5. \A t \in told' : KeepsTold(t)
    BY <1>2 DEF KeepsTold
  <2>6. QED
    BY <1>1, <1>2, <2>1, <2>2, <2>3, <2>4, <2>5, CanonicalNext DEF KeepsCanonical
<1>14. QED
  BY <1>8, <1>9, <1>10, <1>11, <1>12, <1>13, NextTypesAreTypeOK DEF ResolverInv

(***************************************************************************)
(* The resolver thread answers, or ends.                                   *)
(***************************************************************************)
LEMMA AnswerKeeps ==
  ASSUME ResolverInv, NEW q \in Proc, NEW m \in asked, Answer(q, m)
  PROVE  ResolverInv'
<1>1. /\ TypeOK /\ TypesHold /\ OneServer /\ RolesHold /\ OneMessage /\ DrawnHold /\ AllCanonical
  BY TypesOfTypeOK DEF ResolverInv
<1>2. PICK e : e = Found(q, m.addr)
  OBVIOUS
<1>3. /\ role[q] = "server" /\ Find(q, m.addr) # 0
      /\ asked' = asked \ {m}
      /\ told' = told \cup {[to |-> p, endpoint |-> e] : p \in {m.from} \ {None}}
      /\ role' = role /\ s_endpoints' = s_endpoints /\ call' = call /\ awaits' = awaits
      /\ bound' = bound /\ drawnFor' = drawnFor /\ stops' = stops
  BY <1>2 DEF Answer, procVars, sockVars
<1>4. m.from \in Proc \cup {None} /\ m.addr \in Name
  BY <1>1 DEF TypesHold
<1>5. e \in Endpoint /\ drawnFor[e] = m.addr
  <2> DEFINE s == s_endpoints[q]
             k == Index(s, m.addr)
  <2>1. s \in Seq(Item)
    BY <1>1 DEF TypesHold
  <2>2. k # 0 /\ e = s[k].endpoint
    BY <1>2, <1>3, FindIsIndex DEF Found
  <2>3. k \in 1..Len(s) /\ s[k].addr = m.addr
    BY <2>1, <2>2, IndexIsFirst
  <2>4. s[k] \in Item
    BY <2>1, <2>3, ElementOfSeq
  <2>5. TableHolds(q)
    BY <1>1 DEF DrawnHold
  <2>6. drawnFor[s[k].endpoint] = s[k].addr
    BY <2>3, <2>5 DEF TableHolds
  <2>7. e \in Endpoint
    BY <2>2, <2>4 DEF Item
  <2>8. QED
    BY <2>2, <2>3, <2>6, <2>7
<1>6. m.from # None => awaits[m.from] = m.addr /\ \A t \in told : t.to # m.from
  BY <1>1 DEF OneMessage
<1>7. \A t \in told' : t \in told \/ (t = [to |-> m.from, endpoint |-> e] /\ m.from # None)
  <2>1. TAKE t \in told'
  <2>2. CASE t \in told
    BY <2>2
  <2>3. CASE t \notin told
    <3>1. \E p \in {m.from} \ {None} : t = [to |-> p, endpoint |-> e]
      BY <1>3, <2>3, Zenon
    <3>2. PICK p \in {m.from} \ {None} : t = [to |-> p, endpoint |-> e]
      BY <3>1
    <3>3. p = m.from /\ p # None
      OBVIOUS
    <3>4. QED
      BY <3>2, <3>3
  <2>4. QED
    BY <2>2, <2>3
<1>8. None \notin Name /\ None \notin Proc
  BY ZmqXAssumption
<1>9. TypesHold'
  <2>1. told' \subseteq [to : Proc, endpoint : Endpoint]
    BY <1>1, <1>4, <1>5, <1>7 DEF TypesHold
  <2>2. QED
    BY <1>1, <1>3, <2>1 DEF TypesHold
<1>10. OneServer' /\ RolesHold'
  BY <1>1, <1>3 DEF OneServer, PortHeld, RolesHold
<1>11. OneMessage'
  <2>1. ASSUME NEW x \in asked', x.from # None
        PROVE  awaits'[x.from] = x.addr /\ \A t \in told' : t.to # x.from
    <3>1. x \in asked /\ x # m
      BY <1>3, <2>1
    <3>2. awaits[x.from] = x.addr /\ \A t \in told : t.to # x.from
      BY <1>1, <2>1, <3>1 DEF OneMessage
    <3>3. x \in [from : Proc \cup {None}, addr : Name] /\ m \in [from : Proc \cup {None}, addr : Name]
      BY <1>1, <3>1 DEF TypesHold
    <3>4. x.from # m.from
      BY <1>6, <2>1, <3>1, <3>2, <3>3
    <3>5. QED
      BY <1>3, <1>7, <3>2, <3>4
  <2>2. ASSUME NEW t \in told'
        PROVE  awaits'[t.to] # None /\ \A u \in told' : u.to = t.to => u = t
    BY <1>1, <1>3, <1>4, <1>6, <1>7, <1>8 DEF OneMessage
  <2>3. QED
    BY <2>1, <2>2 DEF OneMessage
<1>12. DrawnHold'
  <2>1. \A t \in told' : drawnFor'[t.endpoint] = awaits'[t.to]
    BY <1>1, <1>3, <1>5, <1>6, <1>7 DEF DrawnHold
  <2>2. QED
    BY <1>1, <1>3, <2>1 DEF DrawnHold, TableHolds
<1>13. AllCanonical'
  <2>1. ServersGoOn
    BY <1>3 DEF ServersGoOn, ServerGoesOn, SameTable
  <2>2. \A p \in Proc : Confused(p) => StaysConfused(p)
    BY <1>3 DEF Confused, StaysConfused
  <2>3. \A f \in Endpoint : KeepsBound(f)
    BY <1>3 DEF KeepsBound
  <2>4. \A p \in Proc : KeepsTable(p)
    BY <1>3 DEF KeepsTable, SameTable
  <2>5. ASSUME NEW t \in told' PROVE KeepsTold(t)
    <3>1. CASE t \in told
      BY <1>3, <3>1 DEF KeepsTold
    <3>2. CASE t = [to |-> m.from, endpoint |-> e] /\ m.from # None
      <4>1. PICK a : a = m.addr
        OBVIOUS
      <4>2. Canonical(a, e)
        BY <1>2, <1>3, <4>1 DEF Canonical
      <4>3. Canonical(a, e)'
        BY <1>1, <2>1, <4>2, CanonicalStays
      <4>4. t.endpoint = e /\ awaits'[t.to] = a
        BY <1>3, <1>6, <3>2, <4>1
      <4>5. QED
        BY <4>3, <4>4 DEF KeepsTold
    <3>3. QED
      BY <1>7, <3>1, <3>2
  <2>6. QED
    BY <1>1, <1>3, <2>1, <2>2, <2>3, <2>4, <2>5, CanonicalNext DEF KeepsCanonical
<1>14. QED
  BY <1>9, <1>10, <1>11, <1>12, <1>13, NextTypesAreTypeOK DEF ResolverInv

LEMMA ResolverEndKeeps ==
  ASSUME ResolverInv, NEW q \in Proc, ResolverEnd(q)
  PROVE  ResolverInv'
<1>1. /\ TypeOK /\ TypesHold /\ OneServer /\ RolesHold /\ OneMessage /\ DrawnHold
  BY TypesOfTypeOK DEF ResolverInv
<1>2. /\ role[q] = "server"
      /\ role' = [role EXCEPT ![q] = "alone"]
      /\ asked' \subseteq asked
      /\ stops' = stops + 1
      /\ s_endpoints' = s_endpoints /\ call' = call /\ awaits' = awaits /\ told' = told
      /\ bound' = bound /\ drawnFor' = drawnFor
  BY DEF ResolverEnd, sockVars
<1>3. stops < MaxStarts /\ stops \in Nat /\ MaxStarts \in Nat
  BY <1>1, <1>2, ZmqXAssumption DEF OneServer, PortHeld, TypesHold
<1>4. TypesHold'
  <2>1. stops' \in 0..MaxStarts
    BY <1>2, <1>3
  <2>2. QED
    BY <1>1, <1>2, <2>1 DEF TypesHold
<1>5. OneServer'
  BY <1>1, <1>2 DEF OneServer, PortHeld, TypesHold
<1>6. RolesHold'
  BY <1>1, <1>2, <1>3 DEF RolesHold, TypesHold
<1>7. OneMessage'
  BY <1>1, <1>2 DEF OneMessage
<1>8. DrawnHold'
  BY <1>1, <1>2 DEF DrawnHold, TableHolds
<1>9. AllCanonical'
  BY <1>2, <1>3 DEF AllCanonical
<1>10. QED
  BY <1>4, <1>5, <1>6, <1>7, <1>8, <1>9, NextTypesAreTypeOK DEF ResolverInv

(***************************************************************************)
(* A call that knows its endpoint.                                         *)
(***************************************************************************)
BoundBy(p, a, e) ==
  /\ call' = [call EXCEPT ![p] = Idle]
  /\ drawnFor' = drawnFor
  /\ bound' \in [Endpoint -> {Unbound} \cup [proc : Proc, addr : Name]]
  /\ \A f \in Endpoint :
       bound'[f] \in {bound[f], Unbound} \/ (f = e /\ bound'[f] = [proc |-> p, addr |-> a])

LEMMA ResolvedBinds ==
  ASSUME TypesHold, NEW p \in Proc, NEW op \in Op, NEW a \in Name, NEW e \in Endpoint,
         Resolved(p, op, a, e)
  PROVE  BoundBy(p, a, e)
<1>1. bound \in [Endpoint -> {Unbound} \cup [proc : Proc, addr : Name]]
  BY DEF TypesHold
<1>2. call' = [call EXCEPT ![p] = Idle] /\ drawnFor' = drawnFor
  BY DEF Resolved, Return
<1>3. \/ bound' = [bound EXCEPT ![e] = [proc |-> p, addr |-> a]]
      \/ bound' = [bound EXCEPT ![e] = Unbound]
      \/ bound' = bound
  BY DEF Resolved
<1>4. QED
  BY <1>1, <1>2, <1>3 DEF BoundBy

LEMMA BoundIsCanonical ==
  ASSUME NEW p \in Proc, NEW a \in Name, NEW e \in Endpoint, BoundBy(p, a, e),
         Confused(p)' \/ Canonical(a, e)'
  PROVE  \A f \in Endpoint : KeepsBound(f)
<1>1. TAKE f \in Endpoint
<1>2. CASE bound'[f] \in {bound[f], Unbound}
  BY <1>2 DEF KeepsBound
<1>3. CASE f = e /\ bound'[f] = [proc |-> p, addr |-> a]
  <2>1. bound'[e].proc = p /\ bound'[e].addr = a
    BY <1>3
  <2>2. Canonical(a, e)' => Canonical(bound[e].addr, e)'
    BY <2>1
  <2>3. Confused(p)' => Confused(bound[e].proc)'
    BY <2>1
  <2>4. BoundCanonical(e)'
    BY <2>2, <2>3 DEF BoundCanonical
  <2>5. QED
    BY <1>3, <2>4 DEF KeepsBound
<1>4. QED
  BY <1>2, <1>3 DEF BoundBy

LEMMA CallKnownKeeps ==
  ASSUME ResolverInv, NEW p \in Proc, NEW op \in Op, NEW a \in Name,
         role[p] # "down", call[p] = Idle, CallKnown(p, op, a)
  PROVE  ResolverInv'
<1>1. /\ TypeOK /\ TypesHold /\ OneServer /\ RolesHold /\ OneMessage /\ DrawnHold /\ AllCanonical
  BY TypesOfTypeOK DEF ResolverInv
<1>2. PICK e : e = Found(p, a)
  OBVIOUS
<1>3. /\ Find(p, a) # 0
      /\ Resolved(p, op, a, e)
      /\ role' = role /\ s_endpoints' = s_endpoints /\ awaits' = awaits
      /\ asked' = asked /\ told' = told /\ stops' = stops
  BY <1>2 DEF CallKnown, wireVars
<1> DEFINE s == s_endpoints[p]
           k == Index(s, a)
<1>4. /\ s \in Seq(Item) /\ k \in 1..Len(s) /\ s[k].addr = a /\ e = s[k].endpoint
      /\ e \in Endpoint
  <2>1. s \in Seq(Item)
    BY <1>1 DEF TypesHold
  <2>2. k # 0 /\ e = s[k].endpoint
    BY <1>2, <1>3, FindIsIndex DEF Found
  <2>3. k \in 1..Len(s) /\ s[k].addr = a
    BY <2>1, <2>2, IndexIsFirst
  <2>4. s[k] \in Item
    BY <2>1, <2>3, ElementOfSeq
  <2>5. QED
    BY <2>1, <2>2, <2>3, <2>4 DEF Item
<1>5. BoundBy(p, a, e)
  BY <1>1, <1>3, <1>4, ResolvedBinds
<1>6. call' = call
  BY <1>1, <1>5 DEF BoundBy, TypesHold
<1>7. drawnFor' = drawnFor /\ bound' \in [Endpoint -> {Unbound} \cup [proc : Proc, addr : Name]]
  BY <1>5 DEF BoundBy
<1>8. TypesHold'
  BY <1>1, <1>3, <1>6, <1>7 DEF TypesHold
<1>9. OneServer' /\ RolesHold' /\ OneMessage'
  BY <1>1, <1>3, <1>6 DEF OneServer, PortHeld, RolesHold, OneMessage
<1>10. DrawnHold'
  BY <1>1, <1>3, <1>6, <1>7 DEF DrawnHold, TableHolds
<1>11. AllCanonical'
  <2> SUFFICES ASSUME stops' = 0 PROVE KeepsCanonical
    BY <1>1, CanonicalNext
  <2>1. ServersGoOn
    BY <1>3, <1>6 DEF ServersGoOn, ServerGoesOn, SameTable
  <2>2. \A q \in Proc : Confused(q) => StaysConfused(q)
    BY <1>3, <1>6 DEF Confused, StaysConfused
  <2>3. Confused(p) \/ Canonical(a, e)
    <3>1. CASE role[p] = "server"
      BY <1>2, <1>3, <3>1 DEF Canonical
    <3>2. CASE role[p] = "client"
      <4>1. TableCanonical(p)
        BY <1>1, <1>3 DEF AllCanonical
      <4>2. Confused(p) \/ Canonical(s[k].addr, s[k].endpoint)
        BY <1>4, <3>2, <4>1 DEF TableCanonical
      <4>3. QED
        BY <1>4, <4>2
    <3>3. role[p] # "alone"
      BY <1>1, <1>3 DEF RolesHold, TypesHold
    <3>4. QED
      BY <1>1, <3>1, <3>2, <3>3 DEF TypesHold
  <2>4. Confused(p)' \/ Canonical(a, e)'
    <3>1. Confused(p) => Confused(p)'
      BY <1>3, <1>6 DEF Confused
    <3>2. Canonical(a, e) => Canonical(a, e)'
      BY <1>1, <2>1, CanonicalStays
    <3>3. QED
      BY <2>3, <3>1, <3>2
  <2>5. \A f \in Endpoint : KeepsBound(f)
    BY <1>4, <1>5, <2>4, BoundIsCanonical
  <2>6. \A q \in Proc : KeepsTable(q)
    BY <1>3 DEF KeepsTable, SameTable
  <2>7. \A t \in told' : KeepsTold(t)
    BY <1>3 DEF KeepsTold
  <2>8. QED
    BY <1>3, <2>1, <2>2, <2>5, <2>6, <2>7 DEF KeepsCanonical
<1>12. QED
  BY <1>8, <1>9, <1>10, <1>11, NextTypesAreTypeOK DEF ResolverInv

(***************************************************************************)
(* A client hears the answer.                                              *)
(***************************************************************************)
LEMMA ReceiveKeeps ==
  ASSUME ResolverInv, NEW p \in Proc, Receive(p)
  PROVE  ResolverInv'
<1>1. /\ TypeOK /\ TypesHold /\ OneServer /\ RolesHold /\ OneMessage /\ DrawnHold /\ AllCanonical
  BY TypesOfTypeOK DEF ResolverInv
<1>2. PICK t \in told :
        /\ t.to = p
        /\ told' = told \ {t}
        /\ Insert(p, [addr |-> call[p].addr, endpoint |-> t.endpoint])
        /\ Resolved(p, call[p].op, call[p].addr, t.endpoint)
  BY DEF Receive
<1>3. PICK op, a : op = call[p].op /\ a = call[p].addr
  OBVIOUS
<1> DEFINE item == [addr |-> a, endpoint |-> t.endpoint]
           r == Append(s_endpoints[p], item)
<1>4. /\ call[p].at = "wait"
      /\ told' = told \ {t}
      /\ Resolved(p, op, a, t.endpoint)
      /\ s_endpoints' = [s_endpoints EXCEPT ![p] = r]
      /\ awaits' = [awaits EXCEPT ![p] = None]
      /\ role' = role /\ asked' = asked /\ stops' = stops
  BY <1>2, <1>3 DEF Receive, Insert
<1>5. /\ op \in Op /\ a \in Name /\ t.endpoint \in Endpoint
      /\ role[p] = "client" /\ awaits[p] = a /\ a # None
  BY <1>1, <1>3, <1>4, CallType, ZmqXAssumption DEF TypesHold
<1>6. item \in Item /\ s_endpoints[p] \in Seq(Item)
  BY <1>1, <1>5 DEF TypesHold, Item
<1>7. /\ r \in Seq(Item)
      /\ \A i \in 1..Len(r) : (i \in 1..Len(s_endpoints[p]) /\ r[i] = s_endpoints[p][i]) \/ r[i] = item
  BY <1>6, ItemsOfAppend
<1>8. BoundBy(p, a, t.endpoint)
  BY <1>1, <1>4, <1>5, ResolvedBinds
<1>9. /\ s_endpoints'[p] = r
      /\ \A q \in Proc : q # p => s_endpoints'[q] = s_endpoints[q]
      /\ call' = [call EXCEPT ![p] = Idle]
      /\ call'[p] = Idle
      /\ \A q \in Proc : q # p => call'[q] = call[q]
      /\ awaits'[p] = None
      /\ \A q \in Proc : q # p => awaits'[q] = awaits[q]
  BY <1>1, <1>4, <1>8 DEF TypesHold, BoundBy
<1>10. drawnFor' = drawnFor /\ bound' \in [Endpoint -> {Unbound} \cup [proc : Proc, addr : Name]]
  BY <1>8 DEF BoundBy
<1>11. \A u \in told' : u \in told /\ u.to \in Proc /\ u.to # p
  BY <1>1, <1>2 DEF OneMessage, TypesHold
<1>12. Idle.at = "idle"
  BY DEF Idle
<1>13. item.addr = a /\ item.endpoint = t.endpoint
  OBVIOUS
<1> HIDE DEF item, r
<1>14. TypesHold'
  BY <1>1, <1>4, <1>7, <1>9, <1>10, <1>12 DEF TypesHold
<1>15. OneServer'
  BY <1>1, <1>4 DEF OneServer, PortHeld
<1>16. RolesHold'
  BY <1>1, <1>4, <1>5, <1>9, <1>12 DEF RolesHold
<1>17. OneMessage'
  <2>1. ASSUME NEW m \in asked', m.from # None
        PROVE  awaits'[m.from] = m.addr /\ \A u \in told' : u.to # m.from
    <3>1. m \in asked /\ m.from \in Proc
      BY <1>1, <1>4, <2>1 DEF TypesHold
    <3>2. awaits[m.from] = m.addr /\ \A u \in told : u.to # m.from
      BY <1>1, <2>1, <3>1 DEF OneMessage
    <3>3. m.from # p
      BY <1>2, <3>2
    <3>4. QED
      BY <1>9, <1>11, <3>1, <3>2, <3>3
  <2>2. \A v \in told' : awaits'[v.to] # None /\ \A u \in told' : u.to = v.to => u = v
    BY <1>1, <1>9, <1>11 DEF OneMessage
  <2>3. QED
    BY <2>1, <2>2 DEF OneMessage
<1>18. DrawnHold'
  <2>1. ASSUME NEW q \in Proc PROVE TableHolds(q)'
    <3>1. TableHolds(q)
      BY <1>1 DEF DrawnHold
    <3>2. drawnFor[item.endpoint] = item.addr
      BY <1>1, <1>2, <1>5, <1>13 DEF DrawnHold
    <3>3. CASE q = p
      BY <1>7, <1>9, <1>10, <3>1, <3>2, <3>3 DEF TableHolds
    <3>4. CASE q # p
      BY <1>9, <1>10, <3>1, <3>4 DEF TableHolds
    <3>5. QED
      BY <3>3, <3>4
  <2>2. \A q \in Proc : call'[q].at = "drawn" => drawnFor'[call'[q].item.endpoint] = call'[q].item.addr
    BY <1>1, <1>9, <1>10, <1>12 DEF DrawnHold
  <2>3. \A u \in told' : drawnFor'[u.endpoint] = awaits'[u.to]
    BY <1>1, <1>9, <1>10, <1>11 DEF DrawnHold
  <2>4. QED
    BY <2>1, <2>2, <2>3 DEF DrawnHold
<1>19. AllCanonical'
  <2> SUFFICES ASSUME stops' = 0 PROVE KeepsCanonical
    BY <1>1, CanonicalNext
  <2>1. ServersGoOn
    BY <1>4, <1>5, <1>9 DEF ServersGoOn, ServerGoesOn, SameTable
  <2>2. \A q \in Proc : Confused(q) => StaysConfused(q)
    BY <1>4, <1>9 DEF Confused, StaysConfused
  <2>3. Canonical(a, t.endpoint)'
    <3>1. PICK e : e = t.endpoint
      OBVIOUS
    <3>2. Canonical(a, e)
      BY <1>1, <1>2, <1>4, <1>5, <3>1 DEF AllCanonical
    <3>3. Canonical(a, e)'
      BY <1>1, <2>1, <3>2, CanonicalStays
    <3>4. QED
      BY <3>1, <3>3
  <2>4. \A f \in Endpoint : KeepsBound(f)
    BY <1>5, <1>8, <2>3, BoundIsCanonical
  <2>5. ASSUME NEW q \in Proc PROVE KeepsTable(q)
    <3>1. CASE q = p
      <4>1. TableCanonical(p)
        BY <1>1, <1>4 DEF AllCanonical
      <4>2. ASSUME NEW i \in 1..Len(r)
            PROVE  Canonical(s_endpoints[p][i].addr, s_endpoints[p][i].endpoint)'
        <5>1. CASE i \in 1..Len(s_endpoints[p]) /\ r[i] = s_endpoints[p][i]
          <6>1. PICK x : x = s_endpoints[p][i]
            OBVIOUS
          <6>2. Canonical(s_endpoints[p][i].addr, s_endpoints[p][i].endpoint)
            BY <1>4, <1>5, <4>1, <5>1 DEF TableCanonical, Confused
          <6>3. Canonical(x.addr, x.endpoint)
            BY <6>1, <6>2
          <6>4. Canonical(x.addr, x.endpoint)'
            BY <1>1, <2>1, <6>3, CanonicalStays
          <6>5. x = s_endpoints'[p][i]
            BY <1>9, <5>1, <6>1
          <6>6. QED
            BY <6>4, <6>5
        <5>2. CASE r[i] = item
          <6>1. s_endpoints'[p][i].addr = a /\ s_endpoints'[p][i].endpoint = t.endpoint
            BY <1>9, <1>13, <5>2
          <6>2. QED
            BY <2>3, <6>1
        <5>3. QED
          BY <1>7, <5>1, <5>2
      <4>3. TableCanonical(p)'
        BY <1>9, <4>2 DEF TableCanonical
      <4>4. QED
        BY <3>1, <4>3 DEF KeepsTable
    <3>2. CASE q # p
      BY <1>4, <1>9, <3>2 DEF KeepsTable, SameTable
    <3>3. QED
      BY <3>1, <3>2
  <2>6. \A u \in told' : KeepsTold(u)
    BY <1>9, <1>11 DEF KeepsTold
  <2>7. QED
    BY <1>4, <2>1, <2>2, <2>4, <2>5, <2>6 DEF KeepsCanonical
<1>20. QED
  BY <1>14, <1>15, <1>16, <1>17, <1>18, <1>19, NextTypesAreTypeOK DEF ResolverInv

(***************************************************************************)
(* A call that does not know its endpoint: a bind draws one of its own.    *)
(***************************************************************************)
OnlyBinds(p) ==
  /\ role' = role /\ s_endpoints' = s_endpoints /\ awaits' = awaits
  /\ asked' = asked /\ told' = told /\ stops' = stops

LEMMA BindNewKeeps ==
  ASSUME ResolverInv, NEW p \in Proc, NEW a \in Name, BindNew(p, a), OnlyBinds(p), role[p] # "down",
         \/ role[p] = "client" /\ awaits[p] # None
         \/ role[p] # "client" /\ call[p] = Idle /\ Find(p, a) = 0
  PROVE  ResolverInv'
<1>1. /\ TypeOK /\ TypesHold /\ OneServer /\ RolesHold /\ OneMessage /\ DrawnHold /\ AllCanonical
  BY TypesOfTypeOK DEF ResolverInv
<1>2. PICK e \in Endpoint :
        /\ drawnFor[e] = None
        /\ drawnFor' = [drawnFor EXCEPT ![e] = a]
        /\ bound' = [bound EXCEPT ![e] = [proc |-> p, addr |-> a]]
        /\ call' = [call EXCEPT ![p] = [at |-> "drawn", item |-> [addr |-> a, endpoint |-> e]]]
  BY DEF BindNew
<1>3. /\ role' = role /\ s_endpoints' = s_endpoints /\ awaits' = awaits
      /\ asked' = asked /\ told' = told /\ stops' = stops
  BY DEF OnlyBinds
<1>4. /\ call'[p] = [at |-> "drawn", item |-> [addr |-> a, endpoint |-> e]]
      /\ \A q \in Proc : q # p => call'[q] = call[q]
      /\ drawnFor'[e] = a
      /\ \A f \in Endpoint : f # e => drawnFor'[f] = drawnFor[f]
      /\ bound'[e] = [proc |-> p, addr |-> a]
      /\ \A f \in Endpoint : f # e => bound'[f] = bound[f]
  BY <1>1, <1>2 DEF TypesHold
<1>5. \A f \in Endpoint : drawnFor[f] # None => drawnFor'[f] = drawnFor[f]
  BY <1>2, <1>4
<1>6. None \notin Name
  BY ZmqXAssumption
<1>7. call'[p].at = "drawn" /\ call'[p].item.addr = a /\ call'[p].item.endpoint = e
  BY <1>4
<1>8. TypesHold'
  <2>1. [at |-> "drawn", item |-> [addr |-> a, endpoint |-> e]] \in [at : {"drawn"}, item : Item]
    BY DEF Item
  <2>2. call' \in [Proc -> {Idle} \cup [at : {"wait"}, op : Op, addr : Name]
                              \cup [at : {"drawn"}, item : Item]]
    BY <1>1, <1>2, <2>1 DEF TypesHold
  <2>3. /\ bound' \in [Endpoint -> {Unbound} \cup [proc : Proc, addr : Name]]
        /\ drawnFor' \in [Endpoint -> Name \cup {None}]
    BY <1>1, <1>2 DEF TypesHold
  <2>4. ASSUME NEW q \in Proc, call'[q].at = "wait"
        PROVE  role'[q] = "client" /\ awaits'[q] = call'[q].addr
    <3>1. q # p
      BY <1>7, <2>4
    <3>2. call'[q] = call[q] /\ role' = role /\ awaits' = awaits
      BY <1>3, <1>4, <3>1
    <3>3. QED
      BY <1>1, <2>4, <3>2 DEF TypesHold
  <2>5. QED
    BY <1>1, <1>3, <2>2, <2>3, <2>4 DEF TypesHold
<1>9. OneServer' /\ OneMessage'
  BY <1>1, <1>3 DEF OneServer, PortHeld, OneMessage
<1>10. RolesHold'
  BY <1>1, <1>3, <1>4 DEF RolesHold
<1>11. DrawnHold'
  <2>1. ASSUME NEW q \in Proc PROVE TableHolds(q)'
    <3>1. TableHolds(q) /\ s_endpoints[q] \in Seq(Item)
      BY <1>1 DEF DrawnHold, TypesHold
    <3>2. \A i \in 1..Len(s_endpoints[q]) : s_endpoints[q][i] \in Item
      BY <3>1, ElementOfSeq
    <3>3. QED
      BY <1>3, <1>5, <1>6, <3>1, <3>2 DEF TableHolds, Item
  <2>2. ASSUME NEW q \in Proc, call'[q].at = "drawn"
        PROVE  drawnFor'[call'[q].item.endpoint] = call'[q].item.addr
    <3>1. CASE q = p
      BY <1>4, <1>7, <3>1
    <3>2. CASE q # p
      <4>1. call[q].at = "drawn" /\ call'[q] = call[q]
        BY <1>4, <2>2, <3>2
      <4>2. call[q].item \in Item /\ drawnFor[call[q].item.endpoint] = call[q].item.addr
        BY <1>1, <4>1, CallType DEF DrawnHold
      <4>3. QED
        BY <1>5, <1>6, <4>1, <4>2 DEF Item
    <3>3. QED
      BY <3>1, <3>2
  <2>3. \A t \in told' : drawnFor'[t.endpoint] = awaits'[t.to]
    BY <1>1, <1>3, <1>5 DEF DrawnHold, OneMessage, TypesHold
  <2>4. QED
    BY <2>1, <2>2, <2>3 DEF DrawnHold
<1>12. AllCanonical'
  <2> SUFFICES ASSUME stops' = 0 PROVE KeepsCanonical
    BY <1>1, CanonicalNext
  <2>1. ServersGoOn
    BY <1>3, <1>4 DEF ServersGoOn, ServerGoesOn, SameTable
  <2>2. \A q \in Proc : Confused(q) => StaysConfused(q)
    BY <1>3, <1>4, <1>7 DEF Confused, StaysConfused
  <2>3. Confused(p)' \/ Canonical(a, e)'
    <3>1. CASE role[p] = "client" /\ awaits[p] # None
      BY <1>3, <1>7, <3>1 DEF Confused
    <3>2. CASE role[p] # "client" /\ call[p] = Idle /\ Find(p, a) = 0
      <4>1. role[p] = "server"
        BY <1>1, <1>3, <3>2 DEF RolesHold, TypesHold
      <4>2. Find(p, a)' = 0
        BY <1>3, <3>2, FindIsIndex, FindIsIndexNext
      <4>3. Drawn(p, a, e)'
        BY <1>4 DEF Drawn
      <4>4. QED
        BY <1>3, <4>1, <4>2, <4>3 DEF Canonical
    <3>3. QED
      BY <3>1, <3>2
  <2>4. \A f \in Endpoint : KeepsBound(f)
    <3>1. TAKE f \in Endpoint
    <3>2. CASE f = e
      <4>1. bound'[f].proc = p /\ bound'[f].addr = a
        BY <1>4, <3>2
      <4>2. Canonical(a, e)' => Canonical(bound[f].addr, f)'
        BY <3>2, <4>1
      <4>3. Confused(p)' => Confused(bound[f].proc)'
        BY <4>1
      <4>4. BoundCanonical(f)'
        BY <2>3, <4>2, <4>3 DEF BoundCanonical
      <4>5. QED
        BY <4>4 DEF KeepsBound
    <3>3. CASE f # e
      BY <1>4, <3>3 DEF KeepsBound
    <3>4. QED
      BY <3>2, <3>3
  <2>5. \A q \in Proc : KeepsTable(q)
    BY <1>3 DEF KeepsTable, SameTable
  <2>6. \A t \in told' : KeepsTold(t)
    BY <1>3 DEF KeepsTold
  <2>7. QED
    BY <1>3, <2>1, <2>2, <2>4, <2>5, <2>6 DEF KeepsCanonical
<1>13. QED
  BY <1>8, <1>9, <1>10, <1>11, <1>12, NextTypesAreTypeOK DEF ResolverInv

(* Neither a call that returns what it was called with, nor a stutter, nor *)
(* an interrupted wait that binds nothing, disturbs anything.              *)
LEMMA ReturnKeeps ==
  ASSUME ResolverInv, UNCHANGED <<role, s_endpoints, awaits, wireVars, sockVars, stops>>,
         \A p \in Proc : call'[p] = call[p] \/ (call'[p] = Idle /\ call[p].at = "wait"),
         call' = call \/ \E p \in Proc : call' = [call EXCEPT ![p] = Idle]
  PROVE  ResolverInv'
<1>1. /\ TypeOK /\ TypesHold /\ OneServer /\ RolesHold /\ OneMessage /\ DrawnHold /\ AllCanonical
  BY TypesOfTypeOK DEF ResolverInv
<1>2. /\ role' = role /\ s_endpoints' = s_endpoints /\ awaits' = awaits
      /\ asked' = asked /\ told' = told /\ bound' = bound /\ drawnFor' = drawnFor /\ stops' = stops
  BY DEF wireVars, sockVars
<1>3. Idle.at = "idle"
  BY DEF Idle
<1>4. call' \in [Proc -> {Idle} \cup [at : {"wait"}, op : Op, addr : Name]
                              \cup [at : {"drawn"}, item : Item]]
  BY <1>1 DEF TypesHold
<1>5. TypesHold'
  BY <1>1, <1>2, <1>3, <1>4 DEF TypesHold
<1>6. OneServer' /\ OneMessage'
  BY <1>1, <1>2 DEF OneServer, PortHeld, OneMessage
<1>7. RolesHold'
  BY <1>1, <1>2, <1>3 DEF RolesHold
<1>8. DrawnHold'
  BY <1>1, <1>2, <1>3 DEF DrawnHold, TableHolds
<1>9. AllCanonical'
  <2>1. ServersGoOn
    <3>1. \A q \in Proc : role[q] = "server" => call[q].at # "wait"
      BY <1>1 DEF TypesHold
    <3>2. QED
      BY <1>2, <3>1 DEF ServersGoOn, ServerGoesOn, SameTable
  <2>2. \A q \in Proc : Confused(q) => StaysConfused(q)
    BY <1>2, <1>3 DEF Confused, StaysConfused
  <2>3. \A e \in Endpoint : KeepsBound(e)
    BY <1>2 DEF KeepsBound
  <2>4. \A q \in Proc : KeepsTable(q)
    BY <1>2 DEF KeepsTable, SameTable
  <2>5. \A t \in told' : KeepsTold(t)
    BY <1>2 DEF KeepsTold
  <2>6. QED
    BY <1>1, <1>2, <2>1, <2>2, <2>3, <2>4, <2>5, CanonicalNext DEF KeepsCanonical
<1>10. QED
  BY <1>5, <1>6, <1>7, <1>8, <1>9, NextTypesAreTypeOK DEF ResolverInv

LEMMA StutterKeeps == ResolverInv /\ UNCHANGED vars => ResolverInv'
<1> SUFFICES ASSUME ResolverInv, UNCHANGED vars PROVE ResolverInv'
  OBVIOUS
<1>1. UNCHANGED <<role, s_endpoints, awaits, wireVars, sockVars, stops>> /\ call' = call
  BY DEF vars, procVars
<1>2. QED
  BY <1>1, ReturnKeeps

LEMMA CallUnknownKeeps ==
  ASSUME ResolverInv, NEW p \in Proc, NEW op \in Op, NEW a \in Name,
         role[p] # "down", call[p] = Idle, CallUnknown(p, op, a)
  PROVE  ResolverInv'
<1>1. TypesHold
  BY TypesOfTypeOK DEF ResolverInv
<1>2. /\ Find(p, a) = 0 /\ ~ CanAsk(p) /\ Unresolved(p, op, a)
      /\ UNCHANGED <<role, s_endpoints, awaits, wireVars, stops>>
  BY DEF CallUnknown
<1>3. CASE op \in Binds /\ BindNew(p, a)
  <2>1. OnlyBinds(p)
    BY <1>2 DEF OnlyBinds, wireVars
  <2>2. QED
    BY <1>2, <1>3, <2>1, BindNewKeeps DEF CanAsk
<1>4. CASE op \notin Binds /\ Return(p) /\ UNCHANGED sockVars
  <2>1. call' = call
    BY <1>1, <1>4 DEF Return, TypesHold
  <2>2. UNCHANGED <<role, s_endpoints, awaits, wireVars, sockVars, stops>>
    BY <1>2, <1>4
  <2>3. QED
    BY <2>1, <2>2, ReturnKeeps
<1>5. QED
  BY <1>2, <1>3, <1>4 DEF Unresolved

LEMMA InterruptedKeeps ==
  ASSUME ResolverInv, NEW p \in Proc, Interrupted(p)
  PROVE  ResolverInv'
<1>1. TypeOK /\ TypesHold
  BY TypesOfTypeOK DEF ResolverInv
<1>2. PICK op, a : op = call[p].op /\ a = call[p].addr
  OBVIOUS
<1>3. /\ call[p].at = "wait" /\ Unresolved(p, op, a)
      /\ UNCHANGED <<role, s_endpoints, awaits, wireVars, stops>>
  BY <1>2 DEF Interrupted
<1>4. op \in Op /\ a \in Name /\ role[p] = "client" /\ awaits[p] = a /\ a # None
  BY <1>1, <1>2, <1>3, CallType, ZmqXAssumption DEF TypesHold
<1>5. CASE op \in Binds /\ BindNew(p, a)
  <2>1. OnlyBinds(p)
    BY <1>3 DEF OnlyBinds, wireVars
  <2>2. QED
    BY <1>4, <1>5, <2>1, BindNewKeeps
<1>6. CASE op \notin Binds /\ Return(p) /\ UNCHANGED sockVars
  <2>1. call' = [call EXCEPT ![p] = Idle]
    BY <1>6 DEF Return
  <2>2. \A q \in Proc : call'[q] = call[q] \/ (call'[q] = Idle /\ call[q].at = "wait")
    BY <1>1, <1>3, <2>1 DEF TypesHold
  <2>3. UNCHANGED <<role, s_endpoints, awaits, wireVars, sockVars, stops>>
    BY <1>3, <1>6
  <2>4. QED
    BY <2>1, <2>2, <2>3, ReturnKeeps
<1>7. QED
  BY <1>3, <1>5, <1>6 DEF Unresolved

(***************************************************************************)
(* The end of a process.                                                   *)
(***************************************************************************)
LEMMA GoneKeeps ==
  ASSUME ResolverInv, NEW p \in Proc, role[p] # "down", NEW lost, Gone(p, lost)
  PROVE  ResolverInv'
<1>1. /\ TypeOK /\ TypesHold /\ OneServer /\ RolesHold /\ OneMessage /\ DrawnHold /\ AllCanonical
  BY TypesOfTypeOK DEF ResolverInv
<1>2. /\ role' = [role EXCEPT ![p] = "down"]
      /\ s_endpoints' = [s_endpoints EXCEPT ![p] = <<>>]
      /\ call' = [call EXCEPT ![p] = Idle]
      /\ awaits' = [awaits EXCEPT ![p] = None]
      /\ asked' = {[x EXCEPT !.from = IF @ = p THEN None ELSE @] : x \in asked \ lost}
      /\ \E t \in SUBSET (IF role[p] = "server" THEN told ELSE {}) :
           told' = {x \in told \ t : x.to # p}
      /\ bound' = [e \in Endpoint |-> IF bound[e].proc = p THEN Unbound ELSE bound[e]]
      /\ stops' = IF role[p] = "server" THEN stops + 1 ELSE stops
      /\ drawnFor' = drawnFor
  BY DEF Gone, Return
<1>3. /\ role'[p] = "down" /\ s_endpoints'[p] = <<>> /\ call'[p] = Idle /\ awaits'[p] = None
      /\ \A q \in Proc : q # p => /\ role'[q] = role[q] /\ s_endpoints'[q] = s_endpoints[q]
                                  /\ call'[q] = call[q] /\ awaits'[q] = awaits[q]
  BY <1>1, <1>2 DEF TypesHold
<1>4. \A t \in told' : t \in told /\ t.to # p /\ t.to \in Proc
  BY <1>1, <1>2 DEF TypesHold
<1>5. ASSUME NEW m \in asked'
      PROVE  /\ m \in [from : Proc \cup {None}, addr : Name]
             /\ m.from # None => m \in asked /\ m.from # p
  <2>1. PICK x \in asked : m = [x EXCEPT !.from = IF @ = p THEN None ELSE @]
    BY <1>2
  <2>2. x \in [from : Proc \cup {None}, addr : Name]
    BY <1>1 DEF TypesHold
  <2>3. CASE x.from = p
    BY <2>1, <2>2, <2>3
  <2>4. CASE x.from # p
    BY <2>1, <2>2, <2>4
  <2>5. QED
    BY <2>3, <2>4
<1>6. \A e \in Endpoint : bound'[e] \in {bound[e], Unbound} /\ bound'[e].proc # p
  <2>1. Unbound.proc = None /\ None # p
    BY ZmqXAssumption DEF Unbound
  <2>2. QED
    BY <1>2, <2>1
<1>7. stops \in Nat /\ MaxStarts \in Nat /\ stops' \in 0..MaxStarts
  BY <1>1, <1>2, ZmqXAssumption DEF OneServer, PortHeld, TypesHold
<1>8. TypesHold'
  <2>1. <<>> \in Seq(Item)
    BY EmptySeq
  <2>2. /\ asked' \subseteq [from : Proc \cup {None}, addr : Name]
        /\ told' \subseteq [to : Proc, endpoint : Endpoint]
    <3>1. told' \subseteq told
      BY <1>4
    <3>2. QED
      BY <1>1, <1>5, <3>1 DEF TypesHold
  <2>3. bound' \in [Endpoint -> {Unbound} \cup [proc : Proc, addr : Name]]
    BY <1>1, <1>2 DEF TypesHold
  <2>4. \A q \in Proc : call'[q].at = "wait" => role'[q] = "client" /\ awaits'[q] = call'[q].addr
    <3>1. Idle.at # "wait"
      BY DEF Idle
    <3>2. QED
      BY <1>1, <1>3, <3>1 DEF TypesHold
  <2>5. role' \in [Proc -> {"down", "server", "client", "alone"}]
    BY <1>1, <1>2 DEF TypesHold
  <2>6. /\ s_endpoints' \in [Proc -> Seq(Item)]
        /\ call' \in [Proc -> {Idle} \cup [at : {"wait"}, op : Op, addr : Name]
                              \cup [at : {"drawn"}, item : Item]]
        /\ awaits' \in [Proc -> Name \cup {None}]
    BY <1>1, <1>2, <2>1 DEF TypesHold
  <2>7. drawnFor' \in [Endpoint -> Name \cup {None}]
    BY <1>1, <1>2 DEF TypesHold
  <2>8. QED
    BY <1>7, <2>2, <2>3, <2>4, <2>5, <2>6, <2>7 DEF TypesHold
<1>9. OneServer'
  <2>1. \A q, r \in Proc : role'[q] = "server" /\ role'[r] = "server" => q = r
    BY <1>1, <1>3 DEF OneServer
  <2>2. (PortHeld => stops < MaxStarts)'
    <3>1. ASSUME NEW q \in Proc, role'[q] = "server" PROVE stops' < MaxStarts
      BY <1>1, <1>2, <1>3, <3>1 DEF OneServer, PortHeld
    <3>2. QED
      BY <3>1 DEF PortHeld
  <2>3. QED
    BY <2>1, <2>2 DEF OneServer
<1>10. RolesHold'
  <2>1. stops > 0 => stops' > 0
    BY <1>2, <1>7
  <2>2. ASSUME NEW q \in Proc
        PROVE  /\ role'[q] = "down" => s_endpoints'[q] = <<>> /\ call'[q] = Idle
               /\ role'[q] # "client" => awaits'[q] = None
               /\ role'[q] = "client" /\ call'[q].at = "drawn" => awaits'[q] # None
               /\ role'[q] = "alone" => stops' > 0
    BY <1>1, <1>3, <2>1 DEF RolesHold
  <2>3. QED
    BY <2>2 DEF RolesHold
<1>11. OneMessage'
  <2>1. ASSUME NEW m \in asked', m.from # None
        PROVE  awaits'[m.from] = m.addr /\ \A t \in told' : t.to # m.from
    <3>1. m \in asked /\ m.from \in Proc /\ m.from # p
      BY <1>5, <2>1
    <3>2. awaits[m.from] = m.addr /\ \A t \in told : t.to # m.from
      BY <1>1, <2>1, <3>1 DEF OneMessage
    <3>3. QED
      BY <1>3, <1>4, <3>1, <3>2
  <2>2. \A t \in told' : awaits'[t.to] # None /\ \A u \in told' : u.to = t.to => u = t
    BY <1>1, <1>3, <1>4 DEF OneMessage
  <2>3. QED
    BY <2>1, <2>2 DEF OneMessage
<1>12. DrawnHold'
  <2>1. ASSUME NEW q \in Proc PROVE TableHolds(q)'
    <3>1. CASE q = p
      <4>1. \A i \in 1..Len(s_endpoints'[q]) : FALSE
        BY <1>3, <3>1, EmptySeq
      <4>2. QED
        BY <4>1 DEF TableHolds
    <3>2. CASE q # p
      BY <1>1, <1>2, <1>3, <3>2 DEF DrawnHold, TableHolds
    <3>3. QED
      BY <3>1, <3>2
  <2>2. \A q \in Proc : call'[q].at = "drawn" => drawnFor'[call'[q].item.endpoint] = call'[q].item.addr
    BY <1>1, <1>2, <1>3 DEF DrawnHold, Idle
  <2>3. \A t \in told' : drawnFor'[t.endpoint] = awaits'[t.to]
    BY <1>1, <1>2, <1>3, <1>4 DEF DrawnHold
  <2>4. QED
    BY <2>1, <2>2, <2>3 DEF DrawnHold
<1>13. AllCanonical'
  <2> SUFFICES ASSUME stops' = 0 PROVE KeepsCanonical
    BY <1>1, CanonicalNext
  <2>1. stops' = stops /\ role[p] # "server"
    BY <1>2, <1>7
  <2>2. ServersGoOn
    BY <1>3, <2>1 DEF ServersGoOn, ServerGoesOn, SameTable
  <2>3. \A q \in Proc : Confused(q) => StaysConfused(q)
    BY <1>3, <1>6 DEF Confused, StaysConfused
  <2>4. \A e \in Endpoint : KeepsBound(e)
    BY <1>6 DEF KeepsBound
  <2>5. \A q \in Proc : KeepsTable(q)
    BY <1>3 DEF KeepsTable, SameTable, TableCanonical
  <2>6. \A t \in told' : KeepsTold(t)
    BY <1>3, <1>4 DEF KeepsTold
  <2>7. QED
    BY <2>1, <2>2, <2>3, <2>4, <2>5, <2>6 DEF KeepsCanonical
<1>14. QED
  BY <1>8, <1>9, <1>10, <1>11, <1>12, <1>13, NextTypesAreTypeOK DEF ResolverInv

LEMMA InitResolver == Init => ResolverInv
<1> SUFFICES ASSUME Init PROVE ResolverInv
  OBVIOUS
<1>1. <<>> \in Seq(Item)
  BY EmptySeq
<1>2. 0 \in 0..MaxStarts
  BY ZmqXAssumption
<1>3. TypesHold
  BY <1>1, <1>2 DEF Init, TypesHold, Idle, Unbound
<1>4. OneServer
  BY DEF Init, OneServer, PortHeld
<1>5. RolesHold
  BY DEF Init, RolesHold
<1>6. OneMessage
  BY DEF Init, OneMessage
<1>7. \A p \in Proc : \A i \in 1..Len(s_endpoints[p]) : FALSE
  BY EmptySeq DEF Init
<1>8. DrawnHold
  BY <1>7 DEF Init, DrawnHold, TableHolds, Idle
<1>9. AllCanonical
  BY <1>7 DEF Init, AllCanonical, BoundCanonical, TableCanonical
<1>10. QED
  BY <1>3, <1>4, <1>5, <1>6, <1>8, <1>9, TypesAreTypeOK DEF ResolverInv

LEMMA NextResolver == ResolverInv /\ [Next]_vars => ResolverInv'
<1> SUFFICES ASSUME ResolverInv, [Next]_vars PROVE ResolverInv'
  OBVIOUS
<1>1. ASSUME NEW p \in Proc, InitX(p) PROVE ResolverInv'
  BY <1>1, InitXKeeps
<1>2. ASSUME NEW p \in Proc, Call(p) PROVE ResolverInv'
  <2>1. PICK op \in Op, a \in Name :
          CallKnown(p, op, a) \/ CallUnknown(p, op, a) \/ CallAsk(p, op, a)
    BY <1>2 DEF Call
  <2>2. role[p] # "down" /\ call[p] = Idle
    BY <1>2 DEF Call
  <2>3. QED
    BY <2>1, <2>2, CallKnownKeeps, CallUnknownKeeps, CallAskKeeps
<1>3. ASSUME NEW p \in Proc, BindInsert(p) PROVE ResolverInv'
  BY <1>3, BindInsertKeeps
<1>4. ASSUME NEW p \in Proc, Receive(p) PROVE ResolverInv'
  BY <1>4, ReceiveKeeps
<1>5. ASSUME NEW p \in Proc, Interrupted(p) PROVE ResolverInv'
  BY <1>5, InterruptedKeeps
<1>6. ASSUME NEW p \in Proc, Exit(p) PROVE ResolverInv'
  <2>1. PICK lost : Gone(p, lost)
    BY <1>6 DEF Exit
  <2>2. role[p] # "down"
    BY <1>6 DEF Exit
  <2>3. QED
    BY <2>1, <2>2, GoneKeeps
<1>7. ASSUME NEW p \in Proc, ResolverEnd(p) PROVE ResolverInv'
  BY <1>7, ResolverEndKeeps
<1>8. ASSUME NEW q \in Proc, NEW m \in asked, Answer(q, m) PROVE ResolverInv'
  BY <1>8, AnswerKeeps
<1>9. ASSUME NEW q \in Proc, NEW m \in asked, AnswerUnknown(q, m) PROVE ResolverInv'
  <2>1. PICK lost : Gone(q, lost)
    BY <1>9 DEF AnswerUnknown
  <2>2. role[q] # "down"
    BY <1>9 DEF AnswerUnknown
  <2>3. QED
    BY <2>1, <2>2, GoneKeeps
<1>10. CASE UNCHANGED vars
  BY <1>10, StutterKeeps
<1>11. QED
  BY <1>1, <1>2, <1>3, <1>4, <1>5, <1>6, <1>7, <1>8, <1>9, <1>10 DEF Next

(* The resolver's word is one and the tables follow it: the invariant      *)
(* holds, whatever is interrupted, lost or left unanswered (zmq_x.c).      *)
THEOREM ResolverInvariant == Spec => []ResolverInv
<1>1. Init => ResolverInv
  BY InitResolver
<1>2. ResolverInv /\ [Next]_vars => ResolverInv'
  BY NextResolver
<1>3. QED
  BY <1>1, <1>2, PTL DEF Spec

(* The state keeps its types, and one process at most is the resolver      *)
(* (lines 174-201).                                                        *)
THEOREM TypeCorrect == Spec => []TypeOK
<1>1. ResolverInv => TypeOK
  BY DEF ResolverInv
<1>2. QED
  BY <1>1, ResolverInvariant, PTL

(* What a process has in its table for a name was drawn for that name: no  *)
(* answer is taken for the answer to another question (lines 28-35,        *)
(* 158-167).                                                               *)
THEOREM TablesHold == Spec => []ItemsHold
<1>1. ResolverInv => ItemsHold
  <2> SUFFICES ASSUME ResolverInv, NEW p \in Proc, NEW t \in ToSet(s_endpoints[p])
               PROVE  drawnFor[t.endpoint] = t.addr
    BY DEF ItemsHold
  <2>1. TableHolds(p)
    BY DEF ResolverInv, DrawnHold
  <2>2. s_endpoints[p] \in Seq(Item)
    BY DEF ResolverInv, TypeOK
  <2>3. PICK i \in DOMAIN s_endpoints[p] : t = s_endpoints[p][i]
    BY DEF ToSet
  <2>4. i \in 1..Len(s_endpoints[p])
    BY <2>2, <2>3, LenProperties
  <2>5. QED
    BY <2>1, <2>3, <2>4 DEF TableHolds
<1>2. QED
  BY <1>1, ResolverInvariant, PTL

(* While the first resolver runs, a name is bound by one socket at a time, *)
(* except by a process whose call was interrupted (lines 84-88, 160-164).  *)
THEOREM NamesHaveOneBinder == Spec => []OneBinder
<1>1. ResolverInv => OneBinder
  <2> SUFFICES ASSUME ResolverInv, stops = 0, NEW e \in Endpoint, NEW f \in Endpoint,
                      e # f, bound[e] # Unbound, bound[e].addr = bound[f].addr,
                      ~ Confused(bound[e].proc), ~ Confused(bound[f].proc)
               PROVE  FALSE
    BY DEF OneBinder, Confused
  <2>1. TypeOK /\ OneServer /\ AllCanonical
    BY DEF ResolverInv
  <2>2. bound[e] \in [proc : Proc, addr : Name]
    BY <2>1 DEF TypeOK
  <2>3. bound[f] # Unbound
    BY <2>2, ZmqXAssumption DEF Unbound
  <2>4. PICK a : a = bound[e].addr
    OBVIOUS
  <2>5. BoundCanonical(e) /\ BoundCanonical(f)
    BY <2>1 DEF AllCanonical
  <2>6. Canonical(a, e) /\ Canonical(a, f)
    BY <2>3, <2>4, <2>5 DEF BoundCanonical
  <2>7. QED
    BY <2>1, <2>6, CanonicalIsOne
<1>2. QED
  BY <1>1, ResolverInvariant, PTL

(* While the first resolver runs, an endpoint found in a table is the one  *)
(* at which the name is bound, however often it was unbound and bound      *)
(* again, except where a call was interrupted (lines 147-152, 165-166).    *)
THEOREM LookupsAlwaysReach == Spec => []LookupsReach
<1>1. ResolverInv => LookupsReach
  <2> SUFFICES ASSUME ResolverInv, stops = 0, NEW p \in Proc, NEW e \in Endpoint,
                      bound[e] # Unbound, Find(p, bound[e].addr) # 0,
                      ~ Confused(p), ~ Confused(bound[e].proc)
               PROVE  Found(p, bound[e].addr) = e
    BY DEF LookupsReach, Confused
  <2>1. TypeOK /\ OneServer /\ RolesHold /\ AllCanonical
    BY DEF ResolverInv
  <2>2. PICK a : a = bound[e].addr
    OBVIOUS
  <2>3. BoundCanonical(e) /\ TableCanonical(p)
    BY <2>1 DEF AllCanonical
  <2>4. Canonical(a, e)
    BY <2>2, <2>3 DEF BoundCanonical
  <2>5. /\ Index(s_endpoints[p], a) \in 1..Len(s_endpoints[p])
        /\ s_endpoints[p][Index(s_endpoints[p], a)].addr = a
    <3>1. s_endpoints[p] \in Seq(Item) /\ Index(s_endpoints[p], a) # 0
      BY <2>1, <2>2, FindIsIndex DEF TypeOK
    <3>2. QED
      BY <3>1, IndexIsFirst
  <2>6. Found(p, a) = s_endpoints[p][Index(s_endpoints[p], a)].endpoint
    BY FindIsIndex DEF Found
  <2>7. Canonical(a, Found(p, a))
    <3>1. CASE role[p] = "client"
      BY <2>3, <2>5, <2>6, <3>1 DEF TableCanonical
    <3>2. CASE role[p] = "server"
      BY <2>2, <3>2 DEF Canonical
    <3>3. role[p] \in {"client", "server"}
      <4>1. role[p] \in {"down", "server", "client", "alone"}
        BY <2>1 DEF TypeOK
      <4>2. role[p] # "alone"
        BY <2>1 DEF RolesHold
      <4>3. role[p] # "down"
        BY <2>1, <2>5, LenProperties DEF RolesHold
      <4>4. QED
        BY <4>1, <4>2, <4>3
    <3>4. QED
      BY <3>1, <3>2, <3>3
  <2>8. QED
    BY <2>1, <2>2, <2>4, <2>7, CanonicalIsOne
<1>2. QED
  BY <1>1, ResolverInvariant, PTL
=============================================================================
