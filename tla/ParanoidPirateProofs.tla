------------------------ MODULE ParanoidPirateProofs ------------------------
(***************************************************************************)
(* Theorems about the Paranoid Pirate pattern, for any sets of workers and *)
(* clients and any intervals, retries and bounds: first about the list of  *)
(* ppqueue.c, what s_worker_ready, s_workers_next and s_workers_purge make *)
(* of it, then about the whole system.                                     *)
(***************************************************************************)
EXTENDS ParanoidPirate, PirateProofs, WellFoundedInduction

(* UniqueWorkers and LRUOrder of any list.                                 *)
Unique(list) ==
  \A i, j \in 1..Len(list) : list[i].identity = list[j].identity => i = j

Ordered(list) ==
  \A i, j \in 1..Len(list) : i <= j => list[i].expiry <= list[j].expiry

GoodList(list) ==
  /\ list \in Seq(WorkerEntry)
  /\ Unique(list)
  /\ Ordered(list)

Identities(list) == {list[i].identity : i \in 1..Len(list)}

(***************************************************************************)
(* A nonempty set of naturals has a least element, which Min returns.      *)
(***************************************************************************)
LEMMA MinNat ==
  ASSUME NEW S, S \subseteq Nat, S # {}
  PROVE  /\ Min(S) \in S
         /\ \A n \in S : Min(S) <= n
<1>1. PICK x \in S : \A y \in S : ~ (<<y, x>> \in OpToRel(<, Nat))
  BY NatLessThanWellFounded, WFMin
<1>2. \A y \in S : x =< y
  <2>1. TAKE y \in S
  <2>2. ~ (y < x)
    BY <1>1, Zenon DEF OpToRel
  <2>3. QED
    BY <2>2
<1>3. QED
  BY <1>2 DEF Min

LEMMA ExpiryNat == Expiry \in Nat
  BY HeartbeatAssumption DEF Expiry

LEMMA EntryType ==
  ASSUME NEW e \in WorkerEntry
  PROVE  /\ e.identity \in Worker
         /\ e.expiry \in 0..Expiry
         /\ e.expiry \in Nat
  BY ExpiryNat DEF WorkerEntry

(***************************************************************************)
(* s_worker_ready: what is left of the list without one entry, then        *)
(* without one worker, and the list with the worker at its end.            *)
(***************************************************************************)
LEMMA RemoveAtGood ==
  ASSUME NEW list, GoodList(list), NEW k \in 1..Len(list)
  PROVE  LET r == RemoveAt(list, k)
         IN  /\ GoodList(r)
             /\ Identities(r) = Identities(list) \ {list[k].identity}
             /\ \A i \in 1..Len(r) : \E j \in 1..Len(list) : r[i] = list[j]
<1> DEFINE a == SubSeq(list, 1, k - 1)
           b == SubSeq(list, k + 1, Len(list))
           r == a \o b
<1>1. list \in Seq(WorkerEntry) /\ Unique(list) /\ Ordered(list)
  BY DEF GoodList
<1>2. Len(list) \in Nat /\ k \in Nat
  BY <1>1, LenProperties
<1>3. \A i \in 1..Len(list) : list[i] \in WorkerEntry
  BY <1>1, ElementOfSeq
<1>4. /\ a \in Seq(WorkerEntry)
      /\ Len(a) = k - 1
      /\ \A i \in 1..(k - 1) : a[i] = list[i]
  <2>1. \A i \in 1..(k - 1) : list[i] \in WorkerEntry
    BY <1>2, <1>3
  <2>2. /\ a \in Seq(WorkerEntry)
        /\ Len(a) = IF 1 <= k - 1 THEN k - 1 - 1 + 1 ELSE 0
        /\ \A i \in 1..(k - 1 - 1 + 1) : a[i] = list[1 + i - 1]
    BY <1>2, <2>1, SubSeqProperties
  <2>3. QED
    BY <2>2, <1>2
<1>5. /\ b \in Seq(WorkerEntry)
      /\ Len(b) = Len(list) - k
      /\ \A i \in 1..(Len(list) - k) : b[i] = list[k + i]
  <2>1. \A i \in (k + 1)..Len(list) : list[i] \in WorkerEntry
    BY <1>2, <1>3
  <2>2. /\ b \in Seq(WorkerEntry)
        /\ Len(b) = IF k + 1 <= Len(list) THEN Len(list) - (k + 1) + 1 ELSE 0
        /\ \A i \in 1..(Len(list) - (k + 1) + 1) : b[i] = list[k + 1 + i - 1]
    BY <1>2, <2>1, SubSeqProperties
  <2>3. QED
    BY <2>2, <1>2
<1> HIDE DEF a, b
<1>6. /\ r \in Seq(WorkerEntry)
      /\ Len(r) = Len(list) - 1
      /\ \A i \in 1..Len(r) : r[i] = IF i < k THEN list[i] ELSE list[i + 1]
  <2>1. /\ r \in Seq(WorkerEntry)
        /\ Len(r) = Len(a) + Len(b)
        /\ \A i \in 1..(Len(a) + Len(b)) :
             r[i] = IF i <= Len(a) THEN a[i] ELSE b[i - Len(a)]
    BY <1>4, <1>5, ConcatProperties
  <2> HIDE DEF r
  <2>2. Len(r) = Len(list) - 1
    BY <2>1, <1>2, <1>4, <1>5
  <2>3. \A i \in 1..Len(r) : r[i] = IF i < k THEN list[i] ELSE list[i + 1]
    <3>1. TAKE i \in 1..Len(r)
    <3>2. r[i] = IF i <= k - 1 THEN a[i] ELSE b[i - (k - 1)]
      BY <2>1, <2>2, <1>2, <1>4, <1>5
    <3>3. CASE i < k
      <4>1. i \in 1..(k - 1)
        BY <3>3, <2>2, <1>2
      <4>2. QED
        BY <3>2, <3>3, <4>1, <1>2, <1>4
    <3>4. CASE ~(i < k)
      <4>1. /\ i - (k - 1) \in 1..(Len(list) - k)
            /\ k + (i - (k - 1)) = i + 1
            /\ ~(i <= k - 1)
        BY <3>4, <2>2, <1>2
      <4>2. QED
        BY <3>2, <3>4, <4>1, <1>5
    <3>5. QED
      BY <3>3, <3>4
  <2>4. QED
    BY <2>1, <2>2, <2>3
<1>7. r = RemoveAt(list, k)
  BY DEF RemoveAt, r, a, b
<1> HIDE DEF r
<1>8. Unique(r)
  BY <1>1, <1>2, <1>6 DEF Unique
<1>9. Ordered(r)
  BY SMTT(30), <1>1, <1>2, <1>6 DEF Ordered
<1>10. \A i \in 1..Len(r) : \E j \in 1..Len(list) : j # k /\ r[i] = list[j]
  BY <1>2, <1>6
<1>11. \A j \in 1..Len(list) : j # k => \E i \in 1..Len(r) : r[i] = list[j]
  <2>1. SUFFICES ASSUME NEW j \in 1..Len(list), j # k
                 PROVE  \E i \in 1..Len(r) : r[i] = list[j]
    OBVIOUS
  <2>2. CASE j < k
    <3>1. j \in 1..Len(r) /\ r[j] = list[j]
      BY <2>2, <1>2, <1>6
    <3>2. QED
      BY <3>1
  <2>3. CASE j > k
    <3>1. j - 1 \in 1..Len(r) /\ r[j - 1] = list[j]
      BY <2>3, <1>2, <1>6
    <3>2. QED
      BY <3>1
  <2>4. QED
    BY <2>1, <2>2, <2>3, <1>2
<1>12. Identities(r) = Identities(list) \ {list[k].identity}
  <2>1. Identities(r) \subseteq Identities(list) \ {list[k].identity}
    BY <1>1, <1>10 DEF Identities, Unique
  <2>2. Identities(list) \ {list[k].identity} \subseteq Identities(r)
    BY <1>11 DEF Identities
  <2>3. QED
    BY <2>1, <2>2
<1>13. GoodList(r)
  BY <1>6, <1>8, <1>9 DEF GoodList
<1>14. QED
  BY <1>7, <1>10, <1>12, <1>13

LEMMA RemoveWorkerGood ==
  ASSUME NEW list, GoodList(list), NEW w
  PROVE  LET r == Without(list, w)
         IN  /\ GoodList(r)
             /\ Identities(r) = Identities(list) \ {w}
             /\ \A i \in 1..Len(r) : \E j \in 1..Len(list) : r[i] = list[j]
<1> DEFINE I == {i \in 1..Len(list) : list[i].identity = w}
           r == Without(list, w)
<1>1. CASE I = {}
  <2>1. r = list
    BY <1>1 DEF Without, RemoveFirstMatch
  <2>2. w \notin Identities(list)
    BY <1>1 DEF Identities
  <2>3. QED
    BY <2>1, <2>2
<1>2. CASE I # {}
  <2>1. r = RemoveAt(list, Min(I))
    BY <1>2 DEF Without, RemoveFirstMatch, SelectInSeq
  <2>2. Min(I) \in I
    <3>1. Len(list) \in Nat
      BY LenProperties DEF GoodList
    <3>2. I \subseteq Nat
      BY <3>1
    <3>3. QED
      BY <1>2, <3>2, MinNat
  <2>3. Min(I) \in 1..Len(list) /\ list[Min(I)].identity = w
    BY <2>2
  <2> HIDE DEF I, r
  <2>4. /\ GoodList(r)
        /\ Identities(r) = Identities(list) \ {w}
        /\ \A i \in 1..Len(r) : \E j \in 1..Len(list) : r[i] = list[j]
    BY <2>1, <2>3, RemoveAtGood
  <2>5. QED
    BY <2>4 DEF r
<1>3. QED
  BY <1>1, <1>2

(* A message from a worker leaves it at the end of the list, with a full   *)
(* expiry, once; the others keep their order.                              *)
THEOREM ReadyKeepsGood ==
  ASSUME NEW list, GoodList(list), NEW w \in Worker,
         NEW r, r = s_worker_ready(s_worker_new(w), list)
  PROVE  /\ GoodList(r)
         /\ r # <<>>
         /\ Identities(r) = Identities(list) \cup {w}
         /\ \A i \in 1..Len(r) :
              IF r[i].identity = w THEN r[i].expiry = Expiry
              ELSE \E j \in 1..Len(list) : r[i] = list[j]
<1> DEFINE rest == Without(list, w)
           e == [identity |-> w, expiry |-> Expiry]
<1>1. r = Append(rest, e)
  BY DEF s_worker_ready, s_worker_new
<1>2. /\ GoodList(rest)
      /\ Identities(rest) = Identities(list) \ {w}
  BY RemoveWorkerGood
<1>2a. \A i \in 1..Len(rest) : \E j \in 1..Len(list) : rest[i] = list[j]
  BY RemoveWorkerGood
<1>3. e \in WorkerEntry /\ e.identity = w /\ e.expiry = Expiry
  BY ExpiryNat DEF WorkerEntry
<1> HIDE DEF rest, e
<1>4. rest \in Seq(WorkerEntry) /\ Len(rest) \in Nat
  BY <1>2, LenProperties DEF GoodList
<1>5. /\ r \in Seq(WorkerEntry)
      /\ r # <<>>
      /\ Len(r) = Len(rest) + 1
      /\ \A i \in 1..Len(rest) : r[i] = rest[i]
      /\ r[Len(rest) + 1] = e
  BY <1>1, <1>3, <1>4, AppendProperties
<1>6. \A i \in 1..Len(rest) : rest[i].identity # w
  BY <1>2 DEF Identities
<1>7. Unique(r)
  BY <1>2, <1>3, <1>4, <1>5, <1>6 DEF GoodList, Unique
<1>8. \A i \in 1..Len(rest) : rest[i].expiry \in Nat /\ rest[i].expiry <= Expiry
  BY <1>4, EntryType, ElementOfSeq, ExpiryNat
<1>9. Ordered(r)
  <2> SUFFICES ASSUME NEW i \in 1..Len(r), NEW j \in 1..Len(r), i <= j
               PROVE  r[i].expiry <= r[j].expiry
    BY DEF Ordered
  <2>1. CASE j \in 1..Len(rest)
    <3>1. i \in 1..Len(rest) /\ r[i] = rest[i] /\ r[j] = rest[j]
      BY <1>4, <1>5, <2>1
    <3>2. QED
      BY <1>2, <2>1, <3>1 DEF GoodList, Ordered
  <2>2. CASE j = Len(rest) + 1
    <3>1. r[j].expiry = Expiry
      BY <1>3, <1>5, <2>2
    <3>2. CASE i \in 1..Len(rest)
      BY <1>5, <1>8, <3>1, <3>2
    <3>3. CASE i = j
      BY ExpiryNat, <3>1, <3>3
    <3>4. QED
      BY <1>4, <1>5, <2>2, <3>2, <3>3
  <2>3. QED
    BY <1>4, <1>5, <2>1, <2>2
<1>10. Identities(r) = Identities(list) \cup {w}
  <2>1. Identities(r) = Identities(rest) \cup {w}
    BY <1>3, <1>4, <1>5 DEF Identities
  <2>2. QED
    BY <2>1, <1>2
<1>11. \A i \in 1..Len(r) :
         IF r[i].identity = w THEN r[i].expiry = Expiry
         ELSE \E j \in 1..Len(list) : r[i] = list[j]
  <2>1. TAKE i \in 1..Len(r)
  <2>2. CASE i = Len(rest) + 1
    BY <2>2, <1>3, <1>5
  <2>3. CASE i # Len(rest) + 1
    <3>1. i \in 1..Len(rest) /\ r[i] = rest[i]
      BY <2>3, <1>4, <1>5
    <3>2. QED
      BY <3>1, <1>2a, <1>6
  <2>4. QED
    BY <2>2, <2>3
<1>12. QED
  BY <1>5, <1>7, <1>9, <1>10, <1>11 DEF GoodList

(***************************************************************************)
(* s_workers_next: the worker that leaves is the only one that does, and   *)
(* none expires before it.                                                 *)
(***************************************************************************)
THEOREM NextKeepsGood ==
  ASSUME NEW list, GoodList(list), list # <<>>
  PROVE  /\ GoodList(AfterNext(list))
         /\ s_workers_next(list) = list[1].identity
         /\ Identities(AfterNext(list)) = Identities(list) \ {list[1].identity}
         /\ \A i \in 1..Len(list) : list[1].expiry <= list[i].expiry
         /\ \A i \in 1..Len(AfterNext(list)) :
              \E j \in 1..Len(list) : AfterNext(list)[i] = list[j]
<1> DEFINE r == Tail(list)
<1>1. list \in Seq(WorkerEntry) /\ Unique(list) /\ Ordered(list)
  BY DEF GoodList
<1>2. Len(list) \in Nat \ {0}
  BY <1>1, EmptySeq
<1>3. /\ r \in Seq(WorkerEntry)
      /\ Len(r) = Len(list) - 1
      /\ \A i \in 1..Len(r) : r[i] = list[i + 1]
  BY <1>1, HeadTailProperties
<1>4. Head(list) = list[1]
  BY <1>1
<1> HIDE DEF r
<1>5. Unique(r)
  BY <1>1, <1>2, <1>3 DEF Unique
<1>6. Ordered(r)
  BY <1>1, <1>2, <1>3 DEF Ordered
<1>7. Identities(r) = Identities(list) \ {list[1].identity}
  <2>1. ASSUME NEW x \in Identities(r)
        PROVE  x \in Identities(list) \ {list[1].identity}
    <3>1. PICK i \in 1..Len(r) : x = r[i].identity
      BY DEF Identities
    <3>2. i + 1 \in 1..Len(list) /\ i + 1 # 1 /\ x = list[i + 1].identity
      BY <3>1, <1>2, <1>3
    <3>3. 1 \in 1..Len(list)
      BY <1>2
    <3>4. x # list[1].identity
      BY <3>2, <3>3, <1>1 DEF Unique
    <3>5. QED
      BY <3>2, <3>4 DEF Identities
  <2>2. ASSUME NEW x \in Identities(list) \ {list[1].identity}
        PROVE  x \in Identities(r)
    <3>1. PICK j \in 1..Len(list) : x = list[j].identity
      BY DEF Identities
    <3>2. j # 1
      BY <3>1
    <3>3. j - 1 \in 1..Len(r) /\ r[j - 1] = list[j]
      BY <3>1, <3>2, <1>2, <1>3
    <3>4. QED
      BY <3>1, <3>3 DEF Identities
  <2>3. QED
    BY <2>1, <2>2
<1>8. \A i \in 1..Len(list) : list[1].expiry <= list[i].expiry
  BY <1>1, <1>2 DEF Ordered
<1>9. \A i \in 1..Len(r) : \E j \in 1..Len(list) : r[i] = list[j]
  BY <1>2, <1>3
<1>10. GoodList(r)
  BY <1>3, <1>5, <1>6 DEF GoodList
<1>11. QED
  BY <1>4, <1>7, <1>8, <1>9, <1>10 DEF AfterNext, s_workers_next, r

(***************************************************************************)
(* s_workers_purge: it stops at the first worker that is alive, and yet it *)
(* removes exactly the workers that are not.                               *)
(***************************************************************************)
LEMMA SuffixGood ==
  ASSUME NEW list, GoodList(list), NEW k \in 1..Len(list)
  PROVE  LET r == SubSeq(list, k, Len(list))
         IN  /\ GoodList(r)
             /\ Len(r) = Len(list) - k + 1
             /\ \A i \in 1..Len(r) : r[i] = list[k + i - 1]
<1> DEFINE r == SubSeq(list, k, Len(list))
<1>1. list \in Seq(WorkerEntry) /\ Unique(list) /\ Ordered(list)
  BY DEF GoodList
<1>2. Len(list) \in Nat
  BY <1>1, LenProperties
<1>3. /\ r \in Seq(WorkerEntry)
      /\ Len(r) = IF k <= Len(list) THEN Len(list) - k + 1 ELSE 0
      /\ \A i \in 1..(Len(list) - k + 1) : r[i] = list[k + i - 1]
  <2>1. \A i \in k..Len(list) : list[i] \in WorkerEntry
    BY <1>1, <1>2, ElementOfSeq
  <2>2. QED
    BY <1>2, <2>1, SubSeqProperties
<1> HIDE DEF r
<1>4. /\ Len(r) = Len(list) - k + 1
      /\ \A i \in 1..Len(r) : r[i] = list[k + i - 1] /\ k + i - 1 \in 1..Len(list)
  BY <1>2, <1>3
<1>5. Unique(r)
  <2>1. SUFFICES ASSUME NEW i \in 1..Len(r), NEW j \in 1..Len(r),
                        r[i].identity = r[j].identity
                 PROVE  i = j
    BY DEF Unique
  <2>2. k + i - 1 = k + j - 1
    BY SMTT(30), <1>1, <1>4, <2>1 DEF Unique
  <2>3. QED
    BY <2>2
<1>6. Ordered(r)
  <2>1. SUFFICES ASSUME NEW i \in 1..Len(r), NEW j \in 1..Len(r), i <= j
                 PROVE  r[i].expiry <= r[j].expiry
    BY DEF Ordered
  <2>2. k + i - 1 <= k + j - 1
    BY <1>2, <2>1
  <2>3. QED
    BY <1>1, <1>4, <2>1, <2>2 DEF Ordered
<1>7. GoodList(r)
  BY <1>3, <1>5, <1>6 DEF GoodList
<1>8. \A i \in 1..Len(r) : r[i] = list[k + i - 1]
  BY <1>4
<1>9. QED
  BY <1>4, <1>7, <1>8 DEF r

THEOREM PurgeKeepsGood ==
  ASSUME NEW list, GoodList(list)
  PROVE  LET r == s_workers_purge(list)
         IN  /\ GoodList(r)
             /\ \A i \in 1..Len(r) : Alive(r[i]) /\ \E j \in 1..Len(list) : r[i] = list[j]
             /\ \A j \in 1..Len(list) :
                  Alive(list[j]) => \E i \in 1..Len(r) : r[i] = list[j]
<1> DEFINE r == s_workers_purge(list)
           alive == {i \in 1..Len(list) : Alive(list[i])}
           k == Min(alive)
<1>1. list \in Seq(WorkerEntry) /\ Ordered(list)
  BY DEF GoodList
<1>2. Len(list) \in Nat
  BY <1>1, LenProperties
<1>3. CASE alive = {}
  <2>1. r = <<>>
    BY <1>3 DEF s_workers_purge
  <2> HIDE DEF r
  <2>2. /\ <<>> \in Seq(WorkerEntry)
        /\ Len(<<>>) = 0
    BY EmptySeq
  <2>3. GoodList(<<>>)
    BY <2>2 DEF GoodList, Unique, Ordered
  <2>4. \A i \in 1..Len(r) : FALSE
    BY <2>1, <2>2
  <2>5. \A j \in 1..Len(list) : ~ Alive(list[j])
    BY <1>3
  <2>6. QED
    BY <2>1, <2>3, <2>4, <2>5 DEF r
<1>4. CASE alive # {}
  <2>1. k \in alive /\ \A n \in alive : k <= n
    <3>1. alive \subseteq Nat
      BY <1>2
    <3>2. QED
      BY <1>4, <3>1, MinNat
  <2>2. r = SubSeq(list, k, Len(list))
    BY <1>4 DEF s_workers_purge
  <2>3. k \in 1..Len(list) /\ Alive(list[k])
    BY <2>1
  <2>4. \A n \in 1..Len(list) : Alive(list[n]) => k <= n
    BY <2>1
  <2> HIDE DEF k, alive, r
  <2>5. /\ GoodList(r)
        /\ Len(r) = Len(list) - k + 1
        /\ \A i \in 1..Len(r) : r[i] = list[k + i - 1]
    BY <2>2, <2>3, SuffixGood
  <2>6. \A i \in 1..Len(r) : Alive(r[i]) /\ \E j \in 1..Len(list) : r[i] = list[j]
    <3>1. TAKE i \in 1..Len(r)
    <3>2. /\ k + i - 1 \in 1..Len(list)
          /\ k <= k + i - 1
          /\ r[i] = list[k + i - 1]
      BY <1>2, <2>3, <2>5
    <3>3. list[k].expiry <= list[k + i - 1].expiry
      BY <1>1, <2>3, <3>2 DEF Ordered
    <3>4. list[k].expiry \in Nat /\ list[k + i - 1].expiry \in Nat
      BY <1>1, <2>3, <3>2, ElementOfSeq, EntryType
    <3>5. Alive(r[i])
      BY <2>3, <3>2, <3>3, <3>4 DEF Alive
    <3>6. QED
      BY <3>2, <3>5
  <2>7. \A j \in 1..Len(list) :
          Alive(list[j]) => \E i \in 1..Len(r) : r[i] = list[j]
    <3>1. SUFFICES ASSUME NEW j \in 1..Len(list), Alive(list[j])
                   PROVE  \E i \in 1..Len(r) : r[i] = list[j]
      OBVIOUS
    <3>2. j - k + 1 \in 1..Len(r) /\ r[j - k + 1] = list[j]
      BY <1>2, <2>3, <2>4, <2>5, <3>1
    <3>3. QED
      BY <3>2
  <2>8. QED
    BY <2>5, <2>6, <2>7 DEF r
<1>5. QED
  BY <1>3, <1>4

(***************************************************************************)
(* A tick changes neither the workers nor their order.                     *)
(***************************************************************************)
THEOREM TickKeepsGood ==
  ASSUME NEW list, GoodList(list)
  PROVE  LET r == [i \in 1..Len(list) |-> [list[i] EXCEPT !.expiry = Sooner(@)]]
         IN  /\ GoodList(r)
             /\ Len(r) = Len(list)
             /\ \A i \in 1..Len(list) :
                  /\ r[i].identity = list[i].identity
                  /\ r[i].expiry = Sooner(list[i].expiry)
<1> DEFINE r == [i \in 1..Len(list) |-> [list[i] EXCEPT !.expiry = Sooner(@)]]
<1>1. list \in Seq(WorkerEntry) /\ Unique(list) /\ Ordered(list)
  BY DEF GoodList
<1>2. Len(list) \in Nat
  BY <1>1, LenProperties
<1>3. \A i \in 1..Len(list) :
        /\ list[i] \in WorkerEntry
        /\ list[i].expiry \in Nat
        /\ list[i].expiry \in 0..Expiry
  BY <1>1, ElementOfSeq, EntryType
<1>4. \A i \in 1..Len(list) :
        /\ r[i] \in WorkerEntry
        /\ r[i].identity = list[i].identity
        /\ r[i].expiry = Sooner(list[i].expiry)
  BY <1>3, ExpiryNat DEF WorkerEntry, Sooner
<1>5. r \in Seq(WorkerEntry) /\ Len(r) = Len(list)
  <2>1. r \in [1..Len(list) -> WorkerEntry]
    BY <1>4
  <2>2. QED
    BY <1>2, <2>1
<1> HIDE DEF r
<1>6. Unique(r)
  BY <1>1, <1>4, <1>5 DEF Unique
<1>7. Ordered(r)
  BY <1>1, <1>3, <1>4, <1>5 DEF Ordered, Sooner
<1>8. QED
  BY <1>4, <1>5, <1>6, <1>7 DEF GoodList, r

(***************************************************************************)
(* The inductive invariant of the queue.  NoPopFromEmpty is not inductive  *)
(* alone: a queue that is down has nothing left to receive, or it would    *)
(* come back with an empty list and a request reported.                    *)
(***************************************************************************)
QueueInv ==
  /\ GoodList(workers)
  /\ NoPopFromEmpty
  /\ revents \subseteq {"backend", "frontend"}
  /\ revents # {} => qphase = "handle"

QueueStep ==
  \/ QPoll
  \/ \E w \in Worker : QBackend(w)
  \/ QFrontend
  \/ QHeartbeat
  \/ QStop
  \/ QStart

LEMMA EmptyGood == GoodList(<<>>)
<1>1. <<>> \in Seq(WorkerEntry) /\ Len(<<>>) = 0
  BY EmptySeq
<1>2. QED
  BY <1>1 DEF GoodList, Unique, Ordered

LEMMA QueueInvInit == PPQueueInit /\ FrontendInit => QueueInv
  BY EmptyGood DEF PPQueueInit, FrontendInit, QueueInv, NoPopFromEmpty

LEMMA QueueInvStep == QueueInv /\ QueueStep => QueueInv'
<1> SUFFICES ASSUME QueueInv, QueueStep PROVE QueueInv'
  OBVIOUS
<1> USE DEF QueueInv, NoPopFromEmpty
<1>1. CASE QPoll
  BY <1>1 DEF QPoll, Polled
<1>2. ASSUME NEW w \in Worker, QBackend(w)
      PROVE  QueueInv'
  <2>1. GoodList(workers') /\ workers' # <<>>
    BY <1>2, ReadyKeepsGood DEF QBackend
  <2>2. revents' = revents \ {"backend"} /\ qphase' = qphase
    BY <1>2 DEF QBackend
  <2>3. QED
    BY <2>1, <2>2
<1>3. CASE QFrontend
  <2>1. workers # <<>> /\ workers' = AfterNext(workers) /\ revents' = {}
    BY <1>3 DEF QFrontend
  <2>2. GoodList(workers')
    BY <2>1, NextKeepsGood
  <2>3. QED
    BY <2>1, <2>2
<1>4. CASE QHeartbeat
  <2>1. workers' = s_workers_purge(workers) /\ revents' = {}
    BY <1>4 DEF QHeartbeat, frontendVars
  <2>2. GoodList(workers')
    BY <2>1, PurgeKeepsGood
  <2>3. QED
    BY <2>1, <2>2
<1>5. CASE QStop
  BY <1>5, EmptyGood DEF QStop, FrontendDown
<1>6. CASE QStart
  BY <1>6, EmptyGood DEF QStart, frontendVars
<1>7. QED
  BY <1>1, <1>2, <1>3, <1>4, <1>5, <1>6 DEF QueueStep

LEMMA QueueInvTick ==
  QueueInv /\ QTick /\ UNCHANGED <<qphase, revents>> => QueueInv'
<1> SUFFICES ASSUME QueueInv, QTick, UNCHANGED <<qphase, revents>>
             PROVE  QueueInv'
  OBVIOUS
<1>1. GoodList(workers') /\ Len(workers') = Len(workers)
  BY TickKeepsGood DEF QueueInv, QTick
<1>2. workers # <<>> => workers' # <<>>
  BY <1>1, EmptySeq DEF QueueInv, GoodList
<1>3. QED
  BY <1>1, <1>2 DEF QueueInv, NoPopFromEmpty

LEMMA QueueInvStutter ==
  QueueInv /\ UNCHANGED <<workers, qphase, revents>> => QueueInv'
  BY DEF QueueInv, NoPopFromEmpty

LEMMA QueueInvParts == QueueInv => UniqueWorkers /\ LRUOrder /\ NoPopFromEmpty
  BY DEF QueueInv, GoodList, Unique, Ordered, UniqueWorkers, LRUOrder

(***************************************************************************)
(* Refinement: the list, read as a set of leases.                          *)
(***************************************************************************)
LeaseFn(list) ==
  [w \in Identities(list) |-> (CHOOSE e \in ToSet(list) : e.identity = w).expiry]

LEMMA LeaseFnProps ==
  ASSUME NEW list, GoodList(list)
  PROVE  /\ DOMAIN LeaseFn(list) = Identities(list)
         /\ \A i \in 1..Len(list) : LeaseFn(list)[list[i].identity] = list[i].expiry
<1>1. DOMAIN list = 1..Len(list)
  BY LenProperties DEF GoodList
<1>2. ASSUME NEW i \in 1..Len(list)
      PROVE  LeaseFn(list)[list[i].identity] = list[i].expiry
  <2> DEFINE w == list[i].identity
             e == CHOOSE x \in ToSet(list) : x.identity = w
  <2>1. list[i] \in ToSet(list)
    BY <1>1 DEF ToSet
  <2>2. e \in ToSet(list) /\ e.identity = w
    BY <2>1
  <2>3. PICK j \in 1..Len(list) : e = list[j]
    BY <1>1, <2>2 DEF ToSet
  <2>4. j = i
    BY <2>2, <2>3 DEF GoodList, Unique
  <2>5. w \in Identities(list)
    BY DEF Identities
  <2>6. QED
    BY <2>3, <2>4, <2>5 DEF LeaseFn
<1>3. QED
  BY <1>2 DEF LeaseFn

LEMMA LeaseOfIs == LeaseOf = LeaseFn(workers)
  BY DEF LeaseOf, LeaseFn, Listed, Identities

(* Two functions with one domain and the same values are equal.            *)
LEMMA LeaseFnEqual ==
  ASSUME NEW list, GoodList(list), NEW D, NEW f, f = [w \in D |-> f[w]],
         Identities(list) = D,
         \A i \in 1..Len(list) : list[i].expiry = f[list[i].identity]
  PROVE  LeaseFn(list) = f
<1>1. ASSUME NEW w \in D
      PROVE  LeaseFn(list)[w] = f[w]
  <2>1. PICK i \in 1..Len(list) : w = list[i].identity
    BY DEF Identities
  <2>2. LeaseFn(list)[w] = list[i].expiry
    BY <2>1, LeaseFnProps
  <2>3. QED
    BY <2>1, <2>2
<1>2. LeaseFn(list) = [w \in D |-> LeaseFn(list)[w]]
  BY DEF LeaseFn
<1>3. QED
  BY <1>1, <1>2

(* What the operations on the list do to the leases.                       *)
LEMMA ReadyRenews ==
  ASSUME NEW list, GoodList(list), NEW w \in Worker
  PROVE  LeaseFn(s_worker_ready(s_worker_new(w), list)) =
           [v \in Identities(list) \cup {w} |->
              IF v = w THEN Expiry ELSE LeaseFn(list)[v]]
<1> DEFINE r == s_worker_ready(s_worker_new(w), list)
           D == Identities(list) \cup {w}
           f == [v \in D |-> IF v = w THEN Expiry ELSE LeaseFn(list)[v]]
<1>1. GoodList(r) /\ Identities(r) = D
  BY ReadyKeepsGood
<1>2. \A i \in 1..Len(r) :
        IF r[i].identity = w THEN r[i].expiry = Expiry
        ELSE \E j \in 1..Len(list) : r[i] = list[j]
  BY ReadyKeepsGood
<1>3. ASSUME NEW i \in 1..Len(r)
      PROVE  r[i].expiry = f[r[i].identity]
  <2>1. r[i].identity \in D
    BY <1>1 DEF Identities
  <2>2. CASE r[i].identity = w
    BY <1>2, <2>1, <2>2
  <2>3. CASE r[i].identity # w
    <3>1. PICK j \in 1..Len(list) : r[i] = list[j]
      BY <1>2, <2>3
    <3>2. LeaseFn(list)[list[j].identity] = list[j].expiry
      BY LeaseFnProps
    <3>3. QED
      BY <2>1, <2>3, <3>1, <3>2
  <2>4. QED
    BY <2>2, <2>3
<1>4. f = [v \in D |-> f[v]]
  OBVIOUS
<1> HIDE DEF f, D, r
<1>5. LeaseFn(r) = f
  BY <1>1, <1>3, <1>4, LeaseFnEqual
<1>6. QED
  BY <1>5 DEF f, D, r

(* A list whose entries are some of another's holds some of its leases.    *)
LEMMA SubListRestricts ==
  ASSUME NEW list, GoodList(list), NEW r, GoodList(r),
         \A i \in 1..Len(r) : \E j \in 1..Len(list) : r[i] = list[j]
  PROVE  LeaseFn(r) = [v \in Identities(r) |-> LeaseFn(list)[v]]
<1> DEFINE D == Identities(r)
           f == [v \in D |-> LeaseFn(list)[v]]
<1>1. ASSUME NEW i \in 1..Len(r)
      PROVE  r[i].expiry = f[r[i].identity]
  <2>1. r[i].identity \in D
    BY DEF Identities
  <2>2. PICK j \in 1..Len(list) : r[i] = list[j]
    OBVIOUS
  <2>3. LeaseFn(list)[list[j].identity] = list[j].expiry
    BY LeaseFnProps
  <2>4. QED
    BY <2>1, <2>2, <2>3
<1>2. f = [v \in D |-> f[v]]
  OBVIOUS
<1> HIDE DEF f
<1>3. LeaseFn(r) = f
  BY <1>1, <1>2, LeaseFnEqual
<1>4. QED
  BY <1>3 DEF f

LEMMA PurgeSweeps ==
  ASSUME NEW list, GoodList(list), NEW r, r = s_workers_purge(list)
  PROVE  LeaseFn(r) =
           [v \in {w \in Identities(list) : LeaseFn(list)[w] > 0} |->
              LeaseFn(list)[v]]
<1>1. /\ GoodList(r)
      /\ \A i \in 1..Len(r) : Alive(r[i]) /\ \E j \in 1..Len(list) : r[i] = list[j]
      /\ \A j \in 1..Len(list) :
           Alive(list[j]) => \E i \in 1..Len(r) : r[i] = list[j]
  BY PurgeKeepsGood
<1>2. LeaseFn(r) = [v \in Identities(r) |-> LeaseFn(list)[v]]
  BY <1>1, SubListRestricts
<1>3. Identities(r) = {w \in Identities(list) : LeaseFn(list)[w] > 0}
  <2>1. ASSUME NEW w \in Identities(r)
        PROVE  w \in Identities(list) /\ LeaseFn(list)[w] > 0
    <3>1. PICK i \in 1..Len(r) : w = r[i].identity
      BY DEF Identities
    <3>2. PICK j \in 1..Len(list) : r[i] = list[j]
      BY <1>1
    <3>3. Alive(list[j])
      BY <1>1, <3>2
    <3>4. LeaseFn(list)[w] = list[j].expiry
      BY <3>1, <3>2, LeaseFnProps
    <3>5. QED
      BY <3>1, <3>2, <3>3, <3>4 DEF Identities, Alive
  <2>2. ASSUME NEW w \in Identities(list), LeaseFn(list)[w] > 0
        PROVE  w \in Identities(r)
    <3>1. PICK j \in 1..Len(list) : w = list[j].identity
      BY DEF Identities
    <3>2. Alive(list[j])
      BY <2>2, <3>1, LeaseFnProps DEF Alive
    <3>3. PICK i \in 1..Len(r) : r[i] = list[j]
      BY <1>1, <3>2
    <3>4. QED
      BY <3>1, <3>3 DEF Identities
  <2>3. QED
    BY <2>1, <2>2
<1>4. QED
  BY <1>2, <1>3

LEMMA TickElapses ==
  ASSUME NEW list, GoodList(list), NEW r, GoodList(r), Len(r) = Len(list),
         \A i \in 1..Len(list) :
           /\ r[i].identity = list[i].identity
           /\ r[i].expiry = Sooner(list[i].expiry)
  PROVE  LeaseFn(r) = [w \in Identities(list) |-> Sooner(LeaseFn(list)[w])]
<1> DEFINE D == Identities(list)
           f == [w \in D |-> Sooner(LeaseFn(list)[w])]
<1>1. Identities(r) = D
  BY DEF Identities
<1>2. ASSUME NEW i \in 1..Len(r)
      PROVE  r[i].expiry = f[r[i].identity]
  <2>1. r[i].identity \in D /\ i \in 1..Len(list)
    BY <1>1 DEF Identities
  <2>2. LeaseFn(list)[list[i].identity] = list[i].expiry
    BY <2>1, LeaseFnProps
  <2>3. QED
    BY <2>1, <2>2
<1>3. f = [v \in D |-> f[v]]
  OBVIOUS
<1> HIDE DEF f, D
<1>4. LeaseFn(r) = f
  BY <1>1, <1>2, <1>3, LeaseFnEqual
<1>5. QED
  BY <1>4 DEF f, D

LEMMA EmptyForgets == LeaseFn(<<>>) = [w \in {} |-> 0]
<1>1. Identities(<<>>) = {}
  BY DEF Identities
<1>2. QED
  BY <1>1 DEF LeaseFn

(* Every step of the queue is a step of the abstract leases.               *)
LEMMA QueueStepRefines ==
  QueueInv /\ QueueStep => [Leases!Next]_<<LeaseOf, qphase>>
<1> SUFFICES ASSUME QueueInv, QueueStep
             PROVE  Leases!Next
  OBVIOUS
<1>1. LeaseOf = LeaseFn(workers) /\ LeaseOf' = LeaseFn(workers')
  BY LeaseOfIs DEF LeaseOf, LeaseFn, Listed, Identities
<1>2. GoodList(workers) /\ NoPopFromEmpty
  BY DEF QueueInv
<1>3. DOMAIN LeaseOf = Identities(workers)
  BY <1>1, <1>2, LeaseFnProps
<1>r. revents # {} => qphase = "handle"
  BY DEF QueueInv
<1>4. CASE QPoll
  <2>1. Leases!Wake
    BY <1>1, <1>4 DEF QPoll, Leases!Wake
  <2>2. QED
    BY <2>1 DEF Leases!Next
<1>5. ASSUME NEW w \in Worker, QBackend(w)
      PROVE  Leases!Next
  <2>1. workers' = s_worker_ready(s_worker_new(w), workers)
    BY <1>5 DEF QBackend
  <2>2. LeaseFn(workers') = [v \in Identities(workers) \cup {w} |->
                                IF v = w THEN Expiry ELSE LeaseFn(workers)[v]]
    BY <1>2, <2>1, ReadyRenews
  <2>3. Leases!Renew(w)
    BY <1>1, <1>3, <1>5, <1>r, <2>2 DEF Leases!Renew, Leases!Holders, QBackend
  <2>4. QED
    BY <2>3 DEF Leases!Next
<1>6. CASE QFrontend
  <2>1. workers # <<>> /\ workers' = AfterNext(workers)
    BY <1>2, <1>6 DEF QFrontend, NoPopFromEmpty
  <2> DEFINE w == workers[1].identity
  <2>2. /\ GoodList(AfterNext(workers))
        /\ Identities(AfterNext(workers)) = Identities(workers) \ {w}
        /\ \A i \in 1..Len(workers) : workers[1].expiry <= workers[i].expiry
        /\ \A i \in 1..Len(AfterNext(workers)) :
             \E j \in 1..Len(workers) : AfterNext(workers)[i] = workers[j]
    BY <1>2, <2>1, NextKeepsGood
  <2>3. 1 \in 1..Len(workers)
    BY <1>2, <2>1, EmptySeq DEF GoodList
  <2>4. w \in Worker /\ w \in Identities(workers)
    BY <1>2, <2>3, ElementOfSeq, EntryType DEF GoodList, Identities
  <2>5. LeaseFn(AfterNext(workers)) =
          [v \in Identities(workers) \ {w} |-> LeaseFn(workers)[v]]
    <3>1. LeaseFn(AfterNext(workers)) =
            [v \in Identities(AfterNext(workers)) |-> LeaseFn(workers)[v]]
      BY <1>2, <2>2, SubListRestricts
    <3>2. QED
      BY <3>1, <2>2
  <2>6. ASSUME NEW v \in Identities(workers)
        PROVE  LeaseFn(workers)[w] <= LeaseFn(workers)[v]
    <3>1. PICK i \in 1..Len(workers) : v = workers[i].identity
      BY DEF Identities
    <3>2. /\ LeaseFn(workers)[w] = workers[1].expiry
          /\ LeaseFn(workers)[v] = workers[i].expiry
      BY <1>2, <2>3, <3>1, LeaseFnProps
    <3>3. QED
      BY <2>2, <3>1, <3>2
  <2> HIDE DEF w
  <2>7. Leases!Take(w)
    BY <1>1, <1>3, <1>6, <1>r, <2>1, <2>4, <2>5, <2>6
    DEF Leases!Take, Leases!Holders, Leases!Restricted, QFrontend
  <2>8. QED
    BY <2>4, <2>7 DEF Leases!Next
<1>7. CASE QHeartbeat
  <2>1. workers' = s_workers_purge(workers)
    BY <1>7 DEF QHeartbeat
  <2>2. Leases!Sweep
    BY <1>1, <1>2, <1>3, <1>7, <2>1, PurgeSweeps
    DEF Leases!Sweep, Leases!Holders, Leases!Restricted, QHeartbeat
  <2>3. QED
    BY <2>2 DEF Leases!Next
<1>8. CASE QStop \/ QStart
  <2>1. workers' = <<>>
    BY <1>8 DEF QStop, QStart
  <2>2. Leases!Forget
    BY <1>1, <1>8, <2>1, EmptyForgets DEF Leases!Forget, QStop, QStart
  <2>3. QED
    BY <2>2 DEF Leases!Next
<1>9. QED
  BY <1>4, <1>5, <1>6, <1>7, <1>8 DEF QueueStep

LEMMA TickRefines == QueueInv /\ QTick /\ UNCHANGED qphase => [Leases!Next]_<<LeaseOf, qphase>>
<1> SUFFICES ASSUME QueueInv, QTick, UNCHANGED qphase
             PROVE  Leases!Next
  OBVIOUS
<1>1. LeaseOf = LeaseFn(workers) /\ LeaseOf' = LeaseFn(workers')
  BY LeaseOfIs DEF LeaseOf, LeaseFn, Listed, Identities
<1>2. GoodList(workers)
  BY DEF QueueInv
<1>3. DOMAIN LeaseOf = Identities(workers)
  BY <1>1, <1>2, LeaseFnProps
<1>4. LeaseFn(workers') = [w \in Identities(workers) |-> Sooner(LeaseFn(workers)[w])]
  <2>1. /\ GoodList(workers')
        /\ Len(workers') = Len(workers)
        /\ \A i \in 1..Len(workers) :
             /\ workers'[i].identity = workers[i].identity
             /\ workers'[i].expiry = Sooner(workers[i].expiry)
    BY <1>2, TickKeepsGood DEF QTick
  <2>2. QED
    BY <1>2, <2>1, TickElapses
<1>5. Leases!Elapse
  BY <1>1, <1>3, <1>4 DEF Leases!Elapse, Leases!Holders, Sooner
<1>6. QED
  BY <1>5 DEF Leases!Next

LEMMA LeasesInit == PPQueueInit => Leases!Init
  BY LeaseOfIs, EmptyForgets DEF PPQueueInit, Leases!Init

(***************************************************************************)
(* The list of the queue.                                                  *)
(***************************************************************************)
LEMMA OthersKeepQueue ==
  WorkerNext \/ ClientNext => UNCHANGED <<workers, qphase, revents>>
<1>1. ASSUME WorkerNext PROVE UNCHANGED <<workers, qphase, revents>>
  BY <1>1 DEF WorkerNext, queueVars, frontendVars, WStart, WHeartbeat, WRequest,
     WReply, WSilence, WGiveUp, WReconnect, WCrash, WInterrupt, WExit
<1>2. ASSUME ClientNext PROVE UNCHANGED <<workers, qphase, revents>>
  BY <1>2 DEF ClientNext, queueVars, CSend, CReply, CRetry, CAbandon, CInterrupt, CExit
<1>3. QED
  BY <1>1, <1>2

LEMMA QueueInvNext == QueueInv /\ [Next]_vars => QueueInv'
<1> SUFFICES ASSUME QueueInv, [Next]_vars PROVE QueueInv'
  OBVIOUS
<1>1. CASE QueueNext
  BY <1>1, QueueInvStep DEF QueueNext, QueueStep
<1>2. CASE WorkerNext \/ ClientNext
  BY <1>2, OthersKeepQueue, QueueInvStutter
<1>3. CASE Tick
  BY <1>3, QueueInvTick DEF Tick, frontendVars
<1>4. CASE UNCHANGED vars
  BY <1>4, QueueInvStutter DEF vars, queueVars, frontendVars
<1>5. QED
  BY <1>1, <1>2, <1>3, <1>4 DEF Next

THEOREM QueueInvariant == Spec => []QueueInv
<1>1. Init => QueueInv
  BY QueueInvInit DEF Init
<1>2. QED
  BY <1>1, QueueInvNext, PTL DEF Spec

(* In every behaviour of the pattern the list of ppqueue.c holds a worker  *)
(* once (lines 52-64), is ordered by expiry, so that the purge may stop at *)
(* the first worker alive (lines 78-80), and is never empty when           *)
(* s_workers_next takes its head (line 145).                               *)
THEOREM ListCorrect == Spec => [](UniqueWorkers /\ LRUOrder /\ NoPopFromEmpty)
<1>1. QueueInv => UniqueWorkers /\ LRUOrder /\ NoPopFromEmpty
  BY QueueInvParts
<1>2. QED
  BY <1>1, QueueInvariant, PTL

(* s_workers_next never finds the list empty: nothing between the poll     *)
(* that read it, line 116, and the pop, line 145, takes a worker from it.  *)
THEOREM NeverPopsFromEmpty == Spec => []NoPopFromEmpty
  BY ListCorrect, PTL

(* The list implements the abstract leases: whatever workers and clients   *)
(* do, each step of the queue renews one full lease, takes a lease that is *)
(* among the oldest, ends exactly the leases that have run out, or leaves  *)
(* the leases alone.                                                       *)
THEOREM ListImplementsLeases == Spec => ListIsLeases
<1>1. Init => Leases!Init
  BY LeasesInit DEF Init
<1>2. QueueInv /\ [Next]_vars => [Leases!Next]_<<LeaseOf, qphase>>
  <2> SUFFICES ASSUME QueueInv, [Next]_vars
               PROVE  [Leases!Next]_<<LeaseOf, qphase>>
    OBVIOUS
  <2>1. CASE QueueNext
    BY <2>1, QueueStepRefines DEF QueueNext, QueueStep
  <2>2. UNCHANGED <<workers, qphase>> => UNCHANGED <<LeaseOf, qphase>>
    BY DEF LeaseOf, Listed
  <2>3. CASE WorkerNext \/ ClientNext
    BY <2>2, <2>3, OthersKeepQueue
  <2>4. CASE Tick
    BY <2>4, TickRefines DEF Tick
  <2>5. CASE UNCHANGED vars
    BY <2>2, <2>5 DEF vars, queueVars
  <2>6. QED
    BY <2>1, <2>3, <2>4, <2>5 DEF Next
<1>3. QED
  BY <1>1, <1>2, QueueInvariant, PTL DEF Spec, ListIsLeases, Leases!Spec

(***************************************************************************)
(* Type correctness of each process's steps.                               *)
(***************************************************************************)
LEMMA RequestIsNoNoJob == \A m \in Request : m # NoJob
<1>1. DOMAIN NoJob = {"kind"}
  BY DEF NoJob
<1>2. \A m \in Request : DOMAIN m = {"client", "route", "seq"}
  BY DEF Request
<1>3. {"kind"} # {"client", "route", "seq"}
  OBVIOUS
<1>4. QED
  BY <1>1, <1>2, <1>3

LEMMA QueueTypes ==
  ASSUME TypeOK, QueueInv, QueueInv', QueueStep
  PROVE  FrontendTypeOK' /\ PPNetTypeOK' /\ PPQueueTypeOK' /\ online' = online
<1>1. FrontendTypeOK /\ PPNetTypeOK /\ PPQueueTypeOK
  BY DEF TypeOK
<1>2. /\ toWorker \in [Worker -> Pipe(QueueMessage)]
      /\ fromWorker \in [Worker -> Pipe(WorkerMessage)]
      /\ online \subseteq Worker
  BY <1>1, NetType
<1>3. workers' \in Seq(WorkerEntry) /\ revents' \subseteq {"backend", "frontend"}
  BY DEF QueueInv, GoodList
<1>4. SUFFICES /\ requests' \subseteq Request
               /\ replies' \subseteq Request
               /\ route' \in [Client -> Nat]
               /\ toWorker' \in [Worker -> Pipe(QueueMessage)]
               /\ fromWorker' \in [Worker -> Pipe(WorkerMessage)]
               /\ online' = online
               /\ heartbeat_at' \in 0..HEARTBEAT_INTERVAL
               /\ poll_left' \in 0..HEARTBEAT_INTERVAL
               /\ qphase' \in {"poll", "handle", "down"}
               /\ stops' \in 0..MaxStops
  BY <1>2, <1>3, NetType DEF FrontendTypeOK, PPQueueTypeOK, PPNetTypeOK, Pipe
<1> USE HeartbeatAssumption
<1>5. CASE QPoll
  BY <1>1, <1>2, <1>5 DEF QPoll, netVars, FrontendTypeOK, PPQueueTypeOK
<1>6. ASSUME NEW w \in Worker, QBackend(w)
      PROVE  /\ requests' = requests /\ route' = route
             /\ replies' \subseteq Request
             /\ fromWorker' \in [Worker -> Pipe(WorkerMessage)]
             /\ UNCHANGED <<heartbeat_at, poll_left, qphase, stops, toWorker, online>>
  <2>1. fromWorker[w] \in Pipe(WorkerMessage) /\ fromWorker[w] # <<>>
    BY <1>2, <1>6 DEF QBackend
  <2>2. Head(fromWorker[w]) \in WorkerMessage /\ Tail(fromWorker[w]) \in Pipe(WorkerMessage)
    BY <2>1, PipeTail
  <2>3. fromWorker' \in [Worker -> Pipe(WorkerMessage)]
    BY <1>2, <1>6, <2>2 DEF QBackend
  <2>4. replies' \subseteq Request
    BY <1>1, <1>6, <2>2, MessageTypes DEF QBackend, RoutedReplies, FrontendTypeOK
  <2>5. QED
    BY <1>6, <2>3, <2>4 DEF QBackend
<1>7. CASE QFrontend
  <2>1. PICK m \in requests :
          /\ requests' = requests \ {m}
          /\ RouterSend({s_workers_next(workers)}, RequestMsg(m))
    BY <1>7 DEF QFrontend
  <2>2. RequestMsg(m) \in QueueMessage
    BY <1>1, MessageTypes DEF FrontendTypeOK
  <2>3. toWorker' \in [Worker -> Pipe(QueueMessage)]
    BY <1>1, <2>1, <2>2, RouterSendType
  <2>4. QED
    BY <1>1, <1>2, <1>7, <2>1, <2>3 DEF QFrontend, FrontendTypeOK, PPQueueTypeOK
<1>8. CASE QHeartbeat
  <2>1. toWorker' \in [Worker -> Pipe(QueueMessage)]
    BY <1>1, <1>2, <1>8, RouterSendType, MessageTypes DEF QHeartbeat
  <2>2. heartbeat_at' \in 0..HEARTBEAT_INTERVAL
    BY <1>1, <1>8 DEF QHeartbeat, PPQueueTypeOK
  <2>3. QED
    BY <1>1, <1>2, <1>8, <2>1, <2>2
    DEF QHeartbeat, frontendVars, FrontendTypeOK, PPQueueTypeOK
<1>9. CASE QStop
  <2>1. FrontendTypeOK'
    BY <1>1, <1>9, FrontendDownType DEF QStop
  <2>2. /\ toWorker' \in [Worker -> Pipe(QueueMessage)]
        /\ fromWorker' \in [Worker -> Pipe(WorkerMessage)]
    BY <1>1, <1>9, BackendDownType DEF QStop
  <2>3. stops' \in 0..MaxStops
    BY <1>1, <1>9 DEF QStop, PPQueueTypeOK
  <2>4. QED
    BY <1>9, <2>1, <2>2, <2>3 DEF QStop, FrontendTypeOK
<1>10. CASE QStart
  BY <1>1, <1>2, <1>10
  DEF QStart, frontendVars, netVars, FrontendTypeOK, PPQueueTypeOK
<1>11. CASE \E w \in Worker : QBackend(w)
  BY <1>1, <1>2, <1>6, <1>11 DEF FrontendTypeOK, PPQueueTypeOK
<1>12. QED
  BY <1>5, <1>7, <1>8, <1>9, <1>10, <1>11 DEF QueueStep

LEMMA TickTypes == TypeOK /\ QueueInv' /\ Tick => TypeOK'
<1> SUFFICES ASSUME TypeOK, QueueInv', Tick
             PROVE  TypeOK'
  OBVIOUS
<1> USE HeartbeatAssumption, WorkerAssumption
<1>1. FrontendTypeOK' /\ LPClientTypeOK' /\ PPNetTypeOK'
  BY DEF TypeOK, Tick, frontendVars, netVars, clientVars, FrontendTypeOK,
     LPClientTypeOK, PPNetTypeOK
<1>2. PPQueueTypeOK'
  <2>1. workers' \in Seq(WorkerEntry)
    BY DEF QueueInv, GoodList
  <2>2. /\ heartbeat_at' \in 0..HEARTBEAT_INTERVAL
        /\ poll_left' \in 0..HEARTBEAT_INTERVAL
    BY SMTT(30) DEF TypeOK, Tick, QTick, Sooner, PPQueueTypeOK
  <2>3. qphase' = qphase /\ stops' = stops
    BY DEF Tick
  <2>4. QED
    BY <2>1, <2>2, <2>3 DEF TypeOK, PPQueueTypeOK
<1>3. nap' \in [Worker -> Nat]
  BY DEF TypeOK, Tick, WTick, PPWorkerTypeOK
<1>4. heartbeat_due' \in [Worker -> -1..WORKER_INTERVAL]
  BY DEF TypeOK, Tick, WTick, PPWorkerTypeOK
<1>5. PPWorkerTypeOK'
  BY <1>3, <1>4 DEF TypeOK, Tick, netVars, PPWorkerTypeOK, Running
<1>6. QED
  BY <1>1, <1>2, <1>5 DEF TypeOK

(* The worker: what every turn has in common, then its actions.            *)
LEMMA TurnTypes ==
  ASSUME PPWorkerTypeOK, NEW w \in Worker, EndTurn(w)
  PROVE  /\ heartbeat_due' \in [Worker -> -1..WORKER_INTERVAL]
         /\ wphase' = [wphase EXCEPT ![w] = "poll"]
         /\ nap' \in [Worker -> Nat]
  BY WorkerAssumption DEF PPWorkerTypeOK, EndTurn

LEMMA BeatType ==
  ASSUME NEW w \in Worker
  PROVE  /\ Beat(w) \in Seq(WorkerMessage)
         /\ \A m \in WorkerMessage : <<m>> \o Beat(w) \in Seq(WorkerMessage)
<1>1. Beat(w) \in Seq(WorkerMessage)
  BY MessageTypes DEF Beat
<1>2. ASSUME NEW m \in WorkerMessage
      PROVE  <<m>> \o Beat(w) \in Seq(WorkerMessage)
  BY <1>1, ConcatProperties
<1>3. QED
  BY <1>1, <1>2

LEMMA DealerSendType ==
  ASSUME PPNetTypeOK, NEW w \in Worker, NEW msgs \in Seq(WorkerMessage),
         DealerSend(w, msgs)
  PROVE  fromWorker' \in [Worker -> Pipe(WorkerMessage)]
<1>1. fromWorker \in [Worker -> Pipe(WorkerMessage)]
  BY NetType
<1>2. fromWorker[w] \in Seq(WorkerMessage)
  BY <1>1 DEF Pipe
<1>3. fromWorker[w] \o msgs \in Pipe(WorkerMessage)
  BY <1>2, PipeConcat DEF DealerSend
<1>4. QED
  BY <1>1, <1>3 DEF DealerSend

LEMMA ReceivesType ==
  ASSUME PPNetTypeOK, NEW w \in Worker, NEW kind, Receives(w, kind)
  PROVE  /\ toWorker' \in [Worker -> Pipe(QueueMessage)]
         /\ Head(toWorker[w]) \in QueueMessage
<1>1. toWorker \in [Worker -> Pipe(QueueMessage)]
  BY NetType
<1>2. toWorker[w] \in Pipe(QueueMessage) /\ toWorker[w] # <<>>
  BY <1>1 DEF Receives
<1>3. Head(toWorker[w]) \in QueueMessage /\ Tail(toWorker[w]) \in Pipe(QueueMessage)
  BY <1>2, PipeTail
<1>4. QED
  BY <1>1, <1>3 DEF Receives

(* A step of w within its loop: the parts a turn sets are well typed, the  *)
(* worker stays running, and it has a job exactly while it works.          *)
LEMMA RunningStep ==
  ASSUME PPNetTypeOK, PPWorkerTypeOK, NEW w \in Worker, Running(w),
         toWorker' \in [Worker -> Pipe(QueueMessage)],
         fromWorker' \in [Worker -> Pipe(WorkerMessage)],
         online' = online,
         NEW p \in {"poll", "work", "backoff"},
         wphase' = [wphase EXCEPT ![w] = p],
         NEW j \in Request \cup {NoJob},
         job' = [job EXCEPT ![w] = j],
         j # NoJob <=> p = "work",
         liveness' \in [Worker -> 0..WORKER_LIVENESS],
         interval' \in [Worker -> Nat \ {0}],
         cycles' \in [Worker -> 0..CRASH_FREE_CYCLES],
         heartbeat_due' \in [Worker -> -1..WORKER_INTERVAL],
         nap' \in [Worker -> Nat]
  PROVE  PPNetTypeOK' /\ PPWorkerTypeOK'
<1>1. PPNetTypeOK'
  <2>1. online' \subseteq Worker
    BY DEF PPNetTypeOK
  <2>2. QED
    BY <2>1 DEF PPNetTypeOK, Pipe
<1>2. wphase' \in [Worker -> WorkerPhase]
  BY DEF PPWorkerTypeOK, WorkerPhase
<1>3. job' \in [Worker -> Request \cup {NoJob}]
  BY DEF PPWorkerTypeOK
<1>4. \A v \in Worker : job'[v] # NoJob <=> wphase'[v] = "work"
  BY DEF PPWorkerTypeOK
<1>5. \A v \in Worker : Running(v)' <=> Running(v)
  BY DEF PPWorkerTypeOK, Running
<1>6. online' = {v \in Worker : Running(v)'}
  BY <1>5 DEF PPWorkerTypeOK
<1>7. QED
  BY <1>1, <1>2, <1>3, <1>4, <1>6 DEF PPWorkerTypeOK

LEMMA ExitTypes ==
  ASSUME PPNetTypeOK, PPWorkerTypeOK, NEW w \in Worker, WExit(w)
  PROVE  PPNetTypeOK' /\ PPWorkerTypeOK'
<1> USE WorkerAssumption
<1>1. /\ toWorker' \in [Worker -> Pipe(QueueMessage)]
      /\ fromWorker' \in [Worker -> Pipe(WorkerMessage)]
  BY ClosePipesType, EmptySeq DEF WExit
<1>2. PPNetTypeOK'
  <2>1. online' \subseteq Worker
    BY DEF PPNetTypeOK, WExit
  <2>2. QED
    BY <1>1, <2>1 DEF PPNetTypeOK, Pipe
<1>3. wphase' \in [Worker -> WorkerPhase]
  BY DEF PPWorkerTypeOK, WorkerPhase, WExit
<1>4. /\ liveness' \in [Worker -> 0..WORKER_LIVENESS]
      /\ interval' \in [Worker -> Nat \ {0}]
      /\ cycles' \in [Worker -> 0..CRASH_FREE_CYCLES]
      /\ heartbeat_due' \in [Worker -> -1..WORKER_INTERVAL]
      /\ nap' \in [Worker -> Nat]
      /\ job' \in [Worker -> Request \cup {NoJob}]
  BY DEF PPWorkerTypeOK, WExit
<1>5. \A v \in Worker : job'[v] # NoJob <=> wphase'[v] = "work"
  BY DEF PPWorkerTypeOK, WExit
<1>6. \A v \in Worker : Running(v)' <=> Running(v) /\ v # w
  BY DEF PPWorkerTypeOK, Running, WExit
<1>7. online' = {v \in Worker : Running(v)'}
  BY <1>6 DEF PPWorkerTypeOK, WExit
<1>8. QED
  BY <1>2, <1>3, <1>4, <1>5, <1>7 DEF PPWorkerTypeOK

LEMMA StartTypes ==
  ASSUME PPNetTypeOK, PPWorkerTypeOK, NEW w \in Worker, WStart(w)
  PROVE  PPNetTypeOK' /\ PPWorkerTypeOK'
<1> USE WorkerAssumption
<1>1. /\ toWorker' \in [Worker -> Pipe(QueueMessage)]
      /\ fromWorker' \in [Worker -> Pipe(WorkerMessage)]
  <2>1. <<READY>> \in Seq(WorkerMessage)
    BY MessageTypes
  <2>2. fromWorker' \in [Worker -> Pipe(WorkerMessage)]
    BY <2>1, DealerSendType DEF WStart
  <2>3. QED
    BY <2>2, NetType DEF WStart
<1>2. PPNetTypeOK'
  <2>1. online' \subseteq Worker
    BY DEF PPNetTypeOK, WStart
  <2>2. QED
    BY <1>1, <2>1 DEF PPNetTypeOK, Pipe
<1>3. /\ wphase' \in [Worker -> WorkerPhase]
      /\ liveness' \in [Worker -> 0..WORKER_LIVENESS]
      /\ heartbeat_due' \in [Worker -> -1..WORKER_INTERVAL]
      /\ nap' \in [Worker -> Nat]
      /\ UNCHANGED <<interval, cycles, job>>
  BY DEF PPWorkerTypeOK, WorkerPhase, WStart
<1>4. \A v \in Worker : job'[v] # NoJob <=> wphase'[v] = "work"
  BY DEF PPWorkerTypeOK, WStart
<1>5. \A v \in Worker : Running(v)' <=> Running(v) \/ v = w
  BY DEF PPWorkerTypeOK, Running, WStart
<1>6. online' = {v \in Worker : Running(v)'}
  BY <1>5 DEF PPWorkerTypeOK, WStart
<1>7. QED
  BY <1>2, <1>3, <1>4, <1>6 DEF PPWorkerTypeOK

LEMMA LoopTypes ==
  ASSUME PPNetTypeOK, PPWorkerTypeOK, LivenessPositive, NEW w \in Worker, WStep(w)
  PROVE  PPNetTypeOK' /\ PPWorkerTypeOK'
<1> USE WorkerAssumption
<1>1. /\ toWorker \in [Worker -> Pipe(QueueMessage)]
      /\ fromWorker \in [Worker -> Pipe(WorkerMessage)]
  BY NetType
<1>2. Beat(w) \in Seq(WorkerMessage)
  BY BeatType
<1>3. /\ wphase[w] = "poll" => job[w] = NoJob /\ Running(w)
      /\ wphase[w] = "backoff" => job[w] = NoJob /\ Running(w)
      /\ wphase[w] = "work" => job[w] \in Request /\ Running(w)
  BY DEF PPWorkerTypeOK, Running
<1>4. job[w] = NoJob => job = [job EXCEPT ![w] = NoJob]
  BY DEF PPWorkerTypeOK
<1>5. \A m \in Request : m # NoJob
  BY RequestIsNoNoJob
<1>6. CASE WHeartbeat(w)
  <2>1. toWorker' \in [Worker -> Pipe(QueueMessage)]
    BY <1>6, ReceivesType DEF WHeartbeat
  <2>2. fromWorker' \in [Worker -> Pipe(WorkerMessage)]
    BY <1>2, <1>6, DealerSendType DEF WHeartbeat
  <2>3. Running(w) /\ job[w] = NoJob
    BY <1>3, <1>6 DEF WHeartbeat, Receives
  <2>4. /\ liveness' \in [Worker -> 0..WORKER_LIVENESS]
        /\ interval' \in [Worker -> Nat \ {0}]
        /\ cycles' \in [Worker -> 0..CRASH_FREE_CYCLES]
        /\ job' = job /\ online' = online
    BY <1>6 DEF WHeartbeat, PPWorkerTypeOK
  <2>5. /\ heartbeat_due' \in [Worker -> -1..WORKER_INTERVAL]
        /\ wphase' = [wphase EXCEPT ![w] = "poll"]
        /\ nap' \in [Worker -> Nat]
    BY <1>6, TurnTypes DEF WHeartbeat
  <2>6. QED
    BY <1>4, <2>1, <2>2, <2>3, <2>4, <2>5, RunningStep
<1>7. CASE WRequest(w)
  <2> DEFINE j == Head(toWorker[w]).body
  <2>1. toWorker' \in [Worker -> Pipe(QueueMessage)] /\ Head(toWorker[w]) \in QueueMessage
    BY <1>7, ReceivesType DEF WRequest
  <2>2. j \in Request
    BY <1>7, <2>1, MessageTypes DEF WRequest, Receives
  <2>3. Running(w)
    BY <1>3, <1>7 DEF WRequest, Receives
  <2>4. nap' \in [Worker -> Nat]
    <3>1. PICK overload \in {0} \cup
              IF cycles[w] = CRASH_FREE_CYCLES THEN {OVERLOAD_TIME} ELSE {} :
            nap' = [nap EXCEPT ![w] = WORK_TIME + overload]
      BY <1>7 DEF WRequest
    <3>2. WORK_TIME + overload \in Nat
      BY <3>1
    <3>3. QED
      BY <3>1, <3>2 DEF PPWorkerTypeOK
  <2>5. cycles' \in [Worker -> 0..CRASH_FREE_CYCLES]
    BY <1>7 DEF WRequest, PPWorkerTypeOK
  <2>6. /\ liveness' \in [Worker -> 0..WORKER_LIVENESS]
        /\ interval' \in [Worker -> Nat \ {0}]
        /\ heartbeat_due' \in [Worker -> -1..WORKER_INTERVAL]
        /\ fromWorker' = fromWorker /\ online' = online
        /\ wphase' = [wphase EXCEPT ![w] = "work"]
        /\ job' = [job EXCEPT ![w] = j]
    BY <1>7 DEF WRequest, PPWorkerTypeOK
  <2> HIDE DEF j
  <2>7. j # NoJob
    BY <1>5, <2>2
  <2>8. QED
    BY <1>1, <2>1, <2>2, <2>3, <2>4, <2>5, <2>6, <2>7, RunningStep
<1>8. CASE WReply(w)
  <2>1. Running(w) /\ job[w] \in Request
    BY <1>3, <1>8 DEF WReply
  <2>2. fromWorker' \in [Worker -> Pipe(WorkerMessage)]
    <3>1. <<ReplyMsg(job[w])>> \o Beat(w) \in Seq(WorkerMessage)
      BY <2>1, BeatType, MessageTypes
    <3>2. QED
      BY <1>8, <3>1, DealerSendType DEF WReply
  <2>3. /\ liveness' \in [Worker -> 0..WORKER_LIVENESS]
        /\ interval' \in [Worker -> Nat \ {0}]
        /\ cycles' \in [Worker -> 0..CRASH_FREE_CYCLES]
        /\ job' = [job EXCEPT ![w] = NoJob]
        /\ toWorker' = toWorker /\ online' = online
    BY <1>8 DEF WReply, PPWorkerTypeOK
  <2>4. /\ heartbeat_due' \in [Worker -> -1..WORKER_INTERVAL]
        /\ wphase' = [wphase EXCEPT ![w] = "poll"]
        /\ nap' \in [Worker -> Nat]
    BY <1>8, TurnTypes DEF WReply
  <2>5. QED
    BY <1>1, <2>1, <2>2, <2>3, <2>4, RunningStep
<1>9. CASE WSilence(w)
  <2>1. Running(w) /\ job[w] = NoJob
    BY <1>3, <1>9 DEF WSilence, SilentPoll
  <2>2. fromWorker' \in [Worker -> Pipe(WorkerMessage)]
    BY <1>2, <1>9, DealerSendType DEF WSilence
  <2>3. /\ interval' \in [Worker -> Nat \ {0}]
        /\ cycles' \in [Worker -> 0..CRASH_FREE_CYCLES]
        /\ job' = job /\ toWorker' = toWorker /\ online' = online
    BY <1>9 DEF WSilence, PPWorkerTypeOK
  <2>4. liveness' \in [Worker -> 0..WORKER_LIVENESS]
    BY <1>9 DEF WSilence, SilentPoll, PPWorkerTypeOK, LivenessPositive
  <2>5. /\ heartbeat_due' \in [Worker -> -1..WORKER_INTERVAL]
        /\ wphase' = [wphase EXCEPT ![w] = "poll"]
        /\ nap' \in [Worker -> Nat]
    BY <1>9, TurnTypes DEF WSilence
  <2>6. QED
    BY <1>1, <1>4, <2>1, <2>2, <2>3, <2>4, <2>5, RunningStep
<1>10. CASE WGiveUp(w)
  <2>1. Running(w) /\ job[w] = NoJob
    BY <1>3, <1>10 DEF WGiveUp, SilentPoll
  <2>2. /\ liveness' \in [Worker -> 0..WORKER_LIVENESS]
        /\ interval' \in [Worker -> Nat \ {0}]
        /\ cycles' \in [Worker -> 0..CRASH_FREE_CYCLES]
        /\ heartbeat_due' \in [Worker -> -1..WORKER_INTERVAL]
        /\ nap' \in [Worker -> Nat]
        /\ wphase' = [wphase EXCEPT ![w] = "backoff"]
        /\ job' = job /\ online' = online
        /\ toWorker' = toWorker /\ fromWorker' = fromWorker
    BY <1>10 DEF WGiveUp, netVars, PPWorkerTypeOK
  <2>3. QED
    BY <1>1, <1>4, <2>1, <2>2, RunningStep
<1>11. CASE WReconnect(w)
  <2>1. Running(w) /\ job[w] = NoJob
    BY <1>3, <1>11 DEF WReconnect
  <2>2. /\ toWorker' \in [Worker -> Pipe(QueueMessage)]
        /\ fromWorker' \in [Worker -> Pipe(WorkerMessage)]
    <3>1. <<READY>> \o Beat(w) \in Seq(WorkerMessage)
      BY BeatType, MessageTypes
    <3>2. QED
      BY <1>11, <3>1, ClosePipesType DEF WReconnect
  <2>3. /\ liveness' \in [Worker -> 0..WORKER_LIVENESS]
        /\ interval' \in [Worker -> Nat \ {0}]
        /\ cycles' \in [Worker -> 0..CRASH_FREE_CYCLES]
        /\ job' = job /\ online' = online
    BY <1>11 DEF WReconnect, Backoff, PPWorkerTypeOK
  <2>4. /\ heartbeat_due' \in [Worker -> -1..WORKER_INTERVAL]
        /\ wphase' = [wphase EXCEPT ![w] = "poll"]
        /\ nap' \in [Worker -> Nat]
    BY <1>11, TurnTypes DEF WReconnect
  <2>5. QED
    BY <1>4, <2>1, <2>2, <2>3, <2>4, RunningStep
<1>12. QED
  BY <1>6, <1>7, <1>8, <1>9, <1>10, <1>11 DEF WStep

(* The test of line 97 of ppworker.c is for equality with zero: type       *)
(* correctness of the counter needs that no turn begins with zero.         *)
LEMMA LivenessStep ==
  ASSUME PPWorkerTypeOK, LivenessPositive, NEW w \in Worker,
         \/ WStart(w) \/ WStep(w) \/ WExit(w)
  PROVE  LivenessPositive'
<1> USE WorkerAssumption DEF PPWorkerTypeOK, LivenessPositive
<1>1. CASE WStart(w)
  BY <1>1 DEF WStart
<1>2. CASE WExit(w)
  BY <1>2 DEF WExit
<1>3. CASE WHeartbeat(w)
  BY <1>3 DEF WHeartbeat, EndTurn
<1>4. CASE WRequest(w)
  BY <1>4 DEF WRequest, Receives
<1>5. CASE WReply(w)
  BY <1>5 DEF WReply, EndTurn
<1>6. CASE WSilence(w)
  BY <1>6 DEF WSilence, SilentPoll, EndTurn
<1>7. CASE WGiveUp(w)
  BY <1>7 DEF WGiveUp
<1>8. CASE WReconnect(w)
  BY <1>8 DEF WReconnect, EndTurn
<1>9. QED
  BY <1>1, <1>2, <1>3, <1>4, <1>5, <1>6, <1>7, <1>8 DEF WStep

(***************************************************************************)
(* Type correctness of the whole.  It is inductive together with the       *)
(* invariant of the queue, which types the list, and with the one of the   *)
(* workers' counters.                                                      *)
(***************************************************************************)
TypeInv == TypeOK /\ LivenessPositive /\ QueueInv

LEMMA TypeInit == Init => TypeInv
<1> SUFFICES ASSUME Init PROVE TypeInv
  OBVIOUS
<1> USE HeartbeatAssumption, WorkerAssumption, RetriesAssumption, MaxRequestsAssumption
        DEF Init
<1>1. FrontendTypeOK
  BY DEF FrontendInit, FrontendTypeOK
<1>2. LPClientTypeOK
  BY DEF LPClientInit, LPClientTypeOK, ClientPhase
<1>3. PPNetTypeOK
  BY PipeEmpty, NetType DEF PPNetInit
<1>4. QueueInv
  BY QueueInvInit
<1>5. PPQueueTypeOK
  BY <1>4 DEF PPQueueInit, PPQueueTypeOK, QueueInv, GoodList
<1>6. PPWorkerTypeOK /\ LivenessPositive
  BY DEF PPWorkerInit, PPNetInit, PPWorkerTypeOK, WorkerPhase, Running, LivenessPositive
<1>7. QED
  BY <1>1, <1>2, <1>3, <1>4, <1>5, <1>6 DEF TypeInv, TypeOK

LEMMA TypeNext == TypeInv /\ [Next]_vars => TypeInv'
<1> SUFFICES ASSUME TypeInv, [Next]_vars PROVE TypeInv'
  OBVIOUS
<1>1. /\ TypeOK /\ QueueInv /\ LivenessPositive
      /\ FrontendTypeOK /\ LPClientTypeOK /\ PPNetTypeOK
      /\ PPQueueTypeOK /\ PPWorkerTypeOK
  BY DEF TypeInv, TypeOK
<1>2. QueueInv'
  BY <1>1, QueueInvNext
<1>3. CASE QueueNext
  <2>1. /\ FrontendTypeOK' /\ PPNetTypeOK' /\ PPQueueTypeOK'
        /\ online' = online
    BY <1>1, <1>2, <1>3, QueueTypes DEF QueueNext, QueueStep
  <2>2. UNCHANGED <<workerVars, clientVars>>
    BY <1>3 DEF QueueNext
  <2>3. LPClientTypeOK' /\ PPWorkerTypeOK' /\ LivenessPositive'
    BY <1>1, <2>1, <2>2 DEF workerVars, clientVars, LPClientTypeOK, PPWorkerTypeOK,
       Running, LivenessPositive
  <2>4. QED
    BY <1>2, <2>1, <2>3 DEF TypeInv, TypeOK
<1>4. CASE WorkerNext
  <2>1. PICK w \in Worker :
          /\ \/ WStart(w)
             \/ WStep(w)
             \/ WExit(w)
          /\ UNCHANGED <<queueVars, clientVars>>
    BY <1>4 DEF WorkerNext, WStep, WCrash, WInterrupt
  <2>2. PPNetTypeOK' /\ PPWorkerTypeOK'
    BY <1>1, <2>1, StartTypes, LoopTypes, ExitTypes
  <2>3. LivenessPositive'
    BY <1>1, <2>1, LivenessStep
  <2>4. UNCHANGED frontendVars
    BY <2>1 DEF WStart, WStep, WExit, WHeartbeat, WRequest, WReply, WSilence,
       WGiveUp, WReconnect
  <2>5. FrontendTypeOK' /\ LPClientTypeOK' /\ PPQueueTypeOK'
    BY <1>1, <2>1, <2>4 DEF queueVars, clientVars, frontendVars, FrontendTypeOK,
       LPClientTypeOK, PPQueueTypeOK
  <2>6. QED
    BY <1>2, <2>2, <2>3, <2>5 DEF TypeInv, TypeOK
<1>5. CASE ClientNext
  <2>1. FrontendTypeOK' /\ LPClientTypeOK'
    BY <1>1, <1>5, ClientTypes DEF ClientNext
  <2>2. UNCHANGED <<queueVars, netVars, workerVars>>
    BY <1>5 DEF ClientNext
  <2>3. PPNetTypeOK' /\ PPQueueTypeOK' /\ PPWorkerTypeOK' /\ LivenessPositive'
    BY <1>1, <2>2 DEF queueVars, netVars, workerVars, PPNetTypeOK, PPQueueTypeOK,
       PPWorkerTypeOK, Running, LivenessPositive
  <2>4. QED
    BY <1>2, <2>1, <2>3 DEF TypeInv, TypeOK
<1>6. CASE Tick
  <2>1. TypeOK'
    BY <1>1, <1>2, <1>6, TickTypes
  <2>2. LivenessPositive'
    BY <1>1, <1>6 DEF Tick, LivenessPositive
  <2>3. QED
    BY <1>2, <2>1, <2>2 DEF TypeInv
<1>7. CASE UNCHANGED vars
  BY <1>1, <1>2, <1>7 DEF vars, queueVars, netVars, workerVars, clientVars,
     frontendVars, TypeInv, TypeOK, FrontendTypeOK, LPClientTypeOK, PPNetTypeOK,
     PPQueueTypeOK, PPWorkerTypeOK, Running, LivenessPositive
<1>8. QED
  BY <1>3, <1>4, <1>5, <1>6, <1>7 DEF Next

(* Every variable keeps its type, no pipe ever exceeds HWM, and every      *)
(* online worker is one whose process runs.                                *)
THEOREM TypeCorrect == Spec => []TypeOK
<1>1. TypeInv => TypeOK
  BY DEF TypeInv
<1>2. QED
  BY <1>1, TypeInit, TypeNext, PTL DEF Spec

(***************************************************************************)
(* The copies of a request.  What the pattern holds of them, the copies    *)
(* with a worker and in the backend's pipes, is the parameter of the       *)
(* invariant of PirateProofs.                                              *)
(***************************************************************************)
Busy == {w \in Worker : wphase[w] = "work"}

PPHeld == Held(Busy, job, toWorker, fromWorker)

LEMMA TrafficIsUnderway ==
  ASSUME PPNetTypeOK
  PROVE  Traffic = Underway(PPHeld)
<1>1. ASSUME NEW side, NEW pipe, \A w \in Worker : Len(pipe[w]) \in Nat /\ Len(pipe[w]) <= HWM
      PROVE  Carried(side, pipe) = InPipes(side, pipe)
  <2> USE HWMAssumption
  <2>1. {q \in Worker \X (1..HWM) :
           /\ q[2] <= Len(pipe[q[1]])
           /\ pipe[q[1]][q[2]].kind \in {"REQUEST", "REPLY"}}
        = {q \in Worker \X Nat :
             q[2] \in 1..Len(pipe[q[1]]) /\ Cargo(pipe[q[1]][q[2]])}
    <3>1. ASSUME NEW w \in Worker, NEW i
          PROVE  (i \in 1..HWM /\ i <= Len(pipe[w])) <=> (i \in Nat /\ i \in 1..Len(pipe[w]))
      BY <1>1
    <3>2. QED
      BY <3>1 DEF Cargo
  <2>2. QED
    BY <2>1 DEF Carried, InPipes
<1>2. \A w \in Worker : /\ Len(toWorker[w]) \in Nat /\ Len(toWorker[w]) <= HWM
                        /\ Len(fromWorker[w]) \in Nat /\ Len(fromWorker[w]) <= HWM
  BY LenProperties DEF PPNetTypeOK
<1>3. Carried("to", toWorker) = InPipes("to", toWorker)
  BY <1>1, <1>2
<1>4. Carried("from", fromWorker) = InPipes("from", fromWorker)
  BY <1>1, <1>2
<1>5. QED
  BY <1>3, <1>4 DEF Traffic, Underway, PPHeld, Held, AtWork, Busy

LEMMA HeldPrimed ==
  ASSUME NEW b, NEW j, NEW t, NEW f,
         Busy' = b, job' = j, toWorker' = t, fromWorker' = f,
         CopiesInv(Held(b, j, t, f))'
  PROVE  CopiesInv(PPHeld)'
<1>1. PPHeld' = Held(b, j, t, f)
  BY DEF PPHeld, Held, AtWork, InPipes, Cargo
<1>2. QED
  BY <1>1 DEF CopiesInv, OneCopy, RoutesPast, LiveAwaited, OneLive, HeldTypes, Underway,
     Live, Connected

(* Everything the steps below have in common: the state before and after   *)
(* as constants, as the lemmas on copies take them.                        *)
Snapshot(b, j, t, f, b2, j2, t2, f2) ==
  /\ Busy = b /\ job = j /\ toWorker = t /\ fromWorker = f
  /\ Busy' = b2 /\ job' = j2 /\ toWorker' = t2 /\ fromWorker' = f2
  /\ CopiesInv(Held(b, j, t, f))
  /\ HeldTypes(Held(b2, j2, t2, f2))
  /\ t \in [Worker -> Seq(QueueMessage)]
  /\ f \in [Worker -> Seq(WorkerMessage)]

LEMMA TakeSnapshot ==
  ASSUME TypeOK, TypeOK', CopiesInv(PPHeld)
  PROVE  \E b, j, t, f, b2, j2, t2, f2 : Snapshot(b, j, t, f, b2, j2, t2, f2)
<1>1. PICK b, j, t, f : Busy = b /\ job = j /\ toWorker = t /\ fromWorker = f
  OBVIOUS
<1>2. PICK b2, j2, t2, f2 : Busy' = b2 /\ job' = j2 /\ toWorker' = t2 /\ fromWorker' = f2
  OBVIOUS
<1>3. /\ t \in [Worker -> Seq(QueueMessage)]
      /\ f \in [Worker -> Seq(WorkerMessage)]
  BY <1>1 DEF TypeOK, PPNetTypeOK
<1>4. /\ t2 \in [Worker -> Seq(QueueMessage)]
      /\ f2 \in [Worker -> Seq(WorkerMessage)]
      /\ \A w \in b2 : j2[w] \in Request
  BY <1>2 DEF TypeOK, PPNetTypeOK, PPWorkerTypeOK, Busy
<1>5. HeldTypes(Held(b2, j2, t2, f2))
  BY <1>4, HeldTypesOf
<1>6. CopiesInv(Held(b, j, t, f))
  BY <1>1 DEF PPHeld
<1>7. QED
  BY <1>1, <1>2, <1>3, <1>5, <1>6 DEF Snapshot

(* A step that only cuts pipes at their end, adds signals to them or ends  *)
(* jobs.                                                                   *)
LEMMA KeepInPlaceStep ==
  ASSUME TypeOK, TypeOK', CopiesInv(PPHeld),
         UNCHANGED <<requests, replies, route, cphase, request_seq>>,
         Busy' \subseteq Busy, \A w \in Busy' : job'[w] = job[w],
         \A w \in Worker : /\ Window(toWorker'[w], toWorker[w], 0)
                          /\ Window(fromWorker'[w], fromWorker[w], 0)
  PROVE  CopiesInv(PPHeld)'
<1>1. PICK b, j, t, f, b2, j2, t2, f2 : Snapshot(b, j, t, f, b2, j2, t2, f2)
  BY TakeSnapshot
<1>2. CopiesInv(Held(b2, j2, t2, f2))'
  BY <1>1, KeepInPlace DEF Snapshot
<1>3. QED
  BY <1>1, <1>2, HeldPrimed DEF Snapshot

LEMMA BeatIsNoCargo ==
  ASSUME NEW w \in Worker
  PROVE  /\ Beat(w) \in Seq(WorkerMessage)
         /\ \A i \in 1..Len(Beat(w)) : ~Cargo(Beat(w)[i])
         /\ <<READY>> \o Beat(w) \in Seq(WorkerMessage)
         /\ \A i \in 1..Len(<<READY>> \o Beat(w)) : ~Cargo((<<READY>> \o Beat(w))[i])
<1>1. Beat(w) \in Seq(WorkerMessage) /\ <<READY>> \in Seq(WorkerMessage)
  BY BeatType, MessageTypes
<1>2. \A i \in 1..Len(Beat(w)) : ~Cargo(Beat(w)[i])
  BY SignalsAreNoCargo DEF Beat
<1>3. Len(<<READY>>) = 1 /\ <<READY>>[1] = READY
  OBVIOUS
<1>4. \A i \in 1..Len(<<READY>> \o Beat(w)) : ~Cargo((<<READY>> \o Beat(w))[i])
  BY <1>1, <1>2, <1>3, ConcatIs, SignalsAreNoCargo
<1>5. QED
  BY <1>1, <1>2, <1>4, BeatType, MessageTypes

LEMMA DealerSendWindows ==
  ASSUME fromWorker \in [Worker -> Seq(WorkerMessage)], NEW w \in Worker,
         NEW msgs \in Seq(WorkerMessage), \A i \in 1..Len(msgs) : ~Cargo(msgs[i]),
         DealerSend(w, msgs)
  PROVE  \A v \in Worker : Window(fromWorker'[v], fromWorker[v], 0)
<1>1. Window(fromWorker[w] \o msgs, fromWorker[w], 0)
  BY WindowConcat
<1>2. QED
  BY <1>1, WindowSame DEF DealerSend

LEMMA QueueCopies ==
  ASSUME TypeOK, TypeOK', CopiesInv(PPHeld), QueueStep, UNCHANGED <<workerVars, clientVars>>
  PROVE  CopiesInv(PPHeld)'
<1>1. /\ FrontendTypeOK /\ LPClientTypeOK
      /\ toWorker \in [Worker -> Seq(QueueMessage)]
      /\ fromWorker \in [Worker -> Seq(WorkerMessage)]
  BY DEF TypeOK, PPNetTypeOK
<1>2. Busy' = Busy /\ job' = job /\ cphase' = cphase /\ request_seq' = request_seq
  BY DEF workerVars, clientVars, Busy
<1>3. PICK b, j, t, f, b2, j2, t2, f2 : Snapshot(b, j, t, f, b2, j2, t2, f2)
  BY TakeSnapshot
<1>4. b2 = b /\ j2 = j
  BY <1>2, <1>3 DEF Snapshot
<1>5. SUFFICES CopiesInv(Held(b2, j2, t2, f2))'
  BY <1>3, HeldPrimed DEF Snapshot
<1>6. CASE QPoll \/ QStart
  <2>1. /\ UNCHANGED <<requests, replies, route>>
        /\ t2 = t /\ f2 = f
    BY <1>3, <1>6 DEF QPoll, QStart, netVars, frontendVars, Snapshot
  <2>2. \A w \in Worker : Window(t2[w], t[w], 0) /\ Window(f2[w], f[w], 0)
    BY <2>1, WindowSame
  <2>3. QED
    BY <1>2, <1>3, <1>4, <2>1, <2>2, KeepInPlace DEF Snapshot
<1>7. CASE QHeartbeat
  <2>1. UNCHANGED <<requests, replies, route>> /\ f2 = f
    BY <1>3, <1>7 DEF QHeartbeat, frontendVars, Snapshot
  <2>2. \A w \in Worker : Window(toWorker'[w], toWorker[w], 0)
    BY <1>1, <1>7, RouterSendWindows, MessageTypes, SignalsAreNoCargo, WindowSame
    DEF QHeartbeat
  <2>3. \A w \in Worker : Window(t2[w], t[w], 0) /\ Window(f2[w], f[w], 0)
    BY <1>3, <2>1, <2>2, WindowSame DEF Snapshot
  <2>4. QED
    BY <1>2, <1>3, <1>4, <2>1, <2>3, KeepInPlace DEF Snapshot
<1>8. ASSUME NEW w \in Worker, QBackend(w)
      PROVE  CopiesInv(Held(b2, j2, t2, f2))'
  <2>1. /\ UNCHANGED <<requests, route>>
        /\ t2 = t
        /\ f[w] # <<>>
        /\ f2 = [f EXCEPT ![w] = Tail(@)]
        /\ replies' = IF Head(f[w]).kind = "REPLY"
                      THEN RoutedReplies(Head(f[w]).body) ELSE replies
    BY <1>3, <1>8 DEF QBackend, Snapshot
  <2>2. \A v \in Worker : f2[v] = IF v = w THEN Tail(f[v]) ELSE f[v]
    BY <1>3, <2>1 DEF Snapshot
  <2>3. /\ t \in [Worker -> Seq(QueueMessage)] /\ f \in [Worker -> Seq(WorkerMessage)]
        /\ CopiesInv(Held(b, j, t, f)) /\ HeldTypes(Held(b, j, t, f2))
    BY <1>3, <1>4, <2>1 DEF Snapshot
  <2>4. CopiesInv(Held(b, j, t, f2))'
    BY <1>2, <2>1, <2>2, <2>3, ReadHeld
  <2>5. QED
    BY <1>4, <2>1, <2>4
<1>9. CASE QFrontend
  <2>1. PICK m \in requests :
          /\ requests' = requests \ {m}
          /\ RouterSend({s_workers_next(workers)}, RequestMsg(m))
    BY <1>9 DEF QFrontend
  <2>2. UNCHANGED <<replies, route>> /\ f2 = f
    BY <1>3, <1>9 DEF QFrontend, Snapshot
  <2>3. PICK w, S : w = s_workers_next(workers) /\ S = online
    OBVIOUS
  <2>4. Dispatched(t, t2, w, S, m)
    BY <1>3, <2>1, <2>3 DEF RouterSend, Dispatched, Snapshot
  <2>5. /\ t \in [Worker -> Seq(QueueMessage)]
        /\ CopiesInv(Held(b, j, t, f)) /\ HeldTypes(Held(b, j, t2, f))
    BY <1>3, <1>4, <2>2 DEF Snapshot
  <2>6. CopiesInv(Held(b, j, t2, f))'
    <3>1. UNCHANGED <<route, cphase, request_seq, replies>> /\ requests' = requests \ {m}
      BY <1>2, <2>1, <2>2
    <3>2. QED
      BY <2>4, <2>5, <3>1, DispatchHeld
  <2>7. QED
    BY <1>4, <2>2, <2>6
<1>10. CASE QStop
  <2>1. PICK d \in [Worker -> Nat] :
          \A w \in Worker : /\ Window(toWorker'[w], toWorker[w], 0)
                           /\ Window(fromWorker'[w], fromWorker[w], d[w])
    BY <1>1, <1>10, BackendDownWindows DEF QStop
  <2> DEFINE dt == [w \in Worker |-> 0]
  <2>2. Shift(b, j, t, f, b2, j2, t2, f2, dt, d)
    BY <1>3, <1>4, <2>1 DEF Shift, Snapshot
  <2> HIDE DEF dt
  <2>3. PICK h : \A y \in Held(b2, j2, t2, f2) :
                   \E x \in Held(b, j, t, f) : y = [at |-> h[x], msg |-> x.msg]
    BY <2>2, ShiftMoves DEF Lands
  <2>4. CopiesInv(Held(b, j, t, f)) /\ HeldTypes(Held(b2, j2, t2, f2))
    BY <1>3 DEF Snapshot
  <2>5. FrontendDown
    BY <1>10 DEF QStop
  <2>6. QED
    BY <1>1, <1>2, <2>3, <2>4, <2>5, DownCopies
<1>11. QED
  BY <1>6, <1>7, <1>8, <1>9, <1>10 DEF QueueStep

LEMMA WorkerCopies ==
  ASSUME TypeOK, TypeOK', CopiesInv(PPHeld), UNCHANGED clientVars, NEW w \in Worker,
         WStart(w) \/ WStep(w) \/ WExit(w)
  PROVE  CopiesInv(PPHeld)'
<1>1. /\ toWorker \in [Worker -> Seq(QueueMessage)]
      /\ fromWorker \in [Worker -> Seq(WorkerMessage)]
      /\ wphase \in [Worker -> WorkerPhase]
      /\ job \in [Worker -> Request \cup {NoJob}]
  BY DEF TypeOK, PPNetTypeOK, PPWorkerTypeOK
<1>2. UNCHANGED <<requests, replies, route, cphase, request_seq>>
  BY DEF clientVars, frontendVars, WStart, WStep, WExit, WHeartbeat, WRequest, WReply,
     WSilence, WGiveUp, WReconnect
<1>3. Beat(w) \in Seq(WorkerMessage) /\ \A i \in 1..Len(Beat(w)) : ~Cargo(Beat(w)[i])
  BY BeatIsNoCargo
<1>4. CASE WStart(w)
  <2>1. Busy' = Busy /\ job' = job /\ toWorker' = toWorker
    BY <1>1, <1>4 DEF WStart, Busy
  <2>2. <<READY>> \in Seq(WorkerMessage) /\ \A i \in 1..Len(<<READY>>) : ~Cargo(<<READY>>[i])
    BY MessageTypes, SignalsAreNoCargo
  <2>3. \A v \in Worker : Window(fromWorker'[v], fromWorker[v], 0)
    BY <1>1, <1>4, <2>2, DealerSendWindows DEF WStart
  <2>4. QED
    BY <1>2, <2>1, <2>3, WindowSame, KeepInPlaceStep
<1>5. CASE WSilence(w)
  <2>1. Busy' = Busy /\ job' = job /\ toWorker' = toWorker
    BY <1>1, <1>5 DEF WSilence, SilentPoll, EndTurn, Busy
  <2>2. \A v \in Worker : Window(fromWorker'[v], fromWorker[v], 0)
    BY <1>1, <1>3, <1>5, DealerSendWindows DEF WSilence
  <2>3. QED
    BY <1>2, <2>1, <2>2, WindowSame, KeepInPlaceStep
<1>6. CASE WGiveUp(w)
  <2>1. Busy' = Busy /\ job' = job /\ toWorker' = toWorker /\ fromWorker' = fromWorker
    BY <1>1, <1>6 DEF WGiveUp, SilentPoll, Busy, netVars
  <2>2. QED
    BY <1>2, <2>1, WindowSame, KeepInPlaceStep
<1>7. CASE WReconnect(w)
  <2>1. Busy' = Busy /\ job' = job
    BY <1>1, <1>7 DEF WReconnect, EndTurn, Busy
  <2>2. \A v \in Worker : /\ Window(toWorker'[v], toWorker[v], 0)
                         /\ Window(fromWorker'[v], fromWorker[v], 0)
    BY <1>1, <1>7, BeatIsNoCargo, ClosePipesWindows DEF WReconnect
  <2>3. QED
    BY <1>2, <2>1, <2>2, KeepInPlaceStep
<1>8. CASE WExit(w)
  <2>1. Busy' = Busy \ {w} /\ \A v \in Worker \ {w} : job'[v] = job[v]
    BY <1>1, <1>8 DEF WExit, Busy
  <2>2. Busy \subseteq Worker
    BY DEF Busy
  <2>3. \A v \in Worker : /\ Window(toWorker'[v], toWorker[v], 0)
                         /\ Window(fromWorker'[v], fromWorker[v], 0)
    <3>1. <<>> \in Seq(WorkerMessage) /\ \A i \in 1..Len(<<>>) : ~Cargo(<<>>[i])
      BY EmptySeq
    <3>2. ClosePipes(w, <<>>)
      BY <1>8 DEF WExit
    <3>3. QED
      BY <1>1, <3>1, <3>2, ClosePipesWindows
  <2>4. QED
    BY <1>2, <2>1, <2>2, <2>3, KeepInPlaceStep
<1>9. PICK b, j, t, f, b2, j2, t2, f2 : Snapshot(b, j, t, f, b2, j2, t2, f2)
  BY TakeSnapshot
<1>10. /\ t \in [Worker -> Seq(QueueMessage)] /\ f \in [Worker -> Seq(WorkerMessage)]
       /\ CopiesInv(Held(b, j, t, f)) /\ HeldTypes(Held(b2, j2, t2, f2))
  BY <1>9 DEF Snapshot
<1>11. ASSUME CopiesInv(Held(b2, j2, t2, f2))'
       PROVE  CopiesInv(PPHeld)'
  BY <1>9, <1>11, HeldPrimed DEF Snapshot
<1>12. CASE WHeartbeat(w)
  <2>1. b2 = b /\ j2 = j /\ t[w] # <<>> /\ t2 = [t EXCEPT ![w] = Tail(@)]
    BY <1>1, <1>9, <1>12 DEF WHeartbeat, Receives, EndTurn, Busy, Snapshot
  <2>2. \A v \in Worker : Window(f2[v], f[v], 0)
    <3>1. \A v \in Worker : Window(fromWorker'[v], fromWorker[v], 0)
      BY <1>1, <1>3, <1>12, DealerSendWindows DEF WHeartbeat
    <3>2. QED
      BY <1>9, <3>1 DEF Snapshot
  <2> DEFINE dt == [v \in Worker |-> IF v = w THEN 1 ELSE 0]
             df == [v \in Worker |-> 0]
  <2>3. \A v \in Worker : Window(t2[v], t[v], dt[v])
    BY <1>10, <2>1, WindowSame, WindowTail
  <2>4. Shift(b, j, t, f, b2, j2, t2, f2, dt, df)
    BY <2>1, <2>2, <2>3 DEF Shift
  <2> HIDE DEF dt, df
  <2>5. CopiesInv(Held(b2, j2, t2, f2))'
    BY <1>2, <1>10, <2>4, KeepHeld
  <2>6. QED
    BY <1>11, <2>5
<1>13. CASE WRequest(w)
  <2>1. /\ b2 = b \cup {w} /\ w \notin b /\ b \subseteq Worker
        /\ t[w] # <<>> /\ Cargo(Head(t[w]))
        /\ t2 = [t EXCEPT ![w] = Tail(@)]
        /\ f2 = f
        /\ j2 = [j EXCEPT ![w] = Head(t[w]).body]
        /\ j \in [Worker -> Request \cup {NoJob}]
    BY <1>1, <1>9, <1>13 DEF WRequest, Receives, Busy, Snapshot, Cargo
  <2>2. /\ \A v \in Worker : t2[v] = IF v = w THEN Tail(t[v]) ELSE t[v]
        /\ j2[w] = Head(t[w]).body
        /\ \A v \in b : j2[v] = j[v]
    BY <1>10, <2>1
  <2>3. HeldTypes(Held(b \cup {w}, j2, t2, f))
    BY <1>10, <2>1
  <2>4. CopiesInv(Held(b \cup {w}, j2, t2, f))'
    BY <1>2, <1>10, <2>1, <2>2, <2>3, TakeHeld
  <2>5. QED
    BY <1>11, <2>1, <2>4
<1>14. CASE WReply(w)
  <2>1. PICK r : r = Beat(w)
    OBVIOUS
  <2>2. /\ b2 = b \ {w} /\ w \in b /\ b \subseteq Worker
        /\ t2 = t
        /\ f2 = [f EXCEPT ![w] = @ \o (<<ReplyMsg(j[w])>> \o r)]
        /\ j2 = [j EXCEPT ![w] = NoJob]
        /\ j \in [Worker -> Request \cup {NoJob}]
    BY <1>1, <1>9, <1>14, <2>1 DEF WReply, DealerSend, EndTurn, Busy, Snapshot
  <2>3. j[w] \in Request
    BY <1>9, <2>2 DEF TypeOK, PPWorkerTypeOK, Busy, Snapshot
  <2>4. /\ \A v \in Worker : f2[v] = IF v = w THEN f[v] \o (<<ReplyMsg(j[w])>> \o r) ELSE f[v]
        /\ \A v \in b \ {w} : j2[v] = j[v]
        /\ ReplyMsg(j[w]) \in WorkerMessage
        /\ r \in Seq(WorkerMessage) /\ \A i \in 1..Len(r) : ~Cargo(r[i])
    BY <1>3, <1>10, <2>1, <2>2, <2>3, MessageTypes
  <2>5. HeldTypes(Held(b \ {w}, j2, t, f2))
    BY <1>10, <2>2
  <2>6. CopiesInv(Held(b \ {w}, j2, t, f2))'
    BY <1>2, <1>10, <2>2, <2>4, <2>5, AnswerHeld
  <2>7. QED
    BY <1>11, <2>2, <2>6
<1>15. QED
  BY <1>4, <1>5, <1>6, <1>7, <1>8, <1>12, <1>13, <1>14 DEF WStep

LEMMA CopiesNext ==
  TypeInv /\ TypeInv' /\ CopiesInv(PPHeld) /\ [Next]_vars => CopiesInv(PPHeld)'
<1> SUFFICES ASSUME TypeInv, TypeInv', CopiesInv(PPHeld), [Next]_vars
             PROVE  CopiesInv(PPHeld)'
  OBVIOUS
<1>1. TypeOK /\ TypeOK'
  BY DEF TypeInv
<1>2. CASE QueueNext
  BY <1>1, <1>2, QueueCopies DEF QueueNext, QueueStep
<1>3. CASE WorkerNext
  <2>1. PICK w \in Worker : WStart(w) \/ WStep(w) \/ WExit(w)
    BY <1>3 DEF WorkerNext, WStep, WCrash, WInterrupt
  <2>2. UNCHANGED clientVars
    BY <1>3 DEF WorkerNext
  <2>3. QED
    BY <1>1, <2>1, <2>2, WorkerCopies
<1>4. CASE ClientNext
  <2>1. PICK c \in Client :
          CSend(c) \/ CReply(c) \/ CRetry(c) \/ CAbandon(c) \/ CInterrupt(c)
    BY <1>4 DEF ClientNext
  <2>2. FrontendTypeOK /\ LPClientTypeOK
    BY <1>1 DEF TypeOK
  <2>3. PICK b, j, t, f, b2, j2, t2, f2 : Snapshot(b, j, t, f, b2, j2, t2, f2)
    BY <1>1, TakeSnapshot
  <2>4. b2 = b /\ j2 = j /\ t2 = t /\ f2 = f
    BY <1>4, <2>3 DEF ClientNext, netVars, workerVars, Busy, Snapshot
  <2>5. CopiesInv(Held(b, j, t, f))
    BY <2>3 DEF Snapshot
  <2>6. CopiesInv(Held(b, j, t, f))'
    BY <2>1, <2>2, <2>5, ClientCopies
  <2>7. QED
    BY <2>3, <2>4, <2>6, HeldPrimed DEF Snapshot
<1>5. CASE Tick \/ UNCHANGED vars
  <2>1. /\ UNCHANGED <<requests, replies, route, cphase, request_seq, toWorker, fromWorker>>
        /\ Busy' = Busy /\ job' = job
    BY <1>5 DEF Tick, netVars, clientVars, frontendVars, vars, workerVars, Busy
  <2>2. QED
    BY <1>1, <2>1, WindowSame, KeepInPlaceStep
<1>6. QED
  BY <1>2, <1>3, <1>4, <1>5 DEF Next

THEOREM CopiesInvariant == Spec => []CopiesInv(PPHeld)
<1>1. Init => CopiesInv(PPHeld)
  <2> SUFFICES ASSUME Init PROVE CopiesInv(PPHeld)
    OBVIOUS
  <2>1. PPHeld = {}
    BY DEF Init, PPNetInit, PPWorkerInit, PPHeld, Held, AtWork, InPipes, Busy
  <2>2. CopiesInv({})
    BY InitCopies DEF Init
  <2>3. QED
    BY <2>1, <2>2
<1>2. QED
  BY <1>1, TypeInit, TypeNext, CopiesNext, PTL DEF Spec

(* However the queue stops and starts again, workers crash, reconnect or   *)
(* overload and clients retry or give up, no two copies of a request       *)
(* travel on one connection: a worker executes a request at most once for  *)
(* each attempt of its client (ppqueue.c:139-147, ppworker.c:64-77,        *)
(* lpclient.cpp:62-71).                                                    *)
THEOREM RequestsNeverMultiply == Spec => []SingleCopy
<1>1. TypeOK /\ CopiesInv(PPHeld) => SingleCopy
  <2> SUFFICES ASSUME TypeOK, CopiesInv(PPHeld) PROVE SingleCopy
    OBVIOUS
  <2>1. Traffic = Underway(PPHeld)
    BY TrafficIsUnderway DEF TypeOK
  <2>2. QED
    BY <2>1 DEF CopiesInv, OneCopy, SingleCopy
<1>2. QED
  BY <1>1, TypeCorrect, CopiesInvariant, PTL

(* A client of the Paranoid Pirate queue never reads a reply to an earlier *)
(* request: the branch of lpclient.cpp:55-57 is dead code.                 *)
THEOREM RepliesAreAwaited == Spec => []NoMalformedReply
<1>1. CopiesInv(PPHeld) => NoMalformedReply
  BY CopiesAreAwaited
<1>2. QED
  BY <1>1, CopiesInvariant, PTL

(* No turn of ppworker.c's loop begins with liveness at zero, whatever     *)
(* HEARTBEAT_LIVENESS: the equality test of line 97 is never jumped over.  *)
THEOREM LivenessNeverSkipsZero == Spec => []LivenessPositive
<1>1. TypeInv => LivenessPositive
  BY DEF TypeInv
<1>2. QED
  BY <1>1, TypeInit, TypeNext, PTL DEF Spec

(* The reconnect interval of ppworker.c stays below twice INTERVAL_MAX for *)
(* any INTERVAL_INIT up to INTERVAL_MAX, whether or not INTERVAL_MAX is    *)
(* INTERVAL_INIT times a power of two (lines 92, 102-103).                 *)
THEOREM BackoffStaysBounded == Spec => []BackoffBounded
<1> USE WorkerAssumption
<1>1. Init => BackoffBounded
  BY DEF Init, PPWorkerInit, BackoffBounded
<1>2. TypeInv /\ BackoffBounded /\ [Next]_vars => BackoffBounded'
  <2> SUFFICES ASSUME TypeInv, BackoffBounded, [Next]_vars
               PROVE  BackoffBounded'
    OBVIOUS
  <2>1. interval \in [Worker -> Nat \ {0}]
    BY DEF TypeInv, TypeOK, PPWorkerTypeOK
  <2>2. CASE interval' = interval
    BY <2>2 DEF BackoffBounded
  <2>3. ASSUME NEW w \in Worker,
               \/ interval' = [interval EXCEPT ![w] = INTERVAL_INIT]
               \/ interval' = [interval EXCEPT ![w] = Backoff(@)]
        PROVE  BackoffBounded'
    BY <2>1, <2>3 DEF BackoffBounded, Backoff
  <2>4. CASE WorkerNext
    BY <2>2, <2>3, <2>4 DEF WorkerNext, WStart, WHeartbeat, WRequest, WReply,
       WSilence, WGiveUp, WReconnect, WCrash, WInterrupt, WExit
  <2>5. CASE QueueNext \/ ClientNext \/ Tick \/ UNCHANGED vars
    BY <2>2, <2>5 DEF QueueNext, ClientNext, Tick, vars, workerVars
  <2>6. QED
    BY <2>4, <2>5 DEF Next
<1>3. Spec => []TypeInv
  BY TypeInit, TypeNext, PTL DEF Spec
<1>4. QED
  BY <1>1, <1>2, <1>3, PTL DEF Spec
=============================================================================
