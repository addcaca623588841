--------------------------- MODULE MajordomoProofs ---------------------------
(***************************************************************************)
(* Theorems about the Majordomo pattern, for any workers, clients and      *)
(* services and any bounds.                                                *)
(***************************************************************************)
EXTENDS Majordomo, TLAPS, SequenceTheorems, FiniteSetTheorems, WellFoundedInduction

(***************************************************************************)
(* The broker object: what its handlers keep and what they do with the     *)
(* requests, for any workers, clients and services.                        *)
(***************************************************************************)
(***************************************************************************)
(* Drop: what zlist_remove leaves of a list, by induction on its length.   *)
(***************************************************************************)
Longer(list, D, left, i) == IF list[i] \in D THEN left ELSE Append(left, list[i])

IsLeft(list, D, left, n) ==
  left = [i \in 0..n |-> IF i = 0 THEN <<>> ELSE Longer(list, D, left[i - 1], i)]

Left(list, D) == CHOOSE left : IsLeft(list, D, left, Len(list))

LEMMA DropIsLeft == \A list, D : Drop(list, D) = Left(list, D)[Len(list)]
  BY DEF Drop, Left, IsLeft, Longer

(* The recursive definition defines a function.                            *)
LEMMA LeftExists ==
  ASSUME NEW list, NEW D, NEW N \in Nat
  PROVE  \E left : IsLeft(list, D, left, N)
<1> DEFINE Bad == {n \in Nat : ~ \E left : IsLeft(list, D, left, n)}
<1>1. SUFFICES ASSUME Bad # {} PROVE FALSE
  OBVIOUS
<1>2. PICK n \in Bad : \A m \in Bad : ~ (<<m, n>> \in OpToRel(<, Nat))
  BY <1>1, NatLessThanWellFounded, WFMin
<1>3. \A m \in Nat : m < n => \E left : IsLeft(list, D, left, m)
  BY <1>2, Zenon DEF OpToRel
<1>4. CASE n = 0
  <2>1. IsLeft(list, D, [i \in 0..0 |-> <<>>], 0)
    BY DEF IsLeft
  <2>2. QED
    BY <1>2, <1>4, <2>1
<1>5. CASE n # 0
  <2>1. n \in Nat /\ n - 1 \in Nat /\ n - 1 < n
    BY <1>5
  <2>2. PICK F : IsLeft(list, D, F, n - 1)
    BY <1>3, <2>1
  <2> DEFINE G == [i \in 0..n |-> IF i = n THEN Longer(list, D, F[n - 1], n) ELSE F[i]]
  <2>3. F = [i \in 0..(n - 1) |-> IF i = 0 THEN <<>> ELSE Longer(list, D, F[i - 1], i)]
    BY <2>2 DEF IsLeft
  <2>4. \A i \in 0..(n - 1) : F[i] = IF i = 0 THEN <<>> ELSE Longer(list, D, F[i - 1], i)
    BY <2>3
  <2>5. /\ G = [i \in 0..n |-> G[i]]
        /\ \A i \in 0..n : G[i] = IF i = n THEN Longer(list, D, F[n - 1], n) ELSE F[i]
    OBVIOUS
  <2> HIDE DEF G
  <2>6. ASSUME NEW i \in 0..n
        PROVE  G[i] = IF i = 0 THEN <<>> ELSE Longer(list, D, G[i - 1], i)
    <3>1. CASE i = n
      <4>1. n \in 0..n /\ n - 1 \in 0..n /\ n - 1 # n
        BY <2>1
      <4>2. G[n] = Longer(list, D, F[n - 1], n) /\ G[n - 1] = F[n - 1]
        BY <2>5, <4>1
      <4>3. QED
        BY <1>5, <3>1, <4>2
    <3>2. CASE i # n
      <4>1. i \in 0..(n - 1) /\ (i # 0 => i - 1 \in 0..n /\ i - 1 # n)
        BY <2>1, <3>2
      <4>2. G[i] = F[i] /\ (i # 0 => G[i - 1] = F[i - 1])
        BY <2>5, <3>2, <4>1
      <4>3. QED
        BY <2>4, <4>1, <4>2
    <3>3. QED
      BY <3>1, <3>2
  <2>7. IsLeft(list, D, G, n)
    BY <2>5, <2>6 DEF IsLeft
  <2>8. QED
    BY <1>2, <2>7
<1>6. QED
  BY <1>4, <1>5

LEMMA LeftIsRecursive ==
  ASSUME NEW S, NEW list \in Seq(S), NEW D
  PROVE  /\ Left(list, D)[0] = <<>>
         /\ \A i \in 1..Len(list) : Left(list, D)[i] = Longer(list, D, Left(list, D)[i - 1], i)
<1> DEFINE F == Left(list, D)
<1>1. Len(list) \in Nat
  BY LenProperties
<1>2. IsLeft(list, D, F, Len(list))
  BY <1>1, LeftExists DEF Left
<1> HIDE DEF F
<1>3. F = [i \in 0..Len(list) |-> IF i = 0 THEN <<>> ELSE Longer(list, D, F[i - 1], i)]
  BY <1>2 DEF IsLeft
<1>4. \A i \in 0..Len(list) : F[i] = IF i = 0 THEN <<>> ELSE Longer(list, D, F[i - 1], i)
  BY <1>3
<1>5. QED
  BY <1>1, <1>4 DEF F

(***************************************************************************)
(* rest is what is left of the first n entries of list without those in D, *)
(* in the same order: h says where each of its entries comes from.         *)
(***************************************************************************)
From(h, rest, list, D, n) ==
  /\ h \in [1..Len(rest) -> 1..n]
  /\ \A i \in 1..Len(rest) : rest[i] = list[h[i]] /\ rest[i] \notin D
  /\ \A i, j \in 1..Len(rest) : i < j => h[i] < h[j]
  /\ \A k \in 1..n : list[k] \notin D => \E i \in 1..Len(rest) : h[i] = k

LEMMA LongerIsFrom ==
  ASSUME NEW S, NEW list \in Seq(S), NEW D, NEW n \in 1..Len(list),
         NEW rest \in Seq(S), NEW h, From(h, rest, list, D, n - 1)
  PROVE  /\ Longer(list, D, rest, n) \in Seq(S)
         /\ \E g : From(g, Longer(list, D, rest, n), list, D, n)
<1>1. Len(list) \in Nat /\ n \in Nat /\ list[n] \in S /\ Len(rest) \in Nat
  BY LenProperties, ElementOfSeq
<1>2. /\ h \in [1..Len(rest) -> 1..(n - 1)]
      /\ \A i \in 1..Len(rest) : rest[i] = list[h[i]] /\ rest[i] \notin D
      /\ \A i, j \in 1..Len(rest) : i < j => h[i] < h[j]
      /\ \A k \in 1..(n - 1) : list[k] \notin D => \E i \in 1..Len(rest) : h[i] = k
  BY DEF From
<1>3. CASE list[n] \in D
  <2>1. h \in [1..Len(rest) -> 1..n]
    <3>1. \A i \in 1..Len(rest) : h[i] \in 1..n
      <4>1. 1..(n - 1) \subseteq 1..n
        BY <1>1
      <4>2. QED
        BY <1>2, <4>1
    <3>2. QED
      BY <1>2, <3>1
  <2>2. \A k \in 1..n : k = n \/ k \in 1..(n - 1)
    BY <1>1
  <2>3. From(h, rest, list, D, n)
    BY <1>2, <1>3, <2>1, <2>2 DEF From
  <2>4. QED
    BY <1>3, <2>3 DEF Longer
<1>4. CASE list[n] \notin D
  <2>a. PICK L \in Nat : L = Len(rest)
    BY <1>1
  <2>b. n >= 1 /\ n - 1 < n
    BY <1>1
  <2> DEFINE r == Append(rest, list[n])
             g == [i \in 1..(L + 1) |-> IF i = L + 1 THEN n ELSE h[i]]
  <2>1. /\ r \in Seq(S) /\ Len(r) = L + 1
        /\ \A i \in 1..L : r[i] = rest[i]
        /\ r[L + 1] = list[n]
    BY <1>1, <2>a, AppendProperties
  <2>c. DOMAIN g = 1..(L + 1) /\ g = [i \in 1..(L + 1) |-> g[i]]
    OBVIOUS
  <2>2. /\ g[L + 1] = n
        /\ \A i \in 1..L : g[i] = h[i]
    OBVIOUS
  <2>3. \A i \in 1..L : h[i] \in 1..(n - 1)
    BY <1>2, <2>a
  <2>4. \A i \in 1..(L + 1) : i = L + 1 \/ i \in 1..L
    OBVIOUS
  <2> HIDE DEF r, g
  <2>5. g \in [1..(L + 1) -> 1..n]
    <3>1. ASSUME NEW i \in 1..(L + 1)
          PROVE  g[i] \in 1..n
      <4>1. CASE i = L + 1
        BY <1>1, <2>2, <4>1
      <4>2. CASE i \in 1..L
        BY <1>1, <2>2, <2>3, <4>2
      <4>3. QED
        BY <2>4, <4>1, <4>2
    <3>2. QED
      BY <2>c, <3>1
  <2>6. \A i \in 1..(L + 1) : r[i] = list[g[i]] /\ r[i] \notin D
    BY <1>2, <1>4, <2>1, <2>2, <2>4, <2>a
  <2>7. \A i, j \in 1..(L + 1) : i < j => g[i] < g[j]
    <3>1. TAKE i, j \in 1..(L + 1)
    <3>2. HAVE i < j
    <3>3. i \in 1..L /\ g[i] = h[i] /\ h[i] \in 1..(n - 1)
      BY <1>1, <2>2, <2>3, <3>2
    <3>4. CASE j = L + 1
      BY <1>1, <2>2, <3>3, <3>4
    <3>5. CASE j \in 1..L
      BY <1>2, <2>2, <2>a, <3>2, <3>3, <3>5
    <3>6. QED
      BY <2>4, <3>4, <3>5
  <2>8. \A k \in 1..n : list[k] \notin D => \E i \in 1..(L + 1) : g[i] = k
    <3>1. TAKE k \in 1..n
    <3>2. HAVE list[k] \notin D
    <3>3. CASE k = n
      BY <1>1, <2>2, <3>3
    <3>4. CASE k # n
      <4>1. k \in 1..(n - 1)
        BY <1>1, <3>4
      <4>2. PICK i \in 1..L : h[i] = k
        BY <1>2, <2>a, <3>2, <4>1
      <4>3. i \in 1..(L + 1) /\ g[i] = k
        BY <2>2, <4>2
      <4>4. QED
        BY <4>3
    <3>5. QED
      BY <3>3, <3>4
  <2>9. From(g, r, list, D, n)
    BY <2>1, <2>5, <2>6, <2>7, <2>8, <2>a DEF From
  <2>10. Longer(list, D, rest, n) = r
    BY <1>4 DEF Longer, r
  <2>11. QED
    BY <2>1, <2>9, <2>10
<1>5. QED
  BY <1>3, <1>4

(* rest is list without the entries in D, in the same order.               *)
IsWithout(rest, list, D) == \E h : From(h, rest, list, D, Len(list))

LEMMA DropIsWithout ==
  ASSUME NEW S, NEW list \in Seq(S), NEW D
  PROVE  Drop(list, D) \in Seq(S) /\ IsWithout(Drop(list, D), list, D)
<1> DEFINE F == Left(list, D)
           Holds(n) == F[n] \in Seq(S) /\ \E h : From(h, F[n], list, D, n)
           Bad == {n \in 0..Len(list) : ~ Holds(n)}
<1>1. Len(list) \in Nat
  BY LenProperties
<1>2. F[0] = <<>> /\ \A i \in 1..Len(list) : F[i] = Longer(list, D, F[i - 1], i)
  BY LeftIsRecursive
<1> HIDE DEF F
<1>3. Holds(0)
  <2>1. F[0] \in Seq(S) /\ Len(F[0]) = 0
    BY <1>2
  <2>2. 1..Len(F[0]) = {}
    BY <2>1
  <2>3. From([i \in {} |-> 0], F[0], list, D, 0)
    BY <2>2 DEF From
  <2>4. QED
    BY <2>1, <2>3
<1>4. ASSUME NEW n \in 1..Len(list), Holds(n - 1) PROVE Holds(n)
  BY <1>2, <1>4, LongerIsFrom
<1> HIDE DEF Holds
<1>5. Bad = {}
  <2>1. SUFFICES ASSUME Bad # {} PROVE FALSE
    OBVIOUS
  <2>2. Bad \subseteq Nat
    BY <1>1
  <2>3. PICK n \in Bad : \A m \in Bad : ~ (<<m, n>> \in OpToRel(<, Nat))
    BY <2>1, <2>2, NatLessThanWellFounded, WFMin
  <2>4. \A m \in Bad : ~ (m < n)
    BY <2>2, <2>3, Zenon DEF OpToRel
  <2>5. n # 0
    BY <1>3, <2>3
  <2>6. n \in 1..Len(list) /\ n - 1 \in 0..Len(list) /\ n - 1 < n
    <3>1. n \in 0..Len(list)
      BY <2>3
    <3>2. QED
      BY <1>1, <2>5, <3>1
  <2>7. Holds(n - 1)
    BY <2>4, <2>6
  <2>8. QED
    BY <1>4, <2>3, <2>6, <2>7
<1>6. Holds(Len(list))
  BY <1>1, <1>5
<1>7. QED
  BY <1>6, DropIsLeft DEF Holds, F, IsWithout

(***************************************************************************)
(* What a list without some of its entries keeps.                          *)
(***************************************************************************)
LEMMA MembersOf ==
  ASSUME NEW S, NEW list \in Seq(S)
  PROVE  /\ DOMAIN list = 1..Len(list) /\ Len(list) \in Nat
         /\ ToSet(list) = {list[i] : i \in 1..Len(list)}
         /\ ToSet(list) \subseteq S
         /\ IsInjective(list) <=> \A i, j \in 1..Len(list) : list[i] = list[j] => i = j
<1>1. DOMAIN list = 1..Len(list) /\ Len(list) \in Nat
  BY LenProperties
<1>2. \A i \in 1..Len(list) : list[i] \in S
  BY ElementOfSeq
<1>3. QED
  BY <1>1, <1>2 DEF ToSet, IsInjective

LEMMA NoMembers ==
  /\ ToSet(<<>>) = {}
  /\ \A S, list : list \in Seq(S) /\ ToSet(list) = {} => list = <<>>
<1>1. ToSet(<<>>) = {}
  <2>1. DOMAIN <<>> = {}
    BY EmptySeq, LenProperties
  <2>2. QED
    BY <2>1 DEF ToSet
<1>2. ASSUME NEW S, NEW list \in Seq(S), ToSet(list) = {} PROVE list = <<>>
  <2>1. \A i \in 1..Len(list) : FALSE
    BY <1>2, MembersOf
  <2>2. Len(list) \in Nat
    BY LenProperties
  <2>3. Len(list) = 0
    BY <2>1, <2>2
  <2>4. QED
    BY <2>3, EmptySeq
<1>3. QED
  BY <1>1, <1>2

LEMMA WithoutMembers ==
  ASSUME NEW S, NEW list \in Seq(S), NEW rest \in Seq(S), NEW D, IsWithout(rest, list, D)
  PROVE  /\ ToSet(rest) = ToSet(list) \ D
         /\ IsInjective(list) => IsInjective(rest)
<1>1. PICK h : From(h, rest, list, D, Len(list))
  BY DEF IsWithout
<1>2. /\ h \in [1..Len(rest) -> 1..Len(list)]
      /\ \A i \in 1..Len(rest) : rest[i] = list[h[i]] /\ rest[i] \notin D
      /\ \A i, j \in 1..Len(rest) : i < j => h[i] < h[j]
      /\ \A k \in 1..Len(list) : list[k] \notin D => \E i \in 1..Len(rest) : h[i] = k
  BY <1>1 DEF From
<1>3. \A i \in 1..Len(rest) : h[i] \in 1..Len(list)
  BY <1>2
<1>4. ToSet(rest) = ToSet(list) \ D
  <2>1. ASSUME NEW i \in 1..Len(rest) PROVE rest[i] \in ToSet(list) \ D
    BY <1>2, <1>3, MembersOf
  <2>2. ASSUME NEW k \in 1..Len(list), list[k] \notin D PROVE list[k] \in ToSet(rest)
    <3>1. PICK i \in 1..Len(rest) : h[i] = k
      BY <1>2, <2>2
    <3>2. list[k] = rest[i]
      BY <1>2, <3>1
    <3>3. QED
      BY <3>2, MembersOf
  <2>3. QED
    BY <2>1, <2>2, MembersOf
<1>5. ASSUME IsInjective(list) PROVE IsInjective(rest)
  <2>1. SUFFICES ASSUME NEW i \in 1..Len(rest), NEW j \in 1..Len(rest), rest[i] = rest[j], i < j
                 PROVE  FALSE
    <3>1. Len(rest) \in Nat
      BY MembersOf
    <3>2. \A i, j \in 1..Len(rest) : i = j \/ i < j \/ j < i
      BY <3>1
    <3>3. IsInjective(rest) <=> \A i, j \in 1..Len(rest) : rest[i] = rest[j] => i = j
      BY MembersOf
    <3>4. QED
      BY <3>2, <3>3
  <2>2. list[h[i]] = list[h[j]] /\ h[i] < h[j] /\ h[i] \in 1..Len(list) /\ h[j] \in 1..Len(list)
    BY <1>2, <1>3, <2>1
  <2>3. h[i] = h[j]
    BY <1>5, <2>2, MembersOf
  <2>4. QED
    BY <2>2, <2>3
<1>6. QED
  BY <1>4, <1>5

LEMMA WithoutSameOrder ==
  ASSUME NEW S, NEW list \in Seq(S), NEW whole \in Seq(S), SameOrder(list, whole),
         NEW D, NEW l \in Seq(S), NEW w \in Seq(S),
         IsWithout(l, list, D), IsWithout(w, whole, D)
  PROVE  SameOrder(l, w)
<1>1. PICK g : From(g, l, list, D, Len(list))
  BY DEF IsWithout
<1>2. PICK h : From(h, w, whole, D, Len(whole))
  BY DEF IsWithout
<1>3. /\ DOMAIN l = 1..Len(l) /\ DOMAIN w = 1..Len(w)
      /\ DOMAIN list = 1..Len(list) /\ DOMAIN whole = 1..Len(whole)
      /\ Len(l) \in Nat /\ Len(w) \in Nat /\ Len(list) \in Nat /\ Len(whole) \in Nat
  BY MembersOf
<1>4. /\ \A i \in 1..Len(l) : g[i] \in 1..Len(list) /\ l[i] = list[g[i]]
      /\ \A i, j \in 1..Len(l) : i < j => g[i] < g[j]
  BY <1>1 DEF From
<1>5. /\ \A i \in 1..Len(w) : h[i] \in 1..Len(whole) /\ w[i] = whole[h[i]]
      /\ \A i, j \in 1..Len(w) : i < j => h[i] < h[j]
  BY <1>2 DEF From
<1>6. ASSUME NEW i \in 1..Len(l), NEW j \in 1..Len(l), NEW m \in 1..Len(w), NEW n \in 1..Len(w),
             l[i] = w[m], l[j] = w[n]
      PROVE  i < j <=> m < n
  <2>1. PICK a, b, c, d : a = g[i] /\ b = g[j] /\ c = h[m] /\ d = h[n]
    OBVIOUS
  <2>2. /\ a \in 1..Len(list) /\ b \in 1..Len(list) /\ l[i] = list[a] /\ l[j] = list[b]
        /\ c \in 1..Len(whole) /\ d \in 1..Len(whole) /\ w[m] = whole[c] /\ w[n] = whole[d]
    BY <1>4, <1>5, <2>1
  <2>3. a < b <=> c < d
    BY <1>3, <1>6, <2>2 DEF SameOrder
  <2>4. (i < j => a < b) /\ (i = j => a = b) /\ (j < i => b < a)
    BY <1>4, <2>1
  <2>5. (m < n => c < d) /\ (m = n => c = d) /\ (n < m => d < c)
    BY <1>5, <2>1
  <2>6. i \in Nat /\ j \in Nat /\ m \in Nat /\ n \in Nat /\ a \in Nat /\ b \in Nat /\ c \in Nat /\ d \in Nat
    BY <1>3, <2>2
  <2>7. QED
    BY <2>3, <2>4, <2>5, <2>6
<1>7. QED
  BY <1>3, <1>6 DEF SameOrder

LEMMA WithoutNone ==
  ASSUME NEW S, NEW list \in Seq(S), NEW D, ToSet(list) \cap D = {}
  PROVE  IsWithout(list, list, D)
<1> DEFINE h == [i \in 1..Len(list) |-> i]
<1>1. \A i \in 1..Len(list) : list[i] \notin D
  BY MembersOf
<1>2. h \in [1..Len(list) -> 1..Len(list)] /\ \A i \in 1..Len(list) : h[i] = i
  OBVIOUS
<1> HIDE DEF h
<1>3. From(h, list, list, D, Len(list))
  BY <1>1, <1>2 DEF From
<1>4. QED
  BY <1>3 DEF IsWithout

LEMMA SuffixIsWithout ==
  ASSUME NEW S, NEW list \in Seq(S), IsInjective(list), NEW n \in 0..Len(list), NEW D,
         \A i \in 1..Len(list) : list[i] \in D <=> i <= n
  PROVE  /\ SubSeq(list, n + 1, Len(list)) \in Seq(S)
         /\ IsWithout(SubSeq(list, n + 1, Len(list)), list, D)
<1>1. PICK L \in Nat : L = Len(list)
  BY MembersOf
<1>2. n \in Nat /\ n <= L
  BY <1>1
<1> DEFINE r == SubSeq(list, n + 1, L)
           h == [i \in 1..(L - n) |-> n + i]
<1>3. \A i \in (n + 1)..L : list[i] \in S
  BY <1>1, <1>2, ElementOfSeq
<1>4. r \in Seq(S) /\ Len(r) = L - n /\ \A i \in 1..(L - n) : r[i] = list[n + i]
  <2>1. /\ r \in Seq(S)
        /\ Len(r) = IF n + 1 <= L THEN L - (n + 1) + 1 ELSE 0
        /\ \A i \in 1..(L - (n + 1) + 1) : r[i] = list[n + 1 + i - 1]
    BY <1>1, <1>2, <1>3, SubSeqProperties
  <2>2. L - (n + 1) + 1 = L - n /\ \A i \in 1..(L - n) : n + 1 + i - 1 = n + i
    BY <1>2
  <2>3. Len(r) = L - n
    BY <1>2, <2>1
  <2>4. QED
    BY <2>1, <2>2, <2>3
<1>5. \A i \in 1..(L - n) : h[i] = n + i /\ n + i \in 1..L /\ n + i > n
  BY <1>2
<1>6. h \in [1..(L - n) -> 1..L]
  BY <1>5
<1> HIDE DEF r, h
<1>7. From(h, r, list, D, L)
  <2>1. \A i \in 1..(L - n) : r[i] = list[h[i]] /\ r[i] \notin D
    BY <1>1, <1>2, <1>4, <1>5
  <2>2. \A i, j \in 1..(L - n) : i < j => h[i] < h[j]
    BY <1>2, <1>5
  <2>3. ASSUME NEW k \in 1..L, list[k] \notin D PROVE \E i \in 1..(L - n) : h[i] = k
    <3>1. k > n
      BY <1>1, <1>2, <2>3
    <3>2. k - n \in 1..(L - n) /\ n + (k - n) = k
      BY <1>2, <3>1
    <3>3. QED
      BY <1>5, <3>2
  <2>4. QED
    BY <1>4, <1>6, <2>1, <2>2, <2>3 DEF From
<1>8. QED
  BY <1>1, <1>4, <1>7 DEF IsWithout, r

(***************************************************************************)
(* A new entry at the end of two lists, or of one of them.                 *)
(***************************************************************************)
LEMMA AppendMembers ==
  ASSUME NEW S, NEW list \in Seq(S), NEW x \in S
  PROVE  /\ Append(list, x) \in Seq(S)
         /\ ToSet(Append(list, x)) = ToSet(list) \cup {x}
         /\ IsInjective(list) /\ x \notin ToSet(list) => IsInjective(Append(list, x))
<1>1. PICK L \in Nat : L = Len(list)
  BY MembersOf
<1>2. PICK r : r = Append(list, x)
  OBVIOUS
<1>3. r \in Seq(S) /\ Len(r) = L + 1 /\ r[L + 1] = x /\ \A i \in 1..L : r[i] = list[i]
  BY <1>1, <1>2, AppendProperties
<1>4. \A i \in 1..(L + 1) : i = L + 1 \/ i \in 1..L
  OBVIOUS
<1>5. L + 1 \in 1..(L + 1) /\ \A i \in 1..L : i \in 1..(L + 1)
  OBVIOUS
<1>6. ToSet(r) = ToSet(list) \cup {x}
  <2>1. ToSet(r) = {r[i] : i \in 1..(L + 1)}
    BY <1>3, MembersOf
  <2>2. ToSet(list) = {list[i] : i \in 1..L}
    BY <1>1, MembersOf
  <2>3. QED
    BY <1>3, <1>4, <1>5, <2>1, <2>2
<1>7. ASSUME IsInjective(list), x \notin ToSet(list) PROVE IsInjective(r)
  <2>1. \A i, j \in 1..L : list[i] = list[j] => i = j
    BY <1>1, <1>7, MembersOf
  <2>2. \A i \in 1..L : list[i] # x
    BY <1>1, <1>7, MembersOf
  <2>3. \A i, j \in 1..(L + 1) : r[i] = r[j] => i = j
    BY <1>3, <1>4, <2>1, <2>2
  <2>4. QED
    BY <1>3, <2>3, MembersOf
<1>8. QED
  BY <1>2, <1>3, <1>6, <1>7

LEMMA AppendSameOrder ==
  ASSUME NEW S, NEW list \in Seq(S), NEW whole \in Seq(S), SameOrder(list, whole),
         NEW x \in S, x \notin ToSet(list), x \notin ToSet(whole)
  PROVE  /\ SameOrder(list, Append(whole, x))
         /\ SameOrder(Append(list, x), Append(whole, x))
<1>1. PICK K \in Nat, L \in Nat : K = Len(list) /\ L = Len(whole)
  BY MembersOf
<1>2. PICK r, q : r = Append(list, x) /\ q = Append(whole, x)
  OBVIOUS
<1>3. r \in Seq(S) /\ Len(r) = K + 1 /\ r[K + 1] = x /\ \A i \in 1..K : r[i] = list[i]
  BY <1>1, <1>2, AppendProperties
<1>4. q \in Seq(S) /\ Len(q) = L + 1 /\ q[L + 1] = x /\ \A i \in 1..L : q[i] = whole[i]
  BY <1>1, <1>2, AppendProperties
<1>5. DOMAIN list = 1..K /\ DOMAIN whole = 1..L /\ DOMAIN r = 1..(K + 1) /\ DOMAIN q = 1..(L + 1)
  BY <1>1, <1>3, <1>4, MembersOf
<1>6. /\ \A i \in 1..K : list[i] # x
      /\ \A i \in 1..L : whole[i] # x
  BY <1>1, MembersOf
<1>7. \A i, j \in 1..K, m, n \in 1..L : list[i] = whole[m] /\ list[j] = whole[n] => (i < j <=> m < n)
  BY <1>5 DEF SameOrder
<1>8. \A i \in 1..K, m \in 1..(L + 1) : list[i] = q[m] => m \in 1..L /\ q[m] = whole[m]
  <2>1. \A m \in 1..(L + 1) : m = L + 1 \/ m \in 1..L
    OBVIOUS
  <2>2. QED
    BY <1>4, <1>6, <2>1
<1>9. \A m \in 1..(L + 1) : q[m] = x => m = L + 1
  <2>1. \A m \in 1..(L + 1) : m = L + 1 \/ m \in 1..L
    OBVIOUS
  <2>2. QED
    BY <1>4, <1>6, <2>1
<1>10. \A i, j \in 1..K, m, n \in 1..(L + 1) :
         list[i] = q[m] /\ list[j] = q[n] => (i < j <=> m < n)
  BY <1>7, <1>8
<1>11. ASSUME NEW i \in 1..(K + 1), NEW j \in 1..(K + 1), NEW m \in 1..(L + 1), NEW n \in 1..(L + 1),
              r[i] = q[m], r[j] = q[n]
       PROVE  i < j <=> m < n
  <2>1. CASE i \in 1..K /\ j \in 1..K
    BY <1>3, <1>10, <1>11, <2>1
  <2>2. CASE i = K + 1 /\ j = K + 1
    BY <1>3, <1>9, <1>11, <2>2
  <2>3. CASE i \in 1..K /\ j = K + 1
    <3>1. n = L + 1 /\ m \in 1..L
      BY <1>3, <1>8, <1>9, <1>11, <2>3
    <3>2. QED
      BY <2>3, <3>1
  <2>4. CASE i = K + 1 /\ j \in 1..K
    <3>1. m = L + 1 /\ n \in 1..L
      BY <1>3, <1>8, <1>9, <1>11, <2>4
    <3>2. QED
      BY <2>4, <3>1
  <2>5. QED
    BY <2>1, <2>2, <2>3, <2>4
<1>12. QED
  BY <1>2, <1>5, <1>10, <1>11 DEF SameOrder

(***************************************************************************)
(* The broker object.  What its handlers keep, whatever they are called    *)
(* for: its fields, the two lists, the counts, and for each service that   *)
(* nothing waits for nothing.                                              *)
(***************************************************************************)
IsBroker(self) ==
  /\ self = [workers |-> self.workers, waiting |-> self.waiting, services |-> self.services]
  /\ IsFiniteSet(Known(self))
  /\ Known(self) \subseteq Identity
  /\ self.workers \in
       [Known(self) -> [service : Names \cup {NoService}, expiry : 0..HEARTBEAT_EXPIRY]]
  /\ self.waiting \in Seq(Identity)
  /\ self.services \in
       [Names -> [requests : Seq(Request), waiting : Seq(Identity), worker_num : Nat]]

Listed(self) ==
  /\ IsInjective(self.waiting)
  /\ ToSet(self.waiting) \subseteq Known(self)
  /\ \A s \in Names :
       /\ ToSet(self.services[s].waiting) = ToSet(self.waiting) \cap WorkersOf(self, s)
       /\ SameOrder(self.services[s].waiting, self.waiting)

Counted(self) ==
  \A s \in Names : self.services[s].worker_num = Cardinality(WorkersOf(self, s))

Core(self) == IsBroker(self) /\ Listed(self) /\ Counted(self)

Dispatched(self, s) == self.services[s].requests = <<>> \/ self.services[s].waiting = <<>>

Served(self) == \A w \in Known(self) : self.workers[w].service \in Names

BrokerInv(self) ==
  /\ Core(self)
  /\ Served(self)
  /\ \A s \in Names : Dispatched(self, s)

(* The workers that after knows were known before, with the same service.  *)
NoNewWorker(self, after) ==
  /\ Known(after) \subseteq Known(self)
  /\ \A w \in Known(after) : after.workers[w].service = self.workers[w].service

LEMMA ServiceFields ==
  ASSUME NEW self, IsBroker(self), NEW s \in Names
  PROVE  /\ self.services[s] =
              [requests |-> self.services[s].requests, waiting |-> self.services[s].waiting,
               worker_num |-> self.services[s].worker_num]
         /\ self.services[s].requests \in Seq(Request)
         /\ self.services[s].waiting \in Seq(Identity)
         /\ self.services[s].worker_num \in Nat
<1>1. self.services[s] \in [requests : Seq(Request), waiting : Seq(Identity), worker_num : Nat]
  BY DEF IsBroker
<1>2. QED
  BY <1>1

(***************************************************************************)
(* s_worker_delete.                                                        *)
(***************************************************************************)
LEMMA DeleteFields ==
  ASSUME NEW self, IsBroker(self), NEW D
  PROVE  LET after == s_worker_delete(self, D)
         IN  /\ after = [workers |-> after.workers, waiting |-> after.waiting,
                         services |-> after.services]
             /\ Known(after) = Known(self) \ D
             /\ \A w \in Known(self) \ D : after.workers[w] = self.workers[w]
             /\ after.waiting = Drop(self.waiting, D)
             /\ DOMAIN after.services = Names
             /\ \A s \in Names :
                  after.services[s] =
                    [requests |-> self.services[s].requests,
                     waiting |-> Drop(self.services[s].waiting, D),
                     worker_num |-> self.services[s].worker_num
                                      - Cardinality(D \cap WorkersOf(self, s))]
<1> DEFINE after == s_worker_delete(self, D)
<1>1. /\ after = [workers |-> after.workers, waiting |-> after.waiting,
                  services |-> after.services]
      /\ Known(after) = Known(self) \ D
      /\ \A w \in Known(self) \ D : after.workers[w] = self.workers[w]
      /\ after.waiting = Drop(self.waiting, D)
      /\ DOMAIN after.services = Names
  BY DEF s_worker_delete, Known
<1>2. ASSUME NEW s \in Names
      PROVE  after.services[s] =
               [requests |-> self.services[s].requests,
                waiting |-> Drop(self.services[s].waiting, D),
                worker_num |-> self.services[s].worker_num
                                 - Cardinality(D \cap WorkersOf(self, s))]
  <2>1. after.services[s] =
          [self.services[s] EXCEPT
             !.waiting = Drop(@, D),
             !.worker_num = @ - Cardinality(D \cap WorkersOf(self, s))]
    BY DEF s_worker_delete
  <2>2. self.services[s] =
          [requests |-> self.services[s].requests, waiting |-> self.services[s].waiting,
           worker_num |-> self.services[s].worker_num]
    BY ServiceFields
  <2> HIDE DEF after
  <2>3. QED
    BY <2>1, <2>2
<1>3. QED
  BY <1>1, <1>2

LEMMA DeleteKeeps ==
  ASSUME NEW self, Core(self), NEW D
  PROVE  LET after == s_worker_delete(self, D)
         IN  /\ Core(after)
             /\ NoNewWorker(self, after)
             /\ Known(after) = Known(self) \ D
             /\ ToSet(after.waiting) = ToSet(self.waiting) \ D
             /\ \A s \in Names :
                  /\ after.services[s].requests = self.services[s].requests
                  /\ self.services[s].waiting = <<>> => after.services[s].waiting = <<>>
<1> DEFINE after == s_worker_delete(self, D)
<1>1. IsBroker(self) /\ Listed(self) /\ Counted(self)
  BY DEF Core
<1>2. /\ after = [workers |-> after.workers, waiting |-> after.waiting,
                  services |-> after.services]
      /\ Known(after) = Known(self) \ D
      /\ \A w \in Known(self) \ D : after.workers[w] = self.workers[w]
      /\ after.waiting = Drop(self.waiting, D)
      /\ DOMAIN after.services = Names
  BY <1>1, DeleteFields
<1>3. after.services = [s \in Names |-> after.services[s]]
  BY DEF s_worker_delete
<1>4. after.workers = [w \in Known(self) \ D |-> self.workers[w]]
  BY DEF s_worker_delete
<1>5. ASSUME NEW s \in Names
      PROVE  /\ after.services[s].requests = self.services[s].requests
             /\ after.services[s].waiting = Drop(self.services[s].waiting, D)
             /\ after.services[s].worker_num =
                  self.services[s].worker_num - Cardinality(D \cap WorkersOf(self, s))
             /\ after.services[s] =
                  [requests |-> after.services[s].requests, waiting |-> after.services[s].waiting,
                   worker_num |-> after.services[s].worker_num]
  <2>1. after.services[s] =
           [requests |-> self.services[s].requests,
            waiting |-> Drop(self.services[s].waiting, D),
            worker_num |-> self.services[s].worker_num
                             - Cardinality(D \cap WorkersOf(self, s))]
    BY <1>1, DeleteFields
  <2> HIDE DEF after
  <2>2. QED
    BY <2>1
<1> HIDE DEF after
<1>6. self.waiting \in Seq(Identity) /\ IsFiniteSet(Known(self)) /\ Known(self) \subseteq Identity
  BY <1>1 DEF IsBroker
<1>7. after.waiting \in Seq(Identity) /\ IsWithout(after.waiting, self.waiting, D)
  BY <1>2, <1>6, DropIsWithout
<1>8. ToSet(after.waiting) = ToSet(self.waiting) \ D /\ IsInjective(after.waiting)
  BY <1>1, <1>6, <1>7, WithoutMembers DEF Listed
<1>9. NoNewWorker(self, after)
  BY <1>2 DEF NoNewWorker
<1>10. ASSUME NEW s \in Names
       PROVE  /\ WorkersOf(after, s) = WorkersOf(self, s) \ D
              /\ after.services[s].requests \in Seq(Request)
              /\ after.services[s].waiting \in Seq(Identity)
              /\ after.services[s].worker_num = Cardinality(WorkersOf(after, s))
              /\ after.services[s].worker_num \in Nat
              /\ ToSet(after.services[s].waiting) = ToSet(after.waiting) \cap WorkersOf(after, s)
              /\ SameOrder(after.services[s].waiting, after.waiting)
              /\ self.services[s].waiting = <<>> => after.services[s].waiting = <<>>
  <2>1. WorkersOf(after, s) = WorkersOf(self, s) \ D
    BY <1>2 DEF WorkersOf
  <2>2. self.services[s].requests \in Seq(Request) /\ self.services[s].waiting \in Seq(Identity)
    BY <1>1, ServiceFields
  <2>3. /\ after.services[s].waiting \in Seq(Identity)
        /\ IsWithout(after.services[s].waiting, self.services[s].waiting, D)
    BY <1>5, <2>2, DropIsWithout
  <2>4. ToSet(after.services[s].waiting) = ToSet(self.services[s].waiting) \ D
    BY <2>2, <2>3, WithoutMembers
  <2>5. /\ ToSet(self.services[s].waiting) = ToSet(self.waiting) \cap WorkersOf(self, s)
        /\ SameOrder(self.services[s].waiting, self.waiting)
    BY <1>1 DEF Listed
  <2>6. SameOrder(after.services[s].waiting, after.waiting)
    BY <1>6, <1>7, <2>2, <2>3, <2>5, WithoutSameOrder
  <2>7. /\ IsFiniteSet(WorkersOf(self, s)) /\ IsFiniteSet(WorkersOf(after, s))
        /\ Cardinality(WorkersOf(after, s)) =
             Cardinality(WorkersOf(self, s)) - Cardinality(WorkersOf(self, s) \cap D)
        /\ Cardinality(WorkersOf(after, s)) \in Nat
    <3>1. IsFiniteSet(WorkersOf(self, s))
      BY <1>6, FS_Subset DEF WorkersOf
    <3>2. /\ IsFiniteSet(WorkersOf(self, s) \ D)
          /\ Cardinality(WorkersOf(self, s) \ D) =
               Cardinality(WorkersOf(self, s)) - Cardinality(WorkersOf(self, s) \cap D)
      BY <3>1, FS_Difference
    <3>3. Cardinality(WorkersOf(self, s) \ D) \in Nat
      BY <3>2, FS_CardinalityType
    <3>4. QED
      BY <2>1, <3>1, <3>2, <3>3
  <2>8. self.services[s].worker_num = Cardinality(WorkersOf(self, s))
    BY <1>1 DEF Counted
  <2>9. WorkersOf(self, s) \cap D = D \cap WorkersOf(self, s)
    OBVIOUS
  <2>10. after.services[s].worker_num = Cardinality(WorkersOf(after, s))
    BY <1>5, <2>7, <2>8, <2>9
  <2>11. ASSUME self.services[s].waiting = <<>> PROVE after.services[s].waiting = <<>>
    <3>1. ToSet(after.services[s].waiting) = {}
      BY <2>4, <2>11, NoMembers
    <3>2. QED
      BY <2>3, <3>1, NoMembers
  <2>12. QED
    BY <1>5, <1>8, <2>1, <2>2, <2>3, <2>4, <2>5, <2>6, <2>7, <2>10, <2>11
<1>11. IsBroker(after)
  <2>1. IsFiniteSet(Known(after)) /\ Known(after) \subseteq Identity
    BY <1>2, <1>6, FS_Subset
  <2>2. after.workers \in
          [Known(after) -> [service : Names \cup {NoService}, expiry : 0..HEARTBEAT_EXPIRY]]
    BY <1>1, <1>2, <1>4 DEF IsBroker
  <2>3. ASSUME NEW s \in Names
        PROVE  after.services[s] \in
                 [requests : Seq(Request), waiting : Seq(Identity), worker_num : Nat]
    <3>1. after.services[s] =
            [requests |-> after.services[s].requests, waiting |-> after.services[s].waiting,
             worker_num |-> after.services[s].worker_num]
      BY <1>5
    <3>2. /\ after.services[s].requests \in Seq(Request)
          /\ after.services[s].waiting \in Seq(Identity)
          /\ after.services[s].worker_num \in Nat
      BY <1>10
    <3>3. QED
      BY <3>1, <3>2
  <2>4. after.services \in
          [Names -> [requests : Seq(Request), waiting : Seq(Identity), worker_num : Nat]]
    BY <1>3, <2>3
  <2>5. QED
    BY <1>2, <1>7, <2>1, <2>2, <2>4 DEF IsBroker
<1>12. Listed(after)
  <2>1. ToSet(self.waiting) \subseteq Known(self)
    BY <1>1 DEF Listed
  <2>2. QED
    BY <1>2, <1>8, <1>10, <2>1 DEF Listed
<1>13. Counted(after)
  BY <1>10 DEF Counted
<1>14. QED
  BY <1>2, <1>5, <1>8, <1>9, <1>10, <1>11, <1>12, <1>13 DEF Core, after

(***************************************************************************)
(* The broker object with the workers W, the list L and, for the service   *)
(* s, the requests R, the waiting workers V and the count C.  Every        *)
(* handler that does not delete makes such a change.                       *)
(***************************************************************************)
Made(self, W, L, s, R, V, C) ==
  [workers |-> W, waiting |-> L,
   services |-> [self.services EXCEPT
                   ![s] = [requests |-> R, waiting |-> V, worker_num |-> C]]]

Of(W, s) == {w \in DOMAIN W : W[w].service = s}

WorkerTable(W) ==
  /\ IsFiniteSet(DOMAIN W)
  /\ DOMAIN W \subseteq Identity
  /\ W \in [DOMAIN W -> [service : Names \cup {NoService}, expiry : 0..HEARTBEAT_EXPIRY]]

ListedIn(V, L, W, s) == ToSet(V) = ToSet(L) \cap Of(W, s) /\ SameOrder(V, L)

LEMMA CoreParts ==
  ASSUME NEW self, Core(self)
  PROVE  /\ self = [workers |-> self.workers, waiting |-> self.waiting, services |-> self.services]
         /\ WorkerTable(self.workers)
         /\ Known(self) = DOMAIN self.workers
         /\ self.waiting \in Seq(Identity)
         /\ IsInjective(self.waiting)
         /\ ToSet(self.waiting) \subseteq Known(self)
         /\ DOMAIN self.services = Names
         /\ \A s \in Names :
              /\ self.services[s] =
                   [requests |-> self.services[s].requests, waiting |-> self.services[s].waiting,
                    worker_num |-> self.services[s].worker_num]
              /\ self.services[s].requests \in Seq(Request)
              /\ self.services[s].waiting \in Seq(Identity)
              /\ self.services[s].worker_num \in Nat
              /\ WorkersOf(self, s) = Of(self.workers, s)
              /\ ListedIn(self.services[s].waiting, self.waiting, self.workers, s)
              /\ self.services[s].worker_num = Cardinality(Of(self.workers, s))
<1>1. IsBroker(self) /\ Listed(self) /\ Counted(self)
  BY DEF Core
<1>2. /\ self = [workers |-> self.workers, waiting |-> self.waiting, services |-> self.services]
      /\ Known(self) = DOMAIN self.workers
      /\ self.waiting \in Seq(Identity)
      /\ DOMAIN self.services = Names
  BY <1>1 DEF IsBroker, Known
<1>3. WorkerTable(self.workers)
  BY <1>1 DEF IsBroker, WorkerTable, Known
<1>4. IsInjective(self.waiting) /\ ToSet(self.waiting) \subseteq Known(self)
  BY <1>1 DEF Listed
<1>5. ASSUME NEW s \in Names
      PROVE  /\ self.services[s] =
                  [requests |-> self.services[s].requests, waiting |-> self.services[s].waiting,
                   worker_num |-> self.services[s].worker_num]
             /\ self.services[s].requests \in Seq(Request)
             /\ self.services[s].waiting \in Seq(Identity)
             /\ self.services[s].worker_num \in Nat
  BY <1>1, ServiceFields
<1>6. ASSUME NEW s \in Names PROVE WorkersOf(self, s) = Of(self.workers, s)
  BY DEF WorkersOf, Of, Known
<1>7. ASSUME NEW s \in Names
      PROVE  /\ ListedIn(self.services[s].waiting, self.waiting, self.workers, s)
             /\ self.services[s].worker_num = Cardinality(Of(self.workers, s))
  BY <1>1, <1>6 DEF Listed, Counted, ListedIn
<1>8. QED
  BY <1>2, <1>3, <1>4, <1>5, <1>6, <1>7

LEMMA MadeFields ==
  ASSUME NEW self, Core(self), NEW s \in Names, NEW W, NEW L, NEW R, NEW V, NEW C
  PROVE  LET after == Made(self, W, L, s, R, V, C)
         IN  /\ after = [workers |-> after.workers, waiting |-> after.waiting,
                         services |-> after.services]
             /\ after.workers = W /\ Known(after) = DOMAIN W
             /\ after.waiting = L
             /\ after.services = [t \in Names |-> after.services[t]]
             /\ after.services[s] = [requests |-> R, waiting |-> V, worker_num |-> C]
             /\ after.services[s].requests = R
             /\ after.services[s].waiting = V
             /\ after.services[s].worker_num = C
             /\ \A t \in Names : t # s => after.services[t] = self.services[t]
<1>1. DOMAIN self.services = Names
  BY CoreParts
<1> DEFINE after == Made(self, W, L, s, R, V, C)
<1>2. /\ after = [workers |-> after.workers, waiting |-> after.waiting, services |-> after.services]
      /\ after.workers = W /\ Known(after) = DOMAIN W
      /\ after.waiting = L
  BY DEF Made, Known
<1>3. after.services =
        [self.services EXCEPT ![s] = [requests |-> R, waiting |-> V, worker_num |-> C]]
  BY DEF Made
<1> HIDE DEF after
<1>4. /\ after.services[s] = [requests |-> R, waiting |-> V, worker_num |-> C]
      /\ \A t \in Names : t # s => after.services[t] = self.services[t]
      /\ after.services = [t \in Names |-> after.services[t]]
  BY <1>1, <1>3
<1>5. /\ after.services[s].requests = R
      /\ after.services[s].waiting = V
      /\ after.services[s].worker_num = C
  BY <1>4
<1>6. QED
  BY <1>2, <1>4, <1>5 DEF after

LEMMA MadeKeeps ==
  ASSUME NEW self, Core(self), NEW s \in Names, NEW W, NEW L, NEW R, NEW V, NEW C,
         WorkerTable(W), L \in Seq(Identity), R \in Seq(Request), V \in Seq(Identity),
         IsInjective(L), ToSet(L) \subseteq DOMAIN W,
         C = Cardinality(Of(W, s)), ListedIn(V, L, W, s),
         \A t \in Names : t # s =>
           /\ Of(W, t) = Of(self.workers, t)
           /\ ListedIn(self.services[t].waiting, L, W, t)
  PROVE  Core(Made(self, W, L, s, R, V, C))
<1> DEFINE after == Made(self, W, L, s, R, V, C)
<1>1. /\ after = [workers |-> after.workers, waiting |-> after.waiting, services |-> after.services]
      /\ after.workers = W /\ Known(after) = DOMAIN W
      /\ after.waiting = L
      /\ after.services = [t \in Names |-> after.services[t]]
      /\ after.services[s] = [requests |-> R, waiting |-> V, worker_num |-> C]
      /\ after.services[s].requests = R
      /\ after.services[s].waiting = V
      /\ after.services[s].worker_num = C
      /\ \A t \in Names : t # s => after.services[t] = self.services[t]
  BY MadeFields
<1> HIDE DEF after
<1>2. C \in Nat
  <2>1. Of(W, s) \subseteq DOMAIN W /\ IsFiniteSet(DOMAIN W)
    BY DEF Of, WorkerTable
  <2>2. QED
    BY <2>1, FS_Subset, FS_CardinalityType
<1>3. ASSUME NEW t \in Names
      PROVE  /\ after.services[t] \in
                  [requests : Seq(Request), waiting : Seq(Identity), worker_num : Nat]
             /\ ListedIn(after.services[t].waiting, L, W, t)
             /\ after.services[t].worker_num = Cardinality(Of(W, t))
  <2>1. CASE t = s
    BY <1>1, <1>2, <2>1
  <2>2. CASE t # s
    <3>1. after.services[t] = self.services[t]
      BY <1>1, <2>2
    <3>2. self.services[t] \in
            [requests : Seq(Request), waiting : Seq(Identity), worker_num : Nat]
      BY DEF Core, IsBroker
    <3>3. self.services[t].worker_num = Cardinality(Of(self.workers, t))
      BY CoreParts
    <3>4. QED
      BY <2>2, <3>1, <3>2, <3>3
  <2>3. QED
    BY <2>1, <2>2
<1>4. IsBroker(after)
  <2>1. after.services \in
          [Names -> [requests : Seq(Request), waiting : Seq(Identity), worker_num : Nat]]
    BY <1>1, <1>3
  <2>2. QED
    BY <1>1, <2>1 DEF IsBroker, WorkerTable
<1>5. ASSUME NEW t \in Names PROVE WorkersOf(after, t) = Of(W, t)
  BY <1>1 DEF WorkersOf, Of
<1>6. Listed(after) /\ Counted(after)
  BY <1>1, <1>3, <1>5 DEF Listed, Counted, ListedIn
<1>7. QED
  BY <1>4, <1>6 DEF Core, after

(***************************************************************************)
(* s_worker_require.                                                       *)
(***************************************************************************)
LEMMA RequireKeeps ==
  ASSUME NEW self, Core(self), NEW w \in Identity
  PROVE  LET after == s_worker_require(self, w)
         IN  /\ Core(after)
             /\ Known(after) = Known(self) \cup {w}
             /\ \A v \in Known(self) : after.workers[v] = self.workers[v]
             /\ w \notin Known(self) => after.workers[w] = [service |-> NoService, expiry |-> 0]
             /\ after.waiting = self.waiting
             /\ after.services = self.services
<1>1. CASE w \in Known(self)
  BY <1>1 DEF s_worker_require
<1>2. CASE w \notin Known(self)
  <2> DEFINE W == [v \in Known(self) \cup {w} |->
                     IF v = w THEN [service |-> NoService, expiry |-> 0] ELSE self.workers[v]]
  <2>1. s_worker_require(self, w) = [self EXCEPT !.workers = W]
    BY <1>2 DEF s_worker_require
  <2>2. /\ DOMAIN W = Known(self) \cup {w}
        /\ W[w] = [service |-> NoService, expiry |-> 0]
        /\ \A v \in Known(self) : W[v] = self.workers[v]
        /\ W = [v \in Known(self) \cup {w} |-> W[v]]
    BY <1>2
  <2> HIDE DEF W
  <2> DEFINE after == [workers |-> W, waiting |-> self.waiting, services |-> self.services]
  <2>3. s_worker_require(self, w) = after
    <3>1. self = [workers |-> self.workers, waiting |-> self.waiting, services |-> self.services]
      BY CoreParts
    <3>2. QED
      BY <2>1, <3>1
  <2>4. /\ after.workers = W /\ after.waiting = self.waiting /\ after.services = self.services
        /\ Known(after) = Known(self) \cup {w}
    BY <2>2 DEF Known
  <2> HIDE DEF after
  <2>5. IsBroker(self) /\ Listed(self) /\ Counted(self)
    BY DEF Core
  <2>6. \A s \in Names : WorkersOf(after, s) = WorkersOf(self, s)
    <3>1. TAKE s \in Names
    <3>2. s # NoService
      BY BrokerAssumption
    <3>3. QED
      BY <1>2, <2>2, <2>4, <3>2 DEF WorkersOf
  <2>7. IsBroker(after)
    <3>1. IsFiniteSet(Known(after)) /\ Known(after) \subseteq Identity
      <4>1. IsFiniteSet(Known(self)) /\ Known(self) \subseteq Identity
        BY <2>5 DEF IsBroker
      <4>2. IsFiniteSet(Known(self) \cup {w})
        BY <4>1, FS_AddElement
      <4>3. QED
        BY <2>4, <4>1, <4>2
    <3>2. \A v \in Known(self) :
            self.workers[v] \in [service : Names \cup {NoService}, expiry : 0..HEARTBEAT_EXPIRY]
      BY <2>5 DEF IsBroker
    <3>3. [service |-> NoService, expiry |-> 0] \in
            [service : Names \cup {NoService}, expiry : 0..HEARTBEAT_EXPIRY]
      BY BrokerAssumption
    <3>4. \A v \in Known(after) :
            W[v] \in [service : Names \cup {NoService}, expiry : 0..HEARTBEAT_EXPIRY]
      BY <2>2, <2>4, <3>2, <3>3
    <3>5. after.workers \in
            [Known(after) -> [service : Names \cup {NoService}, expiry : 0..HEARTBEAT_EXPIRY]]
      BY <2>2, <2>4, <3>4
    <3>6. after = [workers |-> after.workers, waiting |-> after.waiting,
                   services |-> after.services]
      BY <2>4 DEF after
    <3>7. QED
      BY <2>4, <2>5, <3>1, <3>5, <3>6 DEF IsBroker
  <2>8. Listed(after) /\ Counted(after)
    BY <2>4, <2>5, <2>6 DEF Listed, Counted
  <2>9. QED
    BY <2>2, <2>3, <2>4, <2>7, <2>8 DEF Core
<1>3. QED
  BY <1>1, <1>2

(***************************************************************************)
(* s_service_dispatch, in three parts.                                     *)
(***************************************************************************)
Queued(self, s, msgs) == [self EXCEPT !.services[s].requests = @ \o msgs]

Assigned(p, s) == Min({Len(p.services[s].requests), Len(p.services[s].waiting)})

Busy(p, s) == {p.services[s].waiting[i] : i \in 1..Assigned(p, s)}

HandOut(p, s) ==
  LET requests == p.services[s].requests
      waiting == p.services[s].waiting
      n == Assigned(p, s)
  IN  [self |-> [p EXCEPT
                   !.waiting = TakeFrom(@, Busy(p, s)),
                   !.services[s].waiting = SubSeq(@, n + 1, Len(@)),
                   !.services[s].requests = StillQueued(@, n)],
       out |-> [w \in Busy(p, s) |->
                  RequestMsg(requests[CHOOSE i \in 1..n : waiting[i] = w])]]

LEMMA DispatchIs ==
  \A self, s, msgs :
    s_service_dispatch(self, s, msgs) = HandOut(s_broker_purge(Queued(self, s, msgs)), s)
  BY DEF s_service_dispatch, HandOut, Queued, Assigned, Busy

LEMMA QueueKeeps ==
  ASSUME NEW self, Core(self), NEW s \in Names, NEW msgs \in Seq(Request)
  PROVE  LET after == Queued(self, s, msgs)
         IN  /\ Core(after)
             /\ after.workers = self.workers /\ after.waiting = self.waiting
             /\ \A t \in Names : after.services[t].waiting = self.services[t].waiting
             /\ after.services[s].requests = self.services[s].requests \o msgs
             /\ \A t \in Names : t # s => after.services[t].requests = self.services[t].requests
<1>1. PICK W, L, Q, R, V, C :
        /\ W = self.workers /\ L = self.waiting
        /\ Q = self.services[s].requests /\ R = Q \o msgs
        /\ V = self.services[s].waiting /\ C = self.services[s].worker_num
  OBVIOUS
<1>2. /\ self = [workers |-> W, waiting |-> L, services |-> self.services]
      /\ self.services[s] = [requests |-> Q, waiting |-> V, worker_num |-> C]
      /\ DOMAIN self.services = Names
      /\ Q \in Seq(Request)
  BY <1>1, CoreParts
<1>3. Queued(self, s, msgs) = Made(self, W, L, s, R, V, C)
  <2>1. [self.services[s] EXCEPT !.requests = R] =
          [requests |-> R, waiting |-> V, worker_num |-> C]
    BY <1>2
  <2>2. Queued(self, s, msgs) =
          [self EXCEPT !.services =
             [self.services EXCEPT ![s] = [self.services[s] EXCEPT !.requests = R]]]
    BY <1>1 DEF Queued
  <2>3. PICK X : X = [self.services EXCEPT
                        ![s] = [requests |-> R, waiting |-> V, worker_num |-> C]]
    OBVIOUS
  <2>4. Queued(self, s, msgs) = [self EXCEPT !.services = X]
    BY <2>1, <2>2, <2>3
  <2>5. [self EXCEPT !.services = X] = [workers |-> W, waiting |-> L, services |-> X]
    BY <1>2
  <2>6. QED
    BY <2>3, <2>4, <2>5 DEF Made
<1>4. Core(Made(self, W, L, s, R, V, C))
  <2>1. R \in Seq(Request)
    BY <1>1, <1>2, ConcatProperties
  <2>2. /\ WorkerTable(W) /\ L \in Seq(Identity) /\ V \in Seq(Identity)
        /\ IsInjective(L) /\ ToSet(L) \subseteq DOMAIN W
        /\ C = Cardinality(Of(W, s)) /\ ListedIn(V, L, W, s)
        /\ \A t \in Names : ListedIn(self.services[t].waiting, L, W, t)
    BY <1>1, CoreParts
  <2>3. \A t \in Names : Of(W, t) = Of(self.workers, t)
    BY <1>1
  <2>4. QED
    BY <2>1, <2>2, <2>3, MadeKeeps
<1> DEFINE after == Made(self, W, L, s, R, V, C)
<1>5. /\ after = [workers |-> after.workers, waiting |-> after.waiting, services |-> after.services]
      /\ after.workers = W /\ Known(after) = DOMAIN W
      /\ after.waiting = L
      /\ after.services = [t \in Names |-> after.services[t]]
      /\ after.services[s] = [requests |-> R, waiting |-> V, worker_num |-> C]
      /\ after.services[s].requests = R
      /\ after.services[s].waiting = V
      /\ after.services[s].worker_num = C
      /\ \A t \in Names : t # s => after.services[t] = self.services[t]
  BY MadeFields
<1> HIDE DEF after
<1>6. \A t \in Names : after.services[t].waiting = self.services[t].waiting
  BY <1>1, <1>5
<1>7. Queued(self, s, msgs) = after /\ Core(after)
  BY <1>3, <1>4 DEF after
<1>8. QED
  BY <1>1, <1>5, <1>6, <1>7

LEMMA ListedOnce ==
  ASSUME NEW S, NEW V \in Seq(S), NEW L \in Seq(S), SameOrder(V, L), ToSet(V) \subseteq ToSet(L)
  PROVE  IsInjective(V)
<1>1. SUFFICES ASSUME NEW i \in 1..Len(V), NEW j \in 1..Len(V), V[i] = V[j] PROVE i = j
  BY MembersOf
<1>2. PICK m \in 1..Len(L) : L[m] = V[i]
  <2>1. V[i] \in ToSet(V)
    BY MembersOf
  <2>2. V[i] \in ToSet(L) /\ ToSet(L) = {L[m] : m \in 1..Len(L)}
    BY <2>1, MembersOf
  <2>3. QED
    BY <2>2
<1>3. (i < j <=> m < m) /\ (j < i <=> m < m)
  BY <1>1, <1>2, MembersOf DEF SameOrder
<1>4. i \in Nat /\ j \in Nat /\ m \in Nat
  BY MembersOf
<1>5. QED
  BY <1>3, <1>4

LEMMA SuffixFields ==
  ASSUME NEW S, NEW list \in Seq(S), NEW n \in 0..Len(list)
  PROVE  /\ SubSeq(list, n + 1, Len(list)) \in Seq(S)
         /\ Len(SubSeq(list, n + 1, Len(list))) = Len(list) - n
         /\ \A i \in 1..(Len(list) - n) : SubSeq(list, n + 1, Len(list))[i] = list[n + i]
<1>1. PICK L \in Nat : L = Len(list)
  BY MembersOf
<1>2. n \in Nat /\ n <= L
  BY <1>1
<1>3. \A i \in (n + 1)..L : list[i] \in S
  BY <1>1, <1>2, ElementOfSeq
<1>4. /\ SubSeq(list, n + 1, L) \in Seq(S)
      /\ Len(SubSeq(list, n + 1, L)) = L - n
      /\ \A i \in 1..(L - n) : SubSeq(list, n + 1, L)[i] = list[n + i]
  <2>1. SubSeq(list, n + 1, L) \in Seq(S)
    BY <1>2, <1>3, SubSeqProperties
  <2>2. Len(SubSeq(list, n + 1, L)) = L - n
    BY <1>1, <1>2, <1>3, SubSeqProperties
  <2>3. \A i \in 1..(L - n) : SubSeq(list, n + 1, L)[i] = list[n + i]
    BY <1>2
  <2>4. QED
    BY <2>1, <2>2, <2>3
<1>5. QED
  BY <1>1, <1>4

LEMMA HandOutIs ==
  ASSUME NEW p, Core(p), NEW s \in Names
  PROVE  LET n == Assigned(p, s)
             Q == p.services[s].requests
             V == p.services[s].waiting
         IN  /\ HandOut(p, s).self =
                  Made(p, p.workers, Drop(p.waiting, Busy(p, s)), s,
                       SubSeq(Q, n + 1, Len(Q)), SubSeq(V, n + 1, Len(V)),
                       p.services[s].worker_num)
             /\ HandOut(p, s).out =
                  [w \in Busy(p, s) |-> RequestMsg(Q[CHOOSE i \in 1..n : V[i] = w])]
<1>1. PICK W, L, Q, V, C, n, D :
        /\ W = p.workers /\ L = p.waiting
        /\ Q = p.services[s].requests /\ V = p.services[s].waiting
        /\ C = p.services[s].worker_num
        /\ n = Assigned(p, s) /\ D = Busy(p, s)
  OBVIOUS
<1>2. PICK L2, Q2, V2 :
        /\ L2 = Drop(L, D)
        /\ Q2 = SubSeq(Q, n + 1, Len(Q)) /\ V2 = SubSeq(V, n + 1, Len(V))
  OBVIOUS
<1>3. /\ p = [workers |-> W, waiting |-> L, services |-> p.services]
      /\ p.services[s] = [requests |-> Q, waiting |-> V, worker_num |-> C]
      /\ DOMAIN p.services = Names
  BY <1>1, CoreParts
<1>4. HandOut(p, s).self =
        [p EXCEPT !.waiting = L2,
                  !.services[s].waiting = V2,
                  !.services[s].requests = Q2]
  BY <1>1, <1>2 DEF HandOut, TakeFrom, StillQueued
<1>5. PICK X : X = [p.services EXCEPT ![s] = [requests |-> Q2, waiting |-> V2, worker_num |-> C]]
  OBVIOUS
<1>6. [p EXCEPT !.waiting = L2, !.services[s].waiting = V2, !.services[s].requests = Q2] =
        [workers |-> W, waiting |-> L2, services |-> X]
  <2>1. [[requests |-> Q, waiting |-> V, worker_num |-> C] EXCEPT !.waiting = V2] =
          [requests |-> Q, waiting |-> V2, worker_num |-> C]
    OBVIOUS
  <2>2. [[requests |-> Q, waiting |-> V2, worker_num |-> C] EXCEPT !.requests = Q2] =
          [requests |-> Q2, waiting |-> V2, worker_num |-> C]
    OBVIOUS
  <2>3. PICK Y : Y = [p.services EXCEPT ![s] = [p.services[s] EXCEPT !.waiting = V2]]
    OBVIOUS
  <2>4. Y[s] = [requests |-> Q, waiting |-> V2, worker_num |-> C]
    BY <1>3, <2>1, <2>3
  <2>5. [Y EXCEPT ![s] = [Y[s] EXCEPT !.requests = Q2]] = X
    <3>1. [Y[s] EXCEPT !.requests = Q2] = [requests |-> Q2, waiting |-> V2, worker_num |-> C]
      BY <2>2, <2>4
    <3>2. QED
      BY <1>3, <1>5, <2>3, <3>1
  <2>6. PICK p1 : p1 = [workers |-> W, waiting |-> L2, services |-> p.services]
    OBVIOUS
  <2>7. [p EXCEPT !.waiting = L2] = p1 /\ p1.services = p.services
    BY <1>3, <2>6
  <2>8. PICK p2 : p2 = [workers |-> W, waiting |-> L2, services |-> Y]
    OBVIOUS
  <2>9. [p1 EXCEPT !.services[s].waiting = V2] = p2 /\ p2.services = Y
    <3>1. [p1 EXCEPT !.services[s].waiting = V2] = [p1 EXCEPT !.services = Y]
      BY <2>3, <2>7
    <3>2. QED
      BY <2>6, <2>8, <3>1
  <2>10. [p2 EXCEPT !.services[s].requests = Q2] =
           [workers |-> W, waiting |-> L2, services |-> X]
    <3>1. [p2 EXCEPT !.services[s].requests = Q2] = [p2 EXCEPT !.services = X]
      BY <2>5, <2>9
    <3>2. QED
      BY <2>8, <3>1
  <2>11. QED
    BY <2>7, <2>9, <2>10
<1>7. HandOut(p, s).self = Made(p, W, L2, s, Q2, V2, C)
  BY <1>4, <1>5, <1>6 DEF Made
<1>8. HandOut(p, s).out =
        [w \in Busy(p, s) |-> RequestMsg(Q[CHOOSE i \in 1..n : V[i] = w])]
  BY <1>1 DEF HandOut
<1>9. QED
  BY <1>1, <1>2, <1>7, <1>8

(* Each worker of out is sent a request of its own, one of the first n.    *)
HandsOut(out, requests, n) ==
  \E at :
    /\ at \in [DOMAIN out -> 1..n]
    /\ \A v \in DOMAIN out : out[v] = RequestMsg(requests[at[v]])
    /\ \A v, w \in DOMAIN out : at[v] = at[w] => v = w

LEMMA AssignedIs ==
  ASSUME NEW p, Core(p), NEW s \in Names
  PROVE  LET n == Assigned(p, s)
             K == Len(p.services[s].requests)
             M == Len(p.services[s].waiting)
         IN  n \in Nat /\ n <= K /\ n <= M /\ (n = K \/ n = M)
<1>1. PICK K \in Nat, M \in Nat : K = Len(p.services[s].requests) /\ M = Len(p.services[s].waiting)
  <2>1. p.services[s].requests \in Seq(Request) /\ p.services[s].waiting \in Seq(Identity)
    BY CoreParts
  <2>2. QED
    BY <2>1, LenProperties
<1>2. \E x \in {K, M} : \A y \in {K, M} : x <= y
  OBVIOUS
<1>3. Min({K, M}) \in {K, M} /\ \A y \in {K, M} : Min({K, M}) <= y
  BY <1>2 DEF Min
<1>4. QED
  BY <1>1, <1>3 DEF Assigned

LEMMA HandOutKeeps ==
  ASSUME NEW p, Core(p), NEW s \in Names
  PROVE  LET r == HandOut(p, s)
             n == Assigned(p, s)
             Q == p.services[s].requests
         IN  /\ Core(r.self)
             /\ r.self.workers = p.workers
             /\ Dispatched(r.self, s)
             /\ \A t \in Names : t # s => r.self.services[t] = p.services[t]
             /\ r.self.services[s].requests = SubSeq(Q, n + 1, Len(Q))
             /\ ToSet(r.self.waiting) = ToSet(p.waiting) \ Busy(p, s)
             /\ Busy(p, s) \subseteq ToSet(p.waiting)
             /\ DOMAIN r.out = Busy(p, s)
             /\ HandsOut(r.out, Q, n)
<1>1. PICK W, L, Q, V, C, n, D :
        /\ W = p.workers /\ L = p.waiting
        /\ Q = p.services[s].requests /\ V = p.services[s].waiting
        /\ C = p.services[s].worker_num
        /\ n = Assigned(p, s) /\ D = Busy(p, s)
  OBVIOUS
<1>2. PICK K, M : K = Len(Q) /\ M = Len(V)
  OBVIOUS
<1>3. /\ WorkerTable(W) /\ L \in Seq(Identity) /\ Q \in Seq(Request) /\ V \in Seq(Identity)
      /\ IsInjective(L) /\ ToSet(L) \subseteq DOMAIN W
      /\ C = Cardinality(Of(W, s)) /\ ListedIn(V, L, W, s)
  BY <1>1, CoreParts
<1>4. K \in Nat /\ M \in Nat /\ n \in Nat /\ n <= K /\ n <= M /\ (n = K \/ n = M)
  <2>1. K \in Nat /\ M \in Nat
    BY <1>2, <1>3, LenProperties
  <2>2. QED
    BY <1>1, <1>2, <2>1, AssignedIs
<1>5. ToSet(V) = ToSet(L) \cap Of(W, s) /\ SameOrder(V, L)
  BY <1>3 DEF ListedIn
<1>6. \A i, j \in 1..M : V[i] = V[j] => i = j
  BY <1>2, <1>3, <1>5, ListedOnce, MembersOf
<1>7. D = {V[i] : i \in 1..n} /\ D \subseteq ToSet(V)
  <2>1. D = {V[i] : i \in 1..n}
    BY <1>1 DEF Busy
  <2>2. \A i \in 1..n : i \in 1..M
    BY <1>4
  <2>3. \A i \in 1..M : V[i] \in ToSet(V)
    BY <1>2, <1>3, MembersOf
  <2>4. QED
    BY <2>1, <2>2, <2>3
<1>8. \A i \in 1..M : V[i] \in D <=> i <= n
  <2>1. \A i \in 1..M : i <= n => i \in 1..n
    BY <1>4
  <2>2. \A i \in 1..n : i \in 1..M /\ i <= n
    BY <1>4
  <2>3. QED
    BY <1>6, <1>7, <2>1, <2>2
<1>9. PICK L2, Q2, V2 :
        /\ L2 = Drop(L, D)
        /\ Q2 = SubSeq(Q, n + 1, K) /\ V2 = SubSeq(V, n + 1, M)
  OBVIOUS
<1>10. L2 \in Seq(Identity) /\ IsWithout(L2, L, D)
  BY <1>3, <1>9, DropIsWithout
<1>11. ToSet(L2) = ToSet(L) \ D /\ IsInjective(L2)
  BY <1>3, <1>10, WithoutMembers
<1>12. V2 \in Seq(Identity) /\ IsWithout(V2, V, D)
  <2>1. IsInjective(V) /\ n \in 0..Len(V)
    BY <1>2, <1>3, <1>4, <1>6, MembersOf
  <2>2. \A i \in 1..Len(V) : V[i] \in D <=> i <= n
    BY <1>2, <1>8
  <2>3. QED
    BY <1>2, <1>3, <1>9, <2>1, <2>2, SuffixIsWithout
<1>13. ListedIn(V2, L2, W, s)
  <2>1. ToSet(V2) = ToSet(V) \ D
    BY <1>3, <1>12, WithoutMembers
  <2>2. SameOrder(V2, L2)
    BY <1>3, <1>5, <1>10, <1>12, WithoutSameOrder
  <2>3. QED
    BY <1>5, <1>11, <2>1, <2>2 DEF ListedIn
<1>14. ASSUME NEW t \in Names, t # s
       PROVE  Of(W, t) = Of(p.workers, t) /\ ListedIn(p.services[t].waiting, L2, W, t)
  <2>1. PICK T : T = p.services[t].waiting
    OBVIOUS
  <2>2. T \in Seq(Identity) /\ ListedIn(T, L, W, t)
    BY <1>1, <2>1, CoreParts
  <2>3. ToSet(T) = ToSet(L) \cap Of(W, t) /\ SameOrder(T, L)
    BY <2>2 DEF ListedIn
  <2>4. Of(W, t) \cap Of(W, s) = {}
    BY <1>14 DEF Of
  <2>5. ToSet(T) \cap D = {}
    BY <1>5, <1>7, <2>3, <2>4
  <2>6. IsWithout(T, T, D)
    BY <2>2, <2>5, WithoutNone
  <2>7. SameOrder(T, L2)
    BY <1>3, <1>10, <2>2, <2>3, <2>6, WithoutSameOrder
  <2>8. ToSet(T) = ToSet(L2) \cap Of(W, t)
    BY <1>11, <2>3, <2>5
  <2>9. QED
    BY <1>1, <2>1, <2>7, <2>8 DEF ListedIn
<1>15. Q2 \in Seq(Request) /\ Len(Q2) = K - n /\ V2 \in Seq(Identity) /\ Len(V2) = M - n
  <2>1. n \in 0..Len(Q) /\ n \in 0..Len(V)
    BY <1>2, <1>4
  <2>2. QED
    BY <1>2, <1>3, <1>9, <2>1, SuffixFields
<1> DEFINE after == Made(p, W, L2, s, Q2, V2, C)
<1>16. HandOut(p, s).self = after
  BY <1>1, <1>2, <1>9, HandOutIs
<1>17. Core(after)
  <2>1. ToSet(L2) \subseteq DOMAIN W
    BY <1>3, <1>11
  <2>2. \A t \in Names : t # s => Of(W, t) = Of(p.workers, t) /\ ListedIn(p.services[t].waiting, L2, W, t)
    BY <1>14
  <2>3. QED
    BY <1>3, <1>10, <1>11, <1>13, <1>15, <2>1, <2>2, MadeKeeps
<1>18. /\ after = [workers |-> after.workers, waiting |-> after.waiting, services |-> after.services]
       /\ after.workers = W /\ Known(after) = DOMAIN W
       /\ after.waiting = L2
       /\ after.services = [t \in Names |-> after.services[t]]
       /\ after.services[s] = [requests |-> Q2, waiting |-> V2, worker_num |-> C]
       /\ after.services[s].requests = Q2
       /\ after.services[s].waiting = V2
       /\ after.services[s].worker_num = C
       /\ \A t \in Names : t # s => after.services[t] = p.services[t]
  BY MadeFields
<1> HIDE DEF after
<1>19. Dispatched(after, s)
  <2>1. K - n = 0 \/ M - n = 0
    BY <1>4
  <2>2. QED
    BY <1>15, <1>18, <2>1, EmptySeq DEF Dispatched
<1>20. PICK out : out = HandOut(p, s).out
  OBVIOUS
<1>21. out = [w \in D |-> RequestMsg(Q[CHOOSE i \in 1..n : V[i] = w])]
  BY <1>1, <1>20 DEF HandOut
<1>22. HandsOut(out, Q, n)
  <2> DEFINE at == [w \in D |-> CHOOSE i \in 1..n : V[i] = w]
  <2>1. ASSUME NEW w \in D PROVE at[w] \in 1..n /\ V[at[w]] = w
    <3>1. \E i \in 1..n : V[i] = w
      BY <1>7
    <3>2. QED
      BY <3>1
  <2>2. DOMAIN at = D /\ DOMAIN out = D /\ \A w \in D : out[w] = RequestMsg(Q[at[w]])
    BY <1>21
  <2>3. at \in [D -> 1..n]
    BY <2>1
  <2> HIDE DEF at
  <2>4. \A v, w \in D : at[v] = at[w] => v = w
    BY <2>1
  <2>5. QED
    BY <2>2, <2>3, <2>4 DEF HandsOut
<1>23. DOMAIN out = D
  BY <1>21
<1>24. D \subseteq ToSet(L)
  BY <1>5, <1>7
<1>25. HandOut(p, s).self = after /\ HandOut(p, s).out = out
  BY <1>16, <1>20
<1>26. QED
  BY <1>1, <1>2, <1>9, <1>11, <1>17, <1>18, <1>19, <1>22, <1>23, <1>24, <1>25

(***************************************************************************)
(* What a handler called on self leaves and sends: the broker object is    *)
(* sound, it knows at most the workers K more than before, of which W may  *)
(* wait, a request is sent only to a worker that waited or is in W and     *)
(* waits no more, and every request of self or of msgs is still queued, or *)
(* sent, once.                                                             *)
(***************************************************************************)
Loaded(out) == {v \in DOMAIN out : out[v].command = "REQUEST"}

HandedOn(all, rest, out) ==
  \E n \in 0..Len(all) : \E at :
    /\ rest = SubSeq(all, n + 1, Len(all))
    /\ at \in [Loaded(out) -> 1..n]
    /\ \A v \in Loaded(out) : out[v] = RequestMsg(all[at[v]])
    /\ \A v, w \in Loaded(out) : at[v] = at[w] => v = w

Moves(self, s, msgs, r) ==
  HandedOn(self.services[s].requests \o msgs, r.self.services[s].requests, r.out)

Outcome(self, K, W, msgs, r) ==
  /\ BrokerInv(r.self)
  /\ Known(r.self) \subseteq Known(self) \cup K
  /\ ToSet(r.self.waiting) \subseteq ToSet(self.waiting) \cup W
  /\ \A v \in DOMAIN r.out : r.out[v] \in BrokerMessage
  /\ Loaded(r.out) \subseteq (ToSet(self.waiting) \cup W) \ ToSet(r.self.waiting)
  /\ \E s \in Names :
       /\ Moves(self, s, msgs, r)
       /\ \A t \in Names : t # s => r.self.services[t].requests = self.services[t].requests

LEMMA Messages ==
  ASSUME NEW m \in Request
  PROVE  /\ RequestMsg(m) \in BrokerMessage
         /\ RequestMsg(m).command = "REQUEST" /\ RequestMsg(m).body = m
         /\ HEARTBEAT \in BrokerMessage /\ HEARTBEAT.command = "HEARTBEAT"
         /\ DISCONNECT \in BrokerMessage /\ DISCONNECT.command = "DISCONNECT"
  BY DEF RequestMsg, BrokerMessage, HEARTBEAT, DISCONNECT

LEMMA HandsOutLoads ==
  ASSUME NEW requests \in Seq(Request), NEW n \in 0..Len(requests), NEW out,
         HandsOut(out, requests, n)
  PROVE  /\ Loaded(out) = DOMAIN out
         /\ \A v \in DOMAIN out : out[v] \in BrokerMessage
<1>1. PICK at : /\ at \in [DOMAIN out -> 1..n]
                /\ \A v \in DOMAIN out : out[v] = RequestMsg(requests[at[v]])
  BY DEF HandsOut
<1>2. \A i \in 1..n : requests[i] \in Request
  <2>1. \A i \in 1..n : i \in 1..Len(requests)
    BY LenProperties
  <2>2. QED
    BY <2>1, ElementOfSeq
<1>3. ASSUME NEW v \in DOMAIN out PROVE out[v] \in BrokerMessage /\ out[v].command = "REQUEST"
  <2>1. at[v] \in 1..n
    BY <1>1
  <2>2. requests[at[v]] \in Request
    BY <1>2, <2>1
  <2>3. QED
    BY <1>1, <2>2, Messages
<1>4. QED
  BY <1>3 DEF Loaded

LEMMA PurgeKeeps ==
  ASSUME NEW self, Core(self)
  PROVE  LET after == s_broker_purge(self)
         IN  /\ Core(after)
             /\ NoNewWorker(self, after)
             /\ ToSet(after.waiting) \subseteq ToSet(self.waiting)
             /\ \A s \in Names :
                  /\ after.services[s].requests = self.services[s].requests
                  /\ self.services[s].waiting = <<>> => after.services[s].waiting = <<>>
<1>1. PICK D : s_broker_purge(self) = s_worker_delete(self, D)
  BY DEF s_broker_purge
<1>2. QED
  BY <1>1, DeleteKeeps

LEMMA DispatchKeeps ==
  ASSUME NEW self, Core(self), Served(self), NEW s \in Names, NEW msgs \in Seq(Request),
         \A t \in Names : t # s => Dispatched(self, t)
  PROVE  Outcome(self, {}, {}, msgs, s_service_dispatch(self, s, msgs))
<1> DEFINE q == Queued(self, s, msgs)
           p == s_broker_purge(q)
           r == HandOut(p, s)
           n == Assigned(p, s)
           all == p.services[s].requests
           B == Busy(p, s)
<1>1. /\ Core(q)
      /\ q.workers = self.workers /\ q.waiting = self.waiting
      /\ \A t \in Names : q.services[t].waiting = self.services[t].waiting
      /\ q.services[s].requests = self.services[s].requests \o msgs
      /\ \A t \in Names : t # s => q.services[t].requests = self.services[t].requests
  BY QueueKeeps
<1>2. s_service_dispatch(self, s, msgs) = r
  BY DispatchIs
<1> HIDE DEF q
<1>3. /\ Core(p)
      /\ NoNewWorker(q, p)
      /\ ToSet(p.waiting) \subseteq ToSet(q.waiting)
      /\ \A t \in Names :
           /\ p.services[t].requests = q.services[t].requests
           /\ q.services[t].waiting = <<>> => p.services[t].waiting = <<>>
  BY <1>1, PurgeKeeps
<1> HIDE DEF p
<1>4. /\ Core(r.self)
      /\ r.self.workers = p.workers
      /\ Dispatched(r.self, s)
      /\ \A t \in Names : t # s => r.self.services[t] = p.services[t]
      /\ r.self.services[s].requests = SubSeq(all, n + 1, Len(all))
      /\ ToSet(r.self.waiting) = ToSet(p.waiting) \ B
      /\ B \subseteq ToSet(p.waiting)
      /\ DOMAIN r.out = B
      /\ HandsOut(r.out, all, n)
  BY <1>3, HandOutKeeps
<1>5. n \in 0..Len(all) /\ all \in Seq(Request)
  <2>1. all \in Seq(Request)
    BY <1>3, CoreParts
  <2>2. Len(all) \in Nat
    BY <2>1, LenProperties
  <2>3. n \in Nat /\ n <= Len(all)
    BY <1>3, AssignedIs
  <2>4. QED
    BY <2>1, <2>2, <2>3
<1> HIDE DEF r, n, B
<1>6. Loaded(r.out) = B /\ \A v \in DOMAIN r.out : r.out[v] \in BrokerMessage
  BY <1>4, <1>5, HandsOutLoads
<1>7. Moves(self, s, msgs, r)
  <2>1. all = self.services[s].requests \o msgs
    BY <1>1, <1>3
  <2> HIDE DEF all
  <2>2. PICK at :
          /\ at \in [B -> 1..n]
          /\ \A v \in B : r.out[v] = RequestMsg(all[at[v]])
          /\ \A v, w \in B : at[v] = at[w] => v = w
    BY <1>4 DEF HandsOut
  <2>3. HandedOn(all, r.self.services[s].requests, r.out)
    <3>1. PICK A, Q, out, k : /\ A = all /\ Q = r.self.services[s].requests
                              /\ out = r.out /\ k = n
      OBVIOUS
    <3>2. k \in 0..Len(A) /\ Q = SubSeq(A, k + 1, Len(A))
      BY <1>4, <1>5, <3>1
    <3>3. /\ at \in [Loaded(out) -> 1..k]
          /\ \A v \in Loaded(out) : out[v] = RequestMsg(A[at[v]])
          /\ \A v, w \in Loaded(out) : at[v] = at[w] => v = w
      BY <1>6, <2>2, <3>1
    <3>4. HandedOn(A, Q, out)
      BY <3>2, <3>3 DEF HandedOn
    <3>5. QED
      BY <3>1, <3>4
  <2>4. QED
    BY <2>1, <2>3 DEF Moves
<1>8. \A t \in Names : t # s => r.self.services[t].requests = self.services[t].requests
  BY <1>1, <1>3, <1>4
<1>9. Known(r.self) \subseteq Known(self) /\ Served(r.self)
  BY <1>1, <1>3, <1>4 DEF NoNewWorker, Served, Known
<1>10. \A t \in Names : Dispatched(r.self, t)
  <2>1. ASSUME NEW t \in Names, t # s PROVE Dispatched(r.self, t)
    <3>1. Dispatched(self, t)
      BY <2>1
    <3>2. /\ r.self.services[t] = p.services[t]
          /\ p.services[t].requests = self.services[t].requests
          /\ self.services[t].waiting = <<>> => p.services[t].waiting = <<>>
      BY <1>1, <1>3, <1>4, <2>1
    <3>3. QED
      BY <3>1, <3>2 DEF Dispatched
  <2>2. QED
    BY <1>4, <2>1
<1>11. BrokerInv(r.self)
  BY <1>4, <1>9, <1>10 DEF BrokerInv
<1>12. /\ ToSet(r.self.waiting) \subseteq ToSet(self.waiting)
       /\ B \subseteq ToSet(self.waiting) \ ToSet(r.self.waiting)
  BY <1>1, <1>3, <1>4
<1>13. QED
  BY <1>2, <1>6, <1>7, <1>8, <1>9, <1>11, <1>12 DEF Outcome

(***************************************************************************)
(* s_worker_waiting.                                                       *)
(***************************************************************************)
LEMMA ExpirySet ==
  ASSUME NEW W, WorkerTable(W), NEW w \in DOMAIN W
  PROVE  LET X == [W EXCEPT ![w].expiry = HEARTBEAT_EXPIRY]
         IN  /\ WorkerTable(X)
             /\ DOMAIN X = DOMAIN W
             /\ \A v \in DOMAIN W : X[v].service = W[v].service
             /\ \A s : Of(X, s) = Of(W, s)
<1> DEFINE X == [W EXCEPT ![w].expiry = HEARTBEAT_EXPIRY]
<1>1. /\ IsFiniteSet(DOMAIN W) /\ DOMAIN W \subseteq Identity
      /\ W \in [DOMAIN W -> [service : Names \cup {NoService}, expiry : 0..HEARTBEAT_EXPIRY]]
  BY DEF WorkerTable
<1>2. DOMAIN X = DOMAIN W
  OBVIOUS
<1>3. HEARTBEAT_EXPIRY \in 0..HEARTBEAT_EXPIRY
  BY BrokerAssumption
<1>4. ASSUME NEW v \in DOMAIN W
      PROVE  /\ X[v] \in [service : Names \cup {NoService}, expiry : 0..HEARTBEAT_EXPIRY]
             /\ X[v].service = W[v].service
  <2>1. W[v] \in [service : Names \cup {NoService}, expiry : 0..HEARTBEAT_EXPIRY]
    BY <1>1
  <2>2. CASE v = w
    <3>1. X[v] = [W[v] EXCEPT !.expiry = HEARTBEAT_EXPIRY]
      BY <2>2
    <3>2. QED
      BY <1>3, <2>1, <3>1
  <2>3. CASE v # w
    <3>1. X[v] = W[v]
      BY <2>3
    <3>2. QED
      BY <2>1, <3>1
  <2>4. QED
    BY <2>2, <2>3
<1>5. X = [v \in DOMAIN W |-> X[v]]
  OBVIOUS
<1> HIDE DEF X
<1>6. X \in [DOMAIN W -> [service : Names \cup {NoService}, expiry : 0..HEARTBEAT_EXPIRY]]
  BY <1>4, <1>5
<1>7. WorkerTable(X)
  BY <1>1, <1>2, <1>6 DEF WorkerTable
<1>8. \A s : Of(X, s) = Of(W, s)
  BY <1>2, <1>4 DEF Of
<1>9. QED
  BY <1>2, <1>4, <1>7, <1>8 DEF X

(* The entry of w is used again, and nothing else.                         *)
Touched(self, w) == [self EXCEPT !.workers[w].expiry = HEARTBEAT_EXPIRY]

LEMMA TouchKeeps ==
  ASSUME NEW self, Core(self), NEW w \in Known(self)
  PROVE  LET after == Touched(self, w)
         IN  /\ Core(after)
             /\ NoNewWorker(self, after)
             /\ after.waiting = self.waiting
             /\ after.services = self.services
<1>1. PICK W, L, S : W = self.workers /\ L = self.waiting /\ S = self.services
  OBVIOUS
<1>2. /\ self = [workers |-> W, waiting |-> L, services |-> S]
      /\ WorkerTable(W) /\ Known(self) = DOMAIN W
  BY <1>1, CoreParts
<1>3. PICK X : X = [W EXCEPT ![w].expiry = HEARTBEAT_EXPIRY]
  OBVIOUS
<1>4. /\ WorkerTable(X) /\ DOMAIN X = DOMAIN W
      /\ \A v \in DOMAIN W : X[v].service = W[v].service
      /\ \A s : Of(X, s) = Of(W, s)
  BY <1>2, <1>3, ExpirySet
<1> DEFINE after == [workers |-> X, waiting |-> L, services |-> S]
<1>5. Touched(self, w) = after
  BY <1>2, <1>3 DEF Touched
<1>6. /\ after = [workers |-> after.workers, waiting |-> after.waiting, services |-> after.services]
      /\ after.workers = X /\ after.waiting = L /\ after.services = S
      /\ Known(after) = DOMAIN X
  BY DEF Known
<1> HIDE DEF after
<1>7. \A s : WorkersOf(after, s) = Of(X, s) /\ WorkersOf(self, s) = Of(W, s)
  BY <1>1, <1>2, <1>6 DEF WorkersOf, Of
<1>8. IsBroker(self) /\ Listed(self) /\ Counted(self)
  BY DEF Core
<1>9. IsBroker(after)
  BY <1>1, <1>4, <1>6, <1>8 DEF IsBroker, WorkerTable
<1>10. Listed(after)
  BY <1>1, <1>2, <1>4, <1>6, <1>7, <1>8 DEF Listed
<1>11. Counted(after)
  BY <1>1, <1>4, <1>6, <1>7, <1>8 DEF Counted
<1>12. NoNewWorker(self, after)
  BY <1>1, <1>2, <1>4, <1>6 DEF NoNewWorker
<1>13. QED
  BY <1>1, <1>5, <1>6, <1>9, <1>10, <1>11, <1>12 DEF Core

(* The object s_worker_waiting dispatches on.                              *)
Waits(self, w, s) ==
  [self EXCEPT !.waiting = Append(@, w),
               !.services[s].waiting = Append(@, w),
               !.workers[w].expiry = HEARTBEAT_EXPIRY]

LEMMA WaitsIs ==
  ASSUME NEW self, Core(self), NEW w \in Known(self), NEW s \in Names
  PROVE  Waits(self, w, s) =
           Made(self, [self.workers EXCEPT ![w].expiry = HEARTBEAT_EXPIRY],
                Append(self.waiting, w), s, self.services[s].requests,
                Append(self.services[s].waiting, w), self.services[s].worker_num)
<1>1. PICK W, L, Q, V, C, S, X, L2, V2 :
        /\ W = self.workers /\ L = self.waiting /\ S = self.services
        /\ Q = self.services[s].requests /\ V = self.services[s].waiting
        /\ C = self.services[s].worker_num
        /\ X = [W EXCEPT ![w].expiry = HEARTBEAT_EXPIRY]
        /\ L2 = Append(L, w) /\ V2 = Append(V, w)
  OBVIOUS
<1>2. /\ self = [workers |-> W, waiting |-> L, services |-> S]
      /\ S[s] = [requests |-> Q, waiting |-> V, worker_num |-> C]
      /\ DOMAIN S = Names
  BY <1>1, CoreParts
<1>3. PICK Y : Y = [S EXCEPT ![s] = [requests |-> Q, waiting |-> V2, worker_num |-> C]]
  OBVIOUS
<1>4. [S[s] EXCEPT !.waiting = V2] = [requests |-> Q, waiting |-> V2, worker_num |-> C]
  BY <1>2
<1>5. PICK p1 : p1 = [workers |-> W, waiting |-> L2, services |-> S]
  OBVIOUS
<1>6. [self EXCEPT !.waiting = Append(@, w)] = p1 /\ p1.services = S
  <2>1. [self EXCEPT !.waiting = L2] = p1
    BY <1>2, <1>5
  <2>2. QED
    BY <1>1, <1>5, <2>1
<1>7. PICK p2 : p2 = [workers |-> W, waiting |-> L2, services |-> Y]
  OBVIOUS
<1>8. [p1 EXCEPT !.services[s].waiting = Append(@, w)] = p2 /\ p2.workers = W
  <2>1. [p1 EXCEPT !.services[s].waiting = Append(@, w)] =
          [p1 EXCEPT !.services = [S EXCEPT ![s] = [S[s] EXCEPT !.waiting = V2]]]
    BY <1>1, <1>6
  <2>2. [p1 EXCEPT !.services = Y] = p2
    BY <1>5, <1>7
  <2>3. QED
    BY <1>3, <1>4, <1>7, <2>1, <2>2
<1>9. [p2 EXCEPT !.workers[w].expiry = HEARTBEAT_EXPIRY] =
        [workers |-> X, waiting |-> L2, services |-> Y]
  <2>1. [p2 EXCEPT !.workers[w].expiry = HEARTBEAT_EXPIRY] = [p2 EXCEPT !.workers = X]
    BY <1>1, <1>8
  <2>2. QED
    BY <1>7, <2>1
<1>10. Waits(self, w, s) = [workers |-> X, waiting |-> L2, services |-> Y]
  BY <1>6, <1>8, <1>9 DEF Waits
<1>11. QED
  BY <1>1, <1>3, <1>10 DEF Made

LEMMA WaitsKeeps ==
  ASSUME NEW self, Core(self), NEW w \in Known(self), w \notin ToSet(self.waiting),
         NEW s \in Names, self.workers[w].service = s
  PROVE  LET after == Waits(self, w, s)
         IN  /\ Core(after)
             /\ NoNewWorker(self, after)
             /\ ToSet(after.waiting) = ToSet(self.waiting) \cup {w}
             /\ \A t \in Names : after.services[t].requests = self.services[t].requests
             /\ \A t \in Names : t # s => after.services[t] = self.services[t]
<1>1. PICK W, L, Q, V, C, X, L2, V2 :
        /\ W = self.workers /\ L = self.waiting
        /\ Q = self.services[s].requests /\ V = self.services[s].waiting
        /\ C = self.services[s].worker_num
        /\ X = [W EXCEPT ![w].expiry = HEARTBEAT_EXPIRY]
        /\ L2 = Append(L, w) /\ V2 = Append(V, w)
  OBVIOUS
<1>2. /\ WorkerTable(W) /\ L \in Seq(Identity) /\ Q \in Seq(Request) /\ V \in Seq(Identity)
      /\ IsInjective(L) /\ ToSet(L) \subseteq DOMAIN W /\ Known(self) = DOMAIN W
      /\ C = Cardinality(Of(W, s)) /\ ListedIn(V, L, W, s)
  BY <1>1, CoreParts
<1>3. w \in Identity /\ w \in DOMAIN W /\ w \in Of(W, s) /\ w \notin ToSet(L)
  BY <1>1, <1>2 DEF WorkerTable, Of
<1>4. /\ WorkerTable(X) /\ DOMAIN X = DOMAIN W
      /\ \A v \in DOMAIN W : X[v].service = W[v].service
      /\ \A t : Of(X, t) = Of(W, t)
  BY SMTT(30), <1>1, <1>2, <1>3, ExpirySet
<1>5. /\ L2 \in Seq(Identity) /\ ToSet(L2) = ToSet(L) \cup {w} /\ IsInjective(L2)
      /\ V2 \in Seq(Identity) /\ ToSet(V2) = ToSet(V) \cup {w}
  BY <1>1, <1>2, <1>3, AppendMembers
<1>6. ToSet(V) = ToSet(L) \cap Of(W, s) /\ SameOrder(V, L)
  BY <1>2 DEF ListedIn
<1>7. ListedIn(V2, L2, X, s)
  <2>1. w \notin ToSet(V)
    BY <1>3, <1>6
  <2>2. SameOrder(V2, L2)
    BY <1>1, <1>2, <1>3, <1>6, <2>1, AppendSameOrder
  <2>3. QED
    BY <1>3, <1>4, <1>5, <1>6, <2>2 DEF ListedIn
<1>8. ASSUME NEW t \in Names, t # s
      PROVE  Of(X, t) = Of(self.workers, t) /\ ListedIn(self.services[t].waiting, L2, X, t)
  <2>1. PICK T : T = self.services[t].waiting
    OBVIOUS
  <2>2. T \in Seq(Identity) /\ ListedIn(T, L, W, t)
    BY <1>1, <2>1, CoreParts
  <2>3. ToSet(T) = ToSet(L) \cap Of(W, t) /\ SameOrder(T, L)
    BY <2>2 DEF ListedIn
  <2>4. w \notin Of(W, t)
    BY <1>3, <1>8 DEF Of
  <2>5. SameOrder(T, L2)
    BY <1>1, <1>2, <1>3, <2>2, <2>3, AppendSameOrder
  <2>6. Of(X, t) = Of(W, t)
    BY <1>4
  <2>7. ToSet(T) = ToSet(L2) \cap Of(X, t)
    BY <1>5, <2>3, <2>4, <2>6
  <2>8. QED
    BY <1>1, <2>1, <2>5, <2>6, <2>7 DEF ListedIn
<1> DEFINE after == Made(self, X, L2, s, Q, V2, C)
<1>9. Waits(self, w, s) = after
  BY <1>1, WaitsIs
<1>10. Core(after)
  <2>1. ToSet(L2) \subseteq DOMAIN X /\ C = Cardinality(Of(X, s))
    BY <1>2, <1>3, <1>4, <1>5
  <2>2. \A t \in Names : t # s =>
          Of(X, t) = Of(self.workers, t) /\ ListedIn(self.services[t].waiting, L2, X, t)
    BY <1>8
  <2>3. QED
    BY <1>2, <1>4, <1>5, <1>7, <2>1, <2>2, MadeKeeps
<1>11. /\ after = [workers |-> after.workers, waiting |-> after.waiting, services |-> after.services]
       /\ after.workers = X /\ Known(after) = DOMAIN X
       /\ after.waiting = L2
       /\ after.services = [t \in Names |-> after.services[t]]
       /\ after.services[s] = [requests |-> Q, waiting |-> V2, worker_num |-> C]
       /\ after.services[s].requests = Q
       /\ after.services[s].waiting = V2
       /\ after.services[s].worker_num = C
       /\ \A t \in Names : t # s => after.services[t] = self.services[t]
  BY MadeFields
<1> HIDE DEF after
<1>12. NoNewWorker(self, after)
  BY <1>1, <1>2, <1>4, <1>11 DEF NoNewWorker
<1>13. \A t \in Names : after.services[t].requests = self.services[t].requests
  BY <1>1, <1>11
<1>14. QED
  BY <1>1, <1>5, <1>9, <1>10, <1>11, <1>12, <1>13

LEMMA OutcomeFrom ==
  ASSUME NEW self, NEW q, NEW K, NEW W, NEW Z, NEW msgs, NEW r, Outcome(q, {}, Z, msgs, r),
         Z \subseteq W,
         Known(q) \subseteq Known(self) \cup K,
         ToSet(q.waiting) \subseteq ToSet(self.waiting) \cup W,
         \A t \in Names : q.services[t].requests = self.services[t].requests
  PROVE  Outcome(self, K, W, msgs, r)
<1>1. PICK s \in Names :
        /\ Moves(q, s, msgs, r)
        /\ \A t \in Names : t # s => r.self.services[t].requests = q.services[t].requests
  BY DEF Outcome
<1>2. Moves(self, s, msgs, r)
  BY <1>1 DEF Moves
<1>3. \A t \in Names : t # s => r.self.services[t].requests = self.services[t].requests
  BY <1>1
<1>4. /\ BrokerInv(r.self)
      /\ Known(r.self) \subseteq Known(q)
      /\ ToSet(r.self.waiting) \subseteq ToSet(q.waiting) \cup Z
      /\ \A v \in DOMAIN r.out : r.out[v] \in BrokerMessage
      /\ Loaded(r.out) \subseteq (ToSet(q.waiting) \cup Z) \ ToSet(r.self.waiting)
  BY DEF Outcome
<1>5. QED
  BY <1>2, <1>3, <1>4 DEF Outcome

LEMMA WaitingKeeps ==
  ASSUME NEW self, Core(self), Served(self), NEW w \in Known(self), w \notin ToSet(self.waiting),
         \A t \in Names : Dispatched(self, t)
  PROVE  Outcome(self, {}, {w}, <<>>, s_worker_waiting(self, w))
<1>1. PICK s \in Names : s = self.workers[w].service
  BY DEF Served
<1>2. PICK q : q = Waits(self, w, s)
  OBVIOUS
<1>3. s_worker_waiting(self, w) = s_service_dispatch(q, s, <<>>)
  BY <1>1, <1>2 DEF s_worker_waiting, Waits
<1>4. /\ Core(q) /\ NoNewWorker(self, q)
      /\ ToSet(q.waiting) = ToSet(self.waiting) \cup {w}
      /\ \A t \in Names : q.services[t].requests = self.services[t].requests
      /\ \A t \in Names : t # s => q.services[t] = self.services[t]
  BY <1>1, <1>2, WaitsKeeps
<1>5. Served(q) /\ Known(q) \subseteq Known(self)
  BY <1>4 DEF Served, NoNewWorker
<1>6. \A t \in Names : t # s => Dispatched(q, t)
  BY <1>4 DEF Dispatched
<1>7. <<>> \in Seq(Request)
  BY EmptySeq
<1>8. Outcome(q, {}, {}, <<>>, s_service_dispatch(q, s, <<>>))
  BY <1>4, <1>5, <1>6, <1>7, DispatchKeeps
<1>9. QED
  BY <1>3, <1>4, <1>5, <1>8, OutcomeFrom

(***************************************************************************)
(* The handlers of s_broker_worker_msg.                                    *)
(***************************************************************************)
LEMMA WholeSuffix ==
  ASSUME NEW S, NEW list \in Seq(S)
  PROVE  SubSeq(list \o <<>>, 0 + 1, Len(list \o <<>>)) = list
<1>1. PICK L \in Nat : L = Len(list)
  BY MembersOf
<1>2. list \o <<>> = list
  BY ConcatEmptySeq
<1>3. SubSeq(list, 1, L) = list
  BY <1>1, SubSeqFull
<1>4. QED
  BY <1>1, <1>2, <1>3

LEMMA QuietOutcome ==
  ASSUME NEW self, Core(self), NEW q, BrokerInv(q), NEW out,
         Known(q) \subseteq Known(self), ToSet(q.waiting) \subseteq ToSet(self.waiting),
         \A t \in Names : q.services[t].requests = self.services[t].requests,
         \A v \in DOMAIN out : out[v] \in {HEARTBEAT, DISCONNECT}
  PROVE  Outcome(self, {}, {}, <<>>, [self |-> q, out |-> out])
<1>1. PICK r : r = [self |-> q, out |-> out]
  OBVIOUS
<1>2. r.self = q /\ r.out = out
  BY <1>1
<1>3. Loaded(out) = {}
  BY DEF Loaded, HEARTBEAT, DISCONNECT
<1>4. \A v \in DOMAIN out : out[v] \in BrokerMessage
  BY DEF BrokerMessage
<1>5. MmiService \in Names
  BY NetAssumption DEF Names
<1>6. PICK Q : Q = self.services[MmiService].requests
  OBVIOUS
<1>7. Q \in Seq(Request)
  BY <1>5, <1>6, CoreParts
<1>8. HandedOn(Q \o <<>>, Q, out)
  <2>1. PICK all : all = Q \o <<>>
    OBVIOUS
  <2>2. Q = SubSeq(all, 0 + 1, Len(all))
    BY <1>7, <2>1, WholeSuffix
  <2>3. Len(all) \in Nat
    <3>1. all = Q
      BY <1>7, <2>1, ConcatEmptySeq
    <3>2. QED
      BY <1>7, <3>1, LenProperties
  <2>4. 0 \in 0..Len(all)
    BY <2>3
  <2>5. [v \in {} |-> 0] \in [Loaded(out) -> 1..0]
    BY <1>3
  <2>6. HandedOn(all, Q, out)
    BY <1>3, <2>2, <2>4, <2>5 DEF HandedOn
  <2>7. QED
    BY <2>1, <2>6
<1>9. Moves(self, MmiService, <<>>, r)
  BY <1>2, <1>5, <1>6, <1>8 DEF Moves
<1>10. Outcome(self, {}, {}, <<>>, r)
  BY <1>2, <1>3, <1>4, <1>5, <1>9 DEF Outcome
<1>11. QED
  BY <1>1, <1>10

(* The workers of D are deleted.                                           *)
LEMMA DeleteSound ==
  ASSUME NEW self, Core(self), NEW D, \A t \in Names : Dispatched(self, t),
         \A w \in Known(self) \ D : self.workers[w].service \in Names
  PROVE  BrokerInv(s_worker_delete(self, D))
<1>1. PICK q : q = s_worker_delete(self, D)
  OBVIOUS
<1>2. /\ Core(q)
      /\ NoNewWorker(self, q)
      /\ Known(q) = Known(self) \ D
      /\ \A s \in Names :
           /\ q.services[s].requests = self.services[s].requests
           /\ self.services[s].waiting = <<>> => q.services[s].waiting = <<>>
  BY <1>1, DeleteKeeps
<1>3. Served(q)
  BY <1>2 DEF Served, NoNewWorker
<1>4. \A t \in Names : Dispatched(q, t)
  BY <1>2 DEF Dispatched
<1>5. QED
  BY <1>1, <1>2, <1>3, <1>4 DEF BrokerInv

LEMMA RequiredAndDeleted ==
  ASSUME NEW self, BrokerInv(self), NEW w \in Identity
  PROVE  LET after == s_worker_delete(s_worker_require(self, w), {w})
         IN  /\ BrokerInv(after)
             /\ Known(after) \subseteq Known(self)
             /\ ToSet(after.waiting) \subseteq ToSet(self.waiting)
             /\ \A t \in Names : after.services[t].requests = self.services[t].requests
<1>1. Core(self) /\ Served(self) /\ \A t \in Names : Dispatched(self, t)
  BY DEF BrokerInv
<1>2. PICK q : q = s_worker_require(self, w)
  OBVIOUS
<1>3. /\ Core(q) /\ Known(q) = Known(self) \cup {w}
      /\ \A v \in Known(self) : q.workers[v] = self.workers[v]
      /\ q.waiting = self.waiting /\ q.services = self.services
  BY <1>1, <1>2, RequireKeeps
<1>4. /\ \A t \in Names : Dispatched(q, t)
      /\ \A v \in Known(q) \ {w} : q.workers[v].service \in Names
  BY <1>1, <1>3 DEF Dispatched, Served
<1>5. PICK r : r = s_worker_delete(q, {w})
  OBVIOUS
<1>6. BrokerInv(r)
  BY <1>3, <1>4, <1>5, DeleteSound
<1>7. /\ Known(r) = Known(q) \ {w}
      /\ ToSet(r.waiting) = ToSet(q.waiting) \ {w}
      /\ \A s \in Names : r.services[s].requests = q.services[s].requests
  BY <1>3, <1>5, DeleteKeeps
<1>8. QED
  BY <1>2, <1>3, <1>5, <1>6, <1>7

LEMMA DisconnectedKeeps ==
  ASSUME NEW self, BrokerInv(self), NEW w \in Identity
  PROVE  /\ Outcome(self, {}, {}, <<>>, Disconnected(s_worker_require(self, w), w))
         /\ Outcome(self, {}, {}, <<>>, OnDisconnect(self, w))
<1>1. Core(self)
  BY DEF BrokerInv
<1>2. PICK q : q = s_worker_delete(s_worker_require(self, w), {w})
  OBVIOUS
<1>3. /\ BrokerInv(q) /\ Known(q) \subseteq Known(self)
      /\ ToSet(q.waiting) \subseteq ToSet(self.waiting)
      /\ \A t \in Names : q.services[t].requests = self.services[t].requests
  BY <1>2, RequiredAndDeleted
<1>4. Outcome(self, {}, {}, <<>>, [self |-> q, out |-> [v \in {w} |-> DISCONNECT]])
  <2>1. PICK out : out = [v \in {w} |-> DISCONNECT]
    OBVIOUS
  <2>2. \A v \in DOMAIN out : out[v] \in {HEARTBEAT, DISCONNECT}
    BY <2>1
  <2>3. Outcome(self, {}, {}, <<>>, [self |-> q, out |-> out])
    BY <1>1, <1>3, <2>2, QuietOutcome
  <2>4. QED
    BY <2>1, <2>3
<1>5. Outcome(self, {}, {}, <<>>, [self |-> q, out |-> [v \in {} |-> HEARTBEAT]])
  <2>1. PICK out : out = [v \in {} |-> HEARTBEAT]
    OBVIOUS
  <2>2. \A v \in DOMAIN out : out[v] \in {HEARTBEAT, DISCONNECT}
    BY <2>1
  <2>3. Outcome(self, {}, {}, <<>>, [self |-> q, out |-> out])
    BY <1>1, <1>3, <2>2, QuietOutcome
  <2>4. QED
    BY <2>1, <2>3
<1>6. /\ Disconnected(s_worker_require(self, w), w) =
           [self |-> q, out |-> [v \in {w} |-> DISCONNECT]]
      /\ OnDisconnect(self, w) = [self |-> q, out |-> [v \in {} |-> HEARTBEAT]]
  BY <1>2 DEF Disconnected, OnDisconnect, Silently
<1>7. QED
  BY <1>4, <1>5, <1>6

LEMMA OnHeartbeatKeeps ==
  ASSUME NEW self, BrokerInv(self), NEW w \in Identity
  PROVE  Outcome(self, {}, {}, <<>>, OnHeartbeat(self, w))
<1>1. Core(self) /\ Served(self) /\ \A t \in Names : Dispatched(self, t)
  BY DEF BrokerInv
<1>2. CASE w \in Known(self)
  <2>1. PICK q : q = Touched(self, w)
    OBVIOUS
  <2>2. Core(q) /\ NoNewWorker(self, q) /\ q.waiting = self.waiting /\ q.services = self.services
    BY <1>1, <1>2, <2>1, TouchKeeps
  <2>3. BrokerInv(q) /\ Known(q) \subseteq Known(self)
    BY <1>1, <2>2 DEF BrokerInv, Served, NoNewWorker, Dispatched
  <2>4. PICK out : out = [v \in {} |-> HEARTBEAT]
    OBVIOUS
  <2>5. \A v \in DOMAIN out : out[v] \in {HEARTBEAT, DISCONNECT}
    BY <2>4
  <2>6. Outcome(self, {}, {}, <<>>, [self |-> q, out |-> out])
    BY <1>1, <2>2, <2>3, <2>5, QuietOutcome
  <2>7. OnHeartbeat(self, w) = [self |-> q, out |-> out]
    BY <1>2, <2>1, <2>4 DEF OnHeartbeat, Silently, Touched
  <2>8. QED
    BY <2>6, <2>7
<1>3. CASE w \notin Known(self)
  BY <1>3, DisconnectedKeeps DEF OnHeartbeat
<1>4. QED
  BY <1>2, <1>3

LEMMA OnReplyKeeps ==
  ASSUME NEW self, BrokerInv(self), NEW w \in Identity, w \notin ToSet(self.waiting)
  PROVE  Outcome(self, {}, {w}, <<>>, OnReply(self, w))
<1>1. Core(self) /\ Served(self) /\ \A t \in Names : Dispatched(self, t)
  BY DEF BrokerInv
<1>2. CASE w \in Known(self)
  BY <1>1, <1>2, WaitingKeeps DEF OnReply
<1>3. CASE w \notin Known(self)
  <2>1. Outcome(self, {}, {}, <<>>, OnReply(self, w))
    BY <1>3, DisconnectedKeeps DEF OnReply
  <2>2. QED
    BY <2>1, OutcomeFrom
<1>4. QED
  BY <1>2, <1>3

(* The object OnReady leaves to s_worker_waiting.                          *)
Counts(q, w, s) ==
  [q EXCEPT !.workers[w].service = s, !.services[s].worker_num = @ + 1]

LEMMA CountsIs ==
  ASSUME NEW q, Core(q), NEW w \in Known(q), NEW s \in Names
  PROVE  Counts(q, w, s) =
           Made(q, [q.workers EXCEPT ![w].service = s], q.waiting, s,
                q.services[s].requests, q.services[s].waiting, q.services[s].worker_num + 1)
<1>1. PICK W, L, Q, V, C, S, X :
        /\ W = q.workers /\ L = q.waiting /\ S = q.services
        /\ Q = q.services[s].requests /\ V = q.services[s].waiting
        /\ C = q.services[s].worker_num
        /\ X = [W EXCEPT ![w].service = s]
  OBVIOUS
<1>2. /\ q = [workers |-> W, waiting |-> L, services |-> S]
      /\ S[s] = [requests |-> Q, waiting |-> V, worker_num |-> C]
      /\ DOMAIN S = Names
  BY <1>1, CoreParts
<1>3. PICK Y : Y = [S EXCEPT ![s] = [requests |-> Q, waiting |-> V, worker_num |-> C + 1]]
  OBVIOUS
<1>4. [S[s] EXCEPT !.worker_num = C + 1] =
        [requests |-> Q, waiting |-> V, worker_num |-> C + 1]
  BY <1>2
<1>5. PICK p1 : p1 = [workers |-> X, waiting |-> L, services |-> S]
  OBVIOUS
<1>6. [q EXCEPT !.workers[w].service = s] = p1 /\ p1.services = S
  <2>1. [q EXCEPT !.workers[w].service = s] = [q EXCEPT !.workers = X]
    BY <1>1
  <2>2. QED
    BY <1>2, <1>5, <2>1
<1>7. [p1 EXCEPT !.services[s].worker_num = @ + 1] =
        [workers |-> X, waiting |-> L, services |-> Y]
  <2>1. [p1 EXCEPT !.services[s].worker_num = @ + 1] =
          [p1 EXCEPT !.services = [S EXCEPT ![s] = [S[s] EXCEPT !.worker_num = C + 1]]]
    BY <1>1, <1>6
  <2>2. [p1 EXCEPT !.services = Y] = [workers |-> X, waiting |-> L, services |-> Y]
    BY <1>5
  <2>3. QED
    BY <1>3, <1>4, <2>1, <2>2
<1>8. Counts(q, w, s) = [workers |-> X, waiting |-> L, services |-> Y]
  BY <1>6, <1>7 DEF Counts
<1>9. QED
  BY <1>1, <1>3, <1>8 DEF Made

LEMMA CountsKeeps ==
  ASSUME NEW q, Core(q), NEW w \in Known(q), w \notin ToSet(q.waiting),
         q.workers[w].service = NoService, NEW s \in Names
  PROVE  LET after == Counts(q, w, s)
         IN  /\ Core(after)
             /\ Known(after) = Known(q)
             /\ after.workers[w].service = s
             /\ \A v \in Known(q) \ {w} : after.workers[v] = q.workers[v]
             /\ after.waiting = q.waiting
             /\ \A t \in Names :
                  /\ after.services[t].requests = q.services[t].requests
                  /\ after.services[t].waiting = q.services[t].waiting
<1>1. PICK W, L, Q, V, C, N, X :
        /\ W = q.workers /\ L = q.waiting
        /\ Q = q.services[s].requests /\ V = q.services[s].waiting
        /\ C = q.services[s].worker_num /\ N = C + 1
        /\ X = [W EXCEPT ![w].service = s]
  OBVIOUS
<1>2. /\ WorkerTable(W) /\ L \in Seq(Identity) /\ Q \in Seq(Request) /\ V \in Seq(Identity)
      /\ IsInjective(L) /\ ToSet(L) \subseteq DOMAIN W /\ Known(q) = DOMAIN W
      /\ C = Cardinality(Of(W, s)) /\ ListedIn(V, L, W, s)
  BY <1>1, CoreParts
<1>3. /\ IsFiniteSet(DOMAIN W) /\ DOMAIN W \subseteq Identity
      /\ W \in [DOMAIN W -> [service : Names \cup {NoService}, expiry : 0..HEARTBEAT_EXPIRY]]
  BY <1>2 DEF WorkerTable
<1>4. /\ w \in DOMAIN W /\ W[w].service = NoService /\ w \notin ToSet(L)
      /\ NoService \notin Names
  BY <1>1, <1>2, BrokerAssumption
<1>5. /\ DOMAIN X = DOMAIN W /\ X = [v \in DOMAIN W |-> X[v]]
      /\ \A v \in DOMAIN W \ {w} : X[v] = W[v]
      /\ X[w] = [W[w] EXCEPT !.service = s]
  BY <1>1, <1>4
<1>6. /\ X[w] \in [service : Names \cup {NoService}, expiry : 0..HEARTBEAT_EXPIRY]
      /\ X[w].service = s
  <2>1. W[w] \in [service : Names \cup {NoService}, expiry : 0..HEARTBEAT_EXPIRY]
    BY <1>3, <1>4
  <2>2. QED
    BY <1>5, <2>1
<1>7. WorkerTable(X)
  <2>1. \A v \in DOMAIN W :
          X[v] \in [service : Names \cup {NoService}, expiry : 0..HEARTBEAT_EXPIRY]
    BY <1>3, <1>5, <1>6
  <2>2. X \in [DOMAIN X -> [service : Names \cup {NoService}, expiry : 0..HEARTBEAT_EXPIRY]]
    BY <1>5, <2>1
  <2>3. QED
    BY <1>3, <1>5, <2>2 DEF WorkerTable
<1>8. Of(X, s) = Of(W, s) \cup {w} /\ w \notin Of(W, s)
  BY <1>4, <1>5, <1>6 DEF Of
<1>9. N = Cardinality(Of(X, s))
  <2>1. IsFiniteSet(Of(W, s))
    BY <1>3, FS_Subset DEF Of
  <2>2. Cardinality(Of(W, s) \cup {w}) = Cardinality(Of(W, s)) + 1
    BY <1>8, <2>1, FS_AddElement
  <2>3. QED
    BY <1>1, <1>2, <1>8, <2>2
<1>10. ListedIn(V, L, X, s)
  BY <1>2, <1>4, <1>8 DEF ListedIn
<1>11. ASSUME NEW t \in Names, t # s
       PROVE  Of(X, t) = Of(q.workers, t) /\ ListedIn(q.services[t].waiting, L, X, t)
  <2>1. Of(X, t) = Of(W, t)
    BY <1>4, <1>5, <1>6, <1>11 DEF Of
  <2>2. ListedIn(q.services[t].waiting, L, W, t)
    BY <1>1, CoreParts
  <2>3. QED
    BY <1>1, <2>1, <2>2 DEF ListedIn
<1> DEFINE after == Made(q, X, L, s, Q, V, N)
<1>12. Counts(q, w, s) = after
  BY <1>1, CountsIs
<1>13. Core(after)
  <2>1. ToSet(L) \subseteq DOMAIN X
    BY <1>2, <1>5
  <2>2. \A t \in Names : t # s =>
          Of(X, t) = Of(q.workers, t) /\ ListedIn(q.services[t].waiting, L, X, t)
    BY <1>11
  <2>3. QED
    BY <1>2, <1>7, <1>9, <1>10, <2>1, <2>2, MadeKeeps
<1>14. /\ after = [workers |-> after.workers, waiting |-> after.waiting, services |-> after.services]
       /\ after.workers = X /\ Known(after) = DOMAIN X
       /\ after.waiting = L
       /\ after.services = [t \in Names |-> after.services[t]]
       /\ after.services[s] = [requests |-> Q, waiting |-> V, worker_num |-> N]
       /\ after.services[s].requests = Q
       /\ after.services[s].waiting = V
       /\ after.services[s].worker_num = N
       /\ \A t \in Names : t # s => after.services[t] = q.services[t]
  BY MadeFields
<1> HIDE DEF after
<1>15. \A t \in Names : /\ after.services[t].requests = q.services[t].requests
                        /\ after.services[t].waiting = q.services[t].waiting
  BY <1>1, <1>14
<1>16. /\ Known(after) = Known(q)
       /\ after.workers[w].service = s
       /\ \A v \in Known(q) \ {w} : after.workers[v] = q.workers[v]
  BY <1>1, <1>2, <1>5, <1>6, <1>14
<1>17. QED
  BY <1>1, <1>12, <1>13, <1>14, <1>15, <1>16

LEMMA OnReadyKeeps ==
  ASSUME NEW self, BrokerInv(self), NEW w \in Identity, NEW s \in Names
  PROVE  Outcome(self, {w}, {w}, <<>>, OnReady(self, w, s))
<1>1. Core(self) /\ Served(self) /\ \A t \in Names : Dispatched(self, t)
  BY DEF BrokerInv
<1>2. CASE w \in Known(self) \/ w \in Mmi
  <2>1. Outcome(self, {}, {}, <<>>, OnReady(self, w, s))
    BY <1>2, DisconnectedKeeps DEF OnReady
  <2>2. QED
    BY <2>1, OutcomeFrom
<1>3. CASE ~ (w \in Known(self) \/ w \in Mmi)
  <2>1. PICK p : p = s_worker_require(self, w)
    OBVIOUS
  <2>2. /\ Core(p) /\ Known(p) = Known(self) \cup {w}
        /\ \A v \in Known(self) : p.workers[v] = self.workers[v]
        /\ p.workers[w] = [service |-> NoService, expiry |-> 0]
        /\ p.waiting = self.waiting /\ p.services = self.services
    BY <1>1, <1>3, <2>1, RequireKeeps
  <2>3. PICK q : q = Counts(p, w, s)
    OBVIOUS
  <2>4. w \notin ToSet(self.waiting)
    BY <1>1, <1>3, CoreParts
  <2>5. /\ Core(q) /\ Known(q) = Known(p)
        /\ q.workers[w].service = s
        /\ \A v \in Known(p) \ {w} : q.workers[v] = p.workers[v]
        /\ q.waiting = p.waiting
        /\ \A t \in Names :
             /\ q.services[t].requests = p.services[t].requests
             /\ q.services[t].waiting = p.services[t].waiting
    <3>1. w \in Known(p) /\ w \notin ToSet(p.waiting) /\ p.workers[w].service = NoService
      BY <2>2, <2>4
    <3>2. QED
      BY <2>2, <2>3, <3>1, CountsKeeps
  <2>6. Served(q)
    BY <1>1, <1>3, <2>2, <2>5 DEF Served
  <2>7. \A t \in Names : Dispatched(q, t)
    BY <1>1, <2>2, <2>5 DEF Dispatched
  <2>8. OnReady(self, w, s) = s_worker_waiting(q, w)
    BY <1>3, <2>1, <2>3 DEF OnReady, Counts
  <2>9. Outcome(q, {}, {w}, <<>>, s_worker_waiting(q, w))
    <3>1. w \in Known(q) /\ w \notin ToSet(q.waiting)
      BY <2>2, <2>4, <2>5
    <3>2. QED
      BY <2>5, <2>6, <2>7, <3>1, WaitingKeeps
  <2>10. /\ Known(q) = Known(self) \cup {w} /\ ToSet(q.waiting) = ToSet(self.waiting)
         /\ \A t \in Names : q.services[t].requests = self.services[t].requests
    BY <2>2, <2>5
  <2>11. Outcome(self, {w}, {w}, <<>>, s_worker_waiting(q, w))
    BY <2>9, <2>10, OutcomeFrom
  <2>12. QED
    BY <2>8, <2>11
<1>4. QED
  BY <1>2, <1>3

(***************************************************************************)
(* The other steps of the broker.                                          *)
(***************************************************************************)
LEMMA NewBrokerSound ==
  /\ BrokerInv(s_broker_new)
  /\ Known(s_broker_new) = {}
  /\ ToSet(s_broker_new.waiting) = {}
  /\ \A s \in Names : s_broker_new.services[s].requests = <<>>
<1> DEFINE q == s_broker_new
<1>1. PICK W, S : W = [w \in {} |-> 0] /\ S = [s \in Names |-> NewService]
  OBVIOUS
<1>2. s_broker_new = [workers |-> W, waiting |-> <<>>, services |-> S]
  BY <1>1 DEF s_broker_new
<1>3. /\ q = [workers |-> q.workers, waiting |-> q.waiting, services |-> q.services]
      /\ q.workers = W /\ q.waiting = <<>> /\ q.services = S
  BY <1>2
<1> HIDE DEF q
<1>4. \A s \in Names : q.services[s].requests = <<>> /\ q.services[s].waiting = <<>>
                         /\ q.services[s].worker_num = 0
  BY <1>1, <1>3 DEF NewService
<1>5. DOMAIN W = {} /\ Known(q) = {} /\ ToSet(q.waiting) = {}
  BY <1>1, <1>3, NoMembers DEF Known
<1>6. IsBroker(q)
  <2>1. IsFiniteSet({})
    BY FS_EmptySet
  <2>2. W \in [{} -> [service : Names \cup {NoService}, expiry : 0..HEARTBEAT_EXPIRY]]
    BY <1>1
  <2>3. NewService \in [requests : Seq(Request), waiting : Seq(Identity), worker_num : Nat]
    BY EmptySeq DEF NewService
  <2>4. S \in [Names -> [requests : Seq(Request), waiting : Seq(Identity), worker_num : Nat]]
    BY <1>1, <2>3
  <2>5. <<>> \in Seq(Identity)
    BY EmptySeq
  <2>6. QED
    BY <1>3, <1>5, <2>1, <2>2, <2>4, <2>5 DEF IsBroker
<1>7. \A s \in Names : WorkersOf(q, s) = {}
  BY <1>5 DEF WorkersOf
<1>8. DOMAIN <<>> = {}
  BY EmptySeq, LenProperties
<1>9. Listed(q)
  <2>1. IsInjective(<<>>) /\ SameOrder(<<>>, <<>>)
    BY <1>8 DEF IsInjective, SameOrder
  <2>2. QED
    BY <1>3, <1>4, <1>5, <1>7, <2>1 DEF Listed
<1>10. Counted(q)
  BY <1>4, <1>7, FS_EmptySet DEF Counted
<1>11. Served(q) /\ \A s \in Names : Dispatched(q, s)
  BY <1>4, <1>5 DEF Served, Dispatched
<1>12. BrokerInv(q)
  BY <1>6, <1>9, <1>10, <1>11 DEF BrokerInv, Core
<1>13. QED
  BY <1>4, <1>5, <1>12 DEF q

(* The broker's timer.                                                     *)
LEMMA PurgeSound ==
  ASSUME NEW self, BrokerInv(self), NEW W
  PROVE  LET purged == s_broker_purge(self)
         IN  Outcome(self, {}, {}, <<>>,
               [self |-> purged, out |-> [w \in W |-> HEARTBEAT]])
<1>1. Core(self) /\ Served(self) /\ \A t \in Names : Dispatched(self, t)
  BY DEF BrokerInv
<1>2. PICK p : p = s_broker_purge(self)
  OBVIOUS
<1>3. /\ Core(p) /\ NoNewWorker(self, p)
      /\ ToSet(p.waiting) \subseteq ToSet(self.waiting)
      /\ \A s \in Names :
           /\ p.services[s].requests = self.services[s].requests
           /\ self.services[s].waiting = <<>> => p.services[s].waiting = <<>>
  BY <1>1, <1>2, PurgeKeeps
<1>4. BrokerInv(p) /\ Known(p) \subseteq Known(self)
  BY <1>1, <1>3 DEF BrokerInv, Served, NoNewWorker, Dispatched
<1>5. PICK out : out = [w \in W |-> HEARTBEAT]
  OBVIOUS
<1>6. \A v \in DOMAIN out : out[v] \in {HEARTBEAT, DISCONNECT}
  BY <1>5
<1>7. Outcome(self, {}, {}, <<>>, [self |-> p, out |-> out])
  BY <1>1, <1>3, <1>4, <1>6, QuietOutcome
<1>8. QED
  BY <1>2, <1>5, <1>7

(* One unit of time passes.                                                *)
Ticked(self) ==
  [self EXCEPT !.workers =
    [w \in Known(self) |-> [self.workers[w] EXCEPT !.expiry = IF @ = 0 THEN 0 ELSE @ - 1]]]

LEMMA TickKeeps ==
  ASSUME NEW self, BrokerInv(self)
  PROVE  LET after == Ticked(self)
         IN  /\ BrokerInv(after)
             /\ Known(after) = Known(self)
             /\ after.waiting = self.waiting
             /\ after.services = self.services
<1>1. Core(self) /\ Served(self) /\ \A t \in Names : Dispatched(self, t)
  BY DEF BrokerInv
<1>2. IsBroker(self) /\ Listed(self) /\ Counted(self)
  BY <1>1 DEF Core
<1>3. PICK W, L, S : W = self.workers /\ L = self.waiting /\ S = self.services
  OBVIOUS
<1>4. /\ self = [workers |-> W, waiting |-> L, services |-> S]
      /\ WorkerTable(W) /\ Known(self) = DOMAIN W
  BY <1>1, <1>3, CoreParts
<1>5. /\ IsFiniteSet(DOMAIN W) /\ DOMAIN W \subseteq Identity
      /\ W \in [DOMAIN W -> [service : Names \cup {NoService}, expiry : 0..HEARTBEAT_EXPIRY]]
  BY <1>4 DEF WorkerTable
<1>6. PICK X : X = [w \in DOMAIN W |-> [W[w] EXCEPT !.expiry = IF @ = 0 THEN 0 ELSE @ - 1]]
  OBVIOUS
<1>7. ASSUME NEW w \in DOMAIN W
      PROVE  /\ X[w] \in [service : Names \cup {NoService}, expiry : 0..HEARTBEAT_EXPIRY]
             /\ X[w].service = W[w].service
  <2>1. X[w] = [W[w] EXCEPT !.expiry = IF @ = 0 THEN 0 ELSE @ - 1]
    BY <1>6
  <2>2. PICK s \in Names \cup {NoService}, e \in 0..HEARTBEAT_EXPIRY :
          W[w] = [service |-> s, expiry |-> e]
    BY <1>5
  <2>3. PICK f : f = IF e = 0 THEN 0 ELSE e - 1
    OBVIOUS
  <2>4. f \in 0..HEARTBEAT_EXPIRY
    BY <2>2, <2>3, BrokerAssumption
  <2>5. X[w] = [service |-> s, expiry |-> f]
    BY <2>1, <2>2, <2>3
  <2>6. QED
    BY <2>2, <2>4, <2>5
<1>8. DOMAIN X = DOMAIN W /\ X = [w \in DOMAIN W |-> X[w]]
  BY <1>6
<1>9. X \in [DOMAIN X -> [service : Names \cup {NoService}, expiry : 0..HEARTBEAT_EXPIRY]]
  BY <1>7, <1>8
<1> DEFINE after == [workers |-> X, waiting |-> L, services |-> S]
<1>10. Ticked(self) = after
  BY <1>3, <1>4, <1>6 DEF Ticked
<1>11. /\ after = [workers |-> after.workers, waiting |-> after.waiting, services |-> after.services]
       /\ after.workers = X /\ after.waiting = L /\ after.services = S
       /\ Known(after) = DOMAIN X
  BY DEF Known
<1> HIDE DEF after
<1>12. \A s : WorkersOf(after, s) = WorkersOf(self, s)
  BY <1>3, <1>4, <1>7, <1>8, <1>11 DEF WorkersOf
<1>13. IsBroker(after)
  BY <1>2, <1>3, <1>5, <1>8, <1>9, <1>11 DEF IsBroker
<1>14. Listed(after) /\ Counted(after)
  BY <1>2, <1>3, <1>4, <1>8, <1>11, <1>12 DEF Listed, Counted
<1>15. Served(after) /\ \A t \in Names : Dispatched(after, t)
  BY SMTT(30), <1>1, <1>3, <1>4, <1>7, <1>8, <1>11 DEF Served, Dispatched
<1>16. QED
  BY <1>3, <1>4, <1>8, <1>10, <1>11, <1>13, <1>14, <1>15 DEF BrokerInv, Core

(***************************************************************************)
(* Pipes.  A load is a request or the reply to one.  A pipe is eased when  *)
(* it loses messages, from either end, or gets one that is no load and not *)
(* the READY a socket begins with.                                         *)
(***************************************************************************)
IsLoad(m) == m.command \in {"REQUEST", "REPLY"}

Load(pipe) == {i \in 1..Len(pipe) : IsLoad(pipe[i])}

Ids(pipe) == {pipe[i].body.id : i \in Load(pipe)}

OneLoad(pipe) == \A i, j \in Load(pipe) : i = j

ReadyAt(pipe) == \A i \in 1..Len(pipe) : pipe[i].command = "READY" => i = 1

HasReady(pipe) == \E i \in 1..Len(pipe) : pipe[i].command = "READY"

Eased(q, p) ==
  /\ Load(p) = {} => Load(q) = {}
  /\ OneLoad(p) => OneLoad(q)
  /\ Ids(q) \subseteq Ids(p)
  /\ ReadyAt(p) => ReadyAt(q)
  /\ HasReady(q) => HasReady(p)

LEMMA EasedSelf == \A p : Eased(p, p)
  BY DEF Eased

(* Each message of q is a later one of p, in the same order.               *)
LEMMA PartIsEased ==
  ASSUME NEW S, NEW p \in Seq(S), NEW q \in Seq(S), NEW k \in Nat,
         Len(q) + k <= Len(p),
         \A i \in 1..Len(q) : q[i] = p[i + k]
  PROVE  Eased(q, p)
<1>1. PICK K \in Nat, L \in Nat : K = Len(q) /\ L = Len(p)
  BY LenProperties
<1>2. \A i \in 1..K : q[i] = p[i + k] /\ i + k \in 1..L
  BY <1>1
<1>3. \A i \in Load(q) : i \in 1..K /\ i + k \in Load(p) /\ q[i].body.id = p[i + k].body.id
  BY <1>1, <1>2 DEF Load
<1>4. Load(p) = {} => Load(q) = {}
  BY <1>3
<1>5. OneLoad(p) => OneLoad(q)
  <2>1. SUFFICES ASSUME OneLoad(p), NEW i \in Load(q), NEW j \in Load(q) PROVE i = j
    BY DEF OneLoad
  <2>2. i + k = j + k
    BY <1>3, <2>1 DEF OneLoad
  <2>3. i \in Nat /\ j \in Nat
    BY <1>1, <1>3
  <2>4. QED
    BY <2>2, <2>3
<1>6. Ids(q) \subseteq Ids(p)
  BY <1>3 DEF Ids
<1>7. ReadyAt(p) => ReadyAt(q)
  <2>1. SUFFICES ASSUME ReadyAt(p), NEW i \in 1..K, q[i].command = "READY" PROVE i = 1
    BY <1>1 DEF ReadyAt
  <2>2. i + k = 1
    BY <1>1, <1>2, <2>1 DEF ReadyAt
  <2>3. QED
    BY <1>1, <2>2
<1>8. HasReady(q) => HasReady(p)
  BY <1>1, <1>2 DEF HasReady
<1>9. QED
  BY <1>4, <1>5, <1>6, <1>7, <1>8 DEF Eased

LEMMA EmptyPipe ==
  ASSUME NEW p
  PROVE  /\ Load(<<>>) = {} /\ Ids(<<>>) = {} /\ ~ HasReady(<<>>)
         /\ Eased(<<>>, p)
<1>1. Len(<<>>) = 0
  BY EmptySeq
<1>2. 1..Len(<<>>) = {}
  BY <1>1
<1>3. Load(<<>>) = {} /\ Ids(<<>>) = {} /\ ~ HasReady(<<>>)
  BY <1>2 DEF Load, Ids, HasReady
<1>4. OneLoad(<<>>) /\ ReadyAt(<<>>)
  BY <1>2, <1>3 DEF OneLoad, ReadyAt
<1>5. QED
  BY <1>3, <1>4 DEF Eased

LEMMA TailFields ==
  ASSUME NEW S, NEW p \in Seq(S), p # <<>>
  PROVE  /\ Len(p) \in Nat /\ Len(p) >= 1
         /\ Head(p) = p[1] /\ Head(p) \in S
         /\ Tail(p) \in Seq(S) /\ Len(Tail(p)) = Len(p) - 1
         /\ \A i \in 1..Len(Tail(p)) : Tail(p)[i] = p[i + 1]
<1>1. Len(p) \in Nat /\ Len(p) # 0
  BY LenProperties, EmptySeq
<1>2. /\ Head(p) = p[1] /\ Tail(p) \in Seq(S) /\ Len(Tail(p)) = Len(p) - 1
      /\ \A i \in 1..Len(Tail(p)) : Tail(p)[i] = p[i + 1]
  BY HeadTailProperties
<1>3. Head(p) \in S
  BY <1>1, <1>2, ElementOfSeq
<1>4. QED
  BY <1>1, <1>2, <1>3

LEMMA TailIsEased ==
  ASSUME NEW S, NEW p \in Seq(S), p # <<>>
  PROVE  /\ Eased(Tail(p), p)
         /\ ReadyAt(p) => ~ HasReady(Tail(p))
         /\ IsLoad(Head(p)) => /\ Head(p).body.id \in Ids(p)
                               /\ 1 \in Load(p)
                               /\ OneLoad(p) => Load(Tail(p)) = {} /\ Ids(p) = {Head(p).body.id}
         /\ Head(p).command = "READY" => HasReady(p)
<1>1. PICK L \in Nat : L = Len(p) /\ L >= 1
  BY TailFields
<1>2. PICK q : q = Tail(p)
  OBVIOUS
<1>3. /\ q \in Seq(S) /\ Len(q) = L - 1
      /\ \A i \in 1..(L - 1) : q[i] = p[i + 1]
      /\ Head(p) = p[1]
  BY <1>1, <1>2, TailFields
<1>4. Eased(q, p)
  BY <1>1, <1>3, PartIsEased
<1>5. ReadyAt(p) => ~ HasReady(q)
  <2>1. SUFFICES ASSUME ReadyAt(p), NEW i \in 1..(L - 1), q[i].command = "READY" PROVE FALSE
    BY <1>3 DEF HasReady
  <2>2. i + 1 = 1 /\ i >= 1
    BY <1>1, <1>3, <2>1 DEF ReadyAt
  <2>3. QED
    BY <2>2
<1>6. ASSUME IsLoad(Head(p))
      PROVE  /\ Head(p).body.id \in Ids(p) /\ 1 \in Load(p)
             /\ OneLoad(p) => Load(q) = {} /\ Ids(p) = {Head(p).body.id}
  <2>1. 1 \in Load(p)
    BY <1>1, <1>3, <1>6 DEF Load
  <2>2. Head(p).body.id \in Ids(p)
    BY <1>3, <2>1 DEF Ids
  <2>3. ASSUME OneLoad(p) PROVE Load(q) = {} /\ Ids(p) = {Head(p).body.id}
    <3>1. \A i \in Load(p) : i = 1
      BY <2>1, <2>3 DEF OneLoad
    <3>2. ASSUME NEW i \in Load(q) PROVE FALSE
      <4>1. i \in 1..(L - 1) /\ i + 1 \in Load(p)
        BY <1>1, <1>3 DEF Load
      <4>2. QED
        BY <3>1, <4>1
    <3>3. QED
      BY <1>3, <2>1, <3>1, <3>2 DEF Ids
  <2>4. QED
    BY <2>1, <2>2, <2>3
<1>7. Head(p).command = "READY" => HasReady(p)
  BY <1>1, <1>3 DEF HasReady
<1>8. QED
  BY <1>2, <1>4, <1>5, <1>6, <1>7

LEMMA PrefixIsEased ==
  ASSUME NEW S, NEW p \in Seq(S), NEW n \in Nat, n <= Len(p)
  PROVE  SubSeq(p, 1, n) \in Seq(S) /\ Eased(SubSeq(p, 1, n), p)
<1>1. PICK L \in Nat : L = Len(p)
  BY LenProperties
<1>2. PICK q : q = SubSeq(p, 1, n)
  OBVIOUS
<1>3. \A i \in 1..n : p[i] \in S
  BY <1>1, ElementOfSeq
<1>4. q \in Seq(S) /\ Len(q) = n /\ \A i \in 1..n : q[i] = p[i + 0]
  <2>1. q \in Seq(S)
    BY <1>2, <1>3, SubSeqProperties
  <2>2. Len(q) = n
    BY <1>1, <1>2, <1>3, SubSeqProperties
  <2>3. \A i \in 1..n : q[i] = p[i + 0]
    BY <1>2
  <2>4. QED
    BY <2>1, <2>2, <2>3
<1>5. PICK k \in Nat : k = 0
  OBVIOUS
<1>6. Len(q) + k <= Len(p) /\ \A i \in 1..Len(q) : q[i] = p[i + k]
  BY <1>1, <1>4, <1>5
<1>7. QED
  BY <1>2, <1>4, <1>6, PartIsEased

LEMMA SuffixIsEased ==
  ASSUME NEW S, NEW p \in Seq(S), NEW n \in Nat, n <= Len(p)
  PROVE  SubSeq(p, n + 1, Len(p)) \in Seq(S) /\ Eased(SubSeq(p, n + 1, Len(p)), p)
<1>1. PICK L \in Nat : L = Len(p)
  BY LenProperties
<1>2. PICK q : q = SubSeq(p, n + 1, Len(p))
  OBVIOUS
<1>3. /\ q \in Seq(S) /\ Len(q) = L - n
      /\ \A i \in 1..(L - n) : q[i] = p[n + i]
  BY <1>1, <1>2, SuffixFields
<1>4. Len(q) + n <= Len(p) /\ \A i \in 1..Len(q) : q[i] = p[i + n]
  BY <1>1, <1>3
<1>5. QED
  BY <1>2, <1>3, <1>4, PartIsEased

(* A message at the end of a pipe.                                         *)
LEMMA AppendToPipe ==
  ASSUME NEW S, NEW p \in Seq(S), NEW m \in S, m.command # "READY"
  PROVE  LET q == Append(p, m)
         IN  /\ q \in Seq(S)
             /\ ~ IsLoad(m) => Eased(q, p)
             /\ Load(p) = {} => OneLoad(q) /\ Ids(q) \subseteq {m.body.id}
             /\ ReadyAt(p) => ReadyAt(q)
             /\ HasReady(q) => HasReady(p)
<1>1. PICK L \in Nat : L = Len(p)
  BY LenProperties
<1>2. PICK q : q = Append(p, m)
  OBVIOUS
<1>3. q \in Seq(S) /\ Len(q) = L + 1 /\ q[L + 1] = m /\ \A i \in 1..L : q[i] = p[i]
  BY <1>1, <1>2, AppendProperties
<1>4. \A i \in 1..(L + 1) : i = L + 1 \/ i \in 1..L
  OBVIOUS
<1>5. \A i \in Load(q) : (i \in Load(p) /\ q[i] = p[i]) \/ (i = L + 1 /\ IsLoad(m) /\ q[i] = m)
  BY <1>1, <1>3, <1>4 DEF Load
<1>6. ReadyAt(p) => ReadyAt(q)
  BY <1>1, <1>3, <1>4 DEF ReadyAt
<1>7. HasReady(q) => HasReady(p)
  BY <1>1, <1>3, <1>4 DEF HasReady
<1>8. ASSUME ~ IsLoad(m) PROVE Eased(q, p)
  <2>1. \A i \in Load(q) : i \in Load(p) /\ q[i] = p[i]
    BY <1>5, <1>8
  <2>2. QED
    BY <1>6, <1>7, <2>1 DEF Eased, OneLoad, Ids
<1>9. ASSUME Load(p) = {} PROVE OneLoad(q) /\ Ids(q) \subseteq {m.body.id}
  <2>1. \A i \in Load(q) : i = L + 1 /\ q[i] = m
    BY <1>5, <1>9
  <2>2. QED
    BY <2>1 DEF OneLoad, Ids
<1>10. QED
  BY <1>2, <1>3, <1>6, <1>7, <1>8, <1>9

(***************************************************************************)
(* What is on the way to or from the socket w, or in work there: "to" and  *)
(* "from" are its pipes, "jobs" the requests of the processes that own it, *)
(* known and waiting the workers the broker has in its table and its list. *)
(* There is one load at most, none while READY is under way or the worker  *)
(* waits, and READY comes first and from a socket that is not known.       *)
(***************************************************************************)
Unladen(to, from, jobs) == Load(to) = {} /\ Load(from) = {} /\ jobs = {}

SoundAt(w, to, from, jobs, known, waiting) ==
  /\ OneLoad(to)
  /\ OneLoad(from)
  /\ Load(to) = {} \/ Load(from) = {}
  /\ jobs # {} => Load(to) = {} /\ Load(from) = {}
  /\ ReadyAt(from)
  /\ HasReady(from) => w \notin known /\ Unladen(to, from, jobs)
  /\ w \in waiting => Unladen(to, from, jobs)

Carries(to, from, jobs) == Ids(to) \cup Ids(from) \cup jobs

LEMMA LoadsCarry ==
  \A pipe : (Load(pipe) = {} <=> Ids(pipe) = {})
  BY DEF Ids

LEMMA EasedKeeps ==
  ASSUME NEW w, NEW to, NEW from, NEW jobs, NEW known, NEW waiting,
         SoundAt(w, to, from, jobs, known, waiting),
         NEW to2, NEW from2, NEW jobs2, NEW known2, NEW waiting2,
         Eased(to2, to), Eased(from2, from), jobs2 \subseteq jobs,
         w \in known2 => w \in known, w \in waiting2 => w \in waiting
  PROVE  /\ SoundAt(w, to2, from2, jobs2, known2, waiting2)
         /\ Carries(to2, from2, jobs2) \subseteq Carries(to, from, jobs)
<1>1. jobs2 # {} => jobs # {}
  OBVIOUS
<1>2. SoundAt(w, to2, from2, jobs2, known2, waiting2)
  BY <1>1 DEF SoundAt, Eased, Unladen
<1>3. QED
  BY <1>2 DEF Eased, Carries

(* The request at the head of "to" becomes the job.                        *)
LEMMA RequestKeeps ==
  ASSUME NEW w, NEW S, NEW to \in Seq(S), NEW from, NEW jobs, NEW known, NEW waiting,
         SoundAt(w, to, from, jobs, known, waiting),
         to # <<>>, IsLoad(Head(to)), NEW jobs2, jobs2 \subseteq jobs \cup {Head(to).body.id}
  PROVE  /\ SoundAt(w, Tail(to), from, jobs2, known, waiting)
         /\ Carries(Tail(to), from, jobs2) \subseteq Carries(to, from, jobs)
<1>1. PICK t : t = Tail(to)
  OBVIOUS
<1>2. OneLoad(to) /\ ReadyAt(from)
  BY DEF SoundAt
<1>3. Eased(t, to) /\ Load(to) # {} /\ Load(t) = {} /\ Ids(to) = {Head(to).body.id}
  BY <1>1, <1>2, TailIsEased
<1>4. Load(from) = {} /\ jobs = {} /\ ~ HasReady(from) /\ w \notin waiting
  BY <1>3 DEF SoundAt, Unladen
<1>5. OneLoad(t) /\ OneLoad(from)
  BY <1>3, <1>4 DEF OneLoad
<1>6. SoundAt(w, t, from, jobs2, known, waiting)
  BY <1>2, <1>3, <1>4, <1>5 DEF SoundAt
<1>7. Carries(t, from, jobs2) \subseteq Carries(to, from, jobs)
  BY <1>3, <1>4 DEF Carries, Eased
<1>8. QED
  BY <1>1, <1>6, <1>7

(* The job is answered.                                                    *)
LEMMA ReplyKeeps ==
  ASSUME NEW w, NEW to, NEW S, NEW from \in Seq(S), NEW jobs, NEW known, NEW waiting,
         SoundAt(w, to, from, jobs, known, waiting),
         NEW m \in S, m.command = "REPLY", m.body.id \in jobs
  PROVE  /\ SoundAt(w, to, Append(from, m), {}, known, waiting)
         /\ Carries(to, Append(from, m), {}) \subseteq Carries(to, from, jobs)
<1>1. PICK f : f = Append(from, m)
  OBVIOUS
<1>2. /\ Load(to) = {} /\ Load(from) = {} /\ ReadyAt(from) /\ OneLoad(to)
      /\ ~ HasReady(from) /\ w \notin waiting
  BY DEF SoundAt, Unladen
<1>3. OneLoad(f) /\ Ids(f) \subseteq {m.body.id} /\ ReadyAt(f) /\ ~ HasReady(f)
  BY <1>1, <1>2, AppendToPipe
<1>4. SoundAt(w, to, f, {}, known, waiting)
  BY <1>2, <1>3 DEF SoundAt
<1>5. Carries(to, f, {}) \subseteq Carries(to, from, jobs)
  BY <1>2, <1>3, LoadsCarry DEF Carries
<1>6. QED
  BY <1>1, <1>4, <1>5

(* The broker sends a request to a worker without a load.                  *)
LEMMA HandedKeeps ==
  ASSUME NEW w, NEW S, NEW to \in Seq(S), NEW from, NEW jobs, NEW known, NEW waiting,
         Unladen(to, from, jobs), ReadyAt(from), ~ HasReady(from), w \notin waiting,
         NEW m \in S, m.command = "REQUEST"
  PROVE  /\ SoundAt(w, Append(to, m), from, jobs, known, waiting)
         /\ Carries(Append(to, m), from, jobs) \subseteq {m.body.id}
<1>1. PICK t : t = Append(to, m)
  OBVIOUS
<1>2. Load(to) = {} /\ Load(from) = {} /\ jobs = {} /\ OneLoad(from)
  BY DEF Unladen, OneLoad
<1>3. OneLoad(t) /\ Ids(t) \subseteq {m.body.id}
  BY <1>1, <1>2, AppendToPipe
<1>4. SoundAt(w, t, from, jobs, known, waiting)
  BY <1>2, <1>3 DEF SoundAt
<1>5. Carries(t, from, jobs) \subseteq {m.body.id}
  BY <1>2, <1>3, LoadsCarry DEF Carries
<1>6. QED
  BY <1>1, <1>4, <1>5

(* A new socket sends READY.                                               *)
LEMMA OpenedKeeps ==
  ASSUME NEW w, NEW s, NEW known, NEW waiting, w \notin known
  PROVE  /\ SoundAt(w, <<>>, <<ReadyMsg(s)>>, {}, known, waiting)
         /\ Carries(<<>>, <<ReadyMsg(s)>>, {}) = {}
<1>1. PICK f : f = <<ReadyMsg(s)>>
  OBVIOUS
<1>2. Len(f) = 1 /\ f[1].command = "READY"
  BY <1>1 DEF ReadyMsg
<1>3. \A i \in 1..Len(f) : i = 1
  BY <1>2
<1>4. Load(f) = {} /\ ReadyAt(f)
  BY <1>2, <1>3 DEF Load, IsLoad, ReadyAt
<1>5. Load(<<>>) = {} /\ OneLoad(<<>>) /\ OneLoad(f)
  BY <1>4, EmptyPipe DEF OneLoad
<1>6. SoundAt(w, <<>>, f, {}, known, waiting)
  BY <1>4, <1>5 DEF SoundAt, Unladen
<1>7. Carries(<<>>, f, {}) = {}
  BY <1>4, <1>5, LoadsCarry DEF Carries
<1>8. QED
  BY <1>1, <1>6, <1>7

(***************************************************************************)
(* The invariant of the system, of which the theorems below are parts.  A  *)
(* socket belongs to one process, nothing is sent to one that is closed,   *)
(* and what is under way to, at and from each worker is as SoundAt says:   *)
(* that is why the worker a REPLY or READY makes wait does not wait yet.   *)
(***************************************************************************)
JobsOf(w, sock, phase, jb) ==
  {jb[p].id : p \in {q \in Process : sock[q] = w /\ phase[q] = "work"}}

SocketsApart ==
  \A p, q \in Process : socket[p] = socket[q] /\ socket[p] # NoSocket => p = q

Offline == \A w \in Identity \ online : toWorker[w] = <<>>

Sound(w) ==
  SoundAt(w, toWorker[w], fromWorker[w], JobsOf(w, socket, wphase, job),
          Known(broker), ToSet(broker.waiting))

PlacesInv ==
  /\ MDNetTypeOK
  /\ MDWorkerTypeOK
  /\ BrokerInv(broker)
  /\ stops \in 0..MaxStops
  /\ SocketsApart
  /\ Offline
  /\ \A w \in Identity : Sound(w)

(* The requests whose load is with the worker w.                           *)
CarriedBy(w) == Carries(toWorker[w], fromWorker[w], JobsOf(w, socket, wphase, job))

(* A step that gives no worker a request.                                  *)
Lightens == \A w \in Identity : CarriedBy(w)' \subseteq CarriedBy(w)

LEMMA ActiveProcess ==
  ASSUME PlacesInv, NEW p \in Process, wphase[p] \in {"poll", "work", "sleep"}
  PROVE  /\ socket[p] \in Identity /\ socket[p] \in online
         /\ toWorker[socket[p]] \in Seq(BrokerMessage)
         /\ fromWorker[socket[p]] \in Seq(WorkerMessage)
         /\ \A q \in Process \ {p} : socket[q] # socket[p]
<1>1. /\ socket[p] \in Identity \cup {NoSocket}
      /\ socket[p] # NoSocket
      /\ online = {socket[q] : q \in Process} \ {NoSocket}
  BY DEF PlacesInv, MDWorkerTypeOK
<1>2. /\ toWorker \in [Identity -> Seq(BrokerMessage)]
      /\ fromWorker \in [Identity -> Seq(WorkerMessage)]
  BY DEF PlacesInv, MDNetTypeOK
<1>3. SocketsApart
  BY DEF PlacesInv
<1>4. QED
  BY <1>1, <1>2, <1>3 DEF SocketsApart

(* Nothing is added to what is with the worker v.                          *)
LEMMA EasedWorker ==
  ASSUME NEW v, Sound(v),
         Eased(toWorker'[v], toWorker[v]), Eased(fromWorker'[v], fromWorker[v]),
         JobsOf(v, socket', wphase', job') \subseteq JobsOf(v, socket, wphase, job),
         v \in Known(broker') => v \in Known(broker),
         v \in ToSet(broker'.waiting) => v \in ToSet(broker.waiting)
  PROVE  Sound(v)' /\ CarriedBy(v)' \subseteq CarriedBy(v)
<1>1. PICK to, from, jobs, known, waiting :
        /\ to = toWorker[v] /\ from = fromWorker[v] /\ jobs = JobsOf(v, socket, wphase, job)
        /\ known = Known(broker) /\ waiting = ToSet(broker.waiting)
  OBVIOUS
<1>2. PICK to2, from2, jobs2, known2, waiting2 :
        /\ to2 = toWorker'[v] /\ from2 = fromWorker'[v]
        /\ jobs2 = JobsOf(v, socket', wphase', job')
        /\ known2 = Known(broker') /\ waiting2 = ToSet(broker'.waiting)
  OBVIOUS
<1>3. SoundAt(v, to, from, jobs, known, waiting)
  BY <1>1 DEF Sound
<1>4. /\ Eased(to2, to) /\ Eased(from2, from) /\ jobs2 \subseteq jobs
      /\ v \in known2 => v \in known
      /\ v \in waiting2 => v \in waiting
  BY <1>1, <1>2
<1>5. /\ SoundAt(v, to2, from2, jobs2, known2, waiting2)
      /\ Carries(to2, from2, jobs2) \subseteq Carries(to, from, jobs)
  BY <1>3, <1>4, EasedKeeps
<1>6. QED
  BY <1>1, <1>2, <1>5 DEF Sound, CarriedBy

(* A step of the process p that keeps its socket.                          *)
OwnStep(p, t, f, phase, left, jb) ==
  /\ toWorker' = [toWorker EXCEPT ![socket[p]] = t]
  /\ fromWorker' = [fromWorker EXCEPT ![socket[p]] = f]
  /\ wphase' = [wphase EXCEPT ![p] = phase]
  /\ liveness' = [liveness EXCEPT ![p] = left]
  /\ job' = [job EXCEPT ![p] = jb]
  /\ UNCHANGED <<service, socket, online, brokerVars, requestVars>>

LEMMA OwnStepFields ==
  ASSUME PlacesInv, NEW p \in Process, wphase[p] \in {"poll", "work", "sleep"},
         NEW t \in Seq(BrokerMessage), NEW f \in Seq(WorkerMessage),
         NEW phase \in {"poll", "work", "sleep"}, NEW left \in 0..HEARTBEAT_LIVENESS,
         NEW jb \in Request \cup {NoJob}, OwnStep(p, t, f, phase, left, jb)
  PROVE  /\ toWorker'[socket[p]] = t /\ fromWorker'[socket[p]] = f
         /\ \A v \in Identity \ {socket[p]} :
              toWorker'[v] = toWorker[v] /\ fromWorker'[v] = fromWorker[v]
         /\ wphase'[p] = phase /\ job'[p] = jb
         /\ \A q \in Process \ {p} : wphase'[q] = wphase[q] /\ job'[q] = job[q]
         /\ toWorker' \in [Identity -> Seq(BrokerMessage)]
         /\ fromWorker' \in [Identity -> Seq(WorkerMessage)]
         /\ wphase' \in [Process -> WorkerPhase]
         /\ liveness' \in [Process -> 0..HEARTBEAT_LIVENESS]
         /\ job' \in [Process -> Request \cup {NoJob}]
         /\ socket' = socket /\ service' = service /\ online' = online
         /\ broker' = broker /\ stops' = stops
         /\ issued' = issued /\ incoming' = incoming /\ answers' = answers
<1>1. PICK w \in Identity : w = socket[p]
  BY ActiveProcess
<1>2. /\ toWorker \in [Identity -> Seq(BrokerMessage)]
      /\ fromWorker \in [Identity -> Seq(WorkerMessage)]
      /\ wphase \in [Process -> WorkerPhase]
      /\ liveness \in [Process -> 0..HEARTBEAT_LIVENESS]
      /\ job \in [Process -> Request \cup {NoJob}]
  BY DEF PlacesInv, MDNetTypeOK, MDWorkerTypeOK
<1>3. phase \in WorkerPhase
  BY DEF WorkerPhase
<1>4. /\ toWorker' = [toWorker EXCEPT ![w] = t]
      /\ fromWorker' = [fromWorker EXCEPT ![w] = f]
      /\ wphase' = [wphase EXCEPT ![p] = phase]
      /\ liveness' = [liveness EXCEPT ![p] = left]
      /\ job' = [job EXCEPT ![p] = jb]
      /\ socket' = socket /\ service' = service /\ online' = online
      /\ broker' = broker /\ stops' = stops
      /\ issued' = issued /\ incoming' = incoming /\ answers' = answers
  BY <1>1 DEF OwnStep, brokerVars, requestVars
<1>5. /\ toWorker'[w] = t /\ fromWorker'[w] = f
      /\ \A v \in Identity \ {w} : toWorker'[v] = toWorker[v] /\ fromWorker'[v] = fromWorker[v]
      /\ toWorker' \in [Identity -> Seq(BrokerMessage)]
      /\ fromWorker' \in [Identity -> Seq(WorkerMessage)]
  BY <1>2, <1>4
<1>6. /\ wphase'[p] = phase /\ job'[p] = jb
      /\ \A q \in Process \ {p} : wphase'[q] = wphase[q] /\ job'[q] = job[q]
      /\ wphase' \in [Process -> WorkerPhase]
      /\ liveness' \in [Process -> 0..HEARTBEAT_LIVENESS]
      /\ job' \in [Process -> Request \cup {NoJob}]
  BY <1>2, <1>3, <1>4
<1>7. QED
  BY <1>1, <1>4, <1>5, <1>6

LEMMA OwnStepKeeps ==
  ASSUME PlacesInv, NEW p \in Process, wphase[p] \in {"poll", "work", "sleep"},
         NEW t \in Seq(BrokerMessage), NEW f \in Seq(WorkerMessage),
         NEW phase \in {"poll", "work", "sleep"}, NEW left \in 0..HEARTBEAT_LIVENESS,
         NEW jb \in Request \cup {NoJob}, jb # NoJob <=> phase = "work",
         OwnStep(p, t, f, phase, left, jb),
         NEW w \in Identity, w = socket[p],
         Sound(w)', CarriedBy(w)' \subseteq CarriedBy(w)
  PROVE  PlacesInv' /\ Lightens
<1>1. /\ toWorker'[w] = t /\ fromWorker'[w] = f
      /\ \A v \in Identity \ {w} : toWorker'[v] = toWorker[v] /\ fromWorker'[v] = fromWorker[v]
      /\ wphase'[p] = phase /\ job'[p] = jb
      /\ \A q \in Process \ {p} : wphase'[q] = wphase[q] /\ job'[q] = job[q]
      /\ toWorker' \in [Identity -> Seq(BrokerMessage)]
      /\ fromWorker' \in [Identity -> Seq(WorkerMessage)]
      /\ wphase' \in [Process -> WorkerPhase]
      /\ liveness' \in [Process -> 0..HEARTBEAT_LIVENESS]
      /\ job' \in [Process -> Request \cup {NoJob}]
      /\ socket' = socket /\ service' = service /\ online' = online
      /\ broker' = broker /\ stops' = stops
      /\ issued' = issued /\ incoming' = incoming /\ answers' = answers
  BY OwnStepFields
<1>2. w \in online
  BY ActiveProcess
<1>3. MDNetTypeOK'
  <2>1. /\ online \subseteq Identity /\ issued \in 0..MaxRequests
        /\ incoming \subseteq Request /\ answers \subseteq Answer
    BY DEF PlacesInv, MDNetTypeOK
  <2>2. QED
    BY <1>1, <2>1 DEF MDNetTypeOK
<1>4. MDWorkerTypeOK'
  <2>1. /\ service \in [Process -> Offered]
        /\ socket \in [Process -> Identity \cup {NoSocket}]
        /\ \A q \in Process :
             /\ job[q] # NoJob <=> wphase[q] = "work"
             /\ socket[q] # NoSocket <=> wphase[q] \in {"poll", "work", "sleep"}
        /\ online = {socket[q] : q \in Process} \ {NoSocket}
    BY DEF PlacesInv, MDWorkerTypeOK
  <2>2. \A q \in Process :
          /\ job'[q] # NoJob <=> wphase'[q] = "work"
          /\ socket'[q] # NoSocket <=> wphase'[q] \in {"poll", "work", "sleep"}
    BY <1>1, <2>1
  <2>3. QED
    BY <1>1, <2>1, <2>2 DEF MDWorkerTypeOK
<1>5. SocketsApart' /\ Offline'
  BY <1>1, <1>2 DEF PlacesInv, SocketsApart, Offline
<1>6. ASSUME NEW v \in Identity
      PROVE  Sound(v)' /\ CarriedBy(v)' \subseteq CarriedBy(v)
  <2>1. CASE v = w
    BY <2>1
  <2>2. CASE v # w
    <3>1. JobsOf(v, socket', wphase', job') \subseteq JobsOf(v, socket, wphase, job)
      BY ZenonT(30), <1>1, <2>2 DEF JobsOf
    <3>2. Eased(toWorker'[v], toWorker[v]) /\ Eased(fromWorker'[v], fromWorker[v])
      BY <1>1, <2>2, EasedSelf
    <3>3. Sound(v)
      BY DEF PlacesInv
    <3>4. QED
      BY <1>1, <3>1, <3>2, <3>3, EasedWorker
  <2>3. QED
    BY <2>1, <2>2
<1>7. BrokerInv(broker') /\ stops' \in 0..MaxStops
  BY <1>1 DEF PlacesInv
<1>8. PlacesInv'
  BY <1>3, <1>4, <1>5, <1>6, <1>7 DEF PlacesInv
<1>9. QED
  BY <1>6, <1>8 DEF Lightens

(* A turn of a process that waits for a message, which may take one from   *)
(* its pipe and send a heartbeat or DISCONNECT.                            *)
LEMMA TurnKeeps ==
  ASSUME PlacesInv, NEW p \in Process, wphase[p] = "poll",
         NEW t \in Seq(BrokerMessage), NEW f \in Seq(WorkerMessage),
         Eased(t, toWorker[socket[p]]), Eased(f, fromWorker[socket[p]]),
         NEW phase \in {"poll", "sleep"}, NEW left \in 0..HEARTBEAT_LIVENESS,
         OwnStep(p, t, f, phase, left, NoJob)
  PROVE  PlacesInv' /\ Lightens
<1>1. PICK w \in Identity : w = socket[p]
  BY ActiveProcess
<1>2. /\ toWorker'[w] = t /\ fromWorker'[w] = f
      /\ wphase'[p] = phase
      /\ \A q \in Process \ {p} : wphase'[q] = wphase[q] /\ job'[q] = job[q]
      /\ socket' = socket /\ broker' = broker
  BY <1>1, OwnStepFields
<1>3. JobsOf(w, socket', wphase', job') \subseteq JobsOf(w, socket, wphase, job)
  BY <1>2 DEF JobsOf
<1>4. Sound(w)
  BY DEF PlacesInv
<1>5. Sound(w)' /\ CarriedBy(w)' \subseteq CarriedBy(w)
  BY <1>1, <1>2, <1>3, <1>4, EasedWorker
<1>6. NoJob # NoJob <=> phase = "work"
  OBVIOUS
<1>7. QED
  BY <1>1, <1>5, <1>6, OwnStepKeeps

LEMMA PlainSend ==
  ASSUME NEW from \in Seq(WorkerMessage), NEW msgs \in {<<>>, <<HEARTBEAT>>, <<DISCONNECT>>}
  PROVE  from \o msgs \in Seq(WorkerMessage) /\ Eased(from \o msgs, from)
<1>1. CASE msgs = <<>>
  <2>1. from \o msgs = from
    BY <1>1, ConcatEmptySeq
  <2>2. QED
    BY <2>1, EasedSelf
<1>2. ASSUME NEW m \in {HEARTBEAT, DISCONNECT}, msgs = <<m>>
      PROVE  from \o msgs \in Seq(WorkerMessage) /\ Eased(from \o msgs, from)
  <2>1. m \in WorkerMessage /\ m.command # "READY" /\ ~ IsLoad(m)
    BY DEF WorkerMessage, HEARTBEAT, DISCONNECT, IsLoad
  <2>2. from \o msgs = Append(from, m)
    BY <1>2, <2>1, AppendIsConcat
  <2>3. QED
    BY <2>1, <2>2, AppendToPipe
<1>3. QED
  BY <1>1, <1>2

LEMMA BrokerMessages ==
  ASSUME NEW m \in BrokerMessage
  PROVE  /\ m.command \in {"REQUEST", "HEARTBEAT", "DISCONNECT"}
         /\ m.command = "REQUEST" => IsLoad(m) /\ m.body \in Request
         /\ m.command # "REQUEST" => ~ IsLoad(m)
  BY DEF BrokerMessage, HEARTBEAT, DISCONNECT, IsLoad

LEMMA IdleProcess ==
  ASSUME PlacesInv, NEW p \in Process, wphase[p] = "poll"
  PROVE  /\ job = [job EXCEPT ![p] = NoJob]
         /\ wphase = [wphase EXCEPT ![p] = "poll"]
         /\ toWorker = [toWorker EXCEPT ![socket[p]] = toWorker[socket[p]]]
<1>1. /\ job \in [Process -> Request \cup {NoJob}] /\ wphase \in [Process -> WorkerPhase]
      /\ toWorker \in [Identity -> Seq(BrokerMessage)] /\ job[p] = NoJob
  BY DEF PlacesInv, MDWorkerTypeOK, MDNetTypeOK
<1>2. QED
  BY <1>1

LEMMA WorkerHeartbeat ==
  ASSUME PlacesInv, NEW p \in Process, MWHeartbeat(p), UNCHANGED brokerVars
  PROVE  PlacesInv' /\ Lightens
<1>1. /\ wphase[p] = "poll" /\ toWorker[socket[p]] # <<>>
      /\ toWorker' = [toWorker EXCEPT ![socket[p]] = Tail(toWorker[socket[p]])]
      /\ liveness' = [liveness EXCEPT ![p] = HEARTBEAT_LIVENESS]
      /\ UNCHANGED <<wphase, service, socket, job, online, requestVars>>
  BY DEF MWHeartbeat, Receives, Consume
<1>2. /\ toWorker[socket[p]] \in Seq(BrokerMessage)
      /\ fromWorker[socket[p]] \in Seq(WorkerMessage)
  BY <1>1, ActiveProcess
<1>3. PICK t \in Seq(BrokerMessage) : t = Tail(toWorker[socket[p]]) /\ Eased(t, toWorker[socket[p]])
  BY <1>1, <1>2, TailIsEased, TailFields
<1>4. PICK beat \in {<<>>, <<HEARTBEAT>>} :
        fromWorker' = [fromWorker EXCEPT ![socket[p]] = fromWorker[socket[p]] \o beat]
  BY DEF MWHeartbeat, EndTurn, Sends
<1>5. PICK f \in Seq(WorkerMessage) :
        f = fromWorker[socket[p]] \o beat /\ Eased(f, fromWorker[socket[p]])
  BY <1>2, PlainSend
<1>6. HEARTBEAT_LIVENESS \in 0..HEARTBEAT_LIVENESS
  BY WorkerAssumption
<1>7. OwnStep(p, t, f, "poll", HEARTBEAT_LIVENESS, NoJob)
  BY <1>1, <1>3, <1>4, <1>5, IdleProcess DEF OwnStep
<1>8. QED
  BY <1>1, <1>3, <1>5, <1>6, <1>7, TurnKeeps

LEMMA WorkerSilence ==
  ASSUME PlacesInv, NEW p \in Process, MWSilence(p), UNCHANGED brokerVars
  PROVE  PlacesInv' /\ Lightens
<1>1. /\ wphase[p] = "poll" /\ liveness[p] > 1
      /\ liveness' = [liveness EXCEPT ![p] = liveness[p] - 1]
      /\ UNCHANGED <<wphase, service, socket, job, toWorker, online, requestVars>>
  BY DEF MWSilence, SilentPoll
<1>2. /\ toWorker[socket[p]] \in Seq(BrokerMessage)
      /\ fromWorker[socket[p]] \in Seq(WorkerMessage)
  BY <1>1, ActiveProcess
<1>3. PICK beat \in {<<>>, <<HEARTBEAT>>} :
        fromWorker' = [fromWorker EXCEPT ![socket[p]] = fromWorker[socket[p]] \o beat]
  BY DEF MWSilence, EndTurn, Sends
<1>4. PICK f \in Seq(WorkerMessage) :
        f = fromWorker[socket[p]] \o beat /\ Eased(f, fromWorker[socket[p]])
  BY <1>2, PlainSend
<1>5. liveness[p] - 1 \in 0..HEARTBEAT_LIVENESS
  BY <1>1, WorkerAssumption DEF PlacesInv, MDWorkerTypeOK
<1>6. OwnStep(p, toWorker[socket[p]], f, "poll", liveness[p] - 1, NoJob)
  BY <1>1, <1>3, <1>4, IdleProcess DEF OwnStep
<1>7. QED
  BY <1>1, <1>2, <1>4, <1>5, <1>6, EasedSelf, TurnKeeps

LEMMA WorkerGivesUp ==
  ASSUME PlacesInv, NEW p \in Process, MWGiveUp(p), UNCHANGED brokerVars
  PROVE  PlacesInv' /\ Lightens
<1>1. /\ wphase[p] = "poll"
      /\ liveness' = [liveness EXCEPT ![p] = 0]
      /\ wphase' = [wphase EXCEPT ![p] = "sleep"]
      /\ fromWorker' = [fromWorker EXCEPT ![socket[p]] = fromWorker[socket[p]] \o <<DISCONNECT>>]
      /\ UNCHANGED <<service, socket, job, toWorker, online, requestVars>>
  BY DEF MWGiveUp, SilentPoll, Sends
<1>2. /\ toWorker[socket[p]] \in Seq(BrokerMessage)
      /\ fromWorker[socket[p]] \in Seq(WorkerMessage)
  BY <1>1, ActiveProcess
<1>3. PICK f \in Seq(WorkerMessage) :
        f = fromWorker[socket[p]] \o <<DISCONNECT>> /\ Eased(f, fromWorker[socket[p]])
  BY <1>2, PlainSend
<1>4. 0 \in 0..HEARTBEAT_LIVENESS
  BY WorkerAssumption
<1>5. OwnStep(p, toWorker[socket[p]], f, "sleep", 0, NoJob)
  BY <1>1, <1>3, IdleProcess DEF OwnStep
<1>6. QED
  BY <1>1, <1>2, <1>3, <1>4, <1>5, EasedSelf, TurnKeeps

(* A request is received: it is the only load of this worker.              *)
LEMMA WorkerRequest ==
  ASSUME PlacesInv, NEW p \in Process, MWRequest(p), UNCHANGED brokerVars
  PROVE  PlacesInv' /\ Lightens
<1>1. PICK w \in Identity : w = socket[p]
  BY ActiveProcess DEF MWRequest, Receives
<1>2. /\ wphase[p] = "poll" /\ toWorker[w] # <<>>
      /\ Head(toWorker[w]).command = "REQUEST"
      /\ toWorker' = [toWorker EXCEPT ![w] = Tail(toWorker[w])]
      /\ liveness' = [liveness EXCEPT ![p] = HEARTBEAT_LIVENESS]
      /\ job' = [job EXCEPT ![p] = Head(toWorker[w]).body]
      /\ wphase' = [wphase EXCEPT ![p] = "work"]
      /\ UNCHANGED <<service, socket, fromWorker, online, requestVars>>
  BY <1>1 DEF MWRequest, Receives, Consume
<1>3. toWorker[w] \in Seq(BrokerMessage) /\ fromWorker[w] \in Seq(WorkerMessage)
  BY <1>1, <1>2, ActiveProcess
<1>4. PICK to \in Seq(BrokerMessage) : to = toWorker[w] /\ to # <<>>
  BY <1>2, <1>3
<1>5. PICK m, t : m = Head(to) /\ t = Tail(to)
  OBVIOUS
<1>6. m \in BrokerMessage /\ m.command = "REQUEST" /\ t \in Seq(BrokerMessage)
  BY <1>2, <1>4, <1>5, TailFields
<1>7. IsLoad(m) /\ m.body \in Request
  BY <1>6, BrokerMessages
<1>8. HEARTBEAT_LIVENESS \in 0..HEARTBEAT_LIVENESS
  BY WorkerAssumption
<1>9. m.body # NoJob
  BY <1>7 DEF Request, NoJob
<1>10. OwnStep(p, t, fromWorker[w], "work", HEARTBEAT_LIVENESS, m.body)
  <2>1. fromWorker' = [fromWorker EXCEPT ![w] = fromWorker[w]]
    BY <1>2 DEF PlacesInv, MDNetTypeOK
  <2>2. QED
    BY <1>1, <1>2, <1>4, <1>5, <2>1 DEF OwnStep
<1>11. /\ toWorker'[w] = t /\ fromWorker'[w] = fromWorker[w]
       /\ wphase'[p] = "work" /\ job'[p] = m.body
       /\ \A q \in Process \ {p} : wphase'[q] = wphase[q] /\ job'[q] = job[q]
       /\ socket' = socket /\ broker' = broker
  BY <1>1, <1>2, <1>3, <1>6, <1>7, <1>8, <1>10, OwnStepFields
<1>12. PICK from, jobs, jobs2, known, waiting :
         /\ from = fromWorker[w]
         /\ jobs = JobsOf(w, socket, wphase, job) /\ jobs2 = JobsOf(w, socket', wphase', job')
         /\ known = Known(broker) /\ waiting = ToSet(broker.waiting)
  OBVIOUS
<1>13. jobs2 \subseteq jobs \cup {m.body.id}
  BY <1>11, <1>12 DEF JobsOf
<1>14. SoundAt(w, to, from, jobs, known, waiting)
  BY <1>4, <1>12 DEF PlacesInv, Sound
<1>15. /\ SoundAt(w, t, from, jobs2, known, waiting)
       /\ Carries(t, from, jobs2) \subseteq Carries(to, from, jobs)
  BY <1>4, <1>5, <1>7, <1>13, <1>14, RequestKeeps
<1>16. Sound(w)' /\ CarriedBy(w)' \subseteq CarriedBy(w)
  BY <1>4, <1>11, <1>12, <1>15 DEF Sound, CarriedBy
<1>17. QED
  BY <1>1, <1>2, <1>3, <1>6, <1>7, <1>8, <1>9, <1>10, <1>16, OwnStepKeeps

(* The reply takes the place of the job.                                   *)
LEMMA WorkerReply ==
  ASSUME PlacesInv, NEW p \in Process, MWReply(p), UNCHANGED brokerVars
  PROVE  PlacesInv' /\ Lightens
<1>1. PICK w \in Identity : w = socket[p] /\ \A q \in Process \ {p} : socket[q] # w
  BY ActiveProcess DEF MWReply
<1>2. /\ wphase[p] = "work"
      /\ fromWorker' = [fromWorker EXCEPT ![w] = fromWorker[w] \o <<ReplyMsg(job[p])>>]
      /\ job' = [job EXCEPT ![p] = NoJob]
      /\ wphase' = [wphase EXCEPT ![p] = "poll"]
      /\ UNCHANGED <<service, socket, liveness, toWorker, online, requestVars>>
  BY <1>1 DEF MWReply, Sends
<1>3. toWorker[w] \in Seq(BrokerMessage) /\ fromWorker[w] \in Seq(WorkerMessage)
  BY <1>1, <1>2, ActiveProcess
<1>4. PICK from \in Seq(WorkerMessage), to \in Seq(BrokerMessage) :
        from = fromWorker[w] /\ to = toWorker[w]
  BY <1>3
<1>5. PICK jb \in Request : jb = job[p]
  BY <1>2 DEF PlacesInv, MDWorkerTypeOK
<1>6. PICK m \in WorkerMessage :
        m = ReplyMsg(jb) /\ m.command = "REPLY" /\ m.body = jb
  <2>1. ReplyMsg(jb) \in [command : {"REPLY"}, body : Request]
    BY DEF ReplyMsg
  <2>2. ReplyMsg(jb) \in WorkerMessage
    BY <2>1 DEF WorkerMessage
  <2>3. ReplyMsg(jb).command = "REPLY" /\ ReplyMsg(jb).body = jb
    BY DEF ReplyMsg
  <2>4. QED
    BY <2>2, <2>3
<1>7. PICK f \in Seq(WorkerMessage) : f = from \o <<m>> /\ f = Append(from, m)
  BY AppendIsConcat, AppendProperties
<1>8. liveness[p] \in 0..HEARTBEAT_LIVENESS
  BY DEF PlacesInv, MDWorkerTypeOK
<1>9. OwnStep(p, to, f, "poll", liveness[p], NoJob)
  <2>1. /\ toWorker' = [toWorker EXCEPT ![w] = to]
        /\ liveness' = [liveness EXCEPT ![p] = liveness[p]]
    BY <1>2, <1>4 DEF PlacesInv, MDNetTypeOK, MDWorkerTypeOK
  <2>2. fromWorker' = [fromWorker EXCEPT ![w] = f]
    BY <1>2, <1>4, <1>5, <1>6, <1>7
  <2>3. QED
    BY <1>1, <1>2, <2>1, <2>2 DEF OwnStep
<1>10. /\ toWorker'[w] = to /\ fromWorker'[w] = f
       /\ wphase'[p] = "poll"
       /\ \A q \in Process \ {p} : wphase'[q] = wphase[q] /\ job'[q] = job[q]
       /\ socket' = socket /\ broker' = broker
  BY SMTT(30), <1>1, <1>2, <1>8, <1>9, OwnStepFields
<1>11. PICK jobs, jobs2, known, waiting :
         /\ jobs = JobsOf(w, socket, wphase, job) /\ jobs2 = JobsOf(w, socket', wphase', job')
         /\ known = Known(broker) /\ waiting = ToSet(broker.waiting)
  OBVIOUS
<1>12. jobs2 = {} /\ m.body.id \in jobs
  BY <1>1, <1>2, <1>5, <1>6, <1>10, <1>11 DEF JobsOf
<1>13. SoundAt(w, to, from, jobs, known, waiting)
  BY <1>4, <1>11 DEF PlacesInv, Sound
<1>14. /\ SoundAt(w, to, f, {}, known, waiting)
       /\ Carries(to, f, {}) \subseteq Carries(to, from, jobs)
  <2>1. /\ SoundAt(w, to, Append(from, m), {}, known, waiting)
        /\ Carries(to, Append(from, m), {}) \subseteq Carries(to, from, jobs)
    BY <1>6, <1>12, <1>13, ReplyKeeps
  <2>2. QED
    BY <1>7, <2>1
<1>15. Sound(w)' /\ CarriedBy(w)' \subseteq CarriedBy(w)
  BY <1>4, <1>10, <1>11, <1>12, <1>14 DEF Sound, CarriedBy
<1>16. QED
  BY <1>1, <1>2, <1>8, <1>9, <1>15, OwnStepKeeps

(***************************************************************************)
(* Sockets that are closed and opened.                                     *)
(***************************************************************************)
LEMMA ReconnectFields ==
  ASSUME PlacesInv, NEW old \in SUBSET Identity, NEW new \in SUBSET (Identity \ old),
         NEW first \in Seq(WorkerMessage), Reconnect(old, new, first)
  PROVE  /\ toWorker' \in [Identity -> Seq(BrokerMessage)]
         /\ fromWorker' \in [Identity -> Seq(WorkerMessage)]
         /\ online' = (online \ old) \cup new
         /\ \A v \in Identity : v \in old => toWorker'[v] = <<>>
         /\ \A v \in Identity : v \notin old => toWorker'[v] = toWorker[v]
         /\ \A v \in Identity : Eased(toWorker'[v], toWorker[v])
         /\ \A v \in Identity : v \in new => fromWorker'[v] = first
         /\ \A v \in Identity : v \notin new => Eased(fromWorker'[v], fromWorker[v])
<1>1. /\ toWorker \in [Identity -> Seq(BrokerMessage)]
      /\ fromWorker \in [Identity -> Seq(WorkerMessage)]
  BY DEF PlacesInv, MDNetTypeOK
<1>2. /\ online' = (online \ old) \cup new
      /\ toWorker' = [w \in Identity |-> IF w \in old THEN <<>> ELSE toWorker[w]]
  BY DEF Reconnect
<1>3. PICK n \in [old -> 0..HWM] :
        /\ \A w \in old : n[w] <= Len(fromWorker[w])
        /\ fromWorker' = [w \in Identity |->
             IF w \in old THEN SubSeq(fromWorker[w], 1, n[w])
             ELSE IF w \in new THEN first ELSE fromWorker[w]]
  BY DEF Reconnect
<1>4. ASSUME NEW v \in Identity
      PROVE  /\ toWorker'[v] \in Seq(BrokerMessage)
             /\ Eased(toWorker'[v], toWorker[v])
             /\ v \in old => toWorker'[v] = <<>>
             /\ v \notin old => toWorker'[v] = toWorker[v]
  <2>1. toWorker'[v] = IF v \in old THEN <<>> ELSE toWorker[v]
    BY <1>2
  <2>2. <<>> \in Seq(BrokerMessage) /\ Eased(<<>>, toWorker[v])
    BY EmptySeq, EmptyPipe
  <2>3. toWorker[v] \in Seq(BrokerMessage) /\ Eased(toWorker[v], toWorker[v])
    BY <1>1, EasedSelf
  <2>4. QED
    BY <2>1, <2>2, <2>3
<1>5. ASSUME NEW v \in Identity
      PROVE  /\ fromWorker'[v] \in Seq(WorkerMessage)
             /\ v \in new => fromWorker'[v] = first
             /\ v \notin new => Eased(fromWorker'[v], fromWorker[v])
  <2>1. fromWorker[v] \in Seq(WorkerMessage)
    BY <1>1
  <2>2. CASE v \in old
    <3>1. fromWorker'[v] = SubSeq(fromWorker[v], 1, n[v]) /\ v \notin new
      BY <1>3, <2>2
    <3>2. n[v] \in Nat /\ n[v] <= Len(fromWorker[v])
      BY <1>3, <2>2
    <3>3. QED
      BY <2>1, <3>1, <3>2, PrefixIsEased
  <2>3. CASE v \notin old
    <3>1. fromWorker'[v] = IF v \in new THEN first ELSE fromWorker[v]
      BY <1>3, <2>3
    <3>2. QED
      BY <2>1, <3>1, EasedSelf
  <2>4. QED
    BY <2>2, <2>3
<1>6. /\ toWorker' \in [Identity -> Seq(BrokerMessage)]
      /\ fromWorker' \in [Identity -> Seq(WorkerMessage)]
  BY <1>2, <1>3, <1>4, <1>5
<1>7. QED
  BY <1>2, <1>4, <1>5, <1>6

(* The sockets in use when the process p gives one up for another.         *)
LEMMA SocketsInUse ==
  ASSUME NEW P, NEW p \in P, NEW none, NEW sock, NEW sock2, NEW used, NEW old,
         used = {sock[q] : q \in P} \ {none},
         old = {sock[p]} \ {none},
         \A q \in P \ {p} : sock[q] \notin old /\ sock2[q] = sock[q]
  PROVE  {sock2[q] : q \in P} \ {none} = (used \ old) \cup ({sock2[p]} \ {none})
<1>1. ASSUME NEW v, v \in {sock2[q] : q \in P} \ {none}
      PROVE  v \in (used \ old) \cup ({sock2[p]} \ {none})
  <2>1. PICK q \in P : v = sock2[q] /\ v # none
    BY <1>1
  <2>2. CASE q = p
    BY <2>1, <2>2
  <2>3. CASE q # p
    BY <2>1, <2>3
  <2>4. QED
    BY <2>2, <2>3
<1>2. ASSUME NEW v, v \in used \ old
      PROVE  v \in {sock2[q] : q \in P} \ {none}
  <2>1. PICK q \in P : v = sock[q] /\ v # none
    BY <1>2
  <2>2. q # p
    BY <1>2, <2>1
  <2>3. QED
    BY <2>1, <2>2
<1>3. QED
  BY <1>1, <1>2

(* The identity of the new socket is not known to the broker, so its READY *)
(* is the first the broker hears of it.                                    *)
LEMMA ConnectKeeps ==
  ASSUME PlacesInv, NEW p \in Process, wphase[p] \in {"off", "poll", "sleep"}, Connect(p),
         FreshToBroker, UNCHANGED brokerVars
  PROVE  PlacesInv' /\ Lightens
<1>1. PICK w \in Identity :
        /\ w \notin online /\ fromWorker[w] = <<>>
        /\ socket' = [socket EXCEPT ![p] = w]
        /\ Reconnect({socket[p]} \ {NoSocket}, {w}, <<ReadyMsg(service[p])>>)
  BY DEF Connect, Fresh
<1>2. /\ liveness' = [liveness EXCEPT ![p] = HEARTBEAT_LIVENESS]
      /\ wphase' = [wphase EXCEPT ![p] = "poll"]
      /\ service' = service /\ job' = job /\ broker' = broker /\ stops' = stops
      /\ issued' = issued /\ incoming' = incoming /\ answers' = answers
  BY DEF Connect, requestVars, brokerVars
<1>3. /\ wphase \in [Process -> WorkerPhase]
      /\ service \in [Process -> Offered]
      /\ socket \in [Process -> Identity \cup {NoSocket}]
      /\ liveness \in [Process -> 0..HEARTBEAT_LIVENESS]
      /\ job \in [Process -> Request \cup {NoJob}]
      /\ \A q \in Process :
           /\ job[q] # NoJob <=> wphase[q] = "work"
           /\ socket[q] # NoSocket <=> wphase[q] \in {"poll", "work", "sleep"}
      /\ online = {socket[q] : q \in Process} \ {NoSocket}
      /\ SocketsApart /\ Offline
      /\ online \subseteq Identity /\ issued \in 0..MaxRequests
      /\ incoming \subseteq Request /\ answers \subseteq Answer
  BY DEF PlacesInv, MDWorkerTypeOK, MDNetTypeOK
<1>4. PICK old \in SUBSET Identity : old = {socket[p]} \ {NoSocket}
  BY <1>3
<1>5. old \subseteq online /\ w \notin old /\ \A q \in Process \ {p} : socket[q] \notin old
  BY <1>1, <1>3, <1>4 DEF SocketsApart
<1>6. PICK first \in Seq(WorkerMessage) : first = <<ReadyMsg(service[p])>>
  <2>1. service[p] \in ServiceName \cup Mmi
    BY <1>3, WorkerAssumption
  <2>2. ReadyMsg(service[p]) \in [command : {"READY"}, service : ServiceName \cup Mmi]
    BY <2>1 DEF ReadyMsg
  <2>3. PICK m \in WorkerMessage : m = ReadyMsg(service[p])
    BY <2>2 DEF WorkerMessage
  <2>4. <<m>> \in Seq(WorkerMessage)
    OBVIOUS
  <2>5. QED
    BY <2>3, <2>4
<1>7. /\ toWorker' \in [Identity -> Seq(BrokerMessage)]
      /\ fromWorker' \in [Identity -> Seq(WorkerMessage)]
      /\ online' = (online \ old) \cup {w}
      /\ \A v \in Identity : v \in old => toWorker'[v] = <<>>
      /\ \A v \in Identity : v \notin old => toWorker'[v] = toWorker[v]
      /\ \A v \in Identity : Eased(toWorker'[v], toWorker[v])
      /\ \A v \in Identity : v \in {w} => fromWorker'[v] = first
      /\ \A v \in Identity : v \notin {w} => Eased(fromWorker'[v], fromWorker[v])
  <2>1. Reconnect(old, {w}, first) /\ {w} \in SUBSET (Identity \ old)
    BY <1>1, <1>4, <1>5, <1>6
  <2>2. QED
    BY <2>1, ReconnectFields
<1>8. /\ socket'[p] = w /\ wphase'[p] = "poll"
      /\ \A q \in Process \ {p} : socket'[q] = socket[q] /\ wphase'[q] = wphase[q]
      /\ socket' \in [Process -> Identity \cup {NoSocket}]
      /\ wphase' \in [Process -> WorkerPhase]
      /\ liveness' \in [Process -> 0..HEARTBEAT_LIVENESS]
  <2>1. HEARTBEAT_LIVENESS \in 0..HEARTBEAT_LIVENESS /\ "poll" \in WorkerPhase
    BY WorkerAssumption DEF WorkerPhase
  <2>2. QED
    BY <1>1, <1>2, <1>3, <2>1
<1>9. w # NoSocket /\ \A q \in Process : socket[q] # w
  BY <1>1, <1>3, WorkerAssumption
<1>10. MDNetTypeOK'
  BY <1>2, <1>3, <1>7 DEF MDNetTypeOK
<1>11. MDWorkerTypeOK'
  <2>1. \A q \in Process :
          /\ job'[q] # NoJob <=> wphase'[q] = "work"
          /\ socket'[q] # NoSocket <=> wphase'[q] \in {"poll", "work", "sleep"}
    BY <1>2, <1>3, <1>8, <1>9
  <2>2. online' = {socket'[q] : q \in Process} \ {NoSocket}
    <3>1. \A q \in Process \ {p} : socket[q] \notin old /\ socket'[q] = socket[q]
      BY <1>5, <1>8
    <3>2. {socket'[q] : q \in Process} \ {NoSocket} =
            (online \ old) \cup ({socket'[p]} \ {NoSocket})
      BY SMTT(30), <1>3, <1>4, <3>1, SocketsInUse
    <3>3. QED
      BY <1>7, <1>8, <1>9, <3>2
  <2>3. QED
    BY <1>2, <1>3, <1>8, <2>1, <2>2 DEF MDWorkerTypeOK
<1>12. SocketsApart'
  BY <1>3, <1>8, <1>9 DEF SocketsApart
<1>13. toWorker[w] = <<>> /\ w \notin Known(broker)
  BY <1>1, <1>3, <1>7 DEF Offline, FreshToBroker
<1>14. Offline'
  <2>1. ASSUME NEW v \in Identity \ online' PROVE toWorker'[v] = <<>>
    <3>1. v \in old \/ v \notin online
      BY <1>7
    <3>2. QED
      BY <1>3, <1>7, <3>1 DEF Offline
  <2>2. QED
    BY <2>1 DEF Offline
<1>15. ASSUME NEW v \in Identity
       PROVE  Sound(v)' /\ CarriedBy(v)' \subseteq CarriedBy(v)
  <2>1. CASE v = w
    <3>1. JobsOf(w, socket', wphase', job') = {}
      BY <1>8, <1>9 DEF JobsOf
    <3>2. /\ SoundAt(w, <<>>, first, {}, Known(broker), ToSet(broker.waiting))
          /\ Carries(<<>>, first, {}) = {}
      BY <1>6, <1>13, OpenedKeeps
    <3>3. toWorker'[w] = <<>> /\ fromWorker'[w] = first /\ Known(broker') = Known(broker)
            /\ ToSet(broker'.waiting) = ToSet(broker.waiting)
      BY <1>2, <1>5, <1>7, <1>13
    <3>4. Sound(w)' /\ CarriedBy(w)' = {}
      BY <3>1, <3>2, <3>3 DEF Sound, CarriedBy
    <3>5. QED
      BY <2>1, <3>4
  <2>2. CASE v # w
    <3>1. JobsOf(v, socket', wphase', job') \subseteq JobsOf(v, socket, wphase, job)
      BY <1>2, <1>8, <2>2 DEF JobsOf
    <3>2. Eased(toWorker'[v], toWorker[v]) /\ Eased(fromWorker'[v], fromWorker[v])
      BY <1>7, <2>2
    <3>3. Sound(v)
      BY DEF PlacesInv
    <3>4. QED
      BY <1>2, <3>1, <3>2, <3>3, EasedWorker
  <2>3. QED
    BY <2>1, <2>2
<1>16. BrokerInv(broker') /\ stops' \in 0..MaxStops
  BY <1>2 DEF PlacesInv
<1>17. PlacesInv'
  BY <1>10, <1>11, <1>12, <1>14, <1>15, <1>16 DEF PlacesInv
<1>18. QED
  BY <1>15, <1>17 DEF Lightens

LEMMA ExitKeeps ==
  ASSUME PlacesInv, NEW p \in Process, MWExit(p), UNCHANGED brokerVars
  PROVE  PlacesInv' /\ Lightens
<1>1. PICK w \in Identity :
        w = socket[p] /\ w \in online /\ \A q \in Process \ {p} : socket[q] # w
  BY ActiveProcess DEF MWExit
<1>2. /\ wphase[p] \in {"poll", "work", "sleep"}
      /\ Reconnect({w}, {}, <<>>)
      /\ wphase' = [wphase EXCEPT ![p] = "dead"]
      /\ socket' = [socket EXCEPT ![p] = NoSocket]
      /\ liveness' = [liveness EXCEPT ![p] = 0]
      /\ job' = [job EXCEPT ![p] = NoJob]
      /\ service' = service /\ broker' = broker /\ stops' = stops
      /\ issued' = issued /\ incoming' = incoming /\ answers' = answers
  BY <1>1 DEF MWExit, requestVars, brokerVars
<1>3. /\ wphase \in [Process -> WorkerPhase]
      /\ service \in [Process -> Offered]
      /\ socket \in [Process -> Identity \cup {NoSocket}]
      /\ liveness \in [Process -> 0..HEARTBEAT_LIVENESS]
      /\ job \in [Process -> Request \cup {NoJob}]
      /\ \A q \in Process :
           /\ job[q] # NoJob <=> wphase[q] = "work"
           /\ socket[q] # NoSocket <=> wphase[q] \in {"poll", "work", "sleep"}
      /\ online = {socket[q] : q \in Process} \ {NoSocket}
      /\ SocketsApart /\ Offline
      /\ online \subseteq Identity /\ issued \in 0..MaxRequests
      /\ incoming \subseteq Request /\ answers \subseteq Answer
  BY DEF PlacesInv, MDWorkerTypeOK, MDNetTypeOK
<1>4. /\ toWorker' \in [Identity -> Seq(BrokerMessage)]
      /\ fromWorker' \in [Identity -> Seq(WorkerMessage)]
      /\ online' = (online \ {w}) \cup {}
      /\ \A v \in Identity : v \in {w} => toWorker'[v] = <<>>
      /\ \A v \in Identity : v \notin {w} => toWorker'[v] = toWorker[v]
      /\ \A v \in Identity : Eased(toWorker'[v], toWorker[v])
      /\ \A v \in Identity : v \notin {} => Eased(fromWorker'[v], fromWorker[v])
  <2>1. PICK old \in SUBSET Identity, none \in SUBSET (Identity \ {w}), first \in Seq(WorkerMessage) :
          old = {w} /\ none = {} /\ first = <<>>
    BY EmptySeq
  <2>2. Reconnect(old, none, first) /\ none \in SUBSET (Identity \ old)
    BY <1>2, <2>1
  <2>3. /\ toWorker' \in [Identity -> Seq(BrokerMessage)]
        /\ fromWorker' \in [Identity -> Seq(WorkerMessage)]
        /\ online' = (online \ old) \cup none
        /\ \A v \in Identity : v \in old => toWorker'[v] = <<>>
        /\ \A v \in Identity : v \notin old => toWorker'[v] = toWorker[v]
        /\ \A v \in Identity : Eased(toWorker'[v], toWorker[v])
        /\ \A v \in Identity : v \in none => fromWorker'[v] = first
        /\ \A v \in Identity : v \notin none => Eased(fromWorker'[v], fromWorker[v])
    BY <2>2, ReconnectFields
  <2>4. QED
    BY <2>1, <2>3
<1>5. /\ socket'[p] = NoSocket /\ wphase'[p] = "dead" /\ job'[p] = NoJob
      /\ \A q \in Process \ {p} :
           socket'[q] = socket[q] /\ wphase'[q] = wphase[q] /\ job'[q] = job[q]
      /\ socket' \in [Process -> Identity \cup {NoSocket}]
      /\ wphase' \in [Process -> WorkerPhase]
      /\ liveness' \in [Process -> 0..HEARTBEAT_LIVENESS]
      /\ job' \in [Process -> Request \cup {NoJob}]
  <2>1. 0 \in 0..HEARTBEAT_LIVENESS /\ "dead" \in WorkerPhase
    BY WorkerAssumption DEF WorkerPhase
  <2>2. QED
    BY <1>2, <1>3, <2>1
<1>6. MDNetTypeOK'
  BY <1>2, <1>3, <1>4 DEF MDNetTypeOK
<1>7. MDWorkerTypeOK'
  <2>1. \A q \in Process :
          /\ job'[q] # NoJob <=> wphase'[q] = "work"
          /\ socket'[q] # NoSocket <=> wphase'[q] \in {"poll", "work", "sleep"}
    BY <1>3, <1>5
  <2>2. online' = {socket'[q] : q \in Process} \ {NoSocket}
    <3>1. PICK old : old = {socket[p]} \ {NoSocket}
      OBVIOUS
    <3>2. old = {w}
      BY <1>1, <1>2, <1>3, <3>1
    <3>3. \A q \in Process \ {p} : socket[q] \notin old /\ socket'[q] = socket[q]
      BY <1>1, <1>5, <3>2
    <3>4. {socket'[q] : q \in Process} \ {NoSocket} =
            (online \ old) \cup ({socket'[p]} \ {NoSocket})
      BY <1>3, <3>1, <3>3, SocketsInUse
    <3>5. QED
      BY <1>4, <1>5, <3>2, <3>4
  <2>3. QED
    BY <1>2, <1>3, <1>5, <2>1, <2>2 DEF MDWorkerTypeOK
<1>8. SocketsApart'
  BY <1>3, <1>5 DEF SocketsApart
<1>9. Offline'
  BY <1>3, <1>4 DEF Offline
<1>10. ASSUME NEW v \in Identity
       PROVE  Sound(v)' /\ CarriedBy(v)' \subseteq CarriedBy(v)
  <2>1. JobsOf(v, socket', wphase', job') \subseteq JobsOf(v, socket, wphase, job)
    BY <1>5 DEF JobsOf
  <2>2. Sound(v)
    BY DEF PlacesInv
  <2>3. QED
    BY <1>2, <1>4, <2>1, <2>2, EasedWorker
<1>11. BrokerInv(broker') /\ stops' \in 0..MaxStops
  BY <1>2 DEF PlacesInv
<1>12. PlacesInv'
  BY <1>6, <1>7, <1>8, <1>9, <1>10, <1>11 DEF PlacesInv
<1>13. QED
  BY <1>10, <1>12 DEF Lightens

LEMMA WorkersKeep ==
  ASSUME PlacesInv, WorkerNext
  PROVE  PlacesInv' /\ Lightens
<1>1. PICK p \in Process :
        \/ MWStart(p) \/ MWRequest(p) \/ MWReply(p) \/ MWHeartbeat(p)
        \/ MWDisconnect(p) \/ MWSilence(p) \/ MWGiveUp(p) \/ MWReconnect(p)
        \/ MWExit(p)
  BY DEF WorkerNext
<1>2. FreshToBroker /\ UNCHANGED brokerVars
  BY DEF WorkerNext
<1>3. CASE MWStart(p)
  BY <1>2, <1>3, ConnectKeeps DEF MWStart
<1>4. CASE MWRequest(p)
  BY <1>2, <1>4, WorkerRequest
<1>5. CASE MWReply(p)
  BY <1>2, <1>5, WorkerReply
<1>6. CASE MWHeartbeat(p)
  BY <1>2, <1>6, WorkerHeartbeat
<1>7. CASE MWDisconnect(p)
  BY <1>2, <1>7, ConnectKeeps DEF MWDisconnect, Receives
<1>8. CASE MWSilence(p)
  BY <1>2, <1>8, WorkerSilence
<1>9. CASE MWGiveUp(p)
  BY <1>2, <1>9, WorkerGivesUp
<1>10. CASE MWReconnect(p)
  BY <1>2, <1>10, ConnectKeeps DEF MWReconnect
<1>11. CASE MWExit(p)
  BY <1>2, <1>11, ExitKeeps
<1>12. QED
  BY <1>1, <1>3, <1>4, <1>5, <1>6, <1>7, <1>8, <1>9, <1>10, <1>11

(***************************************************************************)
(* The broker.                                                             *)
(***************************************************************************)

(* What a send of the ROUTER leaves in the pipe to v.                      *)
LEMMA SendFields ==
  ASSUME NEW out, RouterSend(out), MDNetTypeOK, \A v \in DOMAIN out : out[v] \in BrokerMessage
  PROVE  /\ toWorker' \in [Identity -> Seq(BrokerMessage)]
         /\ \A v \in Identity :
              \/ toWorker'[v] = toWorker[v]
              \/ /\ v \in DOMAIN out \cap online
                 /\ toWorker'[v] = Append(toWorker[v], out[v])
<1>1. toWorker \in [Identity -> Seq(BrokerMessage)]
  BY DEF MDNetTypeOK
<1>2. toWorker' = [w \in Identity |->
                     IF w \in DOMAIN out \cap online /\ Len(toWorker[w]) < HWM
                     THEN Append(toWorker[w], out[w]) ELSE toWorker[w]]
  BY DEF RouterSend
<1>3. ASSUME NEW v \in Identity
      PROVE  /\ toWorker'[v] \in Seq(BrokerMessage)
             /\ \/ toWorker'[v] = toWorker[v]
                \/ /\ v \in DOMAIN out \cap online
                   /\ toWorker'[v] = Append(toWorker[v], out[v])
  <2>1. toWorker'[v] = IF v \in DOMAIN out \cap online /\ Len(toWorker[v]) < HWM
                       THEN Append(toWorker[v], out[v]) ELSE toWorker[v]
    BY <1>2
  <2>2. toWorker[v] \in Seq(BrokerMessage)
    BY <1>1
  <2>3. v \in DOMAIN out => Append(toWorker[v], out[v]) \in Seq(BrokerMessage)
    BY <2>2, AppendProperties
  <2>4. QED
    BY <2>1, <2>2, <2>3
<1>4. QED
  BY <1>2, <1>3

(* A worker without a load, from which no READY is to come, may be known   *)
(* and may wait.                                                           *)
LEMMA UnladenIsSound ==
  ASSUME NEW v, NEW to, NEW from, NEW jobs, NEW known, NEW waiting,
         Unladen(to, from, jobs), ReadyAt(from), ~ HasReady(from)
  PROVE  SoundAt(v, to, from, jobs, known, waiting)
<1>1. Load(to) = {} /\ Load(from) = {} /\ jobs = {} /\ OneLoad(to) /\ OneLoad(from)
  BY DEF Unladen, OneLoad
<1>2. QED
  BY <1>1 DEF SoundAt, Unladen

(* A worker that waits has no load, and has been heard of.                 *)
LEMMA WaiterIsUnladen ==
  ASSUME PlacesInv, NEW v \in Identity, v \in ToSet(broker.waiting)
  PROVE  /\ Unladen(toWorker[v], fromWorker[v], JobsOf(v, socket, wphase, job))
         /\ ReadyAt(fromWorker[v])
         /\ ~ HasReady(fromWorker[v])
<1>1. Sound(v) /\ v \in Known(broker)
  BY DEF PlacesInv, BrokerInv, Core, Listed
<1>2. QED
  BY <1>1 DEF Sound, SoundAt

(* Messages other than requests ease the pipe they join.                   *)
LEMMA PlainIsEased ==
  ASSUME NEW to \in Seq(BrokerMessage), NEW m \in BrokerMessage, m.command # "REQUEST"
  PROVE  Eased(Append(to, m), to)
<1>1. m.command # "READY" /\ ~ IsLoad(m)
  BY BrokerMessages
<1>2. PICK t : t = Append(to, m)
  OBVIOUS
<1>3. Eased(t, to)
  BY <1>1, <1>2, AppendToPipe
<1>4. QED
  BY <1>2, <1>3

(* A step of the broker: K and W are the workers it may get to know and    *)
(* that may begin to wait.                                                 *)
BrokerStep(K, W, msgs, r) ==
  /\ Outcome(broker, K, W, msgs, r)
  /\ broker' = r.self
  /\ RouterSend(r.out)
  /\ fromWorker' \in [Identity -> Seq(WorkerMessage)]
  /\ \A v \in Identity : Eased(fromWorker'[v], fromWorker[v])
  /\ \A v \in Identity : v \in K \cup W =>
       /\ Unladen(toWorker[v], fromWorker'[v], JobsOf(v, socket, wphase, job))
       /\ ~ HasReady(fromWorker'[v])
  /\ UNCHANGED <<stops, online, issued, workerVars>>
  /\ incoming' \subseteq Request
  /\ answers' \subseteq Answer

(* What is with the worker w once the broker has read its message.         *)
StillCarried(w) == Carries(toWorker[w], fromWorker'[w], JobsOf(w, socket, wphase, job))

LEMMA BrokerStepAt ==
  ASSUME PlacesInv, NEW K, NEW W, NEW msgs, NEW r, BrokerStep(K, W, msgs, r), NEW v \in Identity
  PROVE  /\ Sound(v)'
         /\ StillCarried(v) \subseteq CarriedBy(v)
         /\ \/ CarriedBy(v)' \subseteq StillCarried(v)
            \/ v \in Loaded(r.out) /\ CarriedBy(v)' \subseteq {r.out[v].body.id}
<1>1. PICK to \in Seq(BrokerMessage) : to = toWorker[v]
  BY DEF PlacesInv, MDNetTypeOK
<1>2. PICK from, jobs :
        to = toWorker[v] /\ from = fromWorker[v] /\ jobs = JobsOf(v, socket, wphase, job)
  BY <1>1
<1>3. PICK to2, from2, known2, waiting2 :
        /\ to2 = toWorker'[v] /\ from2 = fromWorker'[v]
        /\ known2 = Known(broker') /\ waiting2 = ToSet(broker'.waiting)
  OBVIOUS
<1>4. PICK known, waiting : known = Known(broker) /\ waiting = ToSet(broker.waiting)
  OBVIOUS
<1>5. /\ known2 \subseteq known \cup K
      /\ waiting2 \subseteq waiting \cup W
      /\ \A u \in DOMAIN r.out : r.out[u] \in BrokerMessage
      /\ Loaded(r.out) \subseteq (waiting \cup W) \ waiting2
  BY <1>3, <1>4 DEF BrokerStep, Outcome
<1>6. JobsOf(v, socket', wphase', job') = jobs
  BY <1>2 DEF BrokerStep, workerVars
<1>7. SoundAt(v, to, from, jobs, known, waiting)
  BY <1>2, <1>4 DEF PlacesInv, Sound
<1>8. Eased(from2, from)
  BY <1>2, <1>3 DEF BrokerStep
<1>9. to2 = to \/ (v \in DOMAIN r.out /\ to2 = Append(to, r.out[v]))
  <2>1. RouterSend(r.out) /\ MDNetTypeOK
    BY DEF BrokerStep, PlacesInv
  <2>2. PICK out : out = r.out
    OBVIOUS
  <2>3. \/ toWorker'[v] = toWorker[v]
        \/ v \in DOMAIN out \cap online /\ toWorker'[v] = Append(toWorker[v], out[v])
    BY <1>5, <2>1, <2>2, SendFields
  <2>4. QED
    BY <1>2, <1>3, <2>2, <2>3
<1>10. v \in waiting \cup K \cup W => Unladen(to, from2, jobs) /\ ReadyAt(from2) /\ ~ HasReady(from2)
  <2>1. ReadyAt(from2)
    BY <1>7, <1>8 DEF SoundAt, Eased
  <2>2. ASSUME v \in waiting PROVE Unladen(to, from2, jobs) /\ ~ HasReady(from2)
    <3>1. Unladen(to, from, jobs) /\ ~ HasReady(from)
      BY <1>2, <1>4, <2>2, WaiterIsUnladen
    <3>2. QED
      BY <1>8, <3>1 DEF Unladen, Eased
  <2>3. ASSUME v \in K \cup W PROVE Unladen(to, from2, jobs) /\ ~ HasReady(from2)
    BY <1>2, <1>3, <2>3 DEF BrokerStep
  <2>4. QED
    BY <2>1, <2>2, <2>3
<1>11. /\ SoundAt(v, to2, from2, jobs, known2, waiting2)
       /\ \/ Carries(to2, from2, jobs) \subseteq Carries(to, from2, jobs)
          \/ v \in Loaded(r.out) /\ Carries(to2, from2, jobs) \subseteq {r.out[v].body.id}
  <2>1. CASE v \in Loaded(r.out) /\ to2 = Append(to, r.out[v])
    <3>1. PICK m \in BrokerMessage : m = r.out[v] /\ m.command = "REQUEST"
      BY <1>5, <2>1 DEF Loaded
    <3>2. Unladen(to, from2, jobs) /\ ReadyAt(from2) /\ ~ HasReady(from2) /\ v \notin waiting2
      BY <1>5, <1>10, <2>1
    <3>3. /\ SoundAt(v, Append(to, m), from2, jobs, known2, waiting2)
          /\ Carries(Append(to, m), from2, jobs) \subseteq {m.body.id}
      BY <3>1, <3>2, HandedKeeps
    <3>4. QED
      BY <2>1, <3>1, <3>3
  <2>2. CASE ~ (v \in Loaded(r.out) /\ to2 = Append(to, r.out[v]))
    <3>1. Eased(to2, to)
      <4>1. CASE to2 = to
        BY <4>1, EasedSelf
      <4>2. CASE v \in DOMAIN r.out /\ to2 = Append(to, r.out[v])
        <5>1. PICK m \in BrokerMessage : m = r.out[v] /\ m.command # "REQUEST"
          BY <1>5, <2>2, <4>2 DEF Loaded
        <5>2. QED
          BY <4>2, <5>1, PlainIsEased
      <4>3. QED
        BY <1>9, <4>1, <4>2
    <3>2. Carries(to2, from2, jobs) \subseteq Carries(to, from2, jobs)
      BY <3>1 DEF Eased, Carries
    <3>3. CASE v \in K \cup W
      <4>1. Unladen(to2, from2, jobs) /\ ReadyAt(from2) /\ ~ HasReady(from2)
        BY <1>10, <3>1, <3>3 DEF Unladen, Eased
      <4>2. SoundAt(v, to2, from2, jobs, known2, waiting2)
        BY <4>1, UnladenIsSound
      <4>3. QED
        BY <3>2, <4>2
    <3>4. CASE v \notin K \cup W
      <4>1. (v \in known2 => v \in known) /\ (v \in waiting2 => v \in waiting)
        BY <1>5, <3>4
      <4>2. SoundAt(v, to2, from2, jobs, known2, waiting2)
        BY <1>7, <1>8, <3>1, <4>1, EasedKeeps
      <4>3. QED
        BY <3>2, <4>2
    <3>5. QED
      BY <3>3, <3>4
  <2>3. QED
    BY <2>1, <2>2
<1>12. Carries(to, from2, jobs) \subseteq Carries(to, from, jobs)
  BY <1>8 DEF Eased, Carries
<1>13. QED
  BY <1>2, <1>3, <1>6, <1>11, <1>12 DEF Sound, CarriedBy, StillCarried

LEMMA BrokerStepKeeps ==
  ASSUME PlacesInv, NEW K, NEW W, NEW msgs, NEW r, BrokerStep(K, W, msgs, r)
  PROVE  PlacesInv'
<1>1. /\ BrokerInv(broker')
      /\ UNCHANGED <<stops, online, issued, workerVars>>
      /\ fromWorker' \in [Identity -> Seq(WorkerMessage)]
      /\ incoming' \subseteq Request /\ answers' \subseteq Answer
  BY DEF BrokerStep, Outcome
<1>2. /\ toWorker' \in [Identity -> Seq(BrokerMessage)]
      /\ \A v \in Identity \ online : toWorker'[v] = toWorker[v]
  <2>1. PICK out : out = r.out
    OBVIOUS
  <2>2. /\ RouterSend(out) /\ MDNetTypeOK /\ \A v \in DOMAIN out : out[v] \in BrokerMessage
    BY <2>1 DEF BrokerStep, Outcome, PlacesInv
  <2>3. /\ toWorker' \in [Identity -> Seq(BrokerMessage)]
        /\ \A v \in Identity :
             \/ toWorker'[v] = toWorker[v]
             \/ v \in DOMAIN out \cap online /\ toWorker'[v] = Append(toWorker[v], out[v])
    BY <2>2, SendFields
  <2>4. QED
    BY <2>3
<1>3. MDNetTypeOK'
  BY <1>1, <1>2 DEF PlacesInv, MDNetTypeOK
<1>4. MDWorkerTypeOK'
  BY <1>1 DEF PlacesInv, MDWorkerTypeOK, workerVars
<1>5. SocketsApart' /\ Offline'
  BY <1>1, <1>2 DEF PlacesInv, SocketsApart, Offline, workerVars
<1>6. \A v \in Identity : Sound(v)'
  BY BrokerStepAt
<1>7. stops' \in 0..MaxStops
  BY <1>1 DEF PlacesInv
<1>8. QED
  BY <1>1, <1>3, <1>4, <1>5, <1>6, <1>7 DEF PlacesInv

(* The message a worker sent is taken from its pipe.  If it is a REPLY of  *)
(* a worker the broker knows, its client gets it, and nothing else is with *)
(* that worker.                                                            *)
AnswersOf(w) ==
  \/ answers' = answers
  \/ \E a \in Answer :
       /\ answers' = answers \cup {a}
       /\ a.id \in CarriedBy(w)
       /\ StillCarried(w) = {}

LEMMA WorkerMessages ==
  ASSUME NEW m \in WorkerMessage
  PROVE  /\ m.command \in {"READY", "REPLY", "HEARTBEAT", "DISCONNECT"}
         /\ m.command = "READY" => m.service \in Names
         /\ m.command = "REPLY" => IsLoad(m) /\ m.body \in Request
  BY DEF WorkerMessage, HEARTBEAT, DISCONNECT, IsLoad, Names

LEMMA ReceivedFrom ==
  ASSUME PlacesInv, NEW w \in Identity, fromWorker[w] # <<>>,
         fromWorker' = [fromWorker EXCEPT ![w] = Tail(fromWorker[w])]
  PROVE  /\ Head(fromWorker[w]) \in WorkerMessage
         /\ fromWorker' \in [Identity -> Seq(WorkerMessage)]
         /\ \A v \in Identity : Eased(fromWorker'[v], fromWorker[v])
         /\ ~ HasReady(fromWorker'[w])
         /\ Head(fromWorker[w]).command = "READY" =>
              Unladen(toWorker[w], fromWorker'[w], JobsOf(w, socket, wphase, job))
         /\ Head(fromWorker[w]).command = "REPLY" =>
              /\ Unladen(toWorker[w], fromWorker'[w], JobsOf(w, socket, wphase, job))
              /\ w \notin ToSet(broker.waiting)
              /\ Head(fromWorker[w]).body.id \in CarriedBy(w)
              /\ StillCarried(w) = {}
<1>1. fromWorker \in [Identity -> Seq(WorkerMessage)]
  BY DEF PlacesInv, MDNetTypeOK
<1>2. PICK from \in Seq(WorkerMessage), t \in Seq(WorkerMessage), m \in WorkerMessage :
        from = fromWorker[w] /\ t = Tail(from) /\ m = Head(from) /\ from # <<>>
  <2>1. PICK from \in Seq(WorkerMessage) : from = fromWorker[w] /\ from # <<>>
    BY <1>1
  <2>2. Tail(from) \in Seq(WorkerMessage) /\ Head(from) \in WorkerMessage
    BY <2>1, TailFields
  <2>3. QED
    BY <2>1, <2>2
<1>3. PICK to, jobs : to = toWorker[w] /\ jobs = JobsOf(w, socket, wphase, job)
  OBVIOUS
<1>4. /\ fromWorker'[w] = t /\ fromWorker' \in [Identity -> Seq(WorkerMessage)]
      /\ \A v \in Identity \ {w} : fromWorker'[v] = fromWorker[v]
  BY <1>1, <1>2
<1>5. /\ Eased(t, from)
      /\ ReadyAt(from) => ~ HasReady(t)
      /\ IsLoad(m) => /\ m.body.id \in Ids(from)
                      /\ 1 \in Load(from)
                      /\ OneLoad(from) => Load(t) = {} /\ Ids(from) = {m.body.id}
      /\ m.command = "READY" => HasReady(from)
  BY <1>2, TailIsEased
<1>6. \A v \in Identity : Eased(fromWorker'[v], fromWorker[v])
  BY <1>2, <1>4, <1>5, EasedSelf
<1>7. SoundAt(w, to, from, jobs, Known(broker), ToSet(broker.waiting))
  BY <1>2, <1>3 DEF PlacesInv, Sound
<1>8. ~ HasReady(t)
  BY <1>5, <1>7 DEF SoundAt
<1>9. m.command = "READY" => Unladen(to, t, jobs)
  BY <1>5, <1>7 DEF SoundAt, Unladen, Eased
<1>10. ASSUME m.command = "REPLY"
       PROVE  /\ Unladen(to, t, jobs) /\ w \notin ToSet(broker.waiting)
              /\ m.body.id \in Carries(to, from, jobs)
              /\ Carries(to, t, jobs) = {}
  <2>1. OneLoad(from) /\ IsLoad(m)
    BY <1>7, <1>10, WorkerMessages DEF SoundAt
  <2>2. Load(from) # {} /\ Load(t) = {} /\ m.body.id \in Ids(from)
    BY <1>5, <2>1
  <2>3. Load(to) = {} /\ jobs = {} /\ w \notin ToSet(broker.waiting)
    BY <1>7, <2>2 DEF SoundAt, Unladen
  <2>4. Ids(to) = {} /\ Ids(t) = {}
    BY <2>2, <2>3, LoadsCarry
  <2>5. QED
    BY <2>2, <2>3, <2>4 DEF Unladen, Carries
<1>11. QED
  BY <1>2, <1>3, <1>4, <1>6, <1>8, <1>9, <1>10 DEF CarriedBy, StillCarried

LEMMA WorkerMsgStep ==
  ASSUME PlacesInv, NEW w \in Identity, MWorkerMsg(w), UNCHANGED workerVars
  PROVE  /\ \E K, W, r : BrokerStep(K, W, <<>>, r)
         /\ incoming' = incoming
         /\ AnswersOf(w)
<1>1. PICK m, replied : m = Head(fromWorker[w]) /\ replied = (m.command = "REPLY" /\ w \in Known(broker))
  OBVIOUS
<1>2. /\ fromWorker[w] # <<>>
      /\ fromWorker' = [fromWorker EXCEPT ![w] = Tail(fromWorker[w])]
      /\ Step(CASE m.command = "READY" -> OnReady(broker, w, m.service)
                [] m.command = "REPLY" -> OnReply(broker, w)
                [] m.command = "HEARTBEAT" -> OnHeartbeat(broker, w)
                [] m.command = "DISCONNECT" -> OnDisconnect(broker, w))
      /\ answers' = answers \cup
            (IF m.command = "REPLY" /\ w \in Known(broker)
             THEN {[id |-> m.body.id, code |-> "reply"]} ELSE {})
      /\ UNCHANGED <<stops, online, issued, incoming>>
  BY <1>1 DEF MWorkerMsg
<1>3. /\ m \in WorkerMessage
      /\ fromWorker' \in [Identity -> Seq(WorkerMessage)]
      /\ \A v \in Identity : Eased(fromWorker'[v], fromWorker[v])
      /\ ~ HasReady(fromWorker'[w])
      /\ m.command = "READY" =>
           Unladen(toWorker[w], fromWorker'[w], JobsOf(w, socket, wphase, job))
      /\ m.command = "REPLY" =>
           /\ Unladen(toWorker[w], fromWorker'[w], JobsOf(w, socket, wphase, job))
           /\ w \notin ToSet(broker.waiting)
           /\ m.body.id \in CarriedBy(w)
           /\ StillCarried(w) = {}
  BY <1>1, <1>2, ReceivedFrom
<1>4. /\ m.command \in {"READY", "REPLY", "HEARTBEAT", "DISCONNECT"}
      /\ m.command = "READY" => m.service \in Names
      /\ m.command = "REPLY" => m.body \in Request
  BY <1>3, WorkerMessages
<1>5. BrokerInv(broker) /\ incoming \subseteq Request /\ answers \subseteq Answer
  BY DEF PlacesInv, MDNetTypeOK
<1>6. m.command = "REPLY" => [id |-> m.body.id, code |-> "reply"] \in Answer
  BY <1>4 DEF Answer, Request
<1>7. answers' \subseteq Answer
  BY <1>2, <1>5, <1>6
<1>8. PICK none : none = {}
  OBVIOUS
<1>9. ASSUME NEW K, NEW W, NEW r, Step(r), Outcome(broker, K, W, <<>>, r),
             K \cup W \subseteq {w},
             K \cup W # {} => m.command \in {"READY", "REPLY"}
      PROVE  BrokerStep(K, W, <<>>, r)
  <2>1. \A v \in Identity : v \in K \cup W =>
          /\ Unladen(toWorker[v], fromWorker'[v], JobsOf(v, socket, wphase, job))
          /\ ~ HasReady(fromWorker'[v])
    BY <1>3, <1>9
  <2>2. QED
    BY <1>2, <1>3, <1>5, <1>7, <1>9, <2>1 DEF BrokerStep, Step
<1>10. \E K, W, r : BrokerStep(K, W, <<>>, r)
  <2>1. CASE m.command = "READY"
    <3>1. PICK r : r = OnReady(broker, w, m.service)
      OBVIOUS
    <3>2. Step(r) /\ Outcome(broker, {w}, {w}, <<>>, r)
      BY <1>2, <1>4, <1>5, <2>1, <3>1, OnReadyKeeps
    <3>3. QED
      BY <1>9, <2>1, <3>2
  <2>2. CASE m.command = "REPLY"
    <3>1. PICK r : r = OnReply(broker, w)
      OBVIOUS
    <3>2. Step(r) /\ Outcome(broker, {}, {w}, <<>>, r)
      BY <1>2, <1>3, <1>5, <2>2, <3>1, OnReplyKeeps
    <3>3. QED
      BY <1>9, <2>2, <3>2
  <2>3. CASE m.command = "HEARTBEAT"
    <3>1. PICK r : r = OnHeartbeat(broker, w)
      OBVIOUS
    <3>2. Step(r) /\ Outcome(broker, {}, {}, <<>>, r)
      BY <1>2, <1>5, <2>3, <3>1, OnHeartbeatKeeps
    <3>3. QED
      BY <1>9, <2>3, <3>2
  <2>4. CASE m.command = "DISCONNECT"
    <3>1. PICK r : r = OnDisconnect(broker, w)
      OBVIOUS
    <3>2. Step(r) /\ Outcome(broker, {}, {}, <<>>, r)
      BY <1>2, <1>5, <2>4, <3>1, DisconnectedKeeps
    <3>3. QED
      BY <1>9, <2>4, <3>2
  <2>5. QED
    BY <1>4, <2>1, <2>2, <2>3, <2>4
<1>11. AnswersOf(w)
  <2>1. CASE m.command = "REPLY" /\ w \in Known(broker)
    <3>1. PICK a \in Answer : a = [id |-> m.body.id, code |-> "reply"]
      BY <1>6, <2>1
    <3>2. answers' = answers \cup {a} /\ a.id = m.body.id
      BY <1>2, <2>1, <3>1
    <3>3. QED
      BY <1>3, <2>1, <3>2 DEF AnswersOf
  <2>2. CASE ~ (m.command = "REPLY" /\ w \in Known(broker))
    BY <1>2, <2>2 DEF AnswersOf
  <2>3. QED
    BY <2>1, <2>2
<1>12. QED
  BY <1>2, <1>10, <1>11

LEMMA ClientMsgStep ==
  ASSUME PlacesInv, MClientMsg, UNCHANGED workerVars
  PROVE  /\ answers' = answers
         /\ \E m \in incoming :
              /\ incoming' = incoming \ {m}
              /\ \E r : BrokerStep({}, {}, <<m>>, r)
<1>1. PICK m \in incoming :
        /\ m.service \notin Mmi
        /\ incoming' = incoming \ {m}
        /\ Step(s_service_dispatch(broker, m.service, <<m>>))
        /\ UNCHANGED <<stops, fromWorker, online, issued, answers>>
  BY DEF MClientMsg
<1>2. /\ BrokerInv(broker) /\ incoming \subseteq Request /\ answers \subseteq Answer
      /\ fromWorker \in [Identity -> Seq(WorkerMessage)]
  BY DEF PlacesInv, MDNetTypeOK
<1>3. PICK s \in Names, msgs \in Seq(Request) : s = m.service /\ msgs = <<m>>
  <2>1. m \in Request
    BY <1>2
  <2>2. <<m>> \in Seq(Request) /\ m.service \in Names
    BY <2>1 DEF Request, Names
  <2>3. QED
    BY <2>2
<1>4. PICK r : r = s_service_dispatch(broker, s, msgs)
  OBVIOUS
<1>5. PICK none : none = {}
  OBVIOUS
<1>6. Outcome(broker, {}, {}, msgs, r)
  BY <1>2, <1>4, DispatchKeeps DEF BrokerInv
<1>7. \A v \in Identity : Eased(fromWorker'[v], fromWorker[v])
  BY <1>1, EasedSelf
<1>8. BrokerStep({}, {}, msgs, r)
  BY <1>1, <1>2, <1>3, <1>4, <1>6, <1>7 DEF BrokerStep, Step
<1>9. QED
  BY <1>1, <1>3, <1>8

LEMMA HeartbeatStep ==
  ASSUME PlacesInv, MHeartbeat, UNCHANGED workerVars
  PROVE  /\ answers' = answers /\ incoming' = incoming
         /\ \E r : BrokerStep({}, {}, <<>>, r)
<1>1. PICK W : W = ToSet(s_broker_purge(broker).waiting)
  OBVIOUS
<1>2. PICK r : r = [self |-> s_broker_purge(broker), out |-> [w \in W |-> HEARTBEAT]]
  OBVIOUS
<1>3. Step(r) /\ UNCHANGED <<stops, fromWorker, online, requestVars>>
  BY <1>1, <1>2 DEF MHeartbeat
<1>4. /\ BrokerInv(broker) /\ incoming \subseteq Request /\ answers \subseteq Answer
      /\ fromWorker \in [Identity -> Seq(WorkerMessage)]
  BY DEF PlacesInv, MDNetTypeOK
<1>5. Outcome(broker, {}, {}, <<>>, r)
  BY <1>2, <1>4, PurgeSound
<1>6. \A v \in Identity : Eased(fromWorker'[v], fromWorker[v])
  BY <1>3, EasedSelf
<1>7. BrokerStep({}, {}, <<>>, r)
  BY <1>3, <1>4, <1>5, <1>6 DEF BrokerStep, Step, requestVars
<1>8. QED
  BY <1>3, <1>7 DEF requestVars

(* A step of which only requests and answers are touched.                  *)
LEMMA RequestStepKeeps ==
  ASSUME PlacesInv, UNCHANGED <<brokerVars, netVars, workerVars>>,
         issued' \in 0..MaxRequests, incoming' \subseteq Request, answers' \subseteq Answer
  PROVE  PlacesInv' /\ Lightens
<1>1. /\ broker' = broker /\ stops' = stops
      /\ toWorker' = toWorker /\ fromWorker' = fromWorker /\ online' = online
      /\ wphase' = wphase /\ service' = service /\ socket' = socket
      /\ liveness' = liveness /\ job' = job
  BY DEF brokerVars, netVars, workerVars
<1>2. MDNetTypeOK'
  BY <1>1 DEF PlacesInv, MDNetTypeOK
<1>3. MDWorkerTypeOK' /\ SocketsApart' /\ Offline'
  BY <1>1 DEF PlacesInv, MDWorkerTypeOK, SocketsApart, Offline
<1>4. BrokerInv(broker') /\ stops' \in 0..MaxStops
  BY <1>1 DEF PlacesInv
<1>5. ASSUME NEW v \in Identity PROVE Sound(v)' /\ CarriedBy(v)' \subseteq CarriedBy(v)
  <2>1. Sound(v)
    BY DEF PlacesInv
  <2>2. QED
    BY <1>1, <2>1 DEF Sound, CarriedBy
<1>6. PlacesInv'
  BY <1>2, <1>3, <1>4, <1>5 DEF PlacesInv
<1>7. QED
  BY <1>5, <1>6 DEF Lightens

LEMMA MmiStep ==
  ASSUME PlacesInv, MMmi, UNCHANGED workerVars
  PROVE  /\ PlacesInv' /\ Lightens
         /\ issued' = issued /\ broker' = broker
         /\ \E m \in incoming, a \in Answer :
              a.id = m.id /\ incoming' = incoming \ {m} /\ answers' = answers \cup {a}
<1>1. PICK m \in incoming :
        /\ incoming' = incoming \ {m}
        /\ answers' = answers \cup {[id |-> m.id, code |-> ReturnCode(broker, m)]}
        /\ UNCHANGED <<brokerVars, netVars, issued>>
  BY DEF MMmi
<1>2. incoming \subseteq Request /\ answers \subseteq Answer /\ issued \in 0..MaxRequests
  BY DEF PlacesInv, MDNetTypeOK
<1>3. PICK a \in Answer : a = [id |-> m.id, code |-> ReturnCode(broker, m)]
  <2>1. m.id \in 1..MaxRequests
    BY <1>2 DEF Request
  <2>2. ReturnCode(broker, m) \in {"reply", "200", "404", "501"}
    BY DEF ReturnCode
  <2>3. QED
    BY <2>1, <2>2 DEF Answer
<1>4. a.id = m.id /\ answers' = answers \cup {a}
  BY <1>1, <1>3
<1>5. PlacesInv' /\ Lightens
  <2>1. incoming' \subseteq Request /\ answers' \subseteq Answer /\ issued' \in 0..MaxRequests
    BY <1>1, <1>2, <1>4
  <2>2. QED
    BY <1>1, <2>1, RequestStepKeeps
<1>6. QED
  BY <1>1, <1>4, <1>5 DEF brokerVars

(* The broker starts anew: it knows nobody, and of what is under way       *)
(* something may be lost.                                                  *)
LEMMA RestartStep ==
  ASSUME PlacesInv, MRestart, UNCHANGED workerVars
  PROVE  /\ PlacesInv' /\ Lightens
         /\ incoming' \subseteq incoming /\ answers' = answers /\ issued' = issued
         /\ \A s \in Names : broker'.services[s].requests = <<>>
<1>1. PICK got \in [online -> 0..HWM], kept \in [online -> 0..HWM] :
        /\ \A w \in online : got[w] <= Len(toWorker[w]) /\ kept[w] <= Len(fromWorker[w])
        /\ toWorker' = [w \in Identity |->
             IF w \in online THEN SubSeq(toWorker[w], 1, got[w]) ELSE <<>>]
        /\ fromWorker' = [w \in Identity |->
             IF w \in online
             THEN SubSeq(fromWorker[w], kept[w] + 1, Len(fromWorker[w])) ELSE <<>>]
  BY DEF MRestart
<1>2. /\ stops < MaxStops /\ stops' = stops + 1 /\ broker' = s_broker_new
      /\ incoming' \subseteq incoming
      /\ online' = online /\ issued' = issued /\ answers' = answers
      /\ wphase' = wphase /\ service' = service /\ socket' = socket
      /\ liveness' = liveness /\ job' = job
  BY DEF MRestart, workerVars
<1>3. /\ toWorker \in [Identity -> Seq(BrokerMessage)]
      /\ fromWorker \in [Identity -> Seq(WorkerMessage)]
      /\ online \subseteq Identity /\ issued \in 0..MaxRequests
      /\ incoming \subseteq Request /\ answers \subseteq Answer
      /\ stops \in 0..MaxStops
  BY DEF PlacesInv, MDNetTypeOK
<1>4. ASSUME NEW v \in Identity
      PROVE  /\ toWorker'[v] \in Seq(BrokerMessage) /\ Eased(toWorker'[v], toWorker[v])
             /\ fromWorker'[v] \in Seq(WorkerMessage) /\ Eased(fromWorker'[v], fromWorker[v])
             /\ v \notin online => toWorker'[v] = <<>>
  <2>1. PICK to \in Seq(BrokerMessage) : to = toWorker[v]
    BY <1>3
  <2>2. PICK from, to2, from2 :
          to = toWorker[v] /\ from = fromWorker[v] /\ to2 = toWorker'[v] /\ from2 = fromWorker'[v]
    BY <2>1
  <2>3. from \in Seq(WorkerMessage)
    BY <1>3, <2>2
  <2>4. CASE v \in online
    <3>1. PICK g \in Nat, k \in Nat : g = got[v] /\ k = kept[v] /\ g <= Len(to) /\ k <= Len(from)
      BY <1>1, <2>2, <2>4
    <3>2. to2 = SubSeq(to, 1, g) /\ from2 = SubSeq(from, k + 1, Len(from))
      BY <1>1, <2>2, <2>4, <3>1
    <3>3. to2 \in Seq(BrokerMessage) /\ Eased(to2, to)
      BY <3>1, <3>2, PrefixIsEased
    <3>4. from2 \in Seq(WorkerMessage) /\ Eased(from2, from)
      BY <2>3, <3>1, <3>2, SuffixIsEased
    <3>5. QED
      BY <2>2, <2>4, <3>3, <3>4
  <2>5. CASE v \notin online
    <3>1. to2 = <<>> /\ from2 = <<>>
      BY <1>1, <2>2, <2>5
    <3>2. <<>> \in Seq(BrokerMessage) /\ <<>> \in Seq(WorkerMessage)
      BY EmptySeq
    <3>3. QED
      BY <2>2, <3>1, <3>2, EmptyPipe
  <2>6. QED
    BY <2>4, <2>5
<1>5. MDNetTypeOK'
  <2>1. /\ toWorker' \in [Identity -> Seq(BrokerMessage)]
        /\ fromWorker' \in [Identity -> Seq(WorkerMessage)]
    BY <1>1, <1>4
  <2>2. QED
    BY <1>2, <1>3, <2>1 DEF MDNetTypeOK
<1>6. MDWorkerTypeOK' /\ SocketsApart'
  BY <1>2 DEF PlacesInv, MDWorkerTypeOK, SocketsApart
<1>7. Offline'
  BY <1>2, <1>4 DEF Offline
<1>8. BrokerInv(broker') /\ \A s \in Names : broker'.services[s].requests = <<>>
  BY <1>2, NewBrokerSound
<1>9. stops' \in 0..MaxStops
  BY <1>2, <1>3, BrokerAssumption
<1>10. ASSUME NEW v \in Identity PROVE Sound(v)' /\ CarriedBy(v)' \subseteq CarriedBy(v)
  <2>1. Sound(v)
    BY DEF PlacesInv
  <2>2. JobsOf(v, socket', wphase', job') \subseteq JobsOf(v, socket, wphase, job)
    BY <1>2
  <2>3. v \notin Known(broker') /\ v \notin ToSet(broker'.waiting)
    BY <1>2, NewBrokerSound
  <2>4. QED
    BY <1>4, <2>1, <2>2, <2>3, EasedWorker
<1>11. PlacesInv'
  BY <1>5, <1>6, <1>7, <1>8, <1>9, <1>10 DEF PlacesInv
<1>12. QED
  BY <1>2, <1>8, <1>10, <1>11 DEF Lightens

LEMMA TickStep ==
  ASSUME PlacesInv, Tick
  PROVE  /\ PlacesInv' /\ Lightens
         /\ incoming' = incoming /\ answers' = answers /\ issued' = issued
         /\ broker'.services = broker.services
<1>1. /\ broker' = Ticked(broker) /\ stops' = stops
      /\ toWorker' = toWorker /\ fromWorker' = fromWorker /\ online' = online
      /\ issued' = issued /\ incoming' = incoming /\ answers' = answers
      /\ wphase' = wphase /\ service' = service /\ socket' = socket
      /\ liveness' = liveness /\ job' = job
  BY DEF Tick, MTick, Ticked, netVars, requestVars, workerVars
<1>2. /\ BrokerInv(broker') /\ Known(broker') = Known(broker)
      /\ broker'.waiting = broker.waiting /\ broker'.services = broker.services
  <2>1. PICK self : self = broker
    OBVIOUS
  <2>2. BrokerInv(self)
    BY <2>1 DEF PlacesInv
  <2>3. PICK after : after = Ticked(self)
    OBVIOUS
  <2>4. /\ BrokerInv(after) /\ Known(after) = Known(self)
        /\ after.waiting = self.waiting /\ after.services = self.services
    BY <2>2, <2>3, TickKeeps
  <2>5. QED
    BY <1>1, <2>1, <2>3, <2>4
<1>3. MDNetTypeOK' /\ MDWorkerTypeOK' /\ SocketsApart' /\ Offline' /\ stops' \in 0..MaxStops
  BY <1>1 DEF PlacesInv, MDNetTypeOK, MDWorkerTypeOK, SocketsApart, Offline
<1>4. ASSUME NEW v \in Identity PROVE Sound(v)' /\ CarriedBy(v)' \subseteq CarriedBy(v)
  <2>1. Sound(v)
    BY DEF PlacesInv
  <2>2. QED
    BY <1>1, <1>2, <2>1 DEF Sound, CarriedBy
<1>5. PlacesInv'
  BY <1>2, <1>3, <1>4 DEF PlacesInv
<1>6. QED
  BY <1>1, <1>2, <1>4, <1>5 DEF Lightens

(***************************************************************************)
(* The clients.  A client that waits in a call waits for the answer to an  *)
(* attempt of that call, and one between two calls waits for none.         *)
(***************************************************************************)
AwaitsAnAttempt(c) == \E m \in attempts[c] : m.id = awaited[c]

SessionInv ==
  /\ MDClientTypeOK
  /\ \A c \in Caller :
       /\ mphase[c] = "idle" => awaited[c] = 0
       /\ mphase[c] = "poll" => AwaitsAnAttempt(c)

(* What a client sends is a new request.                                   *)
Sending ==
  \/ incoming' \subseteq incoming /\ issued' = issued
  \/ /\ issued < MaxRequests /\ issued' = issued + 1
     /\ \E m \in Request : m.id = issued + 1 /\ incoming' \subseteq incoming \cup {m}

LEMMA AttemptFields ==
  ASSUME SessionInv, issued \in 0..MaxRequests, NEW c \in Caller, NEW last \in 0..MaxRequests,
         NEW s \in ServiceName \cup Mmi, NEW t \in ServiceName, NEW lost, Attempt(c, last, s, t, lost)
  PROVE  /\ Sending /\ answers' = answers /\ UNCHANGED netVars
         /\ \E m \in Request :
              /\ m.id = issued + 1
              /\ attempts' = [attempts EXCEPT ![c] = attempts[c] \cup {m}]
              /\ awaited' = [awaited EXCEPT ![c] = IF last = 0 THEN m.id ELSE last]
         /\ attempts' \in [Caller -> SUBSET Request]
         /\ awaited' \in [Caller -> 0..MaxRequests]
<1>1. PICK m : m = [id |-> issued + 1, service |-> s, about |-> t]
  OBVIOUS
<1>2. /\ issued < MaxRequests
      /\ issued' = issued + 1
      /\ attempts' = [attempts EXCEPT ![c] = attempts[c] \cup {m}]
      /\ awaited' = [awaited EXCEPT ![c] = IF last = 0 THEN m.id ELSE last]
      /\ incoming' = (incoming \ lost) \cup (IF last = 0 THEN {m} ELSE {})
      /\ answers' = answers /\ UNCHANGED netVars
  BY <1>1 DEF Attempt
<1>3. m \in Request /\ m.id = issued + 1 /\ m.id \in 0..MaxRequests
  BY <1>1, <1>2, NetAssumption DEF Request
<1>4. attempts \in [Caller -> SUBSET Request] /\ awaited \in [Caller -> 0..MaxRequests]
  BY DEF SessionInv, MDClientTypeOK
<1>5. attempts' \in [Caller -> SUBSET Request] /\ awaited' \in [Caller -> 0..MaxRequests]
  BY <1>2, <1>3, <1>4
<1>6. Sending
  BY <1>2, <1>3 DEF Sending
<1>7. QED
  BY <1>2, <1>3, <1>5, <1>6

LEMMA SessionStep ==
  ASSUME SessionInv, NEW c \in Caller,
         NEW phase \in {"idle", "poll", "done"}, NEW left \in 0..RETRIES,
         NEW sent \in SUBSET Request, NEW wanted \in 0..MaxRequests,
         mphase' = [mphase EXCEPT ![c] = phase],
         retries_left' = [retries_left EXCEPT ![c] = left],
         attempts' = [attempts EXCEPT ![c] = sent],
         awaited' = [awaited EXCEPT ![c] = wanted],
         phase # "poll" => sent = {} /\ left = 0,
         phase = "idle" => wanted = 0,
         phase = "poll" => \E m \in sent : m.id = wanted
  PROVE  SessionInv'
<1>1. /\ mphase \in [Caller -> {"idle", "poll", "done"}]
      /\ retries_left \in [Caller -> 0..RETRIES]
      /\ attempts \in [Caller -> SUBSET Request]
      /\ awaited \in [Caller -> 0..MaxRequests]
  BY DEF SessionInv, MDClientTypeOK
<1>2. /\ mphase' \in [Caller -> {"idle", "poll", "done"}]
      /\ retries_left' \in [Caller -> 0..RETRIES]
      /\ attempts' \in [Caller -> SUBSET Request]
      /\ awaited' \in [Caller -> 0..MaxRequests]
  BY <1>1
<1>3. /\ mphase'[c] = phase /\ retries_left'[c] = left
      /\ attempts'[c] = sent /\ awaited'[c] = wanted
      /\ \A d \in Caller \ {c} :
           /\ mphase'[d] = mphase[d] /\ retries_left'[d] = retries_left[d]
           /\ attempts'[d] = attempts[d] /\ awaited'[d] = awaited[d]
  BY <1>1
<1>4. ASSUME NEW d \in Caller
      PROVE  /\ mphase'[d] # "poll" => attempts'[d] = {} /\ retries_left'[d] = 0
             /\ mphase'[d] = "idle" => awaited'[d] = 0
             /\ mphase'[d] = "poll" => \E m \in attempts'[d] : m.id = awaited'[d]
  <2>1. CASE d = c
    BY <1>3, <2>1
  <2>2. CASE d # c
    <3>1. /\ mphase[d] # "poll" => attempts[d] = {} /\ retries_left[d] = 0
          /\ mphase[d] = "idle" => awaited[d] = 0
          /\ mphase[d] = "poll" => \E m \in attempts[d] : m.id = awaited[d]
      BY DEF SessionInv, MDClientTypeOK, AwaitsAnAttempt
    <3>2. QED
      BY <1>3, <2>2, <3>1
  <2>3. QED
    BY <2>1, <2>2
<1>5. QED
  BY <1>2, <1>4 DEF SessionInv, MDClientTypeOK, AwaitsAnAttempt

(* What a step of a client keeps.                                          *)
ClientKeeps == SessionInv' /\ Sending /\ answers' = answers /\ UNCHANGED netVars

LEMMA ClientCalls ==
  ASSUME SessionInv, issued \in 0..MaxRequests, NEW c \in Caller, MCall(c)
  PROVE  ClientKeeps
<1>1. PICK s \in ServiceName \cup Mmi, t \in ServiceName : Attempt(c, awaited[c], s, t, {})
  BY DEF MCall
<1>2. awaited[c] = 0
  BY DEF MCall, SessionInv
<1>3. PICK last \in 0..MaxRequests : last = 0
  BY NetAssumption
<1>4. PICK lost : lost = {}
  OBVIOUS
<1>5. Attempt(c, last, s, t, lost)
  BY <1>1, <1>2, <1>3, <1>4
<1>6. /\ Sending /\ answers' = answers /\ UNCHANGED netVars
      /\ \E m \in Request :
           /\ m.id = issued + 1
           /\ attempts' = [attempts EXCEPT ![c] = attempts[c] \cup {m}]
           /\ awaited' = [awaited EXCEPT ![c] = IF last = 0 THEN m.id ELSE last]
      /\ attempts' \in [Caller -> SUBSET Request]
      /\ awaited' \in [Caller -> 0..MaxRequests]
  BY <1>5, AttemptFields
<1>7. PICK m \in Request :
        /\ attempts' = [attempts EXCEPT ![c] = attempts[c] \cup {m}]
        /\ awaited' = [awaited EXCEPT ![c] = m.id]
  BY <1>3, <1>6
<1>8. PICK sent \in SUBSET Request, wanted \in 0..MaxRequests :
        sent = attempts[c] \cup {m} /\ wanted = m.id
  <2>1. attempts[c] \in SUBSET Request
    BY DEF SessionInv, MDClientTypeOK
  <2>2. m.id \in 0..MaxRequests
    BY NetAssumption DEF Request
  <2>3. QED
    BY <2>1, <2>2
<1>9. /\ mphase' = [mphase EXCEPT ![c] = "poll"]
      /\ retries_left' = [retries_left EXCEPT ![c] = RETRIES]
      /\ RETRIES \in 0..RETRIES
  BY ClientAssumption DEF MCall
<1>10. SessionInv'
  BY <1>7, <1>8, <1>9, SessionStep
<1>11. QED
  BY <1>6, <1>10 DEF ClientKeeps

LEMMA ClientRetries ==
  ASSUME SessionInv, issued \in 0..MaxRequests, NEW c \in Caller, MRetry(c)
  PROVE  ClientKeeps
<1>1. PICK n, lost : n \in attempts[c] /\ Attempt(c, 0, n.service, n.about, lost)
  BY DEF MRetry
<1>2. n.service \in ServiceName \cup Mmi /\ n.about \in ServiceName
  BY <1>1 DEF SessionInv, MDClientTypeOK, Request
<1>3. PICK last \in 0..MaxRequests, s \in ServiceName \cup Mmi, t \in ServiceName :
        last = 0 /\ s = n.service /\ t = n.about
  BY <1>2, NetAssumption
<1>4. Attempt(c, last, s, t, lost)
  BY <1>1, <1>3
<1>5. /\ Sending /\ answers' = answers /\ UNCHANGED netVars
      /\ \E m \in Request :
           /\ m.id = issued + 1
           /\ attempts' = [attempts EXCEPT ![c] = attempts[c] \cup {m}]
           /\ awaited' = [awaited EXCEPT ![c] = IF last = 0 THEN m.id ELSE last]
      /\ attempts' \in [Caller -> SUBSET Request]
      /\ awaited' \in [Caller -> 0..MaxRequests]
  BY <1>4, AttemptFields
<1>6. PICK m \in Request :
        /\ attempts' = [attempts EXCEPT ![c] = attempts[c] \cup {m}]
        /\ awaited' = [awaited EXCEPT ![c] = m.id]
  BY <1>3, <1>5
<1>7. PICK sent \in SUBSET Request, wanted \in 0..MaxRequests :
        sent = attempts[c] \cup {m} /\ wanted = m.id
  <2>1. attempts[c] \in SUBSET Request
    BY DEF SessionInv, MDClientTypeOK
  <2>2. m.id \in 0..MaxRequests
    BY NetAssumption DEF Request
  <2>3. QED
    BY <2>1, <2>2
<1>8. /\ mphase \in [Caller -> {"idle", "poll", "done"}] /\ mphase' = mphase /\ mphase[c] = "poll"
      /\ retries_left[c] \in 0..RETRIES /\ retries_left[c] > 1
      /\ retries_left' = [retries_left EXCEPT ![c] = retries_left[c] - 1]
  BY DEF MRetry, TimedOut, SessionInv, MDClientTypeOK
<1>9. PICK left \in 0..RETRIES : left = retries_left[c] - 1
  BY <1>8, ClientAssumption
<1>10. mphase' = [mphase EXCEPT ![c] = "poll"]
  BY <1>8
<1>11. SessionInv'
  BY <1>6, <1>7, <1>8, <1>9, <1>10, SessionStep
<1>12. QED
  BY <1>5, <1>11 DEF ClientKeeps

LEMMA ClientReturns ==
  ASSUME SessionInv, NEW c \in Caller, MReply(c) \/ MAbandon(c) \/ MInterrupt(c)
  PROVE  ClientKeeps
<1>1. PICK phase \in {"idle", "done"} :
        /\ Returned(c, phase)
        /\ awaited' = [awaited EXCEPT ![c] = 0]
        /\ incoming' \subseteq incoming
  BY DEF MReply, MAbandon, MInterrupt, GiveUp
<1>2. /\ mphase' = [mphase EXCEPT ![c] = phase]
      /\ retries_left' = [retries_left EXCEPT ![c] = 0]
      /\ attempts' = [attempts EXCEPT ![c] = {}]
      /\ issued' = issued /\ answers' = answers /\ UNCHANGED netVars
  BY <1>1 DEF Returned
<1>3. /\ {} \in SUBSET Request
      /\ 0 \in 0..RETRIES
      /\ 0 \in 0..MaxRequests
  BY ClientAssumption, NetAssumption
<1>4. SessionInv'
  BY <1>1, <1>2, <1>3, SessionStep
<1>5. QED
  BY <1>1, <1>2, <1>4 DEF ClientKeeps, Sending

LEMMA ClientStep ==
  ASSUME PlacesInv, SessionInv, ClientNext
  PROVE  PlacesInv' /\ Lightens /\ ClientKeeps /\ broker' = broker
<1>1. PICK c \in Caller : MCall(c) \/ MReply(c) \/ MRetry(c) \/ MAbandon(c) \/ MInterrupt(c)
  BY DEF ClientNext
<1>2. issued \in 0..MaxRequests /\ incoming \subseteq Request /\ answers \subseteq Answer
  BY DEF PlacesInv, MDNetTypeOK
<1>3. ClientKeeps
  BY <1>1, <1>2, ClientCalls, ClientRetries, ClientReturns
<1>4. UNCHANGED <<brokerVars, netVars, workerVars>> /\ broker' = broker
  BY <1>3 DEF ClientNext, ClientKeeps, brokerVars
<1>5. issued' \in 0..MaxRequests /\ incoming' \subseteq Request /\ answers' \subseteq Answer
  BY <1>2, <1>3, NetAssumption DEF ClientKeeps, Sending
<1>6. QED
  BY <1>3, <1>4, <1>5, RequestStepKeeps

(***************************************************************************)
(* A request is in one place at a time.  Here a worker is one place, with  *)
(* the requests C[w] (there is one at most, by Sound); Q[s] is the queue   *)
(* of the service s.                                                       *)
(***************************************************************************)
IdsOf(S) == {m.id : m \in S}

QueueIds(q) == {q[i].id : i \in 1..Len(q)}

InQueues(Q) == UNION {QueueIds(Q[s]) : s \in Names}

InWorkers(C) == UNION {C[w] : w \in Identity}

Differ(S) == \A m, n \in S : m.id = n.id => m = n

NoneTwice(q) == \A i, j \in 1..Len(q) : q[i].id = q[j].id => i = j

(* Each place by itself, and those of one kind.                            *)
Apart(I, A, Q, C) ==
  /\ Differ(I)
  /\ Differ(A)
  /\ \A s \in Names : NoneTwice(Q[s])
  /\ \A s, t \in Names : QueueIds(Q[s]) \cap QueueIds(Q[t]) # {} => s = t
  /\ \A v, w \in Identity : C[v] \cap C[w] # {} => v = w

OnePlace(I, A, Q, C, n) ==
  /\ Apart(I, A, Q, C)
  /\ IdsOf(I) \cap IdsOf(A) = {}
  /\ IdsOf(I) \cap InQueues(Q) = {}
  /\ IdsOf(I) \cap InWorkers(C) = {}
  /\ IdsOf(A) \cap InQueues(Q) = {}
  /\ IdsOf(A) \cap InWorkers(C) = {}
  /\ InQueues(Q) \cap InWorkers(C) = {}
  /\ IdsOf(I) \cup IdsOf(A) \cup InQueues(Q) \cup InWorkers(C) \subseteq 1..n

(* Requests are lost.                                                      *)
LEMMA LossKeeps ==
  ASSUME NEW I, NEW A, NEW Q, NEW C, NEW n \in Nat, OnePlace(I, A, Q, C, n),
         NEW I2, NEW A2, NEW Q2, NEW C2, NEW n2 \in Nat,
         I2 \subseteq I, A2 \subseteq A, n <= n2,
         \A s \in Names : NoneTwice(Q2[s]) /\ QueueIds(Q2[s]) \subseteq QueueIds(Q[s]),
         \A w \in Identity : C2[w] \subseteq C[w]
  PROVE  OnePlace(I2, A2, Q2, C2, n2)
<1>1. /\ IdsOf(I2) \subseteq IdsOf(I) /\ IdsOf(A2) \subseteq IdsOf(A)
      /\ InQueues(Q2) \subseteq InQueues(Q) /\ InWorkers(C2) \subseteq InWorkers(C)
  BY DEF IdsOf, InQueues, InWorkers
<1>2. Apart(I2, A2, Q2, C2)
  BY DEF OnePlace, Apart, Differ
<1>3. QED
  BY <1>1, <1>2 DEF OnePlace

(* A new request is sent.                                                  *)
LEMMA NewKeeps ==
  ASSUME NEW I, NEW A, NEW Q, NEW C, NEW n \in Nat, OnePlace(I, A, Q, C, n),
         NEW m, m.id = n + 1
  PROVE  OnePlace(I \cup {m}, A, Q, C, n + 1)
<1>1. PICK J : J = I \cup {m}
  OBVIOUS
<1>2. IdsOf(J) = IdsOf(I) \cup {n + 1}
  BY <1>1 DEF IdsOf
<1>3. n + 1 \notin IdsOf(I) \cup IdsOf(A) \cup InQueues(Q) \cup InWorkers(C)
  BY DEF OnePlace
<1>4. Differ(J)
  BY <1>1, <1>3 DEF Differ, OnePlace, Apart, IdsOf
<1>5. Apart(J, A, Q, C)
  BY <1>4 DEF OnePlace, Apart
<1>6. 1..n \subseteq 1..(n + 1) /\ n + 1 \in 1..(n + 1)
  OBVIOUS
<1>7. OnePlace(J, A, Q, C, n + 1)
  BY <1>2, <1>3, <1>5, <1>6 DEF OnePlace
<1>8. QED
  BY <1>1, <1>7

(* The broker answers a request itself.                                    *)
LEMMA AnswerKeeps ==
  ASSUME NEW I, NEW A, NEW Q, NEW C, NEW n, OnePlace(I, A, Q, C, n),
         NEW m \in I, NEW a, a.id = m.id
  PROVE  OnePlace(I \ {m}, A \cup {a}, Q, C, n)
<1>1. PICK J, B : J = I \ {m} /\ B = A \cup {a}
  OBVIOUS
<1>2. m.id \in IdsOf(I) /\ m.id \notin IdsOf(J) /\ IdsOf(J) \subseteq IdsOf(I)
  BY <1>1 DEF IdsOf, OnePlace, Apart, Differ
<1>3. IdsOf(B) = IdsOf(A) \cup {m.id} /\ m.id \notin IdsOf(A)
  BY <1>1, <1>2 DEF IdsOf, OnePlace
<1>4. Differ(J) /\ Differ(B)
  BY <1>1, <1>3 DEF Differ, OnePlace, Apart, IdsOf
<1>5. Apart(J, B, Q, C)
  BY <1>4 DEF OnePlace, Apart
<1>6. OnePlace(J, B, Q, C, n)
  BY <1>2, <1>3, <1>5 DEF OnePlace
<1>7. QED
  BY <1>1, <1>6

(* The broker passes on the reply of the worker w.                         *)
LEMMA ReplyPassedKeeps ==
  ASSUME NEW I, NEW A, NEW Q, NEW C, NEW n, OnePlace(I, A, Q, C, n),
         NEW w \in Identity, NEW a, a.id \in C[w],
         NEW D, D[w] = {}, \A v \in Identity : D[v] \subseteq C[v]
  PROVE  OnePlace(I, A \cup {a}, Q, D, n)
<1>1. PICK B : B = A \cup {a}
  OBVIOUS
<1>2. /\ a.id \in InWorkers(C) /\ InWorkers(D) \subseteq InWorkers(C)
      /\ a.id \notin InWorkers(D)
  BY DEF InWorkers, OnePlace, Apart
<1>3. IdsOf(B) = IdsOf(A) \cup {a.id} /\ a.id \notin IdsOf(A)
  BY <1>1, <1>2 DEF IdsOf, OnePlace
<1>4. Differ(B)
  BY <1>1, <1>3 DEF Differ, OnePlace, Apart, IdsOf
<1>5. Apart(I, B, Q, D)
  BY <1>4 DEF OnePlace, Apart
<1>6. OnePlace(I, B, Q, D, n)
  BY <1>2, <1>3, <1>5 DEF OnePlace
<1>7. QED
  BY <1>1, <1>6

(* The broker receives a request for a service.                            *)
LEMMA EnqueueKeeps ==
  ASSUME NEW I, NEW A, NEW Q, NEW C, NEW n, OnePlace(I, A, Q, C, n),
         NEW m \in I, NEW s \in Names, NEW S, Q[s] \in Seq(S), m \in S,
         NEW Q2, Q2[s] = Q[s] \o <<m>>, \A t \in Names : t # s => Q2[t] = Q[t]
  PROVE  OnePlace(I \ {m}, A, Q2, C, n)
<1>1. PICK J : J = I \ {m}
  OBVIOUS
<1>2. PICK q \in Seq(S), k \in Nat : q = Q[s] /\ k = Len(q)
  BY LenProperties
<1>3. PICK q2 : q2 = Q2[s]
  OBVIOUS
<1>4. q2 = Append(q, m)
  BY <1>2, <1>3, AppendIsConcat
<1>5. Len(q2) = k + 1 /\ q2[k + 1] = m /\ \A i \in 1..k : q2[i] = q[i]
  BY <1>2, <1>4, AppendProperties
<1>6. \A i \in 1..(k + 1) : i = k + 1 \/ i \in 1..k
  OBVIOUS
<1>7. m.id \in IdsOf(I) /\ m.id \notin IdsOf(J) /\ IdsOf(J) \subseteq IdsOf(I)
  BY <1>1 DEF IdsOf, OnePlace, Apart, Differ
<1>8. QueueIds(q2) = QueueIds(q) \cup {m.id}
  <2>1. \A i \in 1..k : i \in 1..(k + 1)
    OBVIOUS
  <2>2. k + 1 \in 1..(k + 1)
    OBVIOUS
  <2>3. QED
    BY <1>2, <1>5, <1>6, <2>1, <2>2 DEF QueueIds
<1>9. QueueIds(q) \subseteq InQueues(Q)
  BY <1>2 DEF InQueues
<1>10. m.id \notin InQueues(Q) /\ m.id \notin IdsOf(A) /\ m.id \notin InWorkers(C)
  BY <1>7 DEF OnePlace
<1>11. InQueues(Q2) \subseteq InQueues(Q) \cup {m.id}
  BY <1>2, <1>3, <1>8, <1>9 DEF InQueues
<1>12. NoneTwice(q2)
  <2>1. NoneTwice(q) /\ \A i \in 1..k : q[i].id # m.id
    BY <1>2, <1>9, <1>10 DEF OnePlace, Apart, QueueIds
  <2>2. SUFFICES ASSUME NEW i \in 1..(k + 1), NEW j \in 1..(k + 1), q2[i].id = q2[j].id
                 PROVE  i = j
    BY <1>5 DEF NoneTwice
  <2>3. CASE i = k + 1 /\ j = k + 1
    BY <2>3
  <2>4. CASE i \in 1..k /\ j \in 1..k
    BY <1>2, <1>5, <2>1, <2>2, <2>4 DEF NoneTwice
  <2>5. CASE i = k + 1 /\ j \in 1..k
    BY <1>5, <2>1, <2>2, <2>5
  <2>6. CASE i \in 1..k /\ j = k + 1
    BY <1>5, <2>1, <2>2, <2>6
  <2>7. QED
    BY <1>6, <2>3, <2>4, <2>5, <2>6
<1>13. Apart(J, A, Q2, C)
  <2>1. Differ(J) /\ Differ(A)
    BY <1>1 DEF OnePlace, Apart, Differ
  <2>2. \A t \in Names : NoneTwice(Q2[t])
    BY <1>3, <1>12 DEF OnePlace, Apart
  <2>3. \A t \in Names : t # s => QueueIds(Q2[t]) \cap QueueIds(q2) = {}
    <3>1. SUFFICES ASSUME NEW t \in Names, t # s PROVE QueueIds(Q2[t]) \cap QueueIds(q2) = {}
      OBVIOUS
    <3>2. QueueIds(Q2[t]) = QueueIds(Q[t]) /\ QueueIds(Q[t]) \subseteq InQueues(Q)
      BY <3>1 DEF InQueues
    <3>3. QueueIds(Q[t]) \cap QueueIds(q) = {}
      BY <1>2, <3>1 DEF OnePlace, Apart
    <3>4. QED
      BY <1>8, <1>10, <3>2, <3>3
  <2>4. \A t, u \in Names : t # s /\ u # s /\ QueueIds(Q2[t]) \cap QueueIds(Q2[u]) # {} => t = u
    BY DEF OnePlace, Apart
  <2>5. \A t, u \in Names : QueueIds(Q2[t]) \cap QueueIds(Q2[u]) # {} => t = u
    BY <1>3, <2>3, <2>4
  <2>6. QED
    BY <2>1, <2>2, <2>5 DEF OnePlace, Apart
<1>14. OnePlace(J, A, Q2, C, n)
  BY <1>7, <1>10, <1>11, <1>13 DEF OnePlace
<1>15. QED
  BY <1>1, <1>14

(* What a dispatch of the service s does to the queues and the workers.    *)
DispatchOf(s, Q, Q2, C, D, out) ==
  /\ HandedOn(Q[s], Q2[s], out)
  /\ \A t \in Names : t # s => Q2[t] = Q[t]
  /\ \A v \in Identity :
       \/ D[v] \subseteq C[v]
       \/ v \in Loaded(out) /\ D[v] \subseteq {out[v].body.id}

(* The oldest requests of a queue are handed to workers, each to one.      *)
LEMMA HandOnKeeps ==
  ASSUME NEW I, NEW A, NEW Q, NEW C, NEW n, OnePlace(I, A, Q, C, n),
         NEW s \in Names, NEW S, Q[s] \in Seq(S),
         NEW Q2, NEW D, NEW out, DispatchOf(s, Q, Q2, C, D, out)
  PROVE  OnePlace(I, A, Q2, D, n)
<1>1. PICK q \in Seq(S) : q = Q[s]
  OBVIOUS
<1>2. PICK q2 : q2 = Q2[s]
  OBVIOUS
<1>3. PICK L \in Nat : L = Len(q)
  BY LenProperties
<1>4. HandedOn(q, q2, out)
  BY <1>1, <1>2 DEF DispatchOf
<1>5. PICK k \in 0..L : \E at :
        /\ q2 = SubSeq(q, k + 1, Len(q))
        /\ at \in [Loaded(out) -> 1..k]
        /\ \A v \in Loaded(out) : out[v] = RequestMsg(q[at[v]])
        /\ \A v, w \in Loaded(out) : at[v] = at[w] => v = w
  BY <1>3, <1>4 DEF HandedOn
<1>5a. PICK at :
        /\ q2 = SubSeq(q, k + 1, Len(q))
        /\ at \in [Loaded(out) -> 1..k]
        /\ \A v \in Loaded(out) : out[v] = RequestMsg(q[at[v]])
        /\ \A v, w \in Loaded(out) : at[v] = at[w] => v = w
  BY <1>5
<1>6. Len(q2) = L - k /\ \A i \in 1..(L - k) : q2[i] = q[k + i]
  BY <1>3, <1>5a, SuffixFields
<1>7. NoneTwice(q)
  BY <1>1 DEF OnePlace, Apart
<1>8. \A i \in 1..(L - k) : k + i \in 1..L /\ k + i \notin 1..k
  OBVIOUS
<1>9. NoneTwice(q2)
  <2>1. SUFFICES ASSUME NEW i \in 1..(L - k), NEW j \in 1..(L - k), q2[i].id = q2[j].id
                 PROVE  i = j
    BY <1>6 DEF NoneTwice
  <2>2. k + i = k + j
    BY <1>3, <1>6, <1>7, <1>8, <2>1 DEF NoneTwice
  <2>3. QED
    BY <2>2
<1>10. QueueIds(q2) \subseteq QueueIds(q)
  BY <1>3, <1>6, <1>8 DEF QueueIds
<1>11. \A v \in Loaded(out) : /\ at[v] \in 1..k /\ at[v] \in 1..L
                              /\ out[v].body.id = q[at[v]].id
  <2>1. SUFFICES ASSUME NEW v \in Loaded(out)
                 PROVE  at[v] \in 1..k /\ at[v] \in 1..L /\ out[v].body.id = q[at[v]].id
    OBVIOUS
  <2>2. at[v] \in 1..k
    BY <1>5a
  <2>3. PICK m : m = q[at[v]]
    OBVIOUS
  <2>4. RequestMsg(m).body = m
    BY DEF RequestMsg
  <2>5. out[v] = RequestMsg(m)
    BY <1>5a, <2>3
  <2>6. QED
    BY <2>2, <2>3, <2>4, <2>5
<1>12. PICK G : G = {out[v].body.id : v \in Loaded(out)}
  OBVIOUS
<1>13. G \subseteq QueueIds(q)
  BY <1>3, <1>11, <1>12 DEF QueueIds
<1>14. G \cap QueueIds(q2) = {}
  <2>1. SUFFICES ASSUME NEW v \in Loaded(out), NEW i \in 1..(L - k), out[v].body.id = q2[i].id
                 PROVE  FALSE
    BY <1>6, <1>12 DEF QueueIds
  <2>2. q[at[v]].id = q[k + i].id
    BY <1>6, <1>11, <2>1
  <2>3. at[v] = k + i
    BY <1>3, <1>7, <1>8, <1>11, <2>2 DEF NoneTwice
  <2>4. QED
    BY <1>8, <1>11, <2>3
<1>15. QueueIds(q) \subseteq InQueues(Q)
  BY <1>1 DEF InQueues
<1>16. InQueues(Q2) \subseteq InQueues(Q)
  BY <1>2, <1>10, <1>15 DEF InQueues, DispatchOf
<1>17. InQueues(Q2) \cap G = {}
  <2>1. SUFFICES ASSUME NEW t \in Names, t # s PROVE QueueIds(Q2[t]) \cap G = {}
    BY <1>2, <1>14 DEF InQueues
  <2>2. QueueIds(Q[t]) \cap QueueIds(q) = {} /\ Q2[t] = Q[t]
    BY <1>1, <2>1 DEF OnePlace, Apart, DispatchOf
  <2>3. QED
    BY <1>13, <2>2
<1>18. \A v \in Identity : \A x \in D[v] :
         x \in C[v] \/ (v \in Loaded(out) /\ x = out[v].body.id /\ x \in G)
  BY <1>12 DEF DispatchOf
<1>19. InWorkers(D) \subseteq InWorkers(C) \cup G
  BY <1>18 DEF InWorkers
<1>20. G \cap InWorkers(C) = {} /\ G \cap IdsOf(I) = {} /\ G \cap IdsOf(A) = {} /\ G \subseteq InQueues(Q)
  BY <1>13, <1>15 DEF OnePlace
<1>21. ASSUME NEW v \in Identity, NEW w \in Identity, NEW x, x \in D[v], x \in D[w]
       PROVE  v = w
  <2>1. CASE x \in G
    <3>1. v \in Loaded(out) /\ w \in Loaded(out) /\ out[v].body.id = out[w].body.id
      BY <1>18, <1>20, <1>21, <2>1 DEF InWorkers
    <3>2. at[v] = at[w]
      BY <1>3, <1>7, <1>11, <3>1 DEF NoneTwice
    <3>3. QED
      BY <1>5a, <3>1, <3>2
  <2>2. CASE x \notin G
    BY <1>18, <1>21, <2>2 DEF OnePlace, Apart
  <2>3. QED
    BY <2>1, <2>2
<1>22. \A t \in Names : NoneTwice(Q2[t])
  BY <1>2, <1>9 DEF OnePlace, Apart, DispatchOf
<1>23. \A t \in Names : QueueIds(Q2[t]) \subseteq QueueIds(Q[t])
  BY <1>1, <1>2, <1>10 DEF DispatchOf
<1>24. Apart(I, A, Q2, D)
  BY <1>21, <1>22, <1>23 DEF OnePlace, Apart
<1>25. QED
  BY <1>16, <1>17, <1>19, <1>20, <1>24 DEF OnePlace

(***************************************************************************)
(* The same of the system.                                                 *)
(***************************************************************************)
Queues == [s \in Names |-> broker.services[s].requests]

Loads == [w \in Identity |-> CarriedBy(w)]

StillLoads == [w \in Identity |-> StillCarried(w)]

OnceInv == OnePlace(incoming, answers, Queues, Loads, issued)

LEMMA QueuesAreLists ==
  ASSUME PlacesInv, NEW s \in Names
  PROVE  Queues[s] = broker.services[s].requests /\ Queues[s] \in Seq(Request)
<1>1. broker.services \in [Names -> [requests : Seq(Request), waiting : Seq(Identity), worker_num : Nat]]
  BY DEF PlacesInv, BrokerInv, Core, IsBroker
<1>2. broker.services[s].requests \in Seq(Request)
  BY <1>1
<1>3. QED
  BY <1>2 DEF Queues

LEMMA QuietStepOnce ==
  ASSUME PlacesInv, NEW K, NEW W, NEW r, BrokerStep(K, W, <<>>, r),
         NEW I, NEW A, NEW n, OnePlace(I, A, Queues, StillLoads, n)
  PROVE  OnePlace(I, A, Queues', Loads', n)
<1>1. PICK s \in Names :
        /\ Moves(broker, s, <<>>, r)
        /\ \A t \in Names : t # s => r.self.services[t].requests = broker.services[t].requests
  BY DEF BrokerStep, Outcome
<1>2. PICK Q, Q2, C, D, out : Q = Queues /\ Q2 = Queues' /\ C = StillLoads /\ D = Loads' /\ out = r.out
  OBVIOUS
<1>3. broker' = r.self
  BY DEF BrokerStep
<1>4. \A t \in Names : /\ Q2[t] = r.self.services[t].requests
                       /\ Q[t] = broker.services[t].requests /\ Q[t] \in Seq(Request)
  BY <1>2, <1>3, QueuesAreLists DEF Queues
<1>5. Q[s] \o <<>> = Q[s]
  BY <1>4, ConcatEmptySeq
<1>6. HandedOn(Q[s], Q2[s], out)
  BY <1>1, <1>2, <1>4, <1>5 DEF Moves
<1>7. \A t \in Names : t # s => Q2[t] = Q[t]
  BY <1>1, <1>4
<1>8. ASSUME NEW v \in Identity
      PROVE  \/ D[v] \subseteq C[v]
             \/ v \in Loaded(out) /\ D[v] \subseteq {out[v].body.id}
  <2>1. \/ CarriedBy(v)' \subseteq StillCarried(v)
        \/ v \in Loaded(r.out) /\ CarriedBy(v)' \subseteq {r.out[v].body.id}
    BY BrokerStepAt
  <2>2. D[v] = CarriedBy(v)' /\ C[v] = StillCarried(v)
    BY <1>2 DEF Loads, StillLoads
  <2>3. QED
    BY <1>2, <2>1, <2>2
<1>9. OnePlace(I, A, Q, C, n) /\ Q[s] \in Seq(Request) /\ DispatchOf(s, Q, Q2, C, D, out)
  BY <1>2, <1>4, <1>6, <1>7, <1>8 DEF DispatchOf
<1>10. OnePlace(I, A, Q2, D, n)
  BY <1>9, HandOnKeeps
<1>11. QED
  BY <1>2, <1>10

LEMMA RequestStepOnce ==
  ASSUME PlacesInv, NEW I, NEW m \in I, m \in Request, NEW r, BrokerStep({}, {}, <<m>>, r),
         NEW A, NEW n, OnePlace(I, A, Queues, StillLoads, n)
  PROVE  OnePlace(I \ {m}, A, Queues', Loads', n)
<1>1. PICK s \in Names :
        /\ Moves(broker, s, <<m>>, r)
        /\ \A t \in Names : t # s => r.self.services[t].requests = broker.services[t].requests
  BY DEF BrokerStep, Outcome
<1>2. PICK Q, Q2, C, D, out : Q = Queues /\ Q2 = Queues' /\ C = StillLoads /\ D = Loads' /\ out = r.out
  OBVIOUS
<1>3. broker' = r.self
  BY DEF BrokerStep
<1>4. \A t \in Names : /\ Q2[t] = r.self.services[t].requests
                       /\ Q[t] = broker.services[t].requests /\ Q[t] \in Seq(Request)
  BY <1>2, <1>3, QueuesAreLists DEF Queues
<1>5. PICK q \in Seq(Request) : q = Q[s] \o <<m>>
  <2>1. <<m>> \in Seq(Request)
    OBVIOUS
  <2>2. QED
    BY <1>4, <2>1, ConcatProperties
<1>6. PICK Q1 : Q1 = [t \in Names |-> IF t = s THEN q ELSE Q[t]]
  OBVIOUS
<1>7. Q1[s] = q /\ \A t \in Names : t # s => Q1[t] = Q[t]
  BY <1>6
<1>8. OnePlace(I \ {m}, A, Q1, C, n)
  <2>1. OnePlace(I, A, Q, C, n) /\ Q[s] \in Seq(Request) /\ Q1[s] = Q[s] \o <<m>>
    BY <1>2, <1>4, <1>5, <1>7
  <2>2. QED
    BY <1>7, <2>1, EnqueueKeeps
<1>9. HandedOn(Q1[s], Q2[s], out) /\ Q1[s] \in Seq(Request)
  BY <1>1, <1>2, <1>4, <1>5, <1>7 DEF Moves
<1>10. \A t \in Names : t # s => Q2[t] = Q1[t]
  BY <1>1, <1>4, <1>7
<1>11. ASSUME NEW v \in Identity
       PROVE  \/ D[v] \subseteq C[v]
              \/ v \in Loaded(out) /\ D[v] \subseteq {out[v].body.id}
  <2>1. PICK none, msgs : none = {} /\ msgs = <<m>>
    OBVIOUS
  <2>2. BrokerStep(none, none, msgs, r)
    BY <2>1
  <2>3. \/ CarriedBy(v)' \subseteq StillCarried(v)
        \/ v \in Loaded(r.out) /\ CarriedBy(v)' \subseteq {r.out[v].body.id}
    BY <2>2, BrokerStepAt
  <2>4. D[v] = CarriedBy(v)' /\ C[v] = StillCarried(v)
    BY <1>2 DEF Loads, StillLoads
  <2>5. QED
    BY <1>2, <2>3, <2>4
<1>12. PICK J : J = I \ {m}
  OBVIOUS
<1>13. OnePlace(J, A, Q1, C, n) /\ DispatchOf(s, Q1, Q2, C, D, out)
  BY <1>8, <1>9, <1>10, <1>11, <1>12 DEF DispatchOf
<1>14. OnePlace(J, A, Q2, D, n)
  BY <1>9, <1>13, HandOnKeeps
<1>15. QED
  BY <1>2, <1>12, <1>14

(* Nothing is sent, answered or handed out.                                *)
LEMMA LossStepOnce ==
  ASSUME PlacesInv, Lightens, NEW I, NEW n \in Nat, OnePlace(I, answers, Queues, Loads, n),
         incoming' \subseteq I, answers' = answers, issued' = n,
         \A s \in Names : \/ broker'.services[s].requests = broker.services[s].requests
                          \/ broker'.services[s].requests = <<>>
  PROVE  OnceInv'
<1>1. PICK Q, Q2, C, D : Q = Queues /\ Q2 = Queues' /\ C = Loads /\ D = Loads'
  OBVIOUS
<1>2. ASSUME NEW s \in Names
      PROVE  NoneTwice(Q2[s]) /\ QueueIds(Q2[s]) \subseteq QueueIds(Q[s])
  <2>1. Q2[s] = broker'.services[s].requests /\ Q[s] = broker.services[s].requests
    BY <1>1 DEF Queues
  <2>2. NoneTwice(Q[s])
    BY <1>1 DEF OnePlace, Apart
  <2>3. 1..Len(<<>>) = {}
    BY EmptySeq
  <2>4. NoneTwice(<<>>) /\ QueueIds(<<>>) = {}
    BY <2>3 DEF NoneTwice, QueueIds
  <2>5. QED
    BY <2>1, <2>2, <2>4
<1>3. \A w \in Identity : D[w] \subseteq C[w]
  BY <1>1 DEF Loads, Lightens
<1>4. OnePlace(I, answers, Q, C, n)
  BY <1>1
<1>5. PICK I2 : I2 = incoming' /\ I2 \subseteq I
  OBVIOUS
<1>6. n <= n /\ answers \subseteq answers
  OBVIOUS
<1>7. OnePlace(I2, answers, Q2, D, n)
  BY <1>2, <1>3, <1>4, <1>5, <1>6, LossKeeps
<1>8. QED
  BY <1>1, <1>5, <1>7 DEF OnceInv

(* Before the broker sends: it has read a message of a worker at most.     *)
LEMMA StillOnce ==
  ASSUME PlacesInv, OnceInv, issued \in Nat, NEW K, NEW W, NEW msgs, NEW r, BrokerStep(K, W, msgs, r)
  PROVE  /\ OnePlace(incoming, answers, Queues, StillLoads, issued)
         /\ \A w \in Identity : StillLoads[w] \subseteq Loads[w]
<1>1. PICK I, A, Q, C, D, n :
        /\ I = incoming /\ A = answers /\ Q = Queues /\ C = Loads /\ D = StillLoads
        /\ n = issued /\ n \in Nat
  OBVIOUS
<1>2. \A w \in Identity : D[w] \subseteq C[w]
  BY <1>1, BrokerStepAt DEF Loads, StillLoads
<1>3. OnePlace(I, A, Q, C, n)
  BY <1>1 DEF OnceInv
<1>4. \A s \in Names : NoneTwice(Q[s]) /\ QueueIds(Q[s]) \subseteq QueueIds(Q[s])
  BY <1>3 DEF OnePlace, Apart
<1>5. n <= n /\ I \subseteq I /\ A \subseteq A
  BY <1>1
<1>6. OnePlace(I, A, Q, D, n)
  BY <1>1, <1>2, <1>3, <1>4, <1>5, LossKeeps
<1>7. QED
  BY <1>1, <1>2, <1>6

LEMMA WorkerMsgOnce ==
  ASSUME PlacesInv, OnceInv, issued \in Nat, NEW w \in Identity, MWorkerMsg(w), UNCHANGED workerVars
  PROVE  OnceInv'
<1>1. incoming' = incoming /\ AnswersOf(w)
  BY WorkerMsgStep
<1>2. PICK K, W, r : BrokerStep(K, W, <<>>, r)
  BY WorkerMsgStep
<1>3. issued' = issued
  BY <1>2 DEF BrokerStep
<1>4. PICK none : none = <<>>
  OBVIOUS
<1>5. /\ OnePlace(incoming, answers, Queues, StillLoads, issued)
      /\ \A v \in Identity : StillLoads[v] \subseteq Loads[v]
  BY <1>2, <1>4, StillOnce
<1>6. OnePlace(incoming, answers', Queues, StillLoads, issued)
  <2>1. CASE answers' = answers
    BY <1>5, <2>1
  <2>2. CASE answers' # answers
    <3>1. PICK a \in Answer :
            answers' = answers \cup {a} /\ a.id \in CarriedBy(w) /\ StillCarried(w) = {}
      BY <1>1, <2>2 DEF AnswersOf
    <3>2. PICK I, A, Q, C, D, n :
            /\ I = incoming /\ A = answers /\ Q = Queues /\ C = Loads /\ D = StillLoads
            /\ n = issued
      OBVIOUS
    <3>3. a.id \in C[w] /\ D[w] = {}
      BY <3>1, <3>2 DEF Loads, StillLoads
    <3>4. OnePlace(I, A, Q, C, n) /\ \A v \in Identity : D[v] \subseteq C[v]
      BY <1>5, <3>2 DEF OnceInv
    <3>5. OnePlace(I, A \cup {a}, Q, D, n)
      BY <3>3, <3>4, ReplyPassedKeeps
    <3>6. QED
      BY <3>1, <3>2, <3>5
  <2>3. QED
    BY <2>1, <2>2
<1>7. PICK I, A, n : I = incoming /\ A = answers' /\ n = issued
  OBVIOUS
<1>8. OnePlace(I, A, Queues', Loads', n)
  BY <1>2, <1>6, <1>7, QuietStepOnce
<1>9. QED
  BY <1>1, <1>3, <1>7, <1>8 DEF OnceInv

LEMMA ClientMsgOnce ==
  ASSUME PlacesInv, OnceInv, issued \in Nat, MClientMsg, UNCHANGED workerVars
  PROVE  OnceInv'
<1>1. PICK m \in incoming :
        /\ incoming' = incoming \ {m}
        /\ \E r : BrokerStep({}, {}, <<m>>, r)
  BY ClientMsgStep
<1>2. PICK r : BrokerStep({}, {}, <<m>>, r)
  BY <1>1
<1>3. answers' = answers /\ issued' = issued /\ m \in Request
  BY <1>2, ClientMsgStep DEF BrokerStep, PlacesInv, MDNetTypeOK
<1>4. PICK none, msgs : none = {} /\ msgs = <<m>>
  OBVIOUS
<1>5. OnePlace(incoming, answers, Queues, StillLoads, issued)
  <2>1. BrokerStep(none, none, msgs, r)
    BY <1>2, <1>4
  <2>2. QED
    BY <2>1, StillOnce
<1>6. PICK I, A, n : I = incoming /\ A = answers /\ n = issued
  OBVIOUS
<1>7. OnePlace(I \ {m}, A, Queues', Loads', n)
  BY <1>2, <1>3, <1>5, <1>6, RequestStepOnce
<1>8. QED
  BY <1>1, <1>3, <1>6, <1>7 DEF OnceInv

LEMMA HeartbeatOnce ==
  ASSUME PlacesInv, OnceInv, issued \in Nat, MHeartbeat, UNCHANGED workerVars
  PROVE  OnceInv'
<1>1. PICK r : BrokerStep({}, {}, <<>>, r)
  BY HeartbeatStep
<1>2. answers' = answers /\ incoming' = incoming /\ issued' = issued
  BY <1>1, HeartbeatStep DEF BrokerStep
<1>3. PICK none, msgs : none = {} /\ msgs = <<>>
  OBVIOUS
<1>4. BrokerStep(none, none, msgs, r) /\ BrokerStep(none, none, <<>>, r)
  BY <1>1, <1>3
<1>5. OnePlace(incoming, answers, Queues, StillLoads, issued)
  BY <1>4, StillOnce
<1>6. PICK I, A, n : I = incoming /\ A = answers /\ n = issued
  OBVIOUS
<1>7. OnePlace(I, A, Queues', Loads', n)
  BY <1>4, <1>5, <1>6, QuietStepOnce
<1>8. QED
  BY <1>2, <1>6, <1>7 DEF OnceInv

LEMMA MmiOnce ==
  ASSUME PlacesInv, OnceInv, issued \in Nat, MMmi, UNCHANGED workerVars
  PROVE  OnceInv'
<1>1. Lightens /\ issued' = issued /\ broker' = broker
  BY MmiStep
<1>2. PICK m \in incoming, a \in Answer :
        a.id = m.id /\ incoming' = incoming \ {m} /\ answers' = answers \cup {a}
  BY MmiStep
<1>3. PICK I, A, Q, C, n :
        /\ I = incoming /\ A = answers /\ Q = Queues /\ C = Loads
        /\ n = issued /\ n \in Nat
  OBVIOUS
<1>4. OnePlace(I, A, Q, C, n) /\ m \in I
  BY <1>3 DEF OnceInv
<1>5. PICK I2, A2 : I2 = I \ {m} /\ A2 = A \cup {a}
  OBVIOUS
<1>6. OnePlace(I2, A2, Q, C, n)
  BY <1>2, <1>4, <1>5, AnswerKeeps
<1>7. PICK Q2, D : Q2 = Queues' /\ D = Loads'
  OBVIOUS
<1>8. Q2 = Q /\ \A w \in Identity : D[w] \subseteq C[w]
  BY <1>1, <1>3, <1>7 DEF Queues, Loads, Lightens
<1>9. \A s \in Names : NoneTwice(Q[s]) /\ QueueIds(Q[s]) \subseteq QueueIds(Q[s])
  BY <1>4 DEF OnePlace, Apart
<1>10. n <= n /\ I2 \subseteq I2 /\ A2 \subseteq A2
  BY <1>3
<1>11. OnePlace(I2, A2, Q, D, n)
  BY <1>3, <1>6, <1>8, <1>9, <1>10, LossKeeps
<1>12. QED
  BY <1>1, <1>2, <1>3, <1>5, <1>7, <1>8, <1>11 DEF OnceInv

LEMMA ClientStepOnce ==
  ASSUME PlacesInv, SessionInv, OnceInv, issued \in Nat, ClientNext
  PROVE  OnceInv'
<1>1. Lightens /\ ClientKeeps /\ broker' = broker
  BY ClientStep
<1>2. PICK I, A, Q, C, n :
        /\ I = incoming /\ A = answers /\ Q = Queues /\ C = Loads
        /\ n = issued /\ n \in Nat
  OBVIOUS
<1>3. OnePlace(I, A, Q, C, n)
  BY <1>2 DEF OnceInv
<1>4. CASE incoming' \subseteq incoming /\ issued' = issued
  <2>1. OnePlace(I, answers, Queues, Loads, n) /\ incoming' \subseteq I /\ issued' = n
    BY <1>2, <1>3, <1>4
  <2>2. QED
    BY <1>1, <1>2, <2>1, LossStepOnce DEF ClientKeeps
<1>5. ASSUME NEW m \in Request, m.id = issued + 1, issued' = issued + 1,
             incoming' \subseteq incoming \cup {m}
      PROVE  OnceInv'
  <2>1. OnePlace(I \cup {m}, A, Q, C, n + 1)
    BY <1>2, <1>3, <1>5, NewKeeps
  <2>2. PICK k \in Nat : k = n + 1
    BY <1>2
  <2> DEFINE J == I \cup {m}
  <2>3. OnePlace(J, answers, Queues, Loads, k) /\ incoming' \subseteq J /\ issued' = k
    BY <1>2, <1>5, <2>1, <2>2
  <2> HIDE DEF J
  <2>4. QED
    BY <1>1, <2>2, <2>3, LossStepOnce DEF ClientKeeps
<1>6. QED
  BY <1>1, <1>4, <1>5 DEF ClientKeeps, Sending

(***************************************************************************)
(* The theorems.                                                           *)
(***************************************************************************)
SystemInv == PlacesInv /\ SessionInv /\ OnceInv

LEMMA InitiallySound == Init => SystemInv
<1> SUFFICES ASSUME Init PROVE SystemInv
  OBVIOUS
<1>1. /\ toWorker = [w \in Identity |-> <<>>] /\ fromWorker = [w \in Identity |-> <<>>]
      /\ online = {} /\ issued = 0 /\ incoming = {} /\ answers = {}
      /\ broker = s_broker_new /\ stops = 0
      /\ wphase = [p \in Process |-> "off"]
      /\ service \in [Process -> Offered]
      /\ socket = [p \in Process |-> NoSocket]
      /\ liveness = [p \in Process |-> 0]
      /\ job = [p \in Process |-> NoJob]
  BY DEF Init, MDNetInit, MDBrokerInit, MDWorkerInit
<1>2. /\ BrokerInv(broker) /\ Known(broker) = {} /\ ToSet(broker.waiting) = {}
      /\ \A s \in Names : broker.services[s].requests = <<>>
  BY <1>1, NewBrokerSound
<1>3. MDNetTypeOK
  <2>1. <<>> \in Seq(BrokerMessage) /\ <<>> \in Seq(WorkerMessage)
    BY EmptySeq
  <2>2. 0 \in 0..MaxRequests
    BY NetAssumption
  <2>3. QED
    BY <1>1, <2>1, <2>2 DEF MDNetTypeOK
<1>4. MDWorkerTypeOK
  <2>1. 0 \in 0..HEARTBEAT_LIVENESS /\ "off" \in WorkerPhase
    BY WorkerAssumption DEF WorkerPhase
  <2>2. online = {socket[p] : p \in Process} \ {NoSocket}
    BY <1>1
  <2>3. QED
    BY <1>1, <2>1, <2>2 DEF MDWorkerTypeOK
<1>5. SocketsApart /\ Offline /\ stops \in 0..MaxStops
  BY <1>1, BrokerAssumption DEF SocketsApart, Offline
<1>6. ASSUME NEW w \in Identity PROVE Sound(w) /\ CarriedBy(w) = {}
  <2>1. toWorker[w] = <<>> /\ fromWorker[w] = <<>>
    BY <1>1
  <2>2. JobsOf(w, socket, wphase, job) = {}
    BY <1>1 DEF JobsOf
  <2>3. Load(<<>>) = {} /\ Ids(<<>>) = {} /\ ~ HasReady(<<>>)
    BY EmptyPipe
  <2>4. 1..Len(<<>>) = {}
    BY EmptySeq
  <2>5. ReadyAt(<<>>) /\ OneLoad(<<>>)
    BY <2>3, <2>4 DEF ReadyAt, OneLoad
  <2>6. SoundAt(w, <<>>, <<>>, {}, Known(broker), ToSet(broker.waiting))
    BY <2>3, <2>5 DEF SoundAt, Unladen
  <2>7. Carries(<<>>, <<>>, {}) = {}
    BY <2>3 DEF Carries
  <2>8. QED
    BY <2>1, <2>2, <2>6, <2>7 DEF Sound, CarriedBy
<1>7. PlacesInv
  BY <1>2, <1>3, <1>4, <1>5, <1>6 DEF PlacesInv
<1>8. SessionInv
  <2>1. /\ mphase = [c \in Caller |-> "idle"] /\ retries_left = [c \in Caller |-> 0]
        /\ attempts = [c \in Caller |-> {}] /\ awaited = [c \in Caller |-> 0]
    BY DEF Init, MDClientInit
  <2>2. 0 \in 0..RETRIES /\ 0 \in 0..MaxRequests
    BY ClientAssumption, NetAssumption
  <2>3. QED
    BY <2>1, <2>2 DEF SessionInv, MDClientTypeOK
<1>9. OnceInv
  <2>1. PICK Q, C : Q = Queues /\ C = Loads
    OBVIOUS
  <2>2. 1..Len(<<>>) = {}
    BY EmptySeq
  <2>3. NoneTwice(<<>>) /\ QueueIds(<<>>) = {}
    BY <2>2 DEF NoneTwice, QueueIds
  <2>4. \A s \in Names : NoneTwice(Q[s]) /\ QueueIds(Q[s]) = {}
    BY <1>2, <2>1, <2>3 DEF Queues
  <2>5. \A w \in Identity : C[w] = {}
    BY <1>6, <2>1 DEF Loads
  <2>6. InQueues(Q) = {} /\ InWorkers(C) = {}
    BY <2>4, <2>5 DEF InQueues, InWorkers
  <2>7. IdsOf({}) = {} /\ Differ({})
    BY DEF IdsOf, Differ
  <2>8. Apart({}, {}, Q, C)
    BY <2>4, <2>5, <2>7 DEF Apart
  <2>9. OnePlace({}, {}, Q, C, 0)
    BY <2>6, <2>7, <2>8 DEF OnePlace
  <2>10. QED
    BY <1>1, <2>1, <2>9 DEF OnceInv
<1>10. QED
  BY <1>7, <1>8, <1>9 DEF SystemInv

LEMMA StutterKeeps ==
  ASSUME SystemInv, UNCHANGED vars
  PROVE  SystemInv'
<1>1. /\ PlacesInv /\ SessionInv /\ OnceInv
      /\ UNCHANGED <<brokerVars, netVars, workerVars>> /\ UNCHANGED clientVars
      /\ issued' = issued /\ incoming' = incoming /\ answers' = answers /\ broker' = broker
  BY DEF SystemInv, vars, requestVars, brokerVars
<1>2. issued \in 0..MaxRequests /\ incoming \subseteq Request /\ answers \subseteq Answer
  BY <1>1 DEF PlacesInv, MDNetTypeOK
<1>3. PlacesInv' /\ Lightens
  BY <1>1, <1>2, RequestStepKeeps
<1>4. SessionInv'
  BY <1>1 DEF SessionInv, MDClientTypeOK, AwaitsAnAttempt, clientVars
<1>5. OnceInv'
  <2>1. PICK I, n : I = incoming /\ n = issued /\ n \in Nat
    BY <1>2
  <2>2. OnePlace(I, answers, Queues, Loads, n) /\ incoming' \subseteq I /\ issued' = n
    BY <1>1, <2>1 DEF OnceInv
  <2>3. QED
    BY <1>1, <1>3, <2>1, <2>2, LossStepOnce
<1>6. QED
  BY <1>3, <1>4, <1>5 DEF SystemInv

LEMMA SessionsUntouched ==
  ASSUME SessionInv, UNCHANGED clientVars
  PROVE  SessionInv'
  BY DEF SessionInv, MDClientTypeOK, AwaitsAnAttempt, clientVars

LEMMA StepKeeps ==
  ASSUME SystemInv, Next
  PROVE  SystemInv'
<1>1. PlacesInv /\ SessionInv /\ OnceInv /\ issued \in Nat
  BY DEF SystemInv, PlacesInv, MDNetTypeOK
<1>2. PICK I, n : I = incoming /\ n = issued /\ n \in Nat
  BY <1>1
<1>3. OnePlace(I, answers, Queues, Loads, n)
  BY <1>1, <1>2 DEF OnceInv
<1>4. ASSUME BrokerNext PROVE SystemInv'
  <2>1. UNCHANGED workerVars /\ SessionInv'
    BY <1>1, <1>4, SessionsUntouched DEF BrokerNext
  <2>2. ASSUME NEW w \in Identity, MWorkerMsg(w) PROVE PlacesInv' /\ OnceInv'
    <3>1. PICK K, W, r, msgs : BrokerStep(K, W, msgs, r)
      BY <1>1, <2>1, <2>2, WorkerMsgStep
    <3>2. QED
      BY <1>1, <2>1, <2>2, <3>1, BrokerStepKeeps, WorkerMsgOnce
  <2>3. ASSUME MClientMsg PROVE PlacesInv' /\ OnceInv'
    <3>1. PICK K, W, r, msgs : BrokerStep(K, W, msgs, r)
      BY <1>1, <2>1, <2>3, ClientMsgStep
    <3>2. QED
      BY <1>1, <2>1, <2>3, <3>1, BrokerStepKeeps, ClientMsgOnce
  <2>4. ASSUME MMmi PROVE PlacesInv' /\ OnceInv'
    BY <1>1, <2>1, <2>4, MmiStep, MmiOnce
  <2>5. ASSUME MHeartbeat PROVE PlacesInv' /\ OnceInv'
    <3>1. PICK K, W, r, msgs : BrokerStep(K, W, msgs, r)
      BY <1>1, <2>1, <2>5, HeartbeatStep
    <3>2. QED
      BY <1>1, <2>1, <2>5, <3>1, BrokerStepKeeps, HeartbeatOnce
  <2>6. ASSUME MRestart PROVE PlacesInv' /\ OnceInv'
    <3>1. /\ PlacesInv' /\ Lightens
          /\ incoming' \subseteq I /\ answers' = answers /\ issued' = n
          /\ \A s \in Names : broker'.services[s].requests = <<>>
      BY <1>1, <1>2, <2>1, <2>6, RestartStep
    <3>2. QED
      BY <1>1, <1>2, <1>3, <3>1, LossStepOnce
  <2>7. QED
    BY <1>4, <2>1, <2>2, <2>3, <2>4, <2>5, <2>6 DEF BrokerNext, SystemInv
<1>5. ASSUME WorkerNext PROVE SystemInv'
  <2>1. PlacesInv' /\ Lightens
    BY <1>1, <1>5, WorkersKeep
  <2>2. /\ SessionInv' /\ broker' = broker
        /\ issued' = n /\ incoming' \subseteq I /\ answers' = answers
    <3>1. UNCHANGED requestVars
      BY <1>5 DEF WorkerNext, MWStart, MWRequest, MWReply, MWHeartbeat, MWDisconnect,
           MWSilence, MWGiveUp, MWReconnect, MWExit, Connect
    <3>2. QED
      BY <1>1, <1>2, <1>5, <3>1, SessionsUntouched DEF WorkerNext, brokerVars, requestVars
  <2>3. OnceInv'
    BY <1>1, <1>2, <1>3, <2>1, <2>2, LossStepOnce
  <2>4. QED
    BY <2>1, <2>2, <2>3 DEF SystemInv
<1>6. ASSUME ClientNext PROVE SystemInv'
  BY <1>1, <1>6, ClientStep, ClientStepOnce DEF SystemInv, ClientKeeps
<1>7. ASSUME Tick PROVE SystemInv'
  <2>1. /\ PlacesInv' /\ Lightens /\ broker'.services = broker.services
        /\ issued' = n /\ incoming' \subseteq I /\ answers' = answers
    BY <1>1, <1>2, <1>7, TickStep
  <2>2. OnceInv'
    BY <1>1, <1>2, <1>3, <2>1, LossStepOnce
  <2>3. SessionInv'
    BY <1>1, <1>7, SessionsUntouched DEF Tick
  <2>4. QED
    BY <2>1, <2>2, <2>3 DEF SystemInv
<1>8. QED
  BY <1>4, <1>5, <1>6, <1>7 DEF Next

(* The inductive invariant: the broker's lists and counts agree, a worker  *)
(* has one load at most and none while it waits, a client waits for an     *)
(* attempt of its call, and each request is in one place (mdbroker.c:69-   *)
(* 282, mdwrkapi.c:54-186, mdcliapi.c:83-135).                             *)
THEOREM SystemInvariant == Spec => []SystemInv
<1>1. Init => SystemInv
  BY InitiallySound
<1>2. SystemInv /\ [Next]_vars => SystemInv'
  BY StepKeeps, StutterKeeps
<1>3. QED
  BY <1>1, <1>2, PTL DEF Spec

LEMMA ListOf ==
  ASSUME NEW S, NEW T, NEW list \in Seq(S), ToSet(list) \subseteq T
  PROVE  list \in Seq(T)
<1>1. PICK L \in Nat : L = Len(list)
  BY LenProperties
<1>2. list \in [1..L -> S]
  BY <1>1, LenProperties
<1>3. \A i \in 1..L : list[i] \in T
  BY <1>1, MembersOf
<1>4. list \in [1..L -> T]
  BY <1>2, <1>3
<1>5. QED
  BY <1>4, SeqDef

(* Everything has its type (MDNetTypeOK, MDBrokerTypeOK, MDWorkerTypeOK,   *)
(* MDClientTypeOK).                                                        *)
THEOREM TypeCorrect == Spec => []TypeOK
<1>1. SystemInv => TypeOK
  <2> SUFFICES ASSUME SystemInv PROVE TypeOK
    OBVIOUS
  <2>1. MDNetTypeOK /\ MDWorkerTypeOK /\ MDClientTypeOK /\ stops \in 0..MaxStops
    BY DEF SystemInv, PlacesInv, SessionInv
  <2>2. Core(broker)
    BY DEF SystemInv, PlacesInv, BrokerInv
  <2>3. /\ Known(broker) \subseteq Identity
        /\ broker.workers \in
             [Known(broker) -> [service : Names \cup {NoService}, expiry : 0..HEARTBEAT_EXPIRY]]
        /\ broker.waiting \in Seq(Identity)
        /\ broker.services \in
             [Names -> [requests : Seq(Request), waiting : Seq(Identity), worker_num : Nat]]
        /\ ToSet(broker.waiting) \subseteq Known(broker)
        /\ \A s \in Names : ToSet(broker.services[s].waiting) \subseteq Known(broker)
    BY <2>2 DEF Core, IsBroker, Listed
  <2>4. broker.waiting \in Seq(Known(broker))
    BY <2>3, ListOf
  <2>5. ASSUME NEW s \in Names
        PROVE  broker.services[s] \in
                 [requests : Seq(Request), waiting : Seq(Known(broker)), worker_num : Nat]
    <3>1. PICK q : q = broker.services[s]
      OBVIOUS
    <3>2. q \in [requests : Seq(Request), waiting : Seq(Identity), worker_num : Nat]
      BY <2>3, <3>1
    <3>3. q.waiting \in Seq(Known(broker))
      BY <2>3, <3>1, <3>2, ListOf
    <3>4. QED
      BY <3>1, <3>2, <3>3
  <2>6. MDBrokerTypeOK
    BY <2>1, <2>3, <2>4, <2>5 DEF MDBrokerTypeOK
  <2>7. QED
    BY <2>1, <2>6 DEF TypeOK
<1>2. QED
  BY <1>1, SystemInvariant, PTL

(* The broker's list of waiting workers and those of its services agree.   *)
THEOREM ListsAlwaysAgree == Spec => []ListsAgree
<1>1. SystemInv => ListsAgree
  BY DEF SystemInv, PlacesInv, BrokerInv, Core, Listed, ListsAgree
<1>2. QED
  BY <1>1, SystemInvariant, PTL

(* worker_num is the number of workers of the service.                     *)
THEOREM CountsAlwaysAgree == Spec => []CountsAgree
<1>1. SystemInv => CountsAgree
  BY DEF SystemInv, PlacesInv, BrokerInv, Core, Counted, CountsAgree
<1>2. QED
  BY <1>1, SystemInvariant, PTL

(* No request is queued while a worker of its service waits.               *)
THEOREM NobodyIdleWhileQueued == Spec => []NoIdleWhileQueued
<1>1. SystemInv => NoIdleWhileQueued
  BY DEF SystemInv, PlacesInv, BrokerInv, Dispatched, NoIdleWhileQueued
<1>2. QED
  BY <1>1, SystemInvariant, PTL

LEMMA CarriedIsLoad ==
  ASSUME NEW pipe, NEW c \in Carried(pipe)
  PROVE  c[1] \in Identity /\ c[2] \in Load(pipe[c[1]])
<1>1. /\ c \in Identity \X (1..HWM) /\ c[2] <= Len(pipe[c[1]])
      /\ pipe[c[1]][c[2]].command \in {"REQUEST", "REPLY"}
  BY DEF Carried
<1>2. QED
  BY <1>1 DEF Load, IsLoad

(* A worker that waits has no request under way, in work or answered.      *)
THEOREM WaitingWorkersAreIdle == Spec => []WaitingAreIdle
<1>1. SystemInv => WaitingAreIdle
  <2> SUFFICES ASSUME SystemInv, NEW w \in ToSet(broker.waiting)
               PROVE  /\ \A c \in Carried(toWorker) \cup Carried(fromWorker) : c[1] # w
                      /\ \A p \in Process : socket[p] = w => wphase[p] # "work"
    BY DEF WaitingAreIdle
  <2>1. PlacesInv
    BY DEF SystemInv
  <2>2. w \in Identity
    BY <2>1 DEF PlacesInv, BrokerInv, Core, Listed, IsBroker
  <2>3. Load(toWorker[w]) = {} /\ Load(fromWorker[w]) = {} /\ JobsOf(w, socket, wphase, job) = {}
    BY <2>1, <2>2, WaiterIsUnladen DEF Unladen
  <2>4. \A c \in Carried(toWorker) \cup Carried(fromWorker) : c[1] # w
    BY <2>3, CarriedIsLoad
  <2>5. \A p \in Process : socket[p] = w => wphase[p] # "work"
    BY <2>3 DEF JobsOf
  <2>6. QED
    BY <2>4, <2>5
<1>2. QED
  BY <1>1, SystemInvariant, PTL

(* What a call can return answers an attempt of that call.                 *)
THEOREM RepliesAreForTheCall == Spec => []ReplyIsForCall
<1>1. SystemInv => ReplyIsForCall
  BY DEF SystemInv, SessionInv, AwaitsAnAttempt, ReplyIsForCall, Answered
<1>2. QED
  BY <1>1, SystemInvariant, PTL

(***************************************************************************)
(* Each request, or the reply to it, is in one place.                      *)
(***************************************************************************)

(* The worker a place belongs to carries the request.                      *)
LEMMA JobPlace ==
  ASSUME SystemInv, NEW p \in Process, job[p].id \in Nat \ {0}
  PROVE  socket[p] \in Identity /\ job[p].id \in JobsOf(socket[p], socket, wphase, job)
<1>1. PlacesInv
  BY DEF SystemInv
<1>2. job[p] # NoJob
  BY DEF NoJob
<1>3. wphase[p] = "work"
  BY <1>1, <1>2 DEF PlacesInv, MDWorkerTypeOK
<1>4. socket[p] \in Identity
  BY <1>1, <1>3, ActiveProcess
<1>5. QED
  BY <1>3, <1>4 DEF JobsOf

(* Two loads of one worker are the same.                                   *)
LEMMA OneLoadEach ==
  ASSUME SystemInv, NEW w \in Identity
  PROVE  /\ OneLoad(toWorker[w]) /\ OneLoad(fromWorker[w])
         /\ Load(toWorker[w]) = {} \/ Load(fromWorker[w]) = {}
         /\ JobsOf(w, socket, wphase, job) # {} =>
              Load(toWorker[w]) = {} /\ Load(fromWorker[w]) = {}
  BY DEF SystemInv, PlacesInv, Sound, SoundAt

One(S) == \A x, y \in S : x = y

Incoming(n) == {<<"incoming", m>> : m \in {x \in incoming : x.id = n}}
Answering(n) == {<<"answer", m>> : m \in {x \in answers : x.id = n}}
Queueing(n) ==
  UNION {{<<"queued", s, i>> :
            i \in {j \in 1..Len(broker.services[s].requests) :
                     broker.services[s].requests[j].id = n}} : s \in Names}
Going(n) == {<<"to", c>> : c \in {x \in Carried(toWorker) : toWorker[x[1]][x[2]].body.id = n}}
Coming(n) ==
  {<<"from", c>> : c \in {x \in Carried(fromWorker) : fromWorker[x[1]][x[2]].body.id = n}}
Working(n) == {<<"job", p>> : p \in {x \in Process : job[x].id = n}}

LEMMA IncomingIs ==
  ASSUME SystemInv, NEW n
  PROVE  One(Incoming(n)) /\ (Incoming(n) # {} => n \in IdsOf(incoming))
<1>1. Differ(incoming)
  BY DEF SystemInv, OnceInv, OnePlace, Apart
<1>2. QED
  BY <1>1 DEF Incoming, One, IdsOf, Differ

LEMMA AnsweringIs ==
  ASSUME SystemInv, NEW n
  PROVE  One(Answering(n)) /\ (Answering(n) # {} => n \in IdsOf(answers))
<1>1. Differ(answers)
  BY DEF SystemInv, OnceInv, OnePlace, Apart
<1>2. QED
  BY <1>1 DEF Answering, One, IdsOf, Differ

LEMMA QueueingIs ==
  ASSUME SystemInv, NEW n
  PROVE  One(Queueing(n)) /\ (Queueing(n) # {} => n \in InQueues(Queues))
<1>1. PICK Q : Q = Queues
  OBVIOUS
<1>2. /\ \A s \in Names : NoneTwice(Q[s])
      /\ \A s, t \in Names : QueueIds(Q[s]) \cap QueueIds(Q[t]) # {} => s = t
  BY <1>1 DEF SystemInv, OnceInv, OnePlace, Apart
<1>3. ASSUME NEW x \in Queueing(n)
      PROVE  \E s \in Names : \E i \in 1..Len(Q[s]) :
               Q[s][i].id = n /\ n \in QueueIds(Q[s]) /\ x = <<"queued", s, i>>
  <2>1. PICK s \in Names :
          x \in {<<"queued", s, i>> :
                   i \in {j \in 1..Len(broker.services[s].requests) :
                            broker.services[s].requests[j].id = n}}
    BY DEF Queueing
  <2>2. Q[s] = broker.services[s].requests
    BY <1>1 DEF Queues
  <2>3. PICK i \in 1..Len(Q[s]) : Q[s][i].id = n /\ x = <<"queued", s, i>>
    BY <2>1, <2>2
  <2>4. QED
    BY <2>3 DEF QueueIds
<1>4. ASSUME NEW x \in Queueing(n), NEW y \in Queueing(n) PROVE x = y
  <2>1. PICK s \in Names : \E i \in 1..Len(Q[s]) :
          Q[s][i].id = n /\ n \in QueueIds(Q[s]) /\ x = <<"queued", s, i>>
    BY <1>3
  <2>2. PICK i \in 1..Len(Q[s]) :
          Q[s][i].id = n /\ n \in QueueIds(Q[s]) /\ x = <<"queued", s, i>>
    BY <2>1
  <2>3. PICK t \in Names : \E j \in 1..Len(Q[t]) :
          Q[t][j].id = n /\ n \in QueueIds(Q[t]) /\ y = <<"queued", t, j>>
    BY <1>3
  <2>4. PICK j \in 1..Len(Q[t]) :
          Q[t][j].id = n /\ n \in QueueIds(Q[t]) /\ y = <<"queued", t, j>>
    BY <2>3
  <2>5. s = t
    BY <1>2, <2>2, <2>4
  <2>6. i = j
    BY <1>2, <2>2, <2>4, <2>5 DEF NoneTwice
  <2>7. QED
    BY <2>2, <2>4, <2>5, <2>6
<1>5. Queueing(n) # {} => n \in InQueues(Q)
  BY <1>3 DEF InQueues
<1>6. QED
  BY <1>1, <1>4, <1>5 DEF One

LEMMA WithWorkers ==
  ASSUME SystemInv, NEW n \in Nat \ {0}
  PROVE  One(Going(n) \cup Coming(n) \cup Working(n))
           /\ (Going(n) \cup Coming(n) \cup Working(n) # {} => n \in InWorkers(Loads))
<1>1. \A v, w \in Identity : n \in CarriedBy(v) /\ n \in CarriedBy(w) => v = w
  <2>1. PICK C : C = Loads
    OBVIOUS
  <2>2. \A v, w \in Identity : C[v] \cap C[w] # {} => v = w
    BY <2>1 DEF SystemInv, OnceInv, OnePlace, Apart
  <2>3. \A v \in Identity : C[v] = CarriedBy(v)
    BY <2>1 DEF Loads
  <2>4. QED
    BY <2>2, <2>3
<1>2. ASSUME NEW x \in Going(n)
      PROVE  \E w \in Identity : \E c \in Carried(toWorker) :
               n \in CarriedBy(w) /\ w = c[1] /\ c[2] \in Load(toWorker[w]) /\ x = <<"to", c>>
  <2>1. PICK c \in Carried(toWorker) : toWorker[c[1]][c[2]].body.id = n /\ x = <<"to", c>>
    BY DEF Going
  <2>2. c[1] \in Identity /\ c[2] \in Load(toWorker[c[1]])
    BY CarriedIsLoad
  <2>3. n \in CarriedBy(c[1])
    BY <2>1, <2>2 DEF CarriedBy, Carries, Ids
  <2>4. QED
    BY <2>1, <2>2, <2>3
<1>3. ASSUME NEW x \in Coming(n)
      PROVE  \E w \in Identity : \E c \in Carried(fromWorker) :
               n \in CarriedBy(w) /\ w = c[1] /\ c[2] \in Load(fromWorker[w]) /\ x = <<"from", c>>
  <2>1. PICK c \in Carried(fromWorker) : fromWorker[c[1]][c[2]].body.id = n /\ x = <<"from", c>>
    BY DEF Coming
  <2>2. c[1] \in Identity /\ c[2] \in Load(fromWorker[c[1]])
    BY CarriedIsLoad
  <2>3. n \in CarriedBy(c[1])
    BY <2>1, <2>2 DEF CarriedBy, Carries, Ids
  <2>4. QED
    BY <2>1, <2>2, <2>3
<1>4. ASSUME NEW x \in Working(n)
      PROVE  \E w \in Identity : \E p \in Process :
               /\ n \in CarriedBy(w) /\ w = socket[p] /\ x = <<"job", p>>
               /\ JobsOf(w, socket, wphase, job) # {}
  <2>1. PICK p \in Process : job[p].id = n /\ x = <<"job", p>>
    BY DEF Working
  <2>2. socket[p] \in Identity /\ n \in JobsOf(socket[p], socket, wphase, job)
    BY <2>1, JobPlace
  <2>3. n \in CarriedBy(socket[p])
    BY <2>2 DEF CarriedBy, Carries
  <2>4. QED
    BY <2>1, <2>2, <2>3
<1>5. ASSUME NEW x \in Going(n), NEW y \in Going(n) PROVE x = y
  <2>1. PICK v \in Identity, c \in Carried(toWorker) :
          n \in CarriedBy(v) /\ v = c[1] /\ c[2] \in Load(toWorker[v]) /\ x = <<"to", c>>
    BY <1>2
  <2>2. PICK w \in Identity, d \in Carried(toWorker) :
          n \in CarriedBy(w) /\ w = d[1] /\ d[2] \in Load(toWorker[w]) /\ y = <<"to", d>>
    BY <1>2
  <2>3. v = w /\ c[2] = d[2]
    BY <1>1, <2>1, <2>2, OneLoadEach DEF OneLoad
  <2>4. c = <<c[1], c[2]>> /\ d = <<d[1], d[2]>>
    BY DEF Carried
  <2>5. QED
    BY <2>1, <2>2, <2>3, <2>4
<1>6. ASSUME NEW x \in Coming(n), NEW y \in Coming(n) PROVE x = y
  <2>1. PICK v \in Identity, c \in Carried(fromWorker) :
          n \in CarriedBy(v) /\ v = c[1] /\ c[2] \in Load(fromWorker[v]) /\ x = <<"from", c>>
    BY <1>3
  <2>2. PICK w \in Identity, d \in Carried(fromWorker) :
          n \in CarriedBy(w) /\ w = d[1] /\ d[2] \in Load(fromWorker[w]) /\ y = <<"from", d>>
    BY <1>3
  <2>3. v = w /\ c[2] = d[2]
    BY <1>1, <2>1, <2>2, OneLoadEach DEF OneLoad
  <2>4. c = <<c[1], c[2]>> /\ d = <<d[1], d[2]>>
    BY DEF Carried
  <2>5. QED
    BY <2>1, <2>2, <2>3, <2>4
<1>7. ASSUME NEW x \in Working(n), NEW y \in Working(n) PROVE x = y
  <2>1. PICK v \in Identity, p \in Process : n \in CarriedBy(v) /\ v = socket[p] /\ x = <<"job", p>>
    BY <1>4
  <2>2. PICK w \in Identity, q \in Process : n \in CarriedBy(w) /\ w = socket[q] /\ y = <<"job", q>>
    BY <1>4
  <2>3. v = w /\ v # NoSocket
    BY <1>1, <2>1, <2>2, WorkerAssumption
  <2>4. p = q
    BY <2>1, <2>2, <2>3 DEF SystemInv, PlacesInv, SocketsApart
  <2>5. QED
    BY <2>1, <2>2, <2>4
<1>8. Going(n) = {} \/ Coming(n) = {}
  <2>1. SUFFICES ASSUME NEW x \in Going(n), NEW y \in Coming(n) PROVE FALSE
    OBVIOUS
  <2>2. PICK v \in Identity : n \in CarriedBy(v) /\ Load(toWorker[v]) # {}
    BY <1>2, <2>1
  <2>3. PICK w \in Identity : n \in CarriedBy(w) /\ Load(fromWorker[w]) # {}
    BY <1>3, <2>1
  <2>4. QED
    BY <1>1, <2>2, <2>3, OneLoadEach
<1>9. Working(n) = {} \/ Going(n) \cup Coming(n) = {}
  <2>1. SUFFICES ASSUME NEW x \in Working(n), NEW y \in Going(n) \cup Coming(n) PROVE FALSE
    OBVIOUS
  <2>2. PICK v \in Identity : n \in CarriedBy(v) /\ JobsOf(v, socket, wphase, job) # {}
    BY <1>4, <2>1
  <2>3. PICK w \in Identity :
          n \in CarriedBy(w) /\ (Load(toWorker[w]) # {} \/ Load(fromWorker[w]) # {})
    BY <1>2, <1>3, <2>1
  <2>4. QED
    BY <1>1, <2>2, <2>3, OneLoadEach
<1>10. One(Going(n) \cup Coming(n) \cup Working(n))
  BY <1>5, <1>6, <1>7, <1>8, <1>9 DEF One
<1>11. ASSUME Going(n) \cup Coming(n) \cup Working(n) # {} PROVE n \in InWorkers(Loads)
  <2>1. PICK w \in Identity : n \in CarriedBy(w)
    BY <1>2, <1>3, <1>4, <1>11
  <2>2. Loads[w] = CarriedBy(w)
    BY DEF Loads
  <2>3. QED
    BY <2>1, <2>2 DEF InWorkers
<1>12. QED
  BY <1>10, <1>11

(* A request is in one place at a time, however workers come, go or are    *)
(* taken for dead: it is executed at most once, and answered at most once  *)
(* (mdbroker.c:143-156 and 275-281, mdwrkapi.c:123-128, 155-158).          *)
THEOREM RequestsOnce == Spec => []AtMostOnce
<1>1. SystemInv => AtMostOnce
  <2> SUFFICES ASSUME SystemInv, NEW n \in 1..MaxRequests PROVE Cardinality(Places(n)) <= 1
    BY DEF AtMostOnce
  <2>1. PICK I, A, Q, W : I = Incoming(n) /\ A = Answering(n) /\ Q = Queueing(n)
                            /\ W = Going(n) \cup Coming(n) \cup Working(n)
    OBVIOUS
  <2>2. Places(n) = I \cup A \cup Q \cup W
    <3>1. Places(n) = Incoming(n) \cup Answering(n) \cup Queueing(n)
                        \cup Going(n) \cup Coming(n) \cup Working(n)
      BY DEF Places, Incoming, Answering, Queueing, Going, Coming, Working
    <3>2. QED
      BY <2>1, <3>1
  <2>3. n \in Nat \ {0}
    BY NetAssumption
  <2>4. One(I) /\ One(A) /\ One(Q) /\ One(W)
    BY <2>1, <2>3, IncomingIs, AnsweringIs, QueueingIs, WithWorkers
  <2>5. PICK a, b, c, d :
          /\ a = (n \in IdsOf(incoming)) /\ b = (n \in IdsOf(answers))
          /\ c = (n \in InQueues(Queues)) /\ d = (n \in InWorkers(Loads))
    OBVIOUS
  <2>6. (I # {} => a) /\ (A # {} => b) /\ (Q # {} => c) /\ (W # {} => d)
    BY <2>1, <2>3, <2>5, IncomingIs, AnsweringIs, QueueingIs, WithWorkers
  <2>7. ~ (a /\ b) /\ ~ (a /\ c) /\ ~ (a /\ d) /\ ~ (b /\ c) /\ ~ (b /\ d) /\ ~ (c /\ d)
    BY <2>5 DEF SystemInv, OnceInv, OnePlace
  <2>8. One(I \cup A \cup Q \cup W)
    BY <2>4, <2>6, <2>7 DEF One
  <2>9. PICK P : P = Places(n)
    OBVIOUS
  <2>10. One(P)
    BY <2>2, <2>8, <2>9
  <2>11. CASE P = {}
    BY <2>9, <2>11, FS_EmptySet
  <2>12. CASE P # {}
    <3>1. PICK x : P = {x}
      BY <2>10, <2>12 DEF One
    <3>2. Cardinality({x}) = 1
      BY FS_Singleton
    <3>3. QED
      BY <2>9, <3>1, <3>2
  <2>13. QED
    BY <2>11, <2>12
<1>2. QED
  BY <1>1, SystemInvariant, PTL

(***************************************************************************)
(* Who is handed a request.  A worker that waited, waits no more and is    *)
(* still in the table is one that was.                                     *)
(***************************************************************************)
Spares(self, after) ==
  \A v \in ToSet(self.waiting) :
    v \in Known(after) /\ v \notin ToSet(after.waiting) => self.workers[v].expiry > 0

Offers(self) == \A v \in Known(self) : self.workers[v].service \in Offered

(* Dropping entries of a list leaves the order of the others.              *)
LEMMA OrderStays ==
  ASSUME NEW S, NEW L \in Seq(S), NEW P \in Seq(S), NEW V \in Seq(S), NEW D,
         IsInjective(L), IsWithout(P, L, D), SameOrder(V, P),
         NEW i \in 1..Len(L), NEW j \in 1..Len(L), j < i, L[j] \notin D, L[i] \notin D,
         NEW k \in 1..Len(V), NEW m \in 1..Len(V), V[k] = L[j], V[m] = L[i]
  PROVE  k < m
<1>1. PICK h : From(h, P, L, D, Len(L))
  BY DEF IsWithout
<1>2. /\ h \in [1..Len(P) -> 1..Len(L)]
      /\ \A a \in 1..Len(P) : P[a] = L[h[a]]
      /\ \A a, b \in 1..Len(P) : a < b => h[a] < h[b]
      /\ \A c \in 1..Len(L) : L[c] \notin D => \E a \in 1..Len(P) : h[a] = c
  BY <1>1 DEF From
<1>3. PICK a \in 1..Len(P) : h[a] = j
  BY <1>2
<1>4. PICK b \in 1..Len(P) : h[b] = i
  BY <1>2
<1>5. P[a] = V[k] /\ P[b] = V[m]
  BY <1>2, <1>3, <1>4
<1>6. a \in Nat /\ b \in Nat /\ i \in Nat /\ j \in Nat
  BY MembersOf
<1>7. a < b
  <2>1. a # b /\ ~(b < a)
    BY <1>2, <1>3, <1>4, <1>6
  <2>2. QED
    BY <1>6, <2>1
<1>8. DOMAIN V = 1..Len(V) /\ DOMAIN P = 1..Len(P)
  BY MembersOf
<1>9. QED
  BY <1>5, <1>7, <1>8 DEF SameOrder

LEMMA DeleteSpares ==
  ASSUME NEW self, Core(self), NEW D
  PROVE  LET after == s_worker_delete(self, D)
         IN  Spares(self, after) /\ (Offers(self) => Offers(after))
<1>1. PICK q : q = s_worker_delete(self, D)
  OBVIOUS
<1>2. /\ NoNewWorker(self, q) /\ Known(q) = Known(self) \ D
      /\ ToSet(q.waiting) = ToSet(self.waiting) \ D
  BY <1>1, DeleteKeeps
<1>3. QED
  BY <1>1, <1>2 DEF Spares, Offers, NoNewWorker

LEMMA DisconnectedSpares ==
  ASSUME NEW self, Core(self), NEW w \in Identity
  PROVE  LET after == s_worker_delete(s_worker_require(self, w), {w})
         IN  Spares(self, after) /\ (Offers(self) => Offers(after))
<1>1. PICK q : q = s_worker_require(self, w)
  OBVIOUS
<1>2. /\ Core(q) /\ Known(q) = Known(self) \cup {w}
      /\ \A v \in Known(self) : q.workers[v] = self.workers[v]
      /\ q.waiting = self.waiting
  BY <1>1, RequireKeeps
<1>3. PICK r : r = s_worker_delete(q, {w})
  OBVIOUS
<1>4. /\ NoNewWorker(q, r) /\ Known(r) = Known(q) \ {w}
      /\ ToSet(r.waiting) = ToSet(q.waiting) \ {w}
  BY <1>2, <1>3, DeleteKeeps
<1>5. Spares(self, r)
  BY <1>2, <1>4 DEF Spares
<1>6. Offers(self) => Offers(r)
  BY <1>2, <1>4 DEF Offers, NoNewWorker
<1>7. QED
  BY <1>1, <1>3, <1>5, <1>6

(* The first that is left of a service's list after the purge is alive, if *)
(* all that wait are of this service.                                      *)
LEMMA HeadIsAlive ==
  ASSUME NEW self, Core(self), NEW s \in Names,
         \A v \in ToSet(self.waiting) : self.workers[v].service = s,
         Len(s_broker_purge(self).services[s].waiting) >= 1
  PROVE  self.workers[s_broker_purge(self).services[s].waiting[1]].expiry > 0
<1>1. PICK L, D : /\ L = self.waiting
                  /\ D = {L[i] : i \in {n \in 1..Len(L) :
                            \A j \in 1..n : self.workers[L[j]].expiry = 0}}
  OBVIOUS
<1>2. PICK p : p = s_worker_delete(self, D)
  OBVIOUS
<1>3. s_broker_purge(self) = p
  BY <1>1, <1>2 DEF s_broker_purge
<1>4. /\ Core(p) /\ NoNewWorker(self, p) /\ ToSet(p.waiting) = ToSet(L) \ D
      /\ Known(p) = Known(self) \ D
  BY <1>1, <1>2, DeleteKeeps
<1>5. /\ L \in Seq(Identity) /\ IsInjective(L) /\ ToSet(L) \subseteq Known(self)
      /\ self.workers \in
           [Known(self) -> [service : Names \cup {NoService}, expiry : 0..HEARTBEAT_EXPIRY]]
  BY <1>1 DEF Core, IsBroker, Listed
<1>6. PICK P : P = p.waiting
  OBVIOUS
<1>7. P \in Seq(Identity) /\ IsWithout(P, L, D)
  <2>1. P = Drop(L, D)
    BY <1>1, <1>2, <1>6, DeleteFields DEF Core
  <2>2. QED
    BY <1>5, <2>1, DropIsWithout
<1>8. PICK V : V = p.services[s].waiting
  OBVIOUS
<1>9. /\ V \in Seq(Identity) /\ SameOrder(V, P)
      /\ ToSet(V) = ToSet(P) \cap WorkersOf(p, s)
  BY ZenonT(30), <1>4, <1>6, <1>8, CoreParts DEF ListedIn
<1>10. 1 \in 1..Len(V)
  BY <1>3, <1>8, <1>9, LenProperties
<1>11. V[1] \in ToSet(L) \ D
  <2>1. V[1] \in ToSet(V)
    BY <1>9, <1>10, MembersOf
  <2>2. QED
    BY <1>4, <1>6, <1>9, <2>1
<1>12. PICK i \in 1..Len(L) : L[i] = V[1]
  <2>1. ToSet(L) = {L[n] : n \in 1..Len(L)}
    BY <1>5, MembersOf
  <2>2. QED
    BY <1>11, <2>1
<1>13. Len(L) \in Nat /\ i \in Nat
  BY <1>5, LenProperties
<1>14. PICK j \in 1..i : self.workers[L[j]].expiry # 0
  BY <1>1, <1>11, <1>12
<1>15. j \in 1..Len(L) /\ L[j] \in ToSet(L) /\ L[j] \notin D
  <2>1. j \in 1..Len(L)
    BY <1>13
  <2>2. L[j] \in ToSet(L)
    BY <1>5, <2>1, MembersOf
  <2>3. ASSUME L[j] \in D PROVE FALSE
    <3>1. PICK n \in 1..Len(L) : L[n] = L[j] /\ \A k \in 1..n : self.workers[L[k]].expiry = 0
      BY <1>1, <2>3
    <3>2. n \in 1..n
      BY <1>13
    <3>3. QED
      BY <1>14, <3>1, <3>2
  <2>4. QED
    BY <2>1, <2>2, <2>3
<1>16. PICK k \in 1..Len(V) : V[k] = L[j]
  <2>1. L[j] \in ToSet(P) /\ L[j] \in Known(p)
    BY <1>4, <1>5, <1>6, <1>15
  <2>2. p.workers[L[j]].service = s
    BY <1>1, <1>4, <1>15, <2>1 DEF NoNewWorker
  <2>3. L[j] \in ToSet(V)
    BY <1>9, <2>1, <2>2 DEF WorkersOf
  <2>4. ToSet(V) = {V[n] : n \in 1..Len(V)}
    BY <1>9, MembersOf
  <2>5. QED
    BY <2>3, <2>4
<1>17. ~ (j < i)
  <2>1. ASSUME j < i PROVE FALSE
    <3>1. PICK m \in 1..Len(V) : m = 1
      BY <1>10
    <3>2. V[m] = L[i] /\ L[i] \notin D
      BY <1>11, <1>12, <3>1
    <3>3. k < m
      BY <1>5, <1>7, <1>9, <1>15, <1>16, <2>1, <3>2, OrderStays
    <3>4. QED
      BY <1>16, <3>1, <3>3
  <2>2. QED
    BY <2>1
<1>18. j = i
  BY <1>13, <1>17
<1>19. self.workers[V[1]].expiry > 0
  <2>1. V[1] \in Known(self)
    BY <1>5, <1>11
  <2>2. self.workers[V[1]].expiry \in 0..HEARTBEAT_EXPIRY
    BY <1>5, <2>1
  <2>3. QED
    BY <1>12, <1>14, <1>18, <2>2, BrokerAssumption
<1>20. QED
  BY <1>3, <1>8, <1>19

(* What a dispatch does to those that wait: it takes out the ones it hands *)
(* a request, and the purge leaves none of those it takes in the table.    *)
LEMMA DispatchTakes ==
  ASSUME NEW self, Core(self), NEW s \in Names, NEW msgs \in Seq(Request)
  PROVE  LET p == s_broker_purge(Queued(self, s, msgs))
             after == s_service_dispatch(self, s, msgs).self
         IN  /\ \A v \in ToSet(self.waiting) :
                  v \in Known(after) /\ v \notin ToSet(after.waiting) => v \in Busy(p, s)
             /\ Assigned(p, s) \in Nat
             /\ Assigned(p, s) <= Len(self.services[s].requests \o msgs)
             /\ Assigned(p, s) <= Len(p.services[s].waiting)
             /\ Len(p.services[s].waiting) \in Nat
             /\ ToSet(p.services[s].waiting) \subseteq ToSet(self.services[s].waiting)
             /\ Offers(self) => Offers(after)
<1>1. PICK q : q = Queued(self, s, msgs)
  OBVIOUS
<1>2. /\ Core(q) /\ q.workers = self.workers /\ q.waiting = self.waiting
      /\ q.services[s].waiting = self.services[s].waiting
      /\ q.services[s].requests = self.services[s].requests \o msgs
  BY SMTT(30), <1>1, QueueKeeps
<1>3. PICK D : s_broker_purge(q) = s_worker_delete(q, D)
  BY DEF s_broker_purge
<1>4. PICK p : p = s_worker_delete(q, D)
  OBVIOUS
<1>5. /\ Core(p) /\ NoNewWorker(q, p) /\ Known(p) = Known(q) \ D
      /\ ToSet(p.waiting) = ToSet(q.waiting) \ D
      /\ \A t \in Names : p.services[t].requests = q.services[t].requests
  BY <1>2, <1>4, DeleteKeeps
<1>6. PICK r : r = HandOut(p, s)
  OBVIOUS
<1>7. s_service_dispatch(self, s, msgs) = r
  BY <1>1, <1>3, <1>4, <1>6, DispatchIs
<1>8. /\ r.self.workers = p.workers
      /\ ToSet(r.self.waiting) = ToSet(p.waiting) \ Busy(p, s)
  BY <1>5, <1>6, HandOutKeeps
<1>9. \A v \in ToSet(self.waiting) :
        v \in Known(r.self) /\ v \notin ToSet(r.self.waiting) => v \in Busy(p, s)
  BY <1>2, <1>5, <1>8 DEF Known
<1>10. /\ Assigned(p, s) \in Nat
       /\ Assigned(p, s) <= Len(self.services[s].requests \o msgs)
       /\ Assigned(p, s) <= Len(p.services[s].waiting)
  BY <1>2, <1>5, AssignedIs
<1>11. ToSet(p.services[s].waiting) \subseteq ToSet(self.services[s].waiting)
  <2>1. /\ ToSet(p.services[s].waiting) = ToSet(p.waiting) \cap WorkersOf(p, s)
        /\ ToSet(q.services[s].waiting) = ToSet(q.waiting) \cap WorkersOf(q, s)
    BY <1>2, <1>5 DEF Core, Listed
  <2>2. WorkersOf(p, s) \subseteq WorkersOf(q, s)
    BY <1>5 DEF NoNewWorker, WorkersOf
  <2>3. QED
    BY <1>2, <1>5, <2>1, <2>2
<1>12. Len(p.services[s].waiting) \in Nat
  BY <1>5, CoreParts, LenProperties
<1>13. Offers(self) => Offers(r.self)
  BY <1>2, <1>5, <1>8 DEF Offers, NoNewWorker, Known
<1>14. QED
  BY <1>1, <1>3, <1>4, <1>7, <1>9, <1>10, <1>11, <1>12, <1>13

(* A request of a client.  One worker at most is handed one, and it is the *)
(* first that the purge left.                                              *)
LEMMA RequestSpares ==
  ASSUME NEW self, BrokerInv(self), NEW s \in Names, NEW m \in Request,
         NEW only, Offered \subseteq {only}, Offers(self)
  PROVE  LET after == s_service_dispatch(self, s, <<m>>).self
         IN  Spares(self, after) /\ Offers(after)
<1>1. Core(self) /\ Dispatched(self, s)
  BY DEF BrokerInv
<1>2. PICK msgs \in Seq(Request) : msgs = <<m>> /\ Len(msgs) = 1
  <2>1. <<m>> \in Seq(Request) /\ Len(<<m>>) = 1
    OBVIOUS
  <2>2. QED
    BY <2>1
<1>3. PICK q, p, after, n, V :
        /\ q = Queued(self, s, msgs) /\ p = s_broker_purge(q)
        /\ after = s_service_dispatch(self, s, msgs).self
        /\ n = Assigned(p, s) /\ V = p.services[s].waiting
  OBVIOUS
<1>4. /\ \A v \in ToSet(self.waiting) :
           v \in Known(after) /\ v \notin ToSet(after.waiting) => v \in Busy(p, s)
      /\ n \in Nat /\ n <= Len(self.services[s].requests \o msgs) /\ n <= Len(V)
      /\ Len(V) \in Nat
      /\ ToSet(V) \subseteq ToSet(self.services[s].waiting)
      /\ Offers(after)
  BY <1>1, <1>3, DispatchTakes
<1>5. /\ Core(q) /\ q.workers = self.workers /\ q.waiting = self.waiting
  BY <1>1, <1>3, QueueKeeps
<1>6. Core(p) /\ V \in Seq(Identity)
  <2>1. Core(p)
    BY <1>3, <1>5, PurgeKeeps
  <2>2. QED
    BY <1>3, <2>1, CoreParts
<1>7. SUFFICES ASSUME NEW v \in ToSet(self.waiting), NEW i \in 1..n, v = V[i]
               PROVE  self.workers[v].expiry > 0
  BY <1>2, <1>3, <1>4 DEF Spares, Busy
<1>8. i \in 1..Len(V) /\ V[i] \in ToSet(V)
  <2>1. i \in 1..Len(V)
    BY <1>4
  <2>2. QED
    BY <1>6, <2>1, MembersOf
<1>9. self.services[s].waiting # <<>>
  BY <1>4, <1>8, NoMembers
<1>10. n <= 1
  <2>1. self.services[s].requests = <<>>
    BY <1>1, <1>9 DEF Dispatched
  <2>2. <<>> \o msgs = msgs
    BY ConcatEmptySeq
  <2>3. QED
    BY <1>2, <1>4, <2>1, <2>2
<1>11. i = 1 /\ Len(V) >= 1
  BY <1>4, <1>8, <1>10
<1>12. ASSUME NEW u \in ToSet(q.waiting) PROVE q.workers[u].service = only
  <2>1. u \in Known(q)
    BY <1>5, CoreParts
  <2>2. QED
    BY <1>5, <2>1 DEF Offers, Known
<1>13. s = only
  <2>1. V[i] \in WorkersOf(p, s) /\ V[i] \in ToSet(p.waiting)
    BY <1>3, <1>6, <1>8 DEF Core, Listed
  <2>2. NoNewWorker(q, p) /\ ToSet(p.waiting) \subseteq ToSet(q.waiting)
    BY <1>3, <1>5, PurgeKeeps
  <2>3. QED
    BY <1>12, <2>1, <2>2 DEF WorkersOf, NoNewWorker
<1>14. q.workers[V[1]].expiry > 0
  BY <1>3, <1>5, <1>11, <1>12, <1>13, HeadIsAlive
<1>15. QED
  BY <1>5, <1>7, <1>11, <1>14

(* A worker comes back, or comes first.  If one is handed a request, it is *)
(* this one.                                                               *)
LEMMA WaitingSpares ==
  ASSUME NEW self, Core(self), Served(self), NEW w \in Known(self), w \notin ToSet(self.waiting),
         \A t \in Names : Dispatched(self, t)
  PROVE  LET after == s_worker_waiting(self, w).self
         IN  Spares(self, after) /\ (Offers(self) => Offers(after))
<1>1. PICK s \in Names : s = self.workers[w].service
  BY DEF Served
<1>2. PICK q : q = Waits(self, w, s)
  OBVIOUS
<1>3. s_worker_waiting(self, w) = s_service_dispatch(q, s, <<>>)
  BY <1>1, <1>2 DEF s_worker_waiting, Waits
<1>4. /\ Core(q) /\ NoNewWorker(self, q)
      /\ ToSet(q.waiting) = ToSet(self.waiting) \cup {w}
      /\ q.services[s].requests = self.services[s].requests
  BY <1>1, <1>2, WaitsKeeps
<1>5. PICK msgs \in Seq(Request) : msgs = <<>>
  BY EmptySeq
<1>6. PICK p, after, n, V :
        /\ p = s_broker_purge(Queued(q, s, msgs))
        /\ after = s_service_dispatch(q, s, msgs).self
        /\ n = Assigned(p, s) /\ V = p.services[s].waiting
  OBVIOUS
<1>7. /\ \A v \in ToSet(q.waiting) :
           v \in Known(after) /\ v \notin ToSet(after.waiting) => v \in Busy(p, s)
      /\ n \in Nat /\ n <= Len(q.services[s].requests \o msgs) /\ n <= Len(V)
      /\ Len(V) \in Nat
      /\ ToSet(V) \subseteq ToSet(q.services[s].waiting)
      /\ Offers(q) => Offers(after)
  BY <1>4, <1>6, DispatchTakes
<1>8. Offers(self) => Offers(after)
  BY <1>4, <1>7 DEF Offers, NoNewWorker
<1>9. Core(p) /\ V \in Seq(Identity)
  <2>1. Core(p)
    BY <1>4, <1>6, QueueKeeps, PurgeKeeps
  <2>2. QED
    BY <1>6, <2>1, CoreParts
<1>10. ASSUME NEW v \in ToSet(self.waiting), v \in Known(after), v \notin ToSet(after.waiting)
       PROVE  FALSE
  <2>1. PICK i \in 1..n : v = V[i]
    BY <1>4, <1>6, <1>7, <1>10 DEF Busy
  <2>2. i \in 1..Len(V)
    BY <1>7
  <2>3. v \in ToSet(q.services[s].waiting)
    <3>1. V[i] \in ToSet(V)
      BY <1>9, <2>2, MembersOf
    <3>2. QED
      BY <1>7, <2>1, <3>1
  <2>4. self.services[s].requests # <<>>
    <3>1. ASSUME self.services[s].requests = <<>> PROVE FALSE
      <4>1. <<>> \o <<>> = <<>> /\ Len(<<>>) = 0
        OBVIOUS
      <4>2. n <= 0
        BY <1>4, <1>5, <1>7, <3>1, <4>1
      <4>3. QED
        BY <1>7, <4>2
    <3>2. QED
      BY <3>1
  <2>5. ToSet(self.services[s].waiting) = {}
    BY <2>4, NoMembers DEF Dispatched
  <2>6. v \in WorkersOf(q, s)
    BY <1>4, <2>3 DEF Core, Listed
  <2>7. v \in WorkersOf(self, s)
    BY <1>4, <2>6 DEF WorkersOf, NoNewWorker
  <2>8. v \in ToSet(self.services[s].waiting)
    BY <2>7 DEF Core, Listed
  <2>9. QED
    BY <2>5, <2>8
<1>11. Spares(self, after)
  BY <1>10 DEF Spares
<1>12. QED
  BY <1>3, <1>5, <1>6, <1>8, <1>11

LEMMA HeartbeatSpares ==
  ASSUME NEW self, Core(self), NEW w \in Identity
  PROVE  LET after == OnHeartbeat(self, w).self
         IN  Spares(self, after) /\ (Offers(self) => Offers(after))
<1>1. CASE w \in Known(self)
  <2>1. PICK q : q = Touched(self, w)
    OBVIOUS
  <2>2. NoNewWorker(self, q) /\ q.waiting = self.waiting
    BY <1>1, <2>1, TouchKeeps
  <2>3. OnHeartbeat(self, w).self = q
    BY <1>1, <2>1 DEF OnHeartbeat, Silently, Touched
  <2>4. QED
    BY <2>2, <2>3 DEF Spares, Offers, NoNewWorker
<1>2. CASE w \notin Known(self)
  BY <1>2, DisconnectedSpares DEF OnHeartbeat, Disconnected
<1>3. QED
  BY <1>1, <1>2

LEMMA ReplySpares ==
  ASSUME NEW self, BrokerInv(self), NEW w \in Identity, w \notin ToSet(self.waiting)
  PROVE  LET after == OnReply(self, w).self
         IN  Spares(self, after) /\ (Offers(self) => Offers(after))
<1>1. Core(self) /\ Served(self) /\ \A t \in Names : Dispatched(self, t)
  BY DEF BrokerInv
<1>2. CASE w \in Known(self)
  BY <1>1, <1>2, WaitingSpares DEF OnReply
<1>3. CASE w \notin Known(self)
  BY <1>1, <1>3, DisconnectedSpares DEF OnReply, Disconnected
<1>4. QED
  BY <1>2, <1>3

LEMMA ReadySpares ==
  ASSUME NEW self, BrokerInv(self), NEW w \in Identity, NEW s \in Names
  PROVE  LET after == OnReady(self, w, s).self
         IN  Spares(self, after) /\ (Offers(self) /\ s \in Offered => Offers(after))
<1>1. Core(self) /\ Served(self) /\ \A t \in Names : Dispatched(self, t)
  BY DEF BrokerInv
<1>2. CASE w \in Known(self) \/ w \in Mmi
  BY <1>1, <1>2, DisconnectedSpares DEF OnReady, Disconnected
<1>3. CASE ~ (w \in Known(self) \/ w \in Mmi)
  <2>1. PICK p : p = s_worker_require(self, w)
    OBVIOUS
  <2>2. /\ Core(p) /\ Known(p) = Known(self) \cup {w}
        /\ \A v \in Known(self) : p.workers[v] = self.workers[v]
        /\ p.workers[w] = [service |-> NoService, expiry |-> 0]
        /\ p.waiting = self.waiting /\ p.services = self.services
    BY <1>1, <1>3, <2>1, RequireKeeps
  <2>3. PICK q : q = Counts(p, w, s)
    OBVIOUS
  <2>4. w \notin ToSet(self.waiting)
    BY <1>1, <1>3, CoreParts
  <2>5. /\ Core(q) /\ Known(q) = Known(p)
        /\ q.workers[w].service = s
        /\ \A v \in Known(p) \ {w} : q.workers[v] = p.workers[v]
        /\ q.waiting = p.waiting
        /\ \A t \in Names :
             /\ q.services[t].requests = p.services[t].requests
             /\ q.services[t].waiting = p.services[t].waiting
    <3>1. w \in Known(p) /\ w \notin ToSet(p.waiting) /\ p.workers[w].service = NoService
      BY <2>2, <2>4
    <3>2. QED
      BY <2>2, <2>3, <3>1, CountsKeeps
  <2>6. Served(q)
    BY <1>1, <1>3, <2>2, <2>5 DEF Served
  <2>7. \A t \in Names : Dispatched(q, t)
    BY <1>1, <2>2, <2>5 DEF Dispatched
  <2>8. PICK after : after = s_worker_waiting(q, w).self
    OBVIOUS
  <2>9. Spares(q, after) /\ (Offers(q) => Offers(after))
    <3>1. w \in Known(q) /\ w \notin ToSet(q.waiting)
      BY <2>2, <2>4, <2>5
    <3>2. QED
      BY <2>5, <2>6, <2>7, <2>8, <3>1, WaitingSpares
  <2>10. /\ q.waiting = self.waiting
         /\ \A v \in ToSet(self.waiting) : q.workers[v] = self.workers[v]
    <3>1. ToSet(self.waiting) \subseteq Known(self)
      BY <1>1, CoreParts
    <3>2. QED
      BY <1>3, <2>2, <2>5, <3>1
  <2>11. Spares(self, after)
    BY <2>9, <2>10 DEF Spares
  <2>12. Offers(self) /\ s \in Offered => Offers(q)
    BY <1>3, <2>2, <2>5 DEF Offers
  <2>13. OnReady(self, w, s).self = after
    BY <1>3, <2>1, <2>3, <2>8 DEF OnReady, Counts
  <2>14. QED
    BY <2>9, <2>11, <2>12, <2>13
<1>4. QED
  BY <1>2, <1>3

(* No READY is for a service that no worker process offers.                *)
OffersAll(pipe) ==
  \A i \in 1..Len(pipe) : pipe[i].command = "READY" => pipe[i].service \in Offered

OfferedInv == Offers(broker) /\ \A w \in Identity : OffersAll(fromWorker[w])

LEMMA PartOffers ==
  ASSUME NEW q, NEW p, OffersAll(p),
         \A i \in 1..Len(q) : \E j \in 1..Len(p) : q[i] = p[j]
  PROVE  OffersAll(q)
  BY DEF OffersAll

LEMMA PiecesOffer ==
  ASSUME NEW S, NEW p \in Seq(S), OffersAll(p)
  PROVE  /\ p # <<>> => OffersAll(Tail(p))
         /\ \A n \in Nat : n <= Len(p) => OffersAll(SubSeq(p, 1, n))
         /\ \A n \in Nat : n <= Len(p) => OffersAll(SubSeq(p, n + 1, Len(p)))
         /\ OffersAll(<<>>)
         /\ p \o <<>> = p
         /\ \A m \in S : m.command # "READY" => OffersAll(p \o <<m>>)
<1>1. PICK L \in Nat : L = Len(p)
  BY LenProperties
<1>2. ASSUME p # <<>> PROVE OffersAll(Tail(p))
  <2>1. \A i \in 1..Len(Tail(p)) : Tail(p)[i] = p[i + 1] /\ i + 1 \in 1..Len(p)
    BY <1>1, <1>2, TailFields
  <2>2. QED
    BY <2>1, PartOffers
<1>3. ASSUME NEW n \in Nat, n <= Len(p) PROVE OffersAll(SubSeq(p, 1, n))
  <2>1. \A i \in 1..n : p[i] \in S /\ i \in 1..Len(p)
    BY <1>1, <1>3, ElementOfSeq
  <2>2. Len(SubSeq(p, 1, n)) = n
    BY <1>1, <1>3, <2>1, SubSeqProperties
  <2>3. \A i \in 1..n : SubSeq(p, 1, n)[i] = p[i]
    BY <1>3
  <2>4. QED
    BY <2>1, <2>2, <2>3, PartOffers
<1>4. ASSUME NEW n \in Nat, n <= Len(p) PROVE OffersAll(SubSeq(p, n + 1, Len(p)))
  <2>1. PICK q : q = SubSeq(p, n + 1, Len(p))
    OBVIOUS
  <2>2. Len(q) = L - n /\ \A i \in 1..(L - n) : q[i] = p[n + i]
    BY <1>1, <1>4, <2>1, SuffixFields
  <2>3. \A i \in 1..Len(q) : n + i \in 1..Len(p) /\ q[i] = p[n + i]
    BY <1>1, <1>4, <2>2
  <2>4. QED
    BY <2>1, <2>3, PartOffers
<1>5. OffersAll(<<>>)
  <2>1. Len(<<>>) = 0
    OBVIOUS
  <2>2. QED
    BY <2>1 DEF OffersAll
<1>6. p \o <<>> = p
  BY ConcatEmptySeq
<1>7. ASSUME NEW m \in S, m.command # "READY" PROVE OffersAll(p \o <<m>>)
  <2>1. PICK q : q = p \o <<m>>
    OBVIOUS
  <2>2. Len(q) = L + 1 /\ q[L + 1] = m /\ \A i \in 1..L : q[i] = p[i]
    BY <1>1, <2>1
  <2>3. \A i \in 1..(L + 1) : i = L + 1 \/ i \in 1..L
    OBVIOUS
  <2>4. QED
    BY <1>1, <1>7, <2>1, <2>2, <2>3 DEF OffersAll
<1>8. QED
  BY <1>2, <1>3, <1>4, <1>5, <1>6, <1>7

LEMMA ReadyOffers ==
  ASSUME NEW s \in Offered
  PROVE  OffersAll(<<ReadyMsg(s)>>)
<1>1. Len(<<ReadyMsg(s)>>) = 1 /\ <<ReadyMsg(s)>>[1] = ReadyMsg(s)
  OBVIOUS
<1>2. ReadyMsg(s).service = s
  BY DEF ReadyMsg
<1>3. QED
  BY <1>1, <1>2 DEF OffersAll

LEMMA ReconnectOffers ==
  ASSUME MDNetTypeOK, NEW old \in SUBSET Identity, NEW new, NEW first,
         Reconnect(old, new, first), OffersAll(first),
         \A v \in Identity : OffersAll(fromWorker[v]), NEW w \in Identity
  PROVE  OffersAll(fromWorker'[w])
<1>1. PICK n \in [old -> 0..HWM] :
        /\ \A v \in old : n[v] <= Len(fromWorker[v])
        /\ fromWorker' = [v \in Identity |->
             IF v \in old THEN SubSeq(fromWorker[v], 1, n[v])
             ELSE IF v \in new THEN first ELSE fromWorker[v]]
  BY DEF Reconnect
<1>2. fromWorker[w] \in Seq(WorkerMessage)
  BY DEF MDNetTypeOK
<1>3. CASE w \in old
  <2>1. n[w] \in Nat /\ n[w] <= Len(fromWorker[w])
    BY <1>1, <1>3
  <2>2. fromWorker'[w] = SubSeq(fromWorker[w], 1, n[w])
    BY <1>1, <1>3
  <2>3. QED
    BY <1>2, <2>1, <2>2, PiecesOffer
<1>4. CASE w \notin old
  BY <1>1, <1>4
<1>5. QED
  BY <1>3, <1>4

LEMMA SendOffers ==
  ASSUME MDNetTypeOK, NEW p \in Process, NEW msgs, Sends(p, msgs),
         msgs = <<>> \/ \E m \in WorkerMessage : m.command # "READY" /\ msgs = <<m>>,
         \A v \in Identity : OffersAll(fromWorker[v]), NEW w \in Identity
  PROVE  OffersAll(fromWorker'[w])
<1>1. /\ fromWorker \in [Identity -> Seq(WorkerMessage)]
      /\ fromWorker' = [fromWorker EXCEPT ![socket[p]] = @ \o msgs]
  BY DEF MDNetTypeOK, Sends
<1>2. CASE w = socket[p]
  <2>1. fromWorker'[w] = fromWorker[w] \o msgs
    BY <1>1, <1>2
  <2>2. QED
    BY <1>1, <2>1, PiecesOffer
<1>3. CASE w # socket[p]
  BY <1>1, <1>3
<1>4. QED
  BY <1>2, <1>3

LEMMA WorkersOffer ==
  ASSUME PlacesInv, WorkerNext, \A v \in Identity : OffersAll(fromWorker[v]), NEW w \in Identity
  PROVE  OffersAll(fromWorker'[w])
<1>1. PICK p \in Process :
        \/ MWStart(p) \/ MWRequest(p) \/ MWReply(p) \/ MWHeartbeat(p)
        \/ MWDisconnect(p) \/ MWSilence(p) \/ MWGiveUp(p) \/ MWReconnect(p)
        \/ MWExit(p)
  BY DEF WorkerNext
<1>2. /\ MDNetTypeOK
      /\ service \in [Process -> Offered]
      /\ socket \in [Process -> Identity \cup {NoSocket}]
      /\ job \in [Process -> Request \cup {NoJob}]
      /\ job[p] # NoJob <=> wphase[p] = "work"
      /\ socket[p] # NoSocket <=> wphase[p] \in {"poll", "work", "sleep"}
  BY DEF PlacesInv, MDWorkerTypeOK
<1>3. ASSUME Connect(p) PROVE OffersAll(fromWorker'[w])
  <2>1. PICK v \in Identity : Reconnect({socket[p]} \ {NoSocket}, {v}, <<ReadyMsg(service[p])>>)
    BY <1>3 DEF Connect, Fresh
  <2>2. {socket[p]} \ {NoSocket} \in SUBSET Identity
    BY <1>2
  <2>3. OffersAll(<<ReadyMsg(service[p])>>)
    BY <1>2, ReadyOffers
  <2>4. QED
    BY <1>2, <2>1, <2>2, <2>3, ReconnectOffers
<1>4. ASSUME NEW m \in WorkerMessage, m.command # "READY", Sends(p, <<m>>)
      PROVE  OffersAll(fromWorker'[w])
  BY <1>2, <1>4, SendOffers
<1>5. /\ HEARTBEAT \in WorkerMessage /\ HEARTBEAT.command # "READY"
      /\ DISCONNECT \in WorkerMessage /\ DISCONNECT.command # "READY"
  BY DEF WorkerMessage, HEARTBEAT, DISCONNECT
<1>6. ASSUME EndTurn(p) PROVE OffersAll(fromWorker'[w])
  <2>1. Sends(p, <<>>) \/ Sends(p, <<HEARTBEAT>>)
    BY <1>6 DEF EndTurn
  <2>2. QED
    BY <1>2, <1>4, <1>5, <2>1, SendOffers
<1>7. CASE MWStart(p) \/ MWDisconnect(p) \/ MWReconnect(p)
  BY <1>3, <1>7 DEF MWStart, MWDisconnect, MWReconnect
<1>8. CASE MWRequest(p)
  BY <1>8 DEF MWRequest
<1>9. CASE MWReply(p)
  <2>1. job[p] \in Request
    BY <1>2, <1>9 DEF MWReply
  <2>2. ReplyMsg(job[p]) \in WorkerMessage /\ ReplyMsg(job[p]).command # "READY"
    BY <2>1 DEF WorkerMessage, ReplyMsg
  <2>3. Sends(p, <<ReplyMsg(job[p])>>)
    BY <1>9 DEF MWReply
  <2>4. QED
    BY <1>4, <2>2, <2>3
<1>10. CASE MWHeartbeat(p) \/ MWSilence(p)
  BY <1>6, <1>10 DEF MWHeartbeat, MWSilence
<1>11. CASE MWGiveUp(p)
  BY <1>4, <1>5, <1>11 DEF MWGiveUp
<1>12. CASE MWExit(p)
  <2>1. Reconnect({socket[p]}, {}, <<>>) /\ {socket[p]} \in SUBSET Identity
    BY <1>2, <1>12 DEF MWExit
  <2>2. OffersAll(<<>>)
    <3>1. Len(<<>>) = 0
      OBVIOUS
    <3>2. QED
      BY <3>1 DEF OffersAll
  <2>3. QED
    BY <1>2, <2>1, <2>2, ReconnectOffers
<1>13. QED
  BY <1>1, <1>7, <1>8, <1>9, <1>10, <1>11, <1>12

LEMMA WorkerMsgSpares ==
  ASSUME PlacesInv, OfferedInv, NEW w \in Identity, MWorkerMsg(w)
  PROVE  Spares(broker, broker') /\ OfferedInv'
<1>1. PICK m : m = Head(fromWorker[w])
  OBVIOUS
<1>2. /\ fromWorker[w] # <<>>
      /\ fromWorker' = [fromWorker EXCEPT ![w] = Tail(fromWorker[w])]
      /\ broker' = (CASE m.command = "READY" -> OnReady(broker, w, m.service)
                      [] m.command = "REPLY" -> OnReply(broker, w)
                      [] m.command = "HEARTBEAT" -> OnHeartbeat(broker, w)
                      [] m.command = "DISCONNECT" -> OnDisconnect(broker, w)).self
  BY <1>1 DEF MWorkerMsg, Step
<1>3. /\ m \in WorkerMessage
      /\ m.command = "REPLY" => w \notin ToSet(broker.waiting)
  BY <1>1, <1>2, ReceivedFrom
<1>4. /\ m.command \in {"READY", "REPLY", "HEARTBEAT", "DISCONNECT"}
      /\ m.command = "READY" => m.service \in Names
  BY <1>3, WorkerMessages
<1>5. BrokerInv(broker) /\ Core(broker) /\ Offers(broker)
  BY DEF PlacesInv, BrokerInv, OfferedInv
<1>6. m.command = "READY" => m.service \in Offered
  <2>1. fromWorker[w] \in Seq(WorkerMessage)
    BY DEF PlacesInv, MDNetTypeOK
  <2>2. m = fromWorker[w][1] /\ 1 \in 1..Len(fromWorker[w])
    BY <1>1, <1>2, <2>1, TailFields
  <2>3. QED
    BY <2>2 DEF OfferedInv, OffersAll
<1>7. Spares(broker, broker') /\ Offers(broker')
  <2>1. CASE m.command = "READY"
    BY <1>2, <1>4, <1>5, <1>6, <2>1, ReadySpares
  <2>2. CASE m.command = "REPLY"
    BY <1>2, <1>3, <1>5, <2>2, ReplySpares
  <2>3. CASE m.command = "HEARTBEAT"
    BY <1>2, <1>5, <2>3, HeartbeatSpares
  <2>4. CASE m.command = "DISCONNECT"
    BY <1>2, <1>5, <2>4, DisconnectedSpares DEF OnDisconnect, Silently
  <2>5. QED
    BY <1>4, <2>1, <2>2, <2>3, <2>4
<1>8. ASSUME NEW v \in Identity PROVE OffersAll(fromWorker'[v])
  <2>1. /\ fromWorker \in [Identity -> Seq(WorkerMessage)] /\ OffersAll(fromWorker[v])
    BY DEF PlacesInv, MDNetTypeOK, OfferedInv
  <2>2. CASE v = w
    <3>1. fromWorker'[v] = Tail(fromWorker[v]) /\ fromWorker[v] # <<>>
      BY <1>2, <2>1, <2>2
    <3>2. QED
      BY <2>1, <3>1, PiecesOffer
  <2>3. CASE v # w
    BY <1>2, <2>1, <2>3
  <2>4. QED
    BY <2>2, <2>3
<1>9. QED
  BY <1>7, <1>8 DEF OfferedInv

LEMMA RestartSpares ==
  ASSUME PlacesInv, OfferedInv, MRestart
  PROVE  Spares(broker, broker') /\ OfferedInv'
<1>1. PICK kept \in [online -> 0..HWM] :
        /\ \A w \in online : kept[w] <= Len(fromWorker[w])
        /\ fromWorker' = [w \in Identity |->
             IF w \in online
             THEN SubSeq(fromWorker[w], kept[w] + 1, Len(fromWorker[w])) ELSE <<>>]
  BY DEF MRestart
<1>2. broker' = s_broker_new
  BY DEF MRestart
<1>3. Spares(broker, broker') /\ Offers(broker')
  BY <1>2, NewBrokerSound DEF Spares, Offers
<1>4. ASSUME NEW w \in Identity PROVE OffersAll(fromWorker'[w])
  <2>1. fromWorker[w] \in Seq(WorkerMessage) /\ OffersAll(fromWorker[w])
    BY DEF PlacesInv, MDNetTypeOK, OfferedInv
  <2>2. CASE w \in online
    <3>1. kept[w] \in Nat /\ kept[w] <= Len(fromWorker[w])
      BY <1>1, <2>2
    <3>2. fromWorker'[w] = SubSeq(fromWorker[w], kept[w] + 1, Len(fromWorker[w]))
      BY <1>1, <2>2
    <3>3. QED
      BY <2>1, <3>1, <3>2, PiecesOffer
  <2>3. CASE w \notin online
    BY <1>1, <2>1, <2>3, PiecesOffer
  <2>4. QED
    BY <2>2, <2>3
<1>5. QED
  BY <1>3, <1>4 DEF OfferedInv

LEMMA StepSpares ==
  ASSUME SystemInv, OfferedInv, Next, NEW only, Offered \subseteq {only}
  PROVE  Spares(broker, broker') /\ OfferedInv'
<1>1. PlacesInv /\ BrokerInv(broker) /\ Core(broker) /\ Offers(broker)
  BY DEF SystemInv, PlacesInv, BrokerInv, OfferedInv
<1>2. ASSUME Spares(broker, broker'), Offers(broker'), fromWorker' = fromWorker
      PROVE  Spares(broker, broker') /\ OfferedInv'
  BY <1>2 DEF OfferedInv
<1>3. ASSUME broker' = broker PROVE Spares(broker, broker') /\ Offers(broker')
  BY <1>1, <1>3 DEF Spares
<1>4. ASSUME NEW w \in Identity, MWorkerMsg(w) PROVE Spares(broker, broker') /\ OfferedInv'
  BY <1>1, <1>4, WorkerMsgSpares
<1>5. ASSUME MClientMsg PROVE Spares(broker, broker') /\ OfferedInv'
  <2>1. PICK m \in incoming :
          /\ broker' = s_service_dispatch(broker, m.service, <<m>>).self
          /\ fromWorker' = fromWorker
    BY <1>5 DEF MClientMsg, Step
  <2>2. m \in Request /\ m.service \in Names
    BY <1>1 DEF PlacesInv, MDNetTypeOK, Request, Names
  <2>3. Spares(broker, broker') /\ Offers(broker')
    BY <1>1, <2>1, <2>2, RequestSpares
  <2>4. QED
    BY <1>2, <2>1, <2>3
<1>6. ASSUME MHeartbeat PROVE Spares(broker, broker') /\ OfferedInv'
  <2>1. broker' = s_broker_purge(broker) /\ fromWorker' = fromWorker
    BY <1>6 DEF MHeartbeat, Step
  <2>2. PICK D : s_broker_purge(broker) = s_worker_delete(broker, D)
    BY DEF s_broker_purge
  <2>3. QED
    BY <1>1, <1>2, <2>1, <2>2, DeleteSpares
<1>7. ASSUME BrokerNext PROVE Spares(broker, broker') /\ OfferedInv'
  <2>1. CASE MMmi
    BY <1>2, <1>3, <2>1 DEF MMmi, brokerVars, netVars
  <2>2. QED
    BY <1>1, <1>4, <1>5, <1>6, <1>7, <2>1, RestartSpares DEF BrokerNext
<1>8. ASSUME WorkerNext PROVE Spares(broker, broker') /\ OfferedInv'
  <2>1. broker' = broker
    BY <1>8 DEF WorkerNext, brokerVars
  <2>2. \A w \in Identity : OffersAll(fromWorker'[w])
    BY <1>1, <1>8, WorkersOffer DEF OfferedInv
  <2>3. QED
    BY <1>3, <2>1, <2>2 DEF OfferedInv
<1>9. ASSUME ClientNext PROVE Spares(broker, broker') /\ OfferedInv'
  <2>1. broker' = broker /\ fromWorker' = fromWorker
    BY <1>9, ClientStep, <1>1 DEF SystemInv, ClientNext, ClientKeeps, brokerVars, netVars
  <2>2. QED
    BY <1>2, <1>3, <2>1
<1>10. ASSUME Tick PROVE Spares(broker, broker') /\ OfferedInv'
  <2>1. broker' = Ticked(broker) /\ fromWorker' = fromWorker
    BY <1>10 DEF Tick, MTick, Ticked, netVars
  <2>2. /\ Known(broker') = Known(broker) /\ broker'.waiting = broker.waiting
    BY <1>1, <2>1, TickKeeps
  <2>3. Spares(broker, broker')
    BY <2>2 DEF Spares
  <2>4. \A w \in Known(broker) : broker'.workers[w].service = broker.workers[w].service
    <3>1. PICK W : W = [w \in Known(broker) |->
                          [broker.workers[w] EXCEPT !.expiry = IF @ = 0 THEN 0 ELSE @ - 1]]
      OBVIOUS
    <3>2. broker'.workers = W
      <4>1. broker = [workers |-> broker.workers, waiting |-> broker.waiting,
                      services |-> broker.services]
        BY <1>1, CoreParts
      <4>2. broker' = [broker EXCEPT !.workers = W]
        BY <2>1, <3>1 DEF Ticked
      <4>3. QED
        BY <4>1, <4>2
    <3>3. ASSUME NEW w \in Known(broker) PROVE W[w].service = broker.workers[w].service
      <4>1. broker.workers[w] \in
              [service : Names \cup {NoService}, expiry : 0..HEARTBEAT_EXPIRY]
        BY <1>1 DEF Core, IsBroker
      <4>2. QED
        BY <3>1, <4>1
    <3>4. QED
      BY <3>2, <3>3
  <2>5. Offers(broker')
    BY <1>1, <2>2, <2>4 DEF Offers
  <2>6. QED
    BY <1>2, <2>1, <2>3, <2>5
<1>11. QED
  BY <1>7, <1>8, <1>9, <1>10 DEF Next

(* The comment above s_broker_purge holds for a broker whose workers all   *)
(* offer the same service: no request is dispatched to a worker that has   *)
(* not pinged the broker for a while (mdbroker.c:212-227, 268-282).        *)
THEOREM DispatchedAreAlive ==
  ASSUME NEW only, Offered \subseteq {only}
  PROVE  Spec => DispatchToLive
<1>1. Init => OfferedInv
  <2>1. SUFFICES ASSUME Init PROVE OfferedInv
    OBVIOUS
  <2>2. broker = s_broker_new /\ fromWorker = [w \in Identity |-> <<>>]
    BY <2>1 DEF Init, MDBrokerInit, MDNetInit
  <2>3. OffersAll(<<>>)
    <3>1. Len(<<>>) = 0
      OBVIOUS
    <3>2. QED
      BY <3>1 DEF OffersAll
  <2>4. QED
    BY <2>2, <2>3, NewBrokerSound DEF OfferedInv, Offers
<1>2. SystemInv /\ OfferedInv /\ [Next]_vars => OfferedInv'
  <2>1. ASSUME OfferedInv, UNCHANGED vars PROVE OfferedInv'
    <3>1. broker' = broker /\ fromWorker' = fromWorker
      BY <2>1 DEF vars, brokerVars, netVars
    <3>2. QED
      BY <2>1, <3>1 DEF OfferedInv
  <2>2. QED
    BY <2>1, StepSpares
<1>3. SystemInv /\ OfferedInv /\ [Next]_vars =>
        [\A w \in Known(broker) :
           w \in ToSet(broker.waiting) /\ w \in Known(broker') /\ w \notin ToSet(broker'.waiting)
             => broker.workers[w].expiry > 0]_broker
  <2>1. ASSUME SystemInv, OfferedInv, Next PROVE Spares(broker, broker')
    BY <2>1, StepSpares
  <2>2. UNCHANGED vars => broker' = broker
    BY DEF vars, brokerVars
  <2>3. QED
    BY <2>1, <2>2 DEF Spares
<1>4. QED
  BY <1>1, <1>2, <1>3, SystemInvariant, PTL DEF Spec, DispatchToLive

=============================================================================
