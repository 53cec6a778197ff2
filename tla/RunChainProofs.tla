--------------------------- MODULE RunChainProofs ---------------------------
(***************************************************************************)
(* Proofs about RunChain, for any clients and events and any bounds.       *)
(* RowsInv says where the runs a client knows of come from, CompleteInv    *)
(* that it knows of all runs of its event, or will.  The sort enters only  *)
(* through what it keeps: PlaceInOrder shows that the binary search, with  *)
(* a lessThan that is no order, always ends at a place within the table.   *)
(***************************************************************************)
EXTENDS RunChain, FiniteSetTheorems, SequenceTheorems, WellFoundedInduction,
        TLAPS

-----------------------------------------------------------------------------
(* Facts about numbers, sets and sequences.                                *)

(* A set of numbers that is not empty has a least one.  This takes the     *)
(* place of induction: a property of numbers that fails somewhere has a    *)
(* least number where it fails.                                            *)
LEMMA LeastNumber ==
  ASSUME NEW S \in SUBSET Nat, S # {}
  PROVE  \E x \in S : \A y \in S : x <= y
<1> DEFINE Less == {ss \in Nat \X Nat : ss[1] < ss[2]}
<1>1. IsWellFoundedOn(Less, Nat)
  BY NatLessThanWellFounded DEF OpToRel
<1>2. \A x, y \in Nat : y < x => <<y, x>> \in Less
  OBVIOUS
<1> HIDE DEF Less
<1>3. PICK x \in S : \A y \in S : ~ (<<y, x>> \in Less)
  BY <1>1, WFMin
<1>4. \A y \in S : ~ (y < x)
  BY <1>2, <1>3
<1> QED
  BY <1>4

(* The sequences in SetToSeqs(S) list the elements of S, each once.        *)
LEMMA SetToSeqsElements ==
  ASSUME NEW S, IsFiniteSet(S), NEW list \in SetToSeqs(S)
  PROVE  /\ list \in Seq(S) /\ ToSet(list) = S
         /\ \A i, j \in DOMAIN list : list[i] = list[j] => i = j
<1> DEFINE n == Cardinality(S)
<1>1. n \in Nat
  BY FS_CardinalityType
<1>2. list \in Injection(1..n, S)
  BY DEF SetToSeqs, Injection, IsInjective
<1>3. Cardinality(1..n) = n
  BY <1>1, FS_Interval
<1>4. list \in Surjection(1..n, S)
  BY <1>2, <1>3, FS_Injection
<1>5. list \in [1..n -> S] /\ DOMAIN list = 1..n
  BY DEF SetToSeqs
<1>6. list \in Seq(S) /\ ToSet(list) = S
  BY <1>1, <1>4, <1>5, SeqDef DEF Surjection, ToSet
<1>7. \A i, j \in DOMAIN list : list[i] = list[j] => i = j
  BY <1>2, <1>5 DEF Injection, IsInjective
<1> QED
  BY <1>6, <1>7

(* What a queue holds after something is appended, or its head taken.      *)
LEMMA AppendElements ==
  ASSUME NEW S, NEW q \in Seq(S), NEW x \in S
  PROVE  ToSet(Append(q, x)) = ToSet(q) \cup {x}
<1>1. /\ DOMAIN Append(q, x) = 1..(Len(q) + 1) /\ DOMAIN q = 1..Len(q) /\ Len(q) \in Nat
      /\ \A i \in 1..Len(q) : Append(q, x)[i] = q[i]
      /\ Append(q, x)[Len(q) + 1] = x
  BY AppendProperties
<1>2. \A i \in 1..(Len(q) + 1) : i \in 1..Len(q) \/ i = Len(q) + 1
  BY <1>1
<1>3. \A i \in 1..Len(q) : i \in 1..(Len(q) + 1)
  BY <1>1
<1>4. Len(q) + 1 \in 1..(Len(q) + 1)
  BY <1>1
<1> QED
  BY <1>1, <1>2, <1>3, <1>4 DEF ToSet

LEMMA TailElements ==
  ASSUME NEW S, NEW q \in Seq(S), q # <<>>
  PROVE  /\ Head(q) \in ToSet(q) /\ ToSet(q) = {Head(q)} \cup ToSet(Tail(q))
         /\ ToSet(q) \subseteq S
<1>1. /\ Len(q) \in Nat \ {0} /\ DOMAIN q = 1..Len(q) /\ Head(q) = q[1]
      /\ DOMAIN Tail(q) = 1..(Len(q) - 1)
      /\ \A i \in 1..(Len(q) - 1) : Tail(q)[i] = q[i + 1]
  BY HeadTailProperties, EmptySeq
<1>2. \A i \in 1..Len(q) : i = 1 \/ (i - 1 \in 1..(Len(q) - 1) /\ i = (i - 1) + 1)
  BY <1>1
<1>3. \A i \in 1..(Len(q) - 1) : i + 1 \in 1..Len(q)
  BY <1>1
<1>4. 1 \in 1..Len(q)
  BY <1>1
<1>5. ToSet(Tail(q)) \subseteq ToSet(q) /\ Head(q) \in ToSet(q)
  BY <1>1, <1>3, <1>4 DEF ToSet
<1>6. ASSUME NEW x \in ToSet(q) PROVE x = Head(q) \/ x \in ToSet(Tail(q))
  <2>1. PICK i \in 1..Len(q) : x = q[i]
    BY <1>1 DEF ToSet
  <2>2. CASE i = 1
    BY <1>1, <2>1, <2>2
  <2>3. CASE i # 1
    <3>1. i - 1 \in 1..(Len(q) - 1) /\ Tail(q)[i - 1] = q[i]
      BY <1>1, <1>2, <2>1, <2>3
    <3> QED
      BY <1>1, <2>1, <3>1 DEF ToSet
  <2> QED
    BY <2>2, <2>3
<1>7. ToSet(q) \subseteq S
  BY <1>1 DEF ToSet
<1> QED
  BY <1>5, <1>6, <1>7

(* The elements of a concatenation, by position and as a set.              *)
LEMMA ConcatPositions ==
  ASSUME NEW S, NEW p \in Seq(S), NEW q \in Seq(S)
  PROVE  /\ p \o q \in Seq(S) /\ ToSet(p \o q) = ToSet(p) \cup ToSet(q)
         /\ Len(p) \in Nat /\ DOMAIN p = 1..Len(p) /\ Len(q) \in Nat /\ DOMAIN q = 1..Len(q)
         /\ Len(p \o q) = Len(p) + Len(q) /\ DOMAIN (p \o q) = 1..(Len(p) + Len(q))
         /\ \A i \in DOMAIN p : (p \o q)[i] = p[i]
         /\ \A i \in DOMAIN q : (p \o q)[Len(p) + i] = q[i]
         /\ \A i \in DOMAIN (p \o q) : i \in DOMAIN p \/ (i - Len(p) \in DOMAIN q /\ i > Len(p))
<1> DEFINE r == p \o q
<1>1. /\ Len(p) \in Nat /\ Len(q) \in Nat /\ DOMAIN p = 1..Len(p) /\ DOMAIN q = 1..Len(q)
      /\ r \in Seq(S) /\ Len(r) = Len(p) + Len(q) /\ DOMAIN r = 1..(Len(p) + Len(q))
      /\ \A i \in 1..(Len(p) + Len(q)) : r[i] = IF i <= Len(p) THEN p[i] ELSE q[i - Len(p)]
  BY ConcatProperties
<1> HIDE DEF r
<1>2. \A i \in DOMAIN p : i \in DOMAIN r /\ r[i] = p[i]
  BY <1>1
<1>3. \A i \in DOMAIN q : Len(p) + i \in DOMAIN r /\ r[Len(p) + i] = q[i]
  BY <1>1
<1>4. \A i \in DOMAIN r : i \in DOMAIN p \/ (i - Len(p) \in DOMAIN q /\ i > Len(p))
  BY <1>1
<1>5. \A i \in DOMAIN r : r[i] \in ToSet(p) \/ r[i] \in ToSet(q)
  BY <1>1, <1>4 DEF ToSet
<1>6. ToSet(r) = ToSet(p) \cup ToSet(q)
  <2>1. \A x \in ToSet(p) : x \in ToSet(r)
    BY <1>2 DEF ToSet
  <2>2. \A x \in ToSet(q) : x \in ToSet(r)
    BY <1>3 DEF ToSet
  <2>3. \A x \in ToSet(r) : x \in ToSet(p) \cup ToSet(q)
    BY <1>5 DEF ToSet
  <2> QED
    BY <2>1, <2>2, <2>3
<1> QED
  BY <1>1, <1>2, <1>3, <1>4, <1>6 DEF r

(* The first k elements of a sequence.                                     *)
LEMMA FirstElements ==
  ASSUME NEW S, NEW q \in Seq(S), NEW k \in 0..Len(q)
  PROVE  /\ SubSeq(q, 1, k) \in Seq(S) /\ DOMAIN SubSeq(q, 1, k) = 1..k
         /\ \A i \in 1..k : i \in DOMAIN q /\ SubSeq(q, 1, k)[i] = q[i]
<1>1. Len(q) \in Nat /\ DOMAIN q = 1..Len(q) /\ k \in Int /\ \A i \in 1..k : q[i] \in S
  OBVIOUS
<1>2. /\ SubSeq(q, 1, k) \in Seq(S)
      /\ Len(SubSeq(q, 1, k)) = IF 1 <= k THEN k - 1 + 1 ELSE 0
      /\ \A i \in 1..(k - 1 + 1) : SubSeq(q, 1, k)[i] = q[1 + i - 1]
  BY <1>1, SubSeqProperties
<1>3. Len(SubSeq(q, 1, k)) = k
  BY <1>1, <1>2
<1> QED
  BY <1>1, <1>2, <1>3

(* The elements of a sequence from position m on.                          *)
LEMMA ElementsFrom ==
  ASSUME NEW S, NEW q \in Seq(S), NEW m \in 1..(Len(q) + 1)
  PROVE  /\ SubSeq(q, m, Len(q)) \in Seq(S) /\ DOMAIN SubSeq(q, m, Len(q)) = 1..(Len(q) + 1 - m)
         /\ \A i \in 1..(Len(q) + 1 - m) : m + i - 1 \in DOMAIN q
                                           /\ SubSeq(q, m, Len(q))[i] = q[m + i - 1]
<1> DEFINE n == Len(q)
<1>1. n \in Nat /\ DOMAIN q = 1..n /\ m \in Nat /\ m <= n + 1 /\ m >= 1
      /\ \A i \in m..n : q[i] \in S
  OBVIOUS
<1>2. /\ SubSeq(q, m, n) \in Seq(S)
      /\ Len(SubSeq(q, m, n)) = IF m <= n THEN n - m + 1 ELSE 0
      /\ \A i \in 1..(n - m + 1) : SubSeq(q, m, n)[i] = q[m + i - 1]
  BY <1>1, SubSeqProperties
<1> HIDE DEF n
<1>3. Len(SubSeq(q, m, n)) = n + 1 - m /\ n - m + 1 = n + 1 - m
  BY <1>1, <1>2
<1>4. \A i \in 1..(n + 1 - m) : m + i - 1 \in 1..n
  BY <1>1
<1> QED
  BY <1>1, <1>2, <1>3, <1>4 DEF n

(* What a sequence holds after one is put in, or taken out.                *)
LEMMA InsertAtElements ==
  ASSUME NEW S, NEW q \in Seq(S), NEW x \in S, NEW i \in 1..(Len(q) + 1)
  PROVE  InsertAt(q, i, x) \in Seq(S) /\ ToSet(InsertAt(q, i, x)) = ToSet(q) \cup {x}
<1> DEFINE n == Len(q)
           a == SubSeq(q, 1, i - 1)
           b == SubSeq(q, i, n)
           w == <<x>>
<1>1. n \in Nat /\ i - 1 \in 0..n /\ DOMAIN q = 1..n /\ i \in 1..(n + 1)
  OBVIOUS
<1>2. /\ a \in Seq(S) /\ DOMAIN a = 1..(i - 1)
      /\ \A k \in 1..(i - 1) : k \in DOMAIN q /\ a[k] = q[k]
  BY <1>1, FirstElements
<1>3. /\ b \in Seq(S) /\ DOMAIN b = 1..(n + 1 - i)
      /\ \A k \in 1..(n + 1 - i) : i + k - 1 \in DOMAIN q /\ b[k] = q[i + k - 1]
  BY ElementsFrom
<1>4. InsertAt(q, i, x) = (a \o w) \o b
  BY DEF InsertAt
<1>5. w \in Seq(S) /\ ToSet(w) = {x}
  BY DEF ToSet
<1> HIDE DEF n, a, b, w
<1>6. a \o w \in Seq(S) /\ ToSet(a \o w) = ToSet(a) \cup {x}
  BY <1>2, <1>5, ConcatPositions
<1> DEFINE c == a \o w
<1>c. c \in Seq(S) /\ ToSet(c) = ToSet(a) \cup {x} /\ InsertAt(q, i, x) = c \o b
  BY <1>4, <1>6
<1> HIDE DEF c
<1>7. /\ InsertAt(q, i, x) \in Seq(S)
      /\ ToSet(InsertAt(q, i, x)) = (ToSet(a) \cup {x}) \cup ToSet(b)
  BY <1>3, <1>c, ConcatPositions
<1>8. \A y \in ToSet(q) : y \in ToSet(a) \cup ToSet(b)
  <2>1. ASSUME NEW k \in DOMAIN q PROVE q[k] \in ToSet(a) \cup ToSet(b)
    <3>1. CASE k < i
      <4>1. k \in 1..(i - 1)
        BY <1>1, <3>1
      <4> QED
        BY <1>2, <4>1 DEF ToSet
    <3>2. CASE ~ (k < i)
      <4>1. k + 1 - i \in 1..(n + 1 - i) /\ i + (k + 1 - i) - 1 = k
        BY <1>1, <3>2
      <4> QED
        BY <1>3, <4>1 DEF ToSet
    <3> QED
      BY <3>1, <3>2
  <2> QED
    BY <2>1 DEF ToSet
<1>9. \A y \in ToSet(a) \cup ToSet(b) : y \in ToSet(q)
  BY <1>2, <1>3 DEF ToSet
<1> QED
  BY <1>7, <1>8, <1>9

LEMMA RemoveAtElements ==
  ASSUME NEW S, NEW q \in Seq(S), NEW i \in DOMAIN q
  PROVE  RemoveAt(q, i) \in Seq(S) /\ ToSet(q) = ToSet(RemoveAt(q, i)) \cup {q[i]}
<1> DEFINE n == Len(q)
           a == SubSeq(q, 1, i - 1)
           b == SubSeq(q, i + 1, n)
<1>1. n \in Nat /\ i - 1 \in 0..n /\ DOMAIN q = 1..n /\ i + 1 \in 1..(n + 1) /\ i \in 1..n
  OBVIOUS
<1>2. /\ a \in Seq(S) /\ DOMAIN a = 1..(i - 1)
      /\ \A k \in 1..(i - 1) : k \in DOMAIN q /\ a[k] = q[k]
  BY <1>1, FirstElements
<1>3. /\ b \in Seq(S) /\ DOMAIN b = 1..(n + 1 - (i + 1))
      /\ \A k \in 1..(n + 1 - (i + 1)) : (i + 1) + k - 1 \in DOMAIN q /\ b[k] = q[(i + 1) + k - 1]
  BY <1>1, ElementsFrom
<1>4. RemoveAt(q, i) = a \o b
  BY DEF RemoveAt
<1> HIDE DEF n, a, b
<1>5. RemoveAt(q, i) \in Seq(S) /\ ToSet(RemoveAt(q, i)) = ToSet(a) \cup ToSet(b)
  BY <1>2, <1>3, <1>4, ConcatPositions
<1>6. ASSUME NEW k \in DOMAIN q PROVE q[k] \in ToSet(a) \cup ToSet(b) \cup {q[i]}
  <2>1. CASE k < i
    <3>1. k \in 1..(i - 1)
      BY <1>1, <2>1
    <3> QED
      BY <1>2, <3>1 DEF ToSet
  <2>2. CASE k > i
    <3>1. k - i \in 1..(n + 1 - (i + 1)) /\ (i + 1) + (k - i) - 1 = k
      BY <1>1, <2>2
    <3> QED
      BY <1>3, <3>1 DEF ToSet
  <2> QED
    BY <1>1, <2>1, <2>2
<1>7. \A y \in ToSet(a) \cup ToSet(b) \cup {q[i]} : y \in ToSet(q)
  BY <1>2, <1>3 DEF ToSet
<1>8. \A y \in ToSet(q) : y \in ToSet(a) \cup ToSet(b) \cup {q[i]}
  BY <1>6 DEF ToSet
<1> QED
  BY <1>5, <1>7, <1>8

-----------------------------------------------------------------------------
(* The sort.                                                               *)

(* InsertionPoint is a recursive function; that there is such a function,  *)
(* and where its values are, is shown by the ranges it looks at, which get *)
(* shorter.                                                                *)
LEMMA PlaceInOrder ==
  ASSUME NEW order, Len(order) \in Nat, NEW r
  PROVE  InsertionPoint(order, r) \in 1..(Len(order) + 1)
<1> DEFINE n == Len(order)
           D == (1..(Len(order) + 1)) \X (0..Len(order))
           Mid(d) == (d[1] + d[2]) \div 2
           Left(d) == <<d[1], Mid(d) - 1>>
           Right(d) == <<Mid(d) + 1, d[2]>>
           Body(s, d) == IF d[1] > d[2] THEN d[1]
                         ELSE IF lessThan(r, order[Mid(d)]) THEN s[Left(d)] ELSE s[Right(d)]
           Shorter(q, d) == q[2] - q[1] < d[2] - d[1]
           Solves(s, w) == \A d \in D : d[2] - d[1] < w => s[d] = Body(s, d)
           search == CHOOSE s : s = [d \in D |-> Body(s, d)]
<1>1. \A d \in D : d[1] \in 1..(n + 1) /\ d[2] \in 0..n /\ d[2] - d[1] \in Int /\ d[2] - d[1] < n + 1
  OBVIOUS
<1>2. ASSUME NEW d \in D, ~ (d[1] > d[2])
      PROVE  Left(d) \in D /\ Shorter(Left(d), d) /\ Right(d) \in D /\ Shorter(Right(d), d)
  <2>1. \A a, b \in Nat : a <= b => (a + b) \div 2 \in Nat /\ a <= (a + b) \div 2 /\ (a + b) \div 2 <= b
    OBVIOUS
  <2>2. Mid(d) \in Nat /\ d[1] <= Mid(d) /\ Mid(d) <= d[2]
    BY <1>1, <1>2, <2>1
  <2> HIDE DEF Mid
  <2>3. Mid(d) - 1 \in 0..n /\ Mid(d) + 1 \in 1..(n + 1)
    BY <1>1, <2>2
  <2>4. Left(d) \in D /\ Right(d) \in D
    BY <1>1, <2>3
  <2> QED
    BY <1>1, <2>2, <2>4
<1>3. InsertionPoint(order, r) = search[<<1, n>>]
  BY DEF InsertionPoint
<1>4. ASSUME NEW s, NEW t, NEW d \in D,
             d[1] <= d[2] => \A q \in D : Shorter(q, d) => s[q] = t[q]
      PROVE  Body(s, d) = Body(t, d)
  <2>1. CASE d[1] > d[2]
    BY <2>1
  <2>2. CASE ~ (d[1] > d[2])
    <3>1. d[1] <= d[2]
      BY <1>1, <2>2
    <3>2. s[Left(d)] = t[Left(d)] /\ s[Right(d)] = t[Right(d)]
      BY <1>2, <1>4, <2>2, <3>1
    <3> HIDE DEF Left, Right
    <3> QED
      BY <3>2
  <2> QED
    BY <2>1, <2>2
<1>5. \A s : \A d \in D : \/ Body(s, d) = d[1]
                          \/ /\ ~ (d[1] > d[2])
                             /\ Body(s, d) = s[Left(d)] \/ Body(s, d) = s[Right(d)]
  OBVIOUS
<1>6. <<1, n>> \in D
  OBVIOUS
<1> HIDE DEF D, Body
<1>7. \E s : Solves(s, n + 1)
  <2> DEFINE Bad == {w \in Nat : ~ \E s : Solves(s, w)}
  <2>1. ASSUME Bad # {} PROVE FALSE
    <3>1. PICK v \in Bad : \A u \in Bad : v <= u
      <4>1. Bad \in SUBSET Nat
        OBVIOUS
      <4> HIDE DEF Bad
      <4> QED
        BY <2>1, <4>1, LeastNumber
    <3>2. PICK s : v # 0 => Solves(s, v - 1)
      <4>1. v # 0 => v - 1 \in Nat /\ v - 1 \notin Bad
        BY <3>1
      <4> QED
        BY <4>1
    <3> DEFINE g == [d \in D |-> Body(s, d)]
    <3>3. ASSUME NEW d \in D, d[2] - d[1] < v PROVE g[d] = Body(g, d)
      <4>1. ASSUME d[1] <= d[2], NEW q \in D, Shorter(q, d) PROVE s[q] = g[q]
        <5>1. v \in Nat
          BY <3>1
        <5> HIDE DEF Bad
        <5>2. v # 0 /\ q[2] - q[1] < v - 1
          BY <1>1, <3>3, <4>1, <5>1
        <5> QED
          BY <3>2, <5>2
      <4>2. Body(s, d) = Body(g, d)
        BY <1>4, <4>1
      <4> QED
        BY <4>2
    <3>4. Solves(g, v)
      BY <3>3
    <3> QED
      BY <3>1, <3>4
  <2>2. n + 1 \in Nat
    OBVIOUS
  <2> DEFINE k == n + 1
  <2>3. k \in Nat /\ Bad = {}
    BY <2>1, <2>2
  <2> HIDE DEF k
  <2>4. \E s : Solves(s, k)
    BY <2>3
  <2> QED
    BY <2>4 DEF k
<1>8. search = [d \in D |-> Body(search, d)]
  <2>1. PICK s : Solves(s, n + 1)
    BY <1>7
  <2> DEFINE f == [d \in D |-> s[d]]
  <2>2. ASSUME NEW d \in D PROVE f[d] = Body(f, d)
    <3>1. s[d] = Body(s, d)
      BY <1>1, <2>1
    <3>2. \A q \in D : s[q] = f[q]
      OBVIOUS
    <3>3. Body(s, d) = Body(f, d)
      BY <1>4, <3>2
    <3> QED
      BY <3>1, <3>3
  <2>3. f = [d \in D |-> Body(f, d)]
    BY <2>2
  <2> HIDE DEF f
  <2> QED
    BY <2>3
<1> HIDE DEF search
<1>9. \A d \in D : search[d] = Body(search, d)
  BY <1>8
<1> DEFINE Outside == {w \in Nat : \E d \in D : d[2] - d[1] < w /\ search[d] \notin 1..(n + 1)}
<1>10. ASSUME Outside # {} PROVE FALSE
  <2>1. PICK v \in Outside : \A u \in Outside : v <= u
    <3>1. Outside \in SUBSET Nat
      OBVIOUS
    <3> HIDE DEF Outside
    <3> QED
      BY <1>10, <3>1, LeastNumber
  <2>2. PICK d \in D : d[2] - d[1] < v /\ search[d] \notin 1..(n + 1)
    BY <2>1
  <2>3. PICK q \in D : Shorter(q, d) /\ search[d] = search[q] /\ d[1] <= d[2]
    <3>1. search[d] # d[1]
      BY <1>1, <2>2
    <3>2. ~ (d[1] > d[2]) /\ (search[d] = search[Left(d)] \/ search[d] = search[Right(d)])
      BY <1>5, <1>9, <3>1
    <3>3. Left(d) \in D /\ Shorter(Left(d), d) /\ Right(d) \in D /\ Shorter(Right(d), d)
      BY <1>2, <3>2
    <3>4. d[1] <= d[2]
      BY <1>1, <3>2
    <3> HIDE DEF Left, Right
    <3> QED
      BY <3>2, <3>3, <3>4
  <2>4. v - 1 \in Nat /\ q[2] - q[1] < v - 1
    BY <1>1, <2>2, <2>3
  <2>5. v - 1 \in Outside
    BY <2>2, <2>3, <2>4
  <2> QED
    BY <2>1, <2>5
<1>11. ASSUME search[<<1, n>>] \notin 1..(n + 1) PROVE FALSE
  <2>1. n + 1 \in Nat /\ <<1, n>>[2] - <<1, n>>[1] < n + 1
    OBVIOUS
  <2> QED
    BY <1>6, <1>10, <1>11, <2>1
<1> QED
  BY <1>3, <1>11

(* What stays in the table: a row that is placed, whether new or changed,  *)
(* displaces none.                                                         *)
LEMMA InsertKeeps ==
  ASSUME NEW order \in Seq(RunIds), NEW r \in RunIds
  PROVE  Insert(order, r) \in Seq(RunIds) /\ ToSet(Insert(order, r)) = ToSet(order) \cup {r}
<1>1. InsertionPoint(order, r) \in 1..(Len(order) + 1)
  BY PlaceInOrder
<1> QED
  BY <1>1, InsertAtElements DEF Insert

LEMMA ReplaceKeeps ==
  ASSUME NEW order \in Seq(RunIds), NEW r \in ToSet(order)
  PROVE  Replace(order, r) \in Seq(RunIds) /\ ToSet(Replace(order, r)) = ToSet(order)
<1> DEFINE i == CHOOSE k \in DOMAIN order : order[k] = r
<1>1. i \in DOMAIN order /\ order[i] = r
  BY DEF ToSet
<1>2. Replace(order, r) = Insert(RemoveAt(order, i), r)
  BY DEF Replace
<1> HIDE DEF i
<1>3. RemoveAt(order, i) \in Seq(RunIds) /\ ToSet(order) = ToSet(RemoveAt(order, i)) \cup {r}
  BY <1>1, RemoveAtElements
<1>4. r \in RunIds
  BY <1>1
<1> QED
  BY <1>2, <1>3, <1>4, InsertKeeps

(* The rows after updateRun: the run has one if it is of the event.        *)
LEMMA UpdateKeeps ==
  ASSUME NEW order \in Seq(RunIds), NEW r \in RunIds, NEW e, NEW new \in updateRun(order, r, e)
  PROVE  /\ new \in Seq(RunIds)
         /\ ToSet(new) = ToSet(order) \cup {x \in {r} : db[x].event = e}
<1>1. CASE db[r].event # e
  <2>1. new = order
    BY <1>1 DEF updateRun
  <2> QED
    BY <1>1, <2>1
<1>2. CASE db[r].event = e /\ r \in ToSet(order)
  <2>1. new = order \/ new = Replace(order, r)
    BY <1>2 DEF updateRun
  <2>2. ToSet(order) \cup {r} = ToSet(order) /\ {x \in {r} : db[x].event = e} = {r}
    BY <1>2
  <2>3. Replace(order, r) \in Seq(RunIds) /\ ToSet(Replace(order, r)) = ToSet(order)
    BY <1>2, ReplaceKeeps
  <2> QED
    BY <2>1, <2>2, <2>3
<1>3. CASE db[r].event = e /\ r \notin ToSet(order)
  <2>1. new = Insert(order, r)
    BY <1>3 DEF updateRun
  <2>2. {x \in {r} : db[x].event = e} = {r}
    BY <1>3
  <2> QED
    BY <2>1, <2>2, InsertKeeps
<1> QED
  BY <1>1, <1>2, <1>3

(* The rows after setRuns: updateRuns takes the runs of its list one by    *)
(* one, and is a recursive function of how many it has taken.              *)
LEMMA UpdatesKeep ==
  ASSUME NEW order \in Seq(RunIds), NEW list \in Seq(RunIds), NEW e,
         NEW new \in updateRuns(order, list, e)
  PROVE  /\ new \in Seq(RunIds)
         /\ ToSet(new) = ToSet(order) \cup {x \in ToSet(list) : db[x].event = e}
<1> DEFINE n == Len(list)
           Body(f, k) == IF k = 0 THEN {order}
                         ELSE UNION {updateRun(o, list[k], e) : o \in f[k - 1]}
           after == CHOOSE f : f = [k \in 0..Len(list) |-> Body(f, k)]
           Solves(f, m) == \A k \in 0..n : k < m => f[k] = Body(f, k)
           Taken(k) == {x \in ToSet(list) : db[x].event = e /\ \E i \in 1..k : list[i] = x}
           Good(f, k) == \A o \in f[k] : o \in Seq(RunIds) /\ ToSet(o) = ToSet(order) \cup Taken(k)
<1>1. updateRuns(order, list, e) = after[n]
  BY DEF updateRuns
<1>2. n \in Nat /\ DOMAIN list = 1..n /\ \A k \in 1..n : list[k] \in RunIds /\ list[k] \in ToSet(list)
  BY DEF ToSet
<1>3. ASSUME NEW f, NEW g, NEW k \in 0..n, k # 0 => f[k - 1] = g[k - 1]
      PROVE  Body(f, k) = Body(g, k)
  BY <1>3
<1>4. ASSUME NEW f, NEW k \in 0..n, f[k] = Body(f, k), k # 0 => Good(f, k - 1)
      PROVE  Good(f, k)
  <2>1. CASE k = 0
    <3>1. Taken(0) = {}
      OBVIOUS
    <3>2. f[0] = {order}
      BY <1>4, <2>1
    <3> QED
      BY <2>1, <3>1, <3>2
  <2>2. CASE k # 0
    <3> SUFFICES ASSUME NEW p \in f[k]
                 PROVE  p \in Seq(RunIds) /\ ToSet(p) = ToSet(order) \cup Taken(k)
      OBVIOUS
    <3>1. PICK o \in f[k - 1] : p \in updateRun(o, list[k], e)
      BY <1>4, <2>2
    <3>2. o \in Seq(RunIds) /\ ToSet(o) = ToSet(order) \cup Taken(k - 1)
      BY <1>4, <2>2, <3>1
    <3>3. k \in 1..n /\ list[k] \in RunIds /\ list[k] \in ToSet(list)
      BY <1>2, <2>2
    <3>4. p \in Seq(RunIds) /\ ToSet(p) = ToSet(o) \cup {x \in {list[k]} : db[x].event = e}
      BY <3>1, <3>2, <3>3, UpdateKeeps
    <3>5. \A i \in 1..k : i \in 1..(k - 1) \/ i = k
      BY <1>2
    <3>6. \A i \in 1..(k - 1) : i \in 1..k
      BY <1>2
    <3>7. \A x : x \in Taken(k) <=> x \in Taken(k - 1) \/ (x = list[k] /\ db[x].event = e)
      <4>1. k \in 1..k
        BY <1>2, <3>3
      <4> QED
        BY <3>3, <3>5, <3>6, <4>1
    <3> HIDE DEF Taken
    <3> QED
      BY <3>2, <3>4, <3>7
  <2> QED
    BY <2>1, <2>2
<1>5. Taken(n) = {x \in ToSet(list) : db[x].event = e}
  BY <1>2 DEF ToSet
<1> HIDE DEF Body, Good
<1>6. \E f : Solves(f, n + 1)
  <2> DEFINE Bad == {m \in Nat : ~ \E f : Solves(f, m)}
  <2>1. ASSUME Bad # {} PROVE FALSE
    <3>1. PICK v \in Bad : \A u \in Bad : v <= u
      <4>1. Bad \in SUBSET Nat
        OBVIOUS
      <4> HIDE DEF Bad
      <4> QED
        BY <2>1, <4>1, LeastNumber
    <3>2. PICK f : v # 0 => Solves(f, v - 1)
      <4>1. v \in Nat /\ \A m \in Nat : m \notin Bad => \E f : Solves(f, m)
        BY <3>1
      <4> HIDE DEF Bad, Solves
      <4>2. v # 0 => v - 1 \in Nat /\ v - 1 \notin Bad
        BY <3>1, <4>1
      <4> QED
        BY <4>1, <4>2
    <3> DEFINE g == [k \in 0..n |-> Body(f, k)]
    <3>3. ASSUME NEW k \in 0..n, k < v PROVE g[k] = Body(g, k)
      <4>1. ASSUME k # 0 PROVE f[k - 1] = g[k - 1]
        <5>1. v \in Nat
          BY <3>1
        <5> HIDE DEF Bad
        <5>2. v # 0 /\ k - 1 < v - 1 /\ k - 1 \in 0..n
          BY <1>2, <3>3, <4>1, <5>1
        <5> QED
          BY <3>2, <5>2
      <4>2. Body(f, k) = Body(g, k)
        BY <1>3, <4>1
      <4> QED
        BY <4>2
    <3>4. Solves(g, v)
      BY <3>3
    <3> QED
      BY <3>1, <3>4
  <2>2. n + 1 \in Nat
    BY <1>2
  <2> DEFINE k == n + 1
  <2>3. k \in Nat /\ Bad = {}
    BY <2>1, <2>2
  <2> HIDE DEF k
  <2>4. \E f : Solves(f, k)
    BY <2>3
  <2> QED
    BY <2>4 DEF k
<1>7. after = [k \in 0..n |-> Body(after, k)]
  <2>1. PICK s : Solves(s, n + 1)
    BY <1>6
  <2> DEFINE f == [k \in 0..Len(list) |-> s[k]]
  <2>2. ASSUME NEW k \in 0..n PROVE f[k] = Body(f, k)
    <3>1. s[k] = Body(s, k)
      BY <1>2, <2>1
    <3>2. k # 0 => s[k - 1] = f[k - 1]
      BY <1>2
    <3>3. Body(s, k) = Body(f, k)
      BY <1>3, <3>2
    <3> QED
      BY <3>1, <3>3
  <2>3. f = [k \in 0..Len(list) |-> Body(f, k)]
    BY <2>2
  <2> HIDE DEF f
  <2> QED
    BY <2>3
<1> HIDE DEF after
<1>8. \A k \in 0..n : after[k] = Body(after, k)
  BY <1>7
<1> DEFINE Bad == {k \in 0..n : ~ Good(after, k)}
<1>9. ASSUME Bad # {} PROVE FALSE
  <2>1. PICK v \in Bad : \A u \in Bad : v <= u
    <3>1. Bad \in SUBSET Nat
      OBVIOUS
    <3> HIDE DEF Bad
    <3> QED
      BY <1>9, <3>1, LeastNumber
  <2>2. v # 0 => v - 1 \in 0..n /\ v - 1 \notin Bad
    BY <1>2, <2>1
  <2>3. Good(after, v)
    BY <1>4, <1>8, <2>1, <2>2
  <2> QED
    BY <2>1, <2>3
<1>10. Good(after, n)
  BY <1>2, <1>9
<1> QED
  BY <1>1, <1>5, <1>10 DEF Good

-----------------------------------------------------------------------------
(* The invariants.                                                         *)

(* All runs a client knows of, or will be told of, are in the database; it *)
(* shows those of its event, and adds only while one is selected.          *)
RowsInv ==
  \A c \in Clients :
    /\ \A r \in ToSet(rows[c]) : r \in DOMAIN db /\ db[r].event = mEventId[c]
    /\ \A r \in ToSet(notifs[c]) : r \in DOMAIN db
    /\ \A j \in loads[c] : j.upto <= Len(db)
    /\ adding[c] > 0 => mEventId[c] # None

(* While nothing fails, a client shows every run of its event, or will be  *)
(* told of it, or has asked for it.                                        *)
CompleteInv ==
  failures = 0 =>
    \A c \in Clients : \A r \in RunsOf(mEventId[c]) :
      \/ r \in ToSet(rows[c]) \cup ToSet(notifs[c])
      \/ \E j \in loads[c] : ~j.read \/ r <= j.upto

ChainInv == TypeOK /\ RowsInv /\ LinksStayInEvent /\ CompleteInv

LEMMA InitChain == Init => ChainInv
<1> SUFFICES ASSUME Init PROVE ChainInv
  OBVIOUS
<1> USE ChainAssumption DEF Init
<1>1. /\ ToSet(<<>>) = {} /\ DOMAIN <<>> = {} /\ Len(<<>>) = 0
      /\ <<>> \in Seq(Run) /\ <<>> \in Seq(RunIds)
  BY DEF ToSet
<1>2. TypeOK
  <2>1. selections \in 0..MaxSelections /\ failures \in 0..MaxFailures /\ Len(db) <= MaxRuns
    BY <1>1
  <2>2. /\ notifs \in [Clients -> Seq(RunIds)] /\ rows \in [Clients -> Seq(RunIds)]
        /\ loads \in [Clients -> SUBSET Load] /\ mEventId \in [Clients -> Events \cup {None}]
        /\ adding \in [Clients -> 0..MaxSelected]
    BY <1>1
  <2> QED
    BY <1>1, <2>1, <2>2 DEF TypeOK
<1>3. RowsInv
  BY <1>1 DEF RowsInv
<1>4. LinksStayInEvent
  BY <1>1 DEF LinksStayInEvent
<1>5. CompleteInv
  BY <1>1 DEF CompleteInv, RunsOf
<1> QED
  BY <1>2, <1>3, <1>4, <1>5 DEF ChainInv

(* What a handler that leaves database and selection alone may do to the   *)
(* table of c: it keeps its rows, adds the runs of new that are of the     *)
(* event, and is done with notifications and loads of runs in new only.    *)
TableFollows(c, order, new) ==
  /\ UNCHANGED <<db, selections, failures, mEventId, adding>>
  /\ order \in Seq(RunIds) /\ rows' = [rows EXCEPT ![c] = order]
  /\ ToSet(order) = ToSet(rows[c]) \cup {r \in new : db[r].event = mEventId[c]}
  /\ \A r \in new : r \in DOMAIN db
  /\ notifs' \in [Clients -> Seq(RunIds)] /\ loads' \in [Clients -> SUBSET Load]
  /\ \A k \in Clients : /\ ToSet(notifs'[k]) \subseteq ToSet(notifs[k])
                        /\ loads'[k] \subseteq loads[k]
  /\ \A k \in Clients \ {c} : notifs'[k] = notifs[k] /\ loads'[k] = loads[k]
  /\ \A r \in ToSet(notifs[c]) : r \in ToSet(notifs'[c]) \/ r \in new
  /\ \A j \in loads[c] : \/ j \in loads'[c]
                         \/ j.read /\ \A r \in DOMAIN db : r <= j.upto => r \in new

LEMMA TableStep ==
  ASSUME ChainInv, NEW c \in Clients, NEW order, NEW new, TableFollows(c, order, new)
  PROVE  ChainInv'
<1> USE DEF ChainInv, TableFollows
<1>1. rows \in [Clients -> Seq(RunIds)] /\ mEventId \in [Clients -> Events \cup {None}]
  BY DEF TypeOK
<1>2. /\ rows' \in [Clients -> Seq(RunIds)] /\ rows'[c] = order
      /\ \A k \in Clients \ {c} : rows'[k] = rows[k]
  BY <1>1
<1>3. TypeOK'
  BY <1>2 DEF TypeOK
<1>4. RowsInv'
  <2> SUFFICES ASSUME NEW k \in Clients
               PROVE  /\ \A r \in ToSet(rows'[k]) : r \in DOMAIN db /\ db[r].event = mEventId[k]
                      /\ \A r \in ToSet(notifs'[k]) : r \in DOMAIN db
                      /\ \A j \in loads'[k] : j.upto <= Len(db)
                      /\ adding[k] > 0 => mEventId[k] # None
    BY DEF RowsInv
  <2>1. \A r \in ToSet(rows'[k]) : r \in DOMAIN db /\ db[r].event = mEventId[k]
    BY <1>2 DEF RowsInv
  <2> QED
    BY <2>1 DEF RowsInv
<1>5. LinksStayInEvent'
  BY DEF LinksStayInEvent, IsHead
<1>6. CompleteInv'
  <2> SUFFICES ASSUME failures = 0, NEW k \in Clients, NEW r \in RunsOf(mEventId[k])
               PROVE  \/ r \in ToSet(rows'[k]) \cup ToSet(notifs'[k])
                      \/ \E j \in loads'[k] : ~j.read \/ r <= j.upto
    BY DEF CompleteInv, RunsOf
  <2>1. \/ r \in ToSet(rows[k]) \cup ToSet(notifs[k])
        \/ \E j \in loads[k] : ~j.read \/ r <= j.upto
    BY DEF CompleteInv
  <2>2. CASE k # c
    BY <1>2, <2>1, <2>2
  <2>3. CASE k = c
    <3>1. r \in DOMAIN db /\ db[r].event = mEventId[c]
      BY <2>3 DEF RunsOf
    <3>2. r \in new => r \in ToSet(rows'[c])
      BY <1>2, <3>1
    <3>3. r \in ToSet(rows[c]) => r \in ToSet(rows'[c])
      BY <1>2
    <3>4. CASE r \in ToSet(rows[k]) \cup ToSet(notifs[k])
      BY <2>3, <3>2, <3>3, <3>4
    <3>5. ASSUME NEW j \in loads[c], ~j.read \/ r <= j.upto
          PROVE  \/ r \in ToSet(rows'[c])
                 \/ \E i \in loads'[c] : ~i.read \/ r <= i.upto
      BY <3>1, <3>2, <3>5
    <3> QED
      BY <2>1, <2>3, <3>4, <3>5
  <2> QED
    BY <2>2, <2>3
<1> QED
  BY <1>3, <1>4, <1>5, <1>6

(* The new event has no rows yet, and its runs are asked for.              *)
LEMMA EventChangedStep ==
  ASSUME ChainInv, NEW c \in Clients, NEW e \in Events, eventChanged(c, e) PROVE ChainInv'
<1> USE DEF ChainInv
<1> DEFINE l == [sel |-> selections', read |-> FALSE, upto |-> 0]
<1>1. /\ UNCHANGED <<db, notifs, failures, adding>> /\ selections' \in 1..MaxSelections
      /\ rows' = [rows EXCEPT ![c] = <<>>] /\ mEventId' = [mEventId EXCEPT ![c] = e]
      /\ loads' = [loads EXCEPT ![c] = @ \cup {l}]
  BY ChainAssumption DEF eventChanged, TypeOK
<1>2. l \in Load /\ ~ l.read /\ l.upto <= Len(db)
  BY <1>1, ChainAssumption DEF Load, TypeOK
<1> HIDE DEF l
<1>3. <<>> \in Seq(RunIds) /\ ToSet(<<>>) = {}
  BY DEF ToSet
<1>4. /\ rows' \in [Clients -> Seq(RunIds)] /\ rows'[c] = <<>>
      /\ \A k \in Clients \ {c} : rows'[k] = rows[k]
  BY <1>1, <1>3 DEF TypeOK
<1>5. /\ mEventId' \in [Clients -> Events \cup {None}] /\ mEventId'[c] = e
      /\ \A k \in Clients \ {c} : mEventId'[k] = mEventId[k]
  BY <1>1 DEF TypeOK
<1>6. /\ loads' \in [Clients -> SUBSET Load] /\ loads'[c] = loads[c] \cup {l}
      /\ \A k \in Clients \ {c} : loads'[k] = loads[k]
  BY <1>1, <1>2 DEF TypeOK
<1>7. TypeOK'
  BY <1>1, <1>4, <1>5, <1>6 DEF TypeOK
<1>8. RowsInv'
  <2> SUFFICES ASSUME NEW k \in Clients
               PROVE  /\ \A r \in ToSet(rows'[k]) : r \in DOMAIN db /\ db[r].event = mEventId'[k]
                      /\ \A r \in ToSet(notifs[k]) : r \in DOMAIN db
                      /\ \A j \in loads'[k] : j.upto <= Len(db)
                      /\ adding[k] > 0 => mEventId'[k] # None
    BY <1>1 DEF RowsInv
  <2>1. CASE k = c
    BY <1>2, <1>3, <1>4, <1>5, <1>6, <2>1, ChainAssumption DEF RowsInv
  <2>2. CASE k # c
    BY <1>4, <1>5, <1>6, <2>2 DEF RowsInv
  <2> QED
    BY <2>1, <2>2
<1>9. LinksStayInEvent'
  BY <1>1 DEF LinksStayInEvent, IsHead
<1>10. CompleteInv'
  <2> SUFFICES ASSUME failures = 0, NEW k \in Clients, NEW r \in DOMAIN db,
                      db[r].event = mEventId'[k]
               PROVE  \/ r \in ToSet(rows'[k]) \cup ToSet(notifs[k])
                      \/ \E j \in loads'[k] : ~j.read \/ r <= j.upto
    BY <1>1 DEF CompleteInv, RunsOf
  <2>1. CASE k = c
    BY <1>2, <1>6, <2>1
  <2>2. CASE k # c
    BY <1>4, <1>5, <1>6, <2>2 DEF CompleteInv, RunsOf
  <2> QED
    BY <2>1, <2>2
<1> QED
  BY <1>7, <1>8, <1>9, <1>10

(* A query reads all runs there are, or fails.                             *)
LEMMA ReadRunsStep ==
  ASSUME ChainInv, NEW c \in Clients, ReadRuns(c) PROVE ChainInv'
<1> USE DEF ChainInv
<1>1. PICK j \in loads[c], upto \in {0, Len(db)} :
        /\ ~j.read
        /\ loads' = [loads EXCEPT ![c] = (@ \ {j}) \cup {[j EXCEPT !.read = TRUE, !.upto = upto]}]
        /\ \/ upto = Len(db) /\ UNCHANGED failures
           \/ upto # Len(db) /\ failures < MaxFailures /\ failures' = failures + 1
        /\ UNCHANGED <<db, notifs, selections, mEventId, rows, adding>>
  BY DEF ReadRuns
<1> DEFINE l == [j EXCEPT !.read = TRUE, !.upto = upto]
<1>2. /\ Len(db) \in Nat /\ Len(db) <= MaxRuns /\ j \in Load /\ DOMAIN db = 1..Len(db)
      /\ failures \in 0..MaxFailures
  BY DEF TypeOK
<1>3. upto \in 0..MaxRuns /\ upto <= Len(db) /\ failures' \in 0..MaxFailures
  BY <1>1, <1>2, ChainAssumption
<1>4. l \in Load /\ l.upto = upto
  BY <1>2, <1>3 DEF Load
<1> HIDE DEF l
<1>5. /\ loads' \in [Clients -> SUBSET Load] /\ loads'[c] = (loads[c] \ {j}) \cup {l}
      /\ \A k \in Clients \ {c} : loads'[k] = loads[k]
  <2>1. loads' = [loads EXCEPT ![c] = (@ \ {j}) \cup {l}]
    BY <1>1 DEF l
  <2> QED
    BY <1>4, <2>1 DEF TypeOK
<1>6. TypeOK'
  BY <1>1, <1>3, <1>5 DEF TypeOK
<1>7. RowsInv'
  <2>1. \A k \in Clients : \A i \in loads'[k] : i.upto <= Len(db)
    BY <1>3, <1>4, <1>5 DEF RowsInv
  <2> QED
    BY <1>1, <2>1 DEF RowsInv
<1>8. LinksStayInEvent'
  BY <1>1 DEF LinksStayInEvent, IsHead
<1>9. CompleteInv'
  <2> SUFFICES ASSUME failures' = 0, NEW k \in Clients, NEW r \in RunsOf(mEventId[k])
               PROVE  \/ r \in ToSet(rows[k]) \cup ToSet(notifs[k])
                      \/ \E i \in loads'[k] : ~i.read \/ r <= i.upto
    BY <1>1 DEF CompleteInv, RunsOf
  <2>1. failures = 0 /\ upto = Len(db)
    BY <1>1, <1>2
  <2>2. r <= Len(db)
    <3>1. r \in 1..Len(db)
      BY <1>2 DEF RunsOf
    <3>2. Len(db) \in Nat
      BY <1>2
    <3> QED
      BY ONLY <3>1, <3>2
  <2>3. CASE k # c
    BY <1>5, <2>1, <2>3 DEF CompleteInv
  <2>4. CASE k = c
    BY <1>4, <1>5, <2>1, <2>2, <2>4
  <2> QED
    BY <2>3, <2>4
<1> QED
  BY <1>6, <1>7, <1>8, <1>9

(* The new run names the last row of the client's table, which is a run of *)
(* the same event, and everybody is notified of it.                        *)
LEMMA CreateRunStep ==
  ASSUME ChainInv, NEW c \in Clients, createRun(c) PROVE ChainInv'
<1> USE DEF ChainInv
<1> DEFINE n == Len(db)
           new == [event |-> mEventId[c], prev |-> PreviousRun(c)]
<1>1. /\ n \in Nat /\ DOMAIN db = 1..n /\ db \in Seq(Run) /\ n <= MaxRuns
      /\ failures \in 0..MaxFailures /\ MaxRuns \in Nat
      /\ rows \in [Clients -> Seq(RunIds)]
      /\ notifs \in [Clients -> Seq(RunIds)] /\ adding[c] \in 0..MaxSelected
  BY ChainAssumption DEF TypeOK
<1>2. /\ adding[c] > 0 /\ adding' = [adding EXCEPT ![c] = @ - 1]
      /\ UNCHANGED <<loads, selections, mEventId, rows>>
  BY DEF createRun
<1>3. /\ adding' \in [Clients -> 0..MaxSelected]
      /\ \A k \in Clients : adding'[k] > 0 => adding[k] > 0
  <2>1. MaxSelected \in Nat /\ adding \in [Clients -> 0..MaxSelected]
    BY ChainAssumption DEF TypeOK
  <2>2. adding[c] - 1 \in 0..MaxSelected
    BY <1>1, <1>2, <2>1
  <2>3. /\ adding' \in [Clients -> 0..MaxSelected]
        /\ \A k \in Clients : adding'[k] > 0 => k = c \/ adding[k] > 0
    BY <1>2, <2>1, <2>2
  <2> QED
    BY <1>2, <2>3
<1>4. CASE failures < MaxFailures /\ failures' = failures + 1 /\ UNCHANGED <<db, notifs>>
  <2>1. failures' \in 0..MaxFailures /\ failures' # 0
    <3>1. MaxFailures \in Nat
      BY ChainAssumption
    <3> QED
      BY <1>1, <1>4, <3>1
  <2>2. TypeOK'
    BY <1>2, <1>3, <1>4, <2>1 DEF TypeOK
  <2>3. RowsInv'
    BY <1>2, <1>3, <1>4 DEF RowsInv
  <2>4. LinksStayInEvent'
    BY <1>4 DEF LinksStayInEvent, IsHead
  <2>5. CompleteInv'
    BY <2>1 DEF CompleteInv
  <2> QED
    BY <2>2, <2>3, <2>4, <2>5
<1>5. CASE /\ n < MaxRuns /\ db' = Append(db, new) /\ UNCHANGED failures
           /\ notifs' = [k \in Clients |-> Append(notifs[k], n + 1)]
  <2>1. mEventId[c] \in Events
    BY <1>2 DEF RowsInv, TypeOK
  <2>2. /\ PreviousRun(c) # None => /\ PreviousRun(c) \in DOMAIN db
                                    /\ db[PreviousRun(c)].event = mEventId[c]
        /\ PreviousRun(c) \in RunIds \cup {None}
    <3>1. CASE rows[c] = <<>>
      BY <3>1 DEF PreviousRun
    <3>2. CASE rows[c] # <<>>
      <4>1. rows[c] \in Seq(RunIds)
        BY <1>1
      <4>2. Len(rows[c]) \in DOMAIN rows[c] /\ rows[c][Len(rows[c])] \in RunIds
        BY <3>2, <4>1, EmptySeq
      <4>3. PreviousRun(c) = rows[c][Len(rows[c])]
        BY <3>2 DEF PreviousRun, Last
      <4>4. PreviousRun(c) \in ToSet(rows[c])
        BY <4>2, <4>3 DEF ToSet
      <4> QED
        BY <4>2, <4>3, <4>4 DEF RowsInv
    <3> QED
      BY <3>1, <3>2
  <2>3. new \in Run /\ n + 1 \in RunIds
    BY <1>1, <1>5, <2>1, <2>2 DEF Run, RunIds
  <2>4. /\ db' \in Seq(Run) /\ Len(db') = n + 1 /\ DOMAIN db' = 1..(n + 1)
        /\ \A i \in 1..n : db'[i] = db[i]
        /\ db'[n + 1] = new
    <3> HIDE DEF new
    <3> QED
      BY <1>1, <1>5, <2>3, AppendProperties
  <2>5. \A i \in DOMAIN db : i \in DOMAIN db' /\ db'[i] = db[i] /\ i < n + 1
    BY <1>1, <2>4
  <2>6. \A i \in DOMAIN db' : i \in DOMAIN db \/ i = n + 1
    BY <1>1, <2>4
  <2>7. /\ notifs' \in [Clients -> Seq(RunIds)]
        /\ \A k \in Clients : ToSet(notifs'[k]) = ToSet(notifs[k]) \cup {n + 1}
    <3>1. ASSUME NEW k \in Clients
          PROVE  /\ Append(notifs[k], n + 1) \in Seq(RunIds)
                 /\ ToSet(Append(notifs[k], n + 1)) = ToSet(notifs[k]) \cup {n + 1}
      <4> DEFINE m == n + 1
      <4>1. m \in RunIds /\ notifs[k] \in Seq(RunIds)
        BY <1>1, <2>3
      <4> HIDE DEF m
      <4>2. /\ Append(notifs[k], m) \in Seq(RunIds)
            /\ ToSet(Append(notifs[k], m)) = ToSet(notifs[k]) \cup {m}
        BY <4>1, AppendElements, AppendProperties
      <4> QED
        BY <4>2 DEF m
    <3> QED
      BY <1>5, <3>1
  <2>8. TypeOK'
    <3>1. Len(db') <= MaxRuns
      BY <1>1, <1>5, <2>4
    <3> QED
      BY <1>2, <1>3, <1>5, <2>4, <2>7, <3>1 DEF TypeOK
  <2>9. RowsInv'
    <3> SUFFICES ASSUME NEW k \in Clients
                 PROVE  /\ \A r \in ToSet(rows[k]) : r \in DOMAIN db' /\ db'[r].event = mEventId[k]
                        /\ \A r \in ToSet(notifs'[k]) : r \in DOMAIN db'
                        /\ \A j \in loads[k] : j.upto <= Len(db')
                        /\ adding'[k] > 0 => mEventId[k] # None
      BY <1>2 DEF RowsInv
    <3>1. \A r \in ToSet(rows[k]) : r \in DOMAIN db' /\ db'[r].event = mEventId[k]
      BY <2>5 DEF RowsInv
    <3>2. n + 1 \in DOMAIN db'
      BY <1>1, <2>4
    <3>3. \A r \in ToSet(notifs'[k]) : r \in DOMAIN db'
      BY <2>5, <2>7, <3>2 DEF RowsInv
    <3>4. \A j \in loads[k] : j.upto <= Len(db')
      <4>1. \A j \in loads[k] : j.upto <= n /\ j.upto \in Int
        BY DEF RowsInv, TypeOK, Load
      <4> QED
        BY <1>1, <2>4, <4>1
    <3> QED
      BY <1>3, <3>1, <3>3, <3>4 DEF RowsInv
  <2>10. LinksStayInEvent'
    <3> SUFFICES ASSUME NEW i \in DOMAIN db', db'[i].prev # None
                 PROVE  db'[i].prev < i /\ db'[db'[i].prev].event = db'[i].event
      BY DEF LinksStayInEvent, IsHead
    <3>1. CASE i \in DOMAIN db
      <4>1. db[i].prev # None /\ db[i].prev \in RunIds /\ db'[i] = db[i] /\ i \in 1..n
        <5>1. db'[i] = db[i] /\ i \in 1..n
          BY <1>1, <2>5, <3>1
        <5>2. db[i] \in Run
          BY <1>1, <5>1
        <5> QED
          BY <5>1, <5>2 DEF Run
      <4>2. db[i].prev < i /\ db[db[i].prev].event = db[i].event
        BY <3>1, <4>1 DEF LinksStayInEvent, IsHead
      <4>3. db[i].prev \in DOMAIN db
        BY <1>1, <4>1, <4>2 DEF RunIds
      <4> QED
        BY <2>5, <4>1, <4>2, <4>3
    <3>2. CASE i = n + 1
      <4>1. db'[i].prev = PreviousRun(c) /\ db'[i].event = mEventId[c]
        BY <2>4, <3>2
      <4> QED
        BY <2>2, <2>5, <3>2, <4>1
    <3> QED
      BY <2>6, <3>1, <3>2
  <2>11. CompleteInv'
    <3> SUFFICES ASSUME failures = 0, NEW k \in Clients, NEW r \in DOMAIN db',
                        db'[r].event = mEventId[k]
                 PROVE  \/ r \in ToSet(rows[k]) \cup ToSet(notifs'[k])
                        \/ \E j \in loads[k] : ~j.read \/ r <= j.upto
      BY <1>2, <1>5 DEF CompleteInv, RunsOf
    <3>1. CASE r = n + 1
      BY <2>7, <3>1
    <3>2. CASE r \in DOMAIN db
      <4>1. r \in RunsOf(mEventId[k])
        BY <2>5, <3>2 DEF RunsOf
      <4> QED
        BY <2>7, <4>1 DEF CompleteInv
    <3> QED
      BY <2>6, <3>1, <3>2
  <2> QED
    BY <2>8, <2>9, <2>10, <2>11
<1> QED
  BY <1>4, <1>5 DEF createRun

LEMMA NextChain ==
  ASSUME ChainInv, [Next]_vars PROVE ChainInv'
<1>1. ASSUME NEW c \in Clients, setRuns(c) PROVE ChainInv'
  <2>1. PICK j \in loads[c] :
          /\ j.read
          /\ loads' = [loads EXCEPT ![c] = @ \ {j}]
          /\ \E list \in SetToSeqs(1..j.upto) :
             \E order \in updateRuns(rows[c], list, mEventId[c]) :
               rows' = [rows EXCEPT ![c] = order]
    BY <1>1 DEF setRuns
  <2>2. PICK list \in SetToSeqs(1..j.upto) :
          \E order \in updateRuns(rows[c], list, mEventId[c]) : rows' = [rows EXCEPT ![c] = order]
    BY <2>1
  <2>3. PICK order \in updateRuns(rows[c], list, mEventId[c]) : rows' = [rows EXCEPT ![c] = order]
    BY <2>2
  <2>4. /\ j.upto \in 0..MaxRuns /\ j.upto <= Len(db) /\ rows[c] \in Seq(RunIds)
        /\ DOMAIN db = 1..Len(db) /\ Len(db) \in Nat /\ MaxRuns \in Nat
    BY ChainAssumption DEF ChainInv, TypeOK, RowsInv, Load
  <2> DEFINE new == 1..j.upto
  <2>5. IsFiniteSet(new) /\ new \subseteq RunIds /\ new \subseteq DOMAIN db
    <3>1. new \subseteq RunIds /\ new \subseteq DOMAIN db
      BY <2>4 DEF RunIds
    <3>2. 0..MaxRuns \subseteq Int
      BY <2>4
    <3>3. IsFiniteSet(new)
      BY <2>4, <3>2, 1 \in Int, FS_Interval
    <3> QED
      BY <3>1, <3>3
  <2>6. list \in Seq(new) /\ ToSet(list) = new
    <3>1. list \in SetToSeqs(new)
      BY <2>2
    <3> HIDE DEF new
    <3> QED
      BY <2>5, <3>1, SetToSeqsElements
  <2>7. list \in Seq(RunIds)
    BY <2>5, <2>6, SeqMonotonic
  <2>8. \A r \in DOMAIN db : r <= j.upto => r \in new
    BY <2>4
  <2> HIDE DEF new
  <2>9. order \in Seq(RunIds) /\ ToSet(order) = ToSet(rows[c]) \cup {r \in new : db[r].event = mEventId[c]}
    BY <2>3, <2>4, <2>6, <2>7, UpdatesKeep
  <2>10. /\ loads' \in [Clients -> SUBSET Load] /\ loads'[c] = loads[c] \ {j}
         /\ \A k \in Clients \ {c} : loads'[k] = loads[k]
    BY <2>1 DEF ChainInv, TypeOK
  <2>11. UNCHANGED <<db, notifs, selections, failures, mEventId, adding>>
    BY <1>1 DEF setRuns
  <2>12. notifs' \in [Clients -> Seq(RunIds)]
    BY <2>11 DEF ChainInv, TypeOK
  <2>13. \A k \in Clients : loads'[k] \subseteq loads[k]
    BY <2>10
  <2>14. notifs' = notifs
    BY <2>11
  <2>15. \A i \in loads[c] : i \in loads'[c] \/ i = j
    BY <2>10
  <2>16. TableFollows(c, order, new)
    BY <2>1, <2>3, <2>5, <2>8, <2>9, <2>10, <2>11, <2>12, <2>13, <2>14, <2>15 DEF TableFollows
  <2> QED
    BY <2>16, TableStep
<1>2. ASSUME NEW c \in Clients, runNotification(c) PROVE ChainInv'
  <2> DEFINE h == Head(notifs[c])
  <2>1. /\ notifs[c] # <<>> /\ notifs' = [notifs EXCEPT ![c] = Tail(@)]
        /\ UNCHANGED <<db, loads, selections, failures, mEventId, adding>>
    BY <1>2 DEF runNotification
  <2>2. PICK order \in updateRun(rows[c], h, mEventId[c]) : rows' = [rows EXCEPT ![c] = order]
    BY <1>2 DEF runNotification
  <2>3. /\ notifs[c] \in Seq(RunIds) /\ rows[c] \in Seq(RunIds) /\ notifs \in [Clients -> Seq(RunIds)]
    BY DEF ChainInv, TypeOK
  <2>4. h \in RunIds /\ Tail(notifs[c]) \in Seq(RunIds)
    BY <2>1, <2>3, HeadTailProperties
  <2>5. h \in ToSet(notifs[c]) /\ ToSet(notifs[c]) = {h} \cup ToSet(Tail(notifs[c]))
    BY <2>1, <2>3, TailElements
  <2> HIDE DEF h
  <2>6. order \in Seq(RunIds) /\ ToSet(order) = ToSet(rows[c]) \cup {r \in {h} : db[r].event = mEventId[c]}
    BY <2>2, <2>3, <2>4, UpdateKeeps
  <2>7. /\ notifs' \in [Clients -> Seq(RunIds)] /\ notifs'[c] = Tail(notifs[c])
        /\ \A k \in Clients \ {c} : notifs'[k] = notifs[k]
    BY <2>1, <2>3, <2>4
  <2>8. {h} \subseteq DOMAIN db
    BY <2>5 DEF ChainInv, RowsInv
  <2>9. loads' \in [Clients -> SUBSET Load]
    BY <2>1 DEF ChainInv, TypeOK
  <2>10. \A k \in Clients : ToSet(notifs'[k]) \subseteq ToSet(notifs[k])
    BY <2>5, <2>7
  <2>11. \A r \in ToSet(notifs[c]) : r \in ToSet(notifs'[c]) \/ r \in {h}
    BY <2>5, <2>7
  <2>12. TableFollows(c, order, {h})
    BY <2>1, <2>2, <2>6, <2>7, <2>8, <2>9, <2>10, <2>11 DEF TableFollows
  <2> QED
    BY <2>12, TableStep
<1>3. ASSUME NEW c \in Clients, itemDataChanged(c) PROVE ChainInv'
  <2>1. PICK r \in ToSet(rows[c]) : rows' = [rows EXCEPT ![c] = Replace(@, r)]
    BY <1>3 DEF itemDataChanged
  <2>2. UNCHANGED <<db, notifs, loads, selections, failures, mEventId, adding>>
    BY <1>3 DEF itemDataChanged
  <2>3. rows[c] \in Seq(RunIds) /\ rows \in [Clients -> Seq(RunIds)]
    BY DEF ChainInv, TypeOK
  <2> DEFINE order == Replace(rows[c], r)
  <2>4. order \in Seq(RunIds) /\ ToSet(order) = ToSet(rows[c])
    BY <2>3, ReplaceKeeps
  <2>5. rows' = [rows EXCEPT ![c] = order]
    BY <2>1, <2>3
  <2> HIDE DEF order
  <2>6. ToSet(order) = ToSet(rows[c]) \cup {x \in {} : db[x].event = mEventId[c]}
    BY <2>4
  <2>7. notifs' \in [Clients -> Seq(RunIds)] /\ loads' \in [Clients -> SUBSET Load]
    BY <2>2 DEF ChainInv, TypeOK
  <2>8. TableFollows(c, order, {})
    BY <2>2, <2>4, <2>5, <2>6, <2>7 DEF TableFollows
  <2> QED
    BY <2>8, TableStep
<1>4. ASSUME NEW c \in Clients, addClicked(c) PROVE ChainInv'
  <2>1. PICK n \in 1..MaxSelected : adding' = [adding EXCEPT ![c] = n]
    BY <1>4 DEF addClicked
  <2>2. UNCHANGED <<db, notifs, loads, selections, failures, mEventId, rows>> /\ mEventId[c] # None
    BY <1>4 DEF addClicked
  <2>3. adding' \in [Clients -> 0..MaxSelected] /\ \A k \in Clients \ {c} : adding'[k] = adding[k]
    BY <2>1, ChainAssumption DEF ChainInv, TypeOK
  <2>4. TypeOK'
    BY <2>2, <2>3 DEF ChainInv, TypeOK
  <2>5. RowsInv'
    BY <2>2, <2>3 DEF ChainInv, RowsInv
  <2>6. LinksStayInEvent' /\ CompleteInv'
    BY <2>2 DEF ChainInv, LinksStayInEvent, IsHead, CompleteInv, RunsOf
  <2> QED
    BY <2>4, <2>5, <2>6 DEF ChainInv
<1>5. CASE UNCHANGED vars
  BY <1>5 DEF ChainInv, TypeOK, RowsInv, LinksStayInEvent, IsHead, CompleteInv, RunsOf, vars
<1> QED
  BY <1>1, <1>2, <1>3, <1>4, <1>5, EventChangedStep, ReadRunsStep, CreateRunStep DEF Next

(* In every state that can be reached, ChainInv holds.                     *)
THEOREM ChainInvariant == Spec => []ChainInv
BY InitChain, NextChain, PTL DEF Spec

(* Every variable keeps its type, whatever place the sort gives a row.     *)
THEOREM TypeCorrect == Spec => []TypeOK
<1>1. ChainInv => TypeOK
  BY DEF ChainInv
<1> QED
  BY <1>1, ChainInvariant, PTL

(* addClicked reads the link of a new run from a table that may lag behind *)
(* the database and be in any order: it is still an earlier run of the     *)
(* same event.                                                             *)
THEOREM LinksLeadBack == Spec => []LinksStayInEvent
<1>1. ChainInv => LinksStayInEvent
  BY DEF ChainInv
<1> QED
  BY <1>1, ChainInvariant, PTL

(* A second list of an event is only started by a client that does not     *)
(* have the runs of the event yet.                                         *)
THEOREM UpToDateMeansLinked == Spec => UpToDateClientsLink
<1>1. ASSUME ChainInv, [Next]_vars, NEW c \in Clients, failures = 0, UpToDate(c),
             adding'[c] < adding[c], db' # db, Last(db').prev = None
      PROVE  RunsOf(mEventId[c]) = {}
  <2>1. createRun(c)
    <3>1. ASSUME NEW k \in Clients, ~ createRun(c) PROVE ~ createRun(k)
      <4>1. k # c /\ createRun(k) => adding'[c] = adding[c]
        BY <1>1 DEF createRun, ChainInv, TypeOK
      <4>2. adding[c] \in 0..MaxSelected /\ MaxSelected \in Nat
        BY <1>1, ChainAssumption DEF ChainInv, TypeOK
      <4>3. ~ (adding[c] < adding[c])
        BY <4>2
      <4> QED
        BY <1>1, <3>1, <4>1, <4>3
    <3>2. ASSUME NEW k \in Clients, NEW e \in Events PROVE ~ eventChanged(k, e)
      BY <1>1 DEF eventChanged
    <3>3. ASSUME NEW k \in Clients
          PROVE  ~ (ReadRuns(k) \/ setRuns(k) \/ runNotification(k) \/ itemDataChanged(k)
                    \/ addClicked(k))
      BY <1>1 DEF ReadRuns, setRuns, runNotification, itemDataChanged, addClicked
    <3> QED
      BY <1>1, <3>1, <3>2, <3>3 DEF Next, vars
  <2>2. db \in Seq(Run) /\ rows[c] \in Seq(RunIds) /\ None \notin RunIds
    <3>1. db \in Seq(Run) /\ rows[c] \in Seq(RunIds)
      BY <1>1 DEF ChainInv, TypeOK
    <3>2. MaxRuns \in Nat /\ None \notin Nat
      BY ChainAssumption
    <3>3. RunIds \subseteq Nat
      BY <3>2 DEF RunIds
    <3> QED
      BY <3>1, <3>2, <3>3
  <2> DEFINE new == [event |-> mEventId[c], prev |-> PreviousRun(c)]
  <2>3. db' = Append(db, new)
    BY <1>1, <2>1 DEF createRun
  <2>4. Last(db') = new
    <3> HIDE DEF new
    <3>1. db \in Seq(Run \cup {new})
      BY <2>2, SeqMonotonic
    <3> QED
      BY <2>3, <3>1, AppendProperties DEF Last
  <2>5. PreviousRun(c) = None
    BY <1>1, <2>4
  <2>6. rows[c] = <<>>
    <3>1. rows[c] # <<>> => rows[c][Len(rows[c])] \in RunIds
      BY <2>2, EmptySeq
    <3> QED
      BY <2>2, <2>5, <3>1 DEF PreviousRun, Last
  <2>7. ToSet(rows[c]) = {} /\ ToSet(notifs[c]) = {} /\ loads[c] = {}
    BY <1>1, <2>6 DEF UpToDate, ToSet
  <2> QED
    BY <1>1, <2>7 DEF ChainInv, CompleteInv
<1>2. ChainInv /\ [Next]_vars =>
        [\A c \in Clients :
           /\ failures = 0 /\ UpToDate(c)
           /\ adding'[c] < adding[c] /\ db' # db
           /\ Last(db').prev = None
           => RunsOf(mEventId[c]) = {}]_vars
  BY <1>1
<1> QED
  BY <1>2, ChainInvariant, PTL DEF Spec, UpToDateClientsLink
=============================================================================
