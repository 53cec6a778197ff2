-------------------------- MODULE TimingInputProofs --------------------------
(***************************************************************************)
(* Proofs about TimingInput: the codec accepts the lines of all that came, *)
(* wherever Qt cut it, and what a loss can do.                             *)
(***************************************************************************)
EXTENDS TimingInput, FunctionTheorems, FiniteSetTheorems, SequenceTheorems,
        WellFoundedInduction, TLAPS

-----------------------------------------------------------------------------
(* Numbers in ascending order.                                             *)

(* A set of numbers that is not empty has a least one.  This takes the     *)
(* place of induction: a property of numbers that fails somewhere has a    *)
(* least number where it fails.                                            *)
LEMMA LeastNumber ==
  ASSUME NEW S \in SUBSET Nat, S # {}
  PROVE  \E x \in S : \A y \in S : x <= y
<1> DEFINE Less == {ss \in Nat \X Nat : ss[1] < ss[2]}
<1>1. IsWellFoundedOn(Less, Nat)
  BY NatLessThanWellFounded DEF OpToRel
<1>2. \A x, y \in Nat : y < x => <<y, x>> \in Less
  OBVIOUS
<1> HIDE DEF Less
<1>3. PICK x \in S : \A y \in S : ~ (<<y, x>> \in Less)
  BY <1>1, WFMin
<1>4. \A y \in S : ~ (y < x)
  BY <1>2, <1>3
<1> QED
  BY <1>4

(* The greatest of some places, or 0 if there is none.                     *)
LEMMA MaxOrZero ==
  ASSUME NEW n \in Nat, NEW I \in SUBSET (1..n)
  PROVE  /\ Max({0} \cup I) \in 0..n
         /\ Max({0} \cup I) = 0 \/ Max({0} \cup I) \in I
         /\ \A i \in I : i <= Max({0} \cup I)
<1> DEFINE J == {0} \cup I
           D == {d \in Nat : n - d \in J}
<1>1. \A i \in J : i \in 0..n /\ n - i \in Nat /\ n - (n - i) = i
  OBVIOUS
<1>2. D \in SUBSET Nat /\ \A i \in J : n - i \in D
  BY <1>1
<1>3. \A d \in D : n - d \in J /\ d \in Nat
  OBVIOUS
<1>4. 0 \in J
  OBVIOUS
<1>5. D # {}
  BY <1>2, <1>4
<1> HIDE DEF D, J
<1>6. PICK d \in D : \A y \in D : d <= y
  BY <1>2, <1>5, LeastNumber
<1>7. \A j \in J : n - d >= j
  BY <1>1, <1>2, <1>3, <1>6
<1>8. Max(J) \in J /\ \A i \in J : Max(J) >= i
  BY <1>3, <1>6, <1>7 DEF Max
<1>9. Max(J) \in 0..n
  BY <1>1, <1>8
<1> QED
  BY <1>1, <1>8, <1>9 DEF J

(* Sets of which each has one element more than some other have all        *)
(* numbers of elements: what Rank and Position count.                      *)
LEMMA RanksCount ==
  ASSUME NEW S, IsFiniteSet(S), NEW D \in [S -> SUBSET S],
         \A x \in S : x \in D[x],
         \A x, y \in S : x # y => \/ D[x] \subseteq D[y] /\ y \notin D[x]
                                  \/ D[y] \subseteq D[x] /\ x \notin D[y]
  PROVE  /\ Cardinality(S) \in Nat
         /\ \A x \in S : Cardinality(D[x]) \in 1..Cardinality(S)
         /\ \A x, y \in S : x # y /\ D[x] \subseteq D[y] => Cardinality(D[x]) < Cardinality(D[y])
         /\ \A k \in 1..Cardinality(S) : \E x \in S : Cardinality(D[x]) = k
<1>1. Cardinality(S) \in Nat
  BY FS_CardinalityType
<1>2. ASSUME NEW x \in S PROVE IsFiniteSet(D[x]) /\ Cardinality(D[x]) \in 1..Cardinality(S)
  <2>1. IsFiniteSet(D[x]) /\ Cardinality(D[x]) <= Cardinality(S)
    BY FS_Subset
  <2>2. Cardinality(D[x]) \in Nat
    BY <2>1, FS_CardinalityType
  <2>3. Cardinality(D[x]) # 0
    BY <2>1, FS_EmptySet
  <2> QED
    BY <1>1, <2>1, <2>2, <2>3
<1>3. ASSUME NEW x \in S, NEW y \in S, x # y, D[x] \subseteq D[y]
      PROVE  Cardinality(D[x]) < Cardinality(D[y])
  <2>1. y \in D[y] /\ y \notin D[x] /\ D[x] \in SUBSET D[y]
    BY <1>3
  <2>2. Cardinality(D[x]) <= Cardinality(D[y]) /\ Cardinality(D[x]) # Cardinality(D[y])
    BY <1>2, <2>1, FS_Subset
  <2> QED
    BY <1>1, <1>2, <2>2
<1> DEFINE n == Cardinality(S)
           f == [x \in S |-> Cardinality(D[x])]
<1>4. f \in [S -> 1..n] /\ \A x \in S : f[x] = Cardinality(D[x])
  BY <1>2
<1>5. \A x, y \in S : f[x] = f[y] => x = y
  <2>1. ASSUME NEW x \in S, NEW y \in S, x # y PROVE f[x] # f[y]
    <3>1. f[x] < f[y] \/ f[y] < f[x]
      BY <1>3, <1>4, <2>1
    <3> QED
      BY <1>1, <1>4, <3>1
  <2> QED
    BY <2>1
<1> HIDE DEF f
<1>6. f \in Injection(S, 1..n)
  BY <1>4, <1>5 DEF Injection, IsInjective
<1>7. IsFiniteSet(1..n) /\ Cardinality(1..n) = n
  BY <1>1, FS_Interval
<1>8. f \in Surjection(S, 1..n)
  BY <1>6, <1>7, FS_Injection
<1>9. \A k \in 1..n : \E x \in S : f[x] = k
  BY <1>8 DEF Surjection
<1> QED
  BY <1>1, <1>2, <1>3, <1>4, <1>9

(* InOrder lists the numbers, each once and the smaller ones before.       *)
LEMMA InOrderLists ==
  ASSUME NEW I \in SUBSET Nat, IsFiniteSet(I)
  PROVE  /\ Cardinality(I) \in Nat
         /\ InOrder(I) \in [1..Cardinality(I) -> I]
         /\ \A k, l \in 1..Cardinality(I) : k < l => InOrder(I)[k] < InOrder(I)[l]
         /\ \A i \in I : \E k \in 1..Cardinality(I) : InOrder(I)[k] = i
         /\ \A k \in 1..Cardinality(I) : Rank(I, InOrder(I)[k]) = k
         /\ \A i, j \in I : Rank(I, i) = Rank(I, j) => i = j
<1> DEFINE n == Cardinality(I)
           D == [i \in I |-> {j \in I : j <= i}]
<1>1. D \in [I -> SUBSET I] /\ \A x \in I : x \in D[x]
  OBVIOUS
<1>2. ASSUME NEW x \in I, NEW y \in I, x < y PROVE D[x] \subseteq D[y] /\ y \notin D[x]
  <2>1. x \in Nat /\ y \in Nat /\ \A j \in I : j \in Nat
    OBVIOUS
  <2>2. \A j \in I : j <= x => j <= y
    BY <1>2, <2>1
  <2>3. ~(y <= x)
    BY <1>2, <2>1
  <2>4. D[x] = {j \in I : j <= x} /\ D[y] = {j \in I : j <= y}
    OBVIOUS
  <2> QED
    BY <2>2, <2>3, <2>4
<1>3. \A x, y \in I : x # y => x < y \/ y < x
  OBVIOUS
<1>4. \A i \in I : Rank(I, i) = Cardinality(D[i])
  BY DEF Rank
<1> HIDE DEF D
<1>5. \A x, y \in I : x # y => \/ D[x] \subseteq D[y] /\ y \notin D[x]
                               \/ D[y] \subseteq D[x] /\ x \notin D[y]
  BY <1>2, <1>3
<1>6. /\ n \in Nat
      /\ \A x \in I : Cardinality(D[x]) \in 1..n
      /\ \A x, y \in I : x # y /\ D[x] \subseteq D[y] => Cardinality(D[x]) < Cardinality(D[y])
      /\ \A k \in 1..n : \E x \in I : Cardinality(D[x]) = k
  BY <1>1, <1>5, RanksCount
<1>7. /\ \A x \in I : Rank(I, x) \in 1..n
      /\ \A x, y \in I : x < y => Rank(I, x) < Rank(I, y)
      /\ \A k \in 1..n : \E x \in I : Rank(I, x) = k
  <2>1. \A x, y \in I : x < y => x # y
    OBVIOUS
  <2> QED
    BY <1>2, <1>4, <1>6, <2>1
<1>8. \A k \in 1..n : InOrder(I)[k] \in I /\ Rank(I, InOrder(I)[k]) = k
  BY <1>7 DEF InOrder
<1>9. InOrder(I) \in [1..n -> I]
  BY <1>8 DEF InOrder
<1>10. \A i, j \in I : Rank(I, i) = Rank(I, j) => i = j
  <2>1. ASSUME NEW i \in I, NEW j \in I, i # j PROVE Rank(I, i) # Rank(I, j)
    <3>1. Rank(I, i) < Rank(I, j) \/ Rank(I, j) < Rank(I, i)
      BY <1>3, <1>7, <2>1
    <3> QED
      BY <1>7, <3>1
  <2> QED
    BY <2>1
<1>11. ASSUME NEW k \in 1..n, NEW l \in 1..n, k < l PROVE InOrder(I)[k] < InOrder(I)[l]
  <2> DEFINE x == InOrder(I)[k]
             y == InOrder(I)[l]
  <2>1. x \in I /\ y \in I /\ Rank(I, x) = k /\ Rank(I, y) = l
    BY <1>8
  <2> HIDE DEF x, y
  <2>2. x # y /\ ~(y < x)
    BY <1>7, <1>11, <2>1
  <2>3. x < y
    BY <1>3, <2>1, <2>2
  <2> QED
    BY <2>3 DEF x, y
<1>12. ASSUME NEW i \in I PROVE \E k \in 1..n : InOrder(I)[k] = i
  BY <1>7, <1>8, <1>10
<1> QED
  BY <1>6, <1>8, <1>9, <1>10, <1>11, <1>12

(* There is one way to do that.                                            *)
LEMMA InOrderIsOne ==
  ASSUME NEW I \in SUBSET Nat, NEW n \in Nat, NEW s \in [1..n -> I],
         \A k, l \in 1..n : k < l => s[k] < s[l],
         \A i \in I : \E k \in 1..n : s[k] = i
  PROVE  IsFiniteSet(I) /\ Cardinality(I) = n /\ InOrder(I) = s
<1>0. \A k \in 1..n : s[k] \in I /\ s[k] \in Nat
  <2>1. ASSUME NEW k \in 1..n PROVE s[k] \in I
    OBVIOUS
  <2> QED
    BY <2>1
<1>1. \A k, l \in 1..n : s[k] = s[l] => k = l
  <2>1. ASSUME NEW k \in 1..n, NEW l \in 1..n, k # l PROVE s[k] # s[l]
    <3>1. s[k] \in Nat /\ s[l] \in Nat /\ (k < l \/ l < k)
      BY <1>0, <2>1
    <3>2. s[k] < s[l] \/ s[l] < s[k]
      BY <3>1
    <3> QED
      BY <3>1, <3>2
  <2> QED
    BY <2>1
<1>2. s \in Bijection(1..n, I)
  BY <1>1 DEF Bijection, Injection, Surjection, IsInjective
<1>3. IsFiniteSet(1..n) /\ Cardinality(1..n) = n
  BY FS_Interval
<1>4. IsFiniteSet(I) /\ Cardinality(I) = n
  BY <1>2, <1>3, FS_Bijection DEF ExistsBijection
<1>5. ASSUME NEW k \in 1..n PROVE Rank(I, s[k]) = k
  <2> DEFINE J == {j \in I : j <= s[k]}
             r == [i \in 1..k |-> s[i]]
  <2>1. \A i \in 1..k : i \in 1..n /\ s[i] \in I /\ s[i] \in Nat /\ s[k] \in Nat /\ s[i] <= s[k]
    <3>1. ASSUME NEW i \in 1..k PROVE i \in 1..n /\ s[i] <= s[k]
      <4>1. i \in 1..n /\ (i < k \/ i = k) /\ s[i] \in Nat /\ s[k] \in Nat
        BY <1>0
      <4>2. i < k => s[i] < s[k]
        BY <4>1
      <4> QED
        BY <4>1, <4>2
    <3> QED
      BY <3>1
  <2>2. r \in [1..k -> J]
    BY <2>1
  <2>3. \A i, j \in 1..k : r[i] = r[j] => i = j
    BY <1>1, <2>1
  <2>4. ASSUME NEW j \in J PROVE \E i \in 1..k : r[i] = j
    <3>1. PICK i \in 1..n : s[i] = j
      OBVIOUS
    <3>2. s[i] <= s[k] /\ s[i] \in Nat /\ s[k] \in Nat
      BY <3>1
    <3>3. ~(k < i)
      BY <3>2
    <3>4. i \in 1..k
      BY <3>3
    <3> QED
      BY <3>1, <3>4
  <2> HIDE DEF r
  <2>5. r \in Bijection(1..k, J)
    BY <2>2, <2>3, <2>4 DEF Bijection, Injection, Surjection, IsInjective
  <2>6. IsFiniteSet(1..k) /\ Cardinality(1..k) = k
    BY FS_Interval
  <2>7. Cardinality(J) = k
    BY <2>5, <2>6, FS_Bijection DEF ExistsBijection
  <2> QED
    BY <2>7 DEF Rank
<1>6. /\ InOrder(I) \in [1..n -> I]
      /\ \A k \in 1..n : Rank(I, InOrder(I)[k]) = k
      /\ \A i, j \in I : Rank(I, i) = Rank(I, j) => i = j
  BY <1>4, InOrderLists
<1>7. \A k \in 1..n : InOrder(I)[k] = s[k]
  BY <1>5, <1>6
<1> QED
  BY <1>4, <1>6, <1>7

-----------------------------------------------------------------------------
(* The bytes and the order they are sent in.                               *)
LEMMA ByteFacts ==
  /\ EXPECTED_SIZE \in Nat /\ EXPECTED_SIZE > 0
  /\ DOMAIN Messages \subseteq Nat /\ IsFiniteSet(DOMAIN Messages)
  /\ \A m \in DOMAIN Messages : /\ Messages[m].size \in Nat /\ Messages[m].size > 0
                                /\ Messages[m].type \in {"time", "Z"}
  /\ \A m \in DOMAIN Messages : \A i \in 1..(Messages[m].size + 1) : <<m, i>> \in AllBytes
  /\ \A b \in AllBytes : /\ b[1] \in DOMAIN Messages /\ b[1] \in Nat
                         /\ b[2] \in 1..(Messages[b[1]].size + 1) /\ b[2] \in Nat
                         /\ b = <<b[1], b[2]>>
  /\ IsFiniteSet(AllBytes)
<1> DEFINE n == Len(Messages)
           Piece(m) == {<<m, i>> : i \in 1..(Messages[m].size + 1)}
           Pieces == {Piece(m) : m \in DOMAIN Messages}
<1>1. /\ EXPECTED_SIZE \in Nat /\ EXPECTED_SIZE > 0
      /\ n \in Nat /\ DOMAIN Messages = 1..n
      /\ Messages \in [1..n -> [size : Nat \ {0}, type : {"time", "Z"}]]
  <2>1. EXPECTED_SIZE \in Nat /\ EXPECTED_SIZE > 0
    BY TimingAssumption
  <2>2. Messages \in Seq([size : Nat \ {0}, type : {"time", "Z"}])
    BY TimingAssumption
  <2> QED
    BY <2>1, <2>2, LenProperties
<1>2. DOMAIN Messages \subseteq Nat /\ IsFiniteSet(DOMAIN Messages)
  BY <1>1, FS_Interval
<1>3. ASSUME NEW m \in DOMAIN Messages
      PROVE  /\ Messages[m].size \in Nat /\ Messages[m].size > 0
             /\ Messages[m].type \in {"time", "Z"}
  <2>1. Messages[m] \in [size : Nat \ {0}, type : {"time", "Z"}]
    BY <1>1
  <2> QED
    BY <2>1
<1>4. AllBytes = UNION Pieces
  BY DEF AllBytes
<1>5. \A m \in DOMAIN Messages : \A i \in 1..(Messages[m].size + 1) : <<m, i>> \in AllBytes
  BY <1>4
<1>6. ASSUME NEW b \in AllBytes
      PROVE  /\ b[1] \in DOMAIN Messages /\ b[1] \in Nat
             /\ b[2] \in 1..(Messages[b[1]].size + 1) /\ b[2] \in Nat
             /\ b = <<b[1], b[2]>>
  <2>1. PICK m \in DOMAIN Messages : b \in Piece(m)
    BY <1>4
  <2>2. PICK i \in 1..(Messages[m].size + 1) : b = <<m, i>>
    BY <2>1
  <2>3. b[1] = m /\ b[2] = i
    BY <2>2
  <2>4. i \in Nat /\ m \in Nat
    BY <1>2, <1>3
  <2> QED
    BY <2>2, <2>3, <2>4
<1>7. ASSUME NEW m \in DOMAIN Messages PROVE IsFiniteSet(Piece(m))
  <2> DEFINE k == Messages[m].size + 1
             f == [i \in 1..k |-> <<m, i>>]
  <2>1. k \in Int /\ IsFiniteSet(1..k)
    BY <1>3, FS_Interval
  <2>2. f \in Surjection(1..k, Piece(m))
    BY DEF Surjection
  <2> QED
    BY <2>1, <2>2, FS_Surjection
<1> DEFINE g == [m \in DOMAIN Messages |-> Piece(m)]
<1>8. g \in Surjection(DOMAIN Messages, Pieces)
  BY DEF Surjection
<1>9. IsFiniteSet(Pieces)
  BY <1>2, <1>8, FS_Surjection
<1>10. \A T \in Pieces : IsFiniteSet(T)
  BY <1>7
<1> HIDE DEF Pieces, Piece, g, n
<1>11. IsFiniteSet(AllBytes)
  BY <1>4, <1>9, <1>10, FS_UNION
<1> QED
  BY <1>1, <1>2, <1>3, <1>5, <1>6, <1>11

LEMMA ByteOrder ==
  /\ \A b \in AllBytes : ~SentBefore(b, b)
  /\ \A b, c \in AllBytes : SentBefore(b, c) => ~SentBefore(c, b)
  /\ \A b, c \in AllBytes : b # c => SentBefore(b, c) \/ SentBefore(c, b)
  /\ \A b, c, d \in AllBytes : SentBefore(b, c) /\ SentBefore(c, d) => SentBefore(b, d)
<1>1. \A b \in AllBytes : b[1] \in Nat /\ b[2] \in Nat /\ b = <<b[1], b[2]>>
  BY ByteFacts
<1>2. \A b, c \in AllBytes : b[1] = c[1] /\ b[2] = c[2] => b = c
  BY <1>1
<1>3. ASSUME NEW b \in AllBytes, NEW c \in AllBytes
      PROVE  /\ ~SentBefore(b, b)
             /\ SentBefore(b, c) => ~SentBefore(c, b)
             /\ b # c => SentBefore(b, c) \/ SentBefore(c, b)
  BY <1>1, <1>2 DEF SentBefore
<1>4. ASSUME NEW b \in AllBytes, NEW c \in AllBytes, NEW d \in AllBytes,
             SentBefore(b, c), SentBefore(c, d)
      PROVE  SentBefore(b, d)
  BY <1>1, <1>4 DEF SentBefore
<1> QED
  BY <1>3, <1>4

(* Nothing is sent between a byte and the next one of its message, nor     *)
(* between a carriage return and the first byte of the next message.       *)
LEMMA NextByte ==
  /\ \A m \in DOMAIN Messages : \A i \in 1..Messages[m].size : \A b \in AllBytes :
       ~(SentBefore(<<m, i>>, b) /\ SentBefore(b, <<m, i + 1>>))
  /\ \A m \in DOMAIN Messages : m > 1 => \A b \in AllBytes :
       ~(SentBefore(<<m - 1, Messages[m - 1].size + 1>>, b) /\ SentBefore(b, <<m, 1>>))
  /\ 1 \in DOMAIN Messages => \A b \in AllBytes : ~SentBefore(b, <<1, 1>>)
<1>0. \A b \in AllBytes : /\ b[1] \in DOMAIN Messages /\ b[1] \in Nat
                          /\ b[2] \in 1..(Messages[b[1]].size + 1) /\ b[2] \in Nat
  BY ByteFacts
<1>1. /\ DOMAIN Messages \subseteq Nat /\ \A m \in DOMAIN Messages : Messages[m].size \in Nat
      /\ \A m \in DOMAIN Messages : m >= 1
  <2>1. DOMAIN Messages = 1..Len(Messages) /\ Len(Messages) \in Nat
    BY TimingAssumption
  <2> QED
    BY <2>1, ByteFacts
<1>2. ASSUME NEW m \in DOMAIN Messages, NEW i \in 1..Messages[m].size, NEW b \in AllBytes,
             SentBefore(<<m, i>>, b), SentBefore(b, <<m, i + 1>>)
      PROVE  FALSE
  <2>1. m \in Nat /\ i \in Nat /\ b[1] \in Nat /\ b[2] \in Nat
    BY <1>0, <1>1
  <2>2. /\ m < b[1] \/ (m = b[1] /\ i < b[2])
        /\ b[1] < m \/ (b[1] = m /\ b[2] < i + 1)
    BY <1>2 DEF SentBefore
  <2> QED
    BY <2>1, <2>2
<1>3. ASSUME NEW m \in DOMAIN Messages, m > 1, NEW b \in AllBytes,
             SentBefore(<<m - 1, Messages[m - 1].size + 1>>, b), SentBefore(b, <<m, 1>>)
      PROVE  FALSE
  <2>1. m \in Nat /\ b[1] \in Nat /\ b[2] \in Nat /\ b[2] >= 1
    BY <1>0, <1>1
  <2>2. /\ m - 1 < b[1] \/ (m - 1 = b[1] /\ Messages[m - 1].size + 1 < b[2])
        /\ b[1] < m \/ (b[1] = m /\ b[2] < 1)
    BY <1>3 DEF SentBefore
  <2>3. b[1] = m - 1 /\ Messages[m - 1].size + 1 < b[2]
    BY <2>1, <2>2
  <2>4. Messages[b[1]].size \in Nat /\ b[2] <= Messages[b[1]].size + 1
    BY <1>0, <1>1
  <2>5. Messages[m - 1].size = Messages[b[1]].size
    BY <2>3
  <2> QED
    BY <2>1, <2>3, <2>4, <2>5
<1>4. ASSUME NEW b \in AllBytes, SentBefore(b, <<1, 1>>)
      PROVE  FALSE
  <2>1. b[1] \in Nat /\ b[1] >= 1 /\ b[2] \in Nat /\ b[2] >= 1
    BY <1>0, <1>1
  <2>2. b[1] < 1 \/ (b[1] = 1 /\ b[2] < 1)
    BY <1>4 DEF SentBefore
  <2> QED
    BY <2>1, <2>2
<1> QED
  BY <1>2, <1>3, <1>4

-----------------------------------------------------------------------------
(* What is sent, and what is read from a file, is in that order.           *)
Increasing(s) == \A j, k \in DOMAIN s : j < k => SentBefore(s[j], s[k])

LEMMA StreamInOrder ==
  /\ Stream \in Seq(AllBytes) /\ Len(Stream) \in Nat /\ DOMAIN Stream = 1..Len(Stream)
  /\ Increasing(Stream)
  /\ \A b \in AllBytes : Position(b) \in 1..Len(Stream)
  /\ \A b, c \in AllBytes : Position(b) < Position(c) => SentBefore(b, c)
  /\ \A n \in DOMAIN Stream : Stream[n] \in AllBytes /\ Position(Stream[n]) = n
<1> DEFINE N == Cardinality(AllBytes)
           D == [b \in AllBytes |-> {c \in AllBytes : ~SentBefore(b, c)}]
<1>1. D \in [AllBytes -> SUBSET AllBytes]
  OBVIOUS
<1>2. \A b \in AllBytes : Position(b) = Cardinality(D[b])
  BY DEF Position
<1>3. \A b \in AllBytes : b \in D[b]
  BY ByteOrder
<1>4. \A b, c \in AllBytes : SentBefore(b, c) => D[b] \subseteq D[c] /\ c \notin D[b]
  BY ByteOrder
<1> HIDE DEF D
<1>5. \A b, c \in AllBytes : b # c => \/ D[b] \subseteq D[c] /\ c \notin D[b]
                                      \/ D[c] \subseteq D[b] /\ b \notin D[c]
  BY <1>4, ByteOrder
<1>6. /\ N \in Nat
      /\ \A b \in AllBytes : Cardinality(D[b]) \in 1..N
      /\ \A b, c \in AllBytes : b # c /\ D[b] \subseteq D[c] => Cardinality(D[b]) < Cardinality(D[c])
      /\ \A n \in 1..N : \E b \in AllBytes : Cardinality(D[b]) = n
  BY <1>1, <1>3, <1>5, ByteFacts, RanksCount
<1>7. /\ \A b \in AllBytes : Position(b) \in 1..N /\ Position(b) \in Nat
      /\ \A b, c \in AllBytes : SentBefore(b, c) => Position(b) < Position(c)
      /\ \A n \in 1..N : \E b \in AllBytes : Position(b) = n
  <2>1. \A b, c \in AllBytes : SentBefore(b, c) => b # c
    BY ByteOrder
  <2> QED
    BY <1>2, <1>4, <1>6, <2>1
<1>8. \A n \in 1..N : Stream[n] \in AllBytes /\ Position(Stream[n]) = n
  BY <1>7 DEF Stream
<1>9. Stream \in [1..N -> AllBytes]
  BY <1>8 DEF Stream
<1>10. Stream \in Seq(AllBytes) /\ Len(Stream) = N /\ DOMAIN Stream = 1..N
  BY <1>6, <1>9, IsASeq, LenProperties
<1>11. \A b, c \in AllBytes : Position(b) < Position(c) => SentBefore(b, c)
  <2>1. ASSUME NEW b \in AllBytes, NEW c \in AllBytes, Position(b) < Position(c)
        PROVE  SentBefore(b, c)
    <3>1. b # c /\ ~(Position(c) < Position(b))
      BY <1>7, <2>1
    <3> QED
      BY <1>7, <3>1, ByteOrder
  <2> QED
    BY <2>1
<1>12. Increasing(Stream)
  <2>1. ASSUME NEW j \in 1..N, NEW k \in 1..N, j < k PROVE SentBefore(Stream[j], Stream[k])
    BY <1>8, <1>11, <2>1
  <2> QED
    BY <1>10, <2>1 DEF Increasing
<1> QED
  BY <1>6, <1>7, <1>8, <1>10, <1>11, <1>12

LEMMA FileInOrder ==
  FileContents \in Seq(AllBytes) /\ Increasing(FileContents)
<1> DEFINE kept == {n \in DOMAIN Stream : ~CR(Stream[n])}
           text == [k \in 1..Cardinality(kept) |-> Stream[InOrder(kept)[k]]]
<1>1. kept \in SUBSET Nat /\ IsFiniteSet(kept)
  <2>1. DOMAIN Stream \subseteq Nat /\ IsFiniteSet(DOMAIN Stream)
    BY StreamInOrder, FS_Interval
  <2> QED
    BY <2>1, FS_Subset
<1>2. \A n \in kept : n \in DOMAIN Stream
  OBVIOUS
<1>3. FileContents = <<>> \/ FileContents = text \/ FileContents = Stream
  BY DEF FileContents
<1> HIDE DEF kept
<1>4. /\ Cardinality(kept) \in Nat
      /\ InOrder(kept) \in [1..Cardinality(kept) -> kept]
      /\ \A k, l \in 1..Cardinality(kept) : k < l => InOrder(kept)[k] < InOrder(kept)[l]
  BY <1>1, InOrderLists
<1>5. \A k \in 1..Cardinality(kept) : InOrder(kept)[k] \in DOMAIN Stream
  BY <1>2, <1>4
<1>6. \A k \in 1..Cardinality(kept) : text[k] = Stream[InOrder(kept)[k]] /\ text[k] \in AllBytes
  BY <1>5, StreamInOrder
<1>7. text \in Seq(AllBytes) /\ DOMAIN text = 1..Cardinality(kept)
  BY <1>4, <1>6, IsASeq
<1>8. Increasing(text)
  <2>1. ASSUME NEW j \in 1..Cardinality(kept), NEW k \in 1..Cardinality(kept), j < k
        PROVE  SentBefore(text[j], text[k])
    BY <1>4, <1>5, <1>6, <2>1, StreamInOrder DEF Increasing
  <2> QED
    BY <1>7, <2>1 DEF Increasing
<1>9. <<>> \in Seq(AllBytes) /\ Increasing(<<>>)
  BY DEF Increasing
<1> QED
  BY <1>3, <1>7, <1>8, <1>9, StreamInOrder

-----------------------------------------------------------------------------
(* Cutting into lines.                                                     *)
Previous(bytes, e) == Max({0} \cup {d \in Ends(bytes) : d < e})

LastEnd(bytes) == Max({0} \cup Ends(bytes))

Kept(c, bytes) == {e \in Ends(bytes) : Accepts(c, Line(bytes, e))}

LEMMA TextFacts ==
  ASSUME NEW s \in Seq(AllBytes)
  PROVE  /\ Len(s) \in Nat /\ DOMAIN s = 1..Len(s) /\ \A i \in 1..Len(s) : s[i] \in AllBytes
         /\ Ends(s) \subseteq 1..Len(s) /\ Ends(s) \subseteq Nat /\ IsFiniteSet(Ends(s))
         /\ \A j \in Ends(s) : CR(s[j])
<1>1. Len(s) \in Nat /\ DOMAIN s = 1..Len(s) /\ \A i \in 1..Len(s) : s[i] \in AllBytes
  BY LenProperties
<1>2. Ends(s) \in SUBSET (1..Len(s)) /\ 1..Len(s) \subseteq Nat /\ IsFiniteSet(1..Len(s))
  BY <1>1, FS_Interval DEF Ends
<1> QED
  BY <1>1, <1>2, FS_Subset DEF Ends

(* A part of what came.                                                    *)
LEMMA PartFacts ==
  ASSUME NEW s \in Seq(AllBytes), NEW p \in Nat, NEW e \in Nat, p <= e, e <= Len(s)
  PROVE  /\ SubSeq(s, p + 1, e) \in Seq(AllBytes) /\ Len(SubSeq(s, p + 1, e)) = e - p
         /\ \A i \in 1..(e - p) : p + i \in 1..Len(s) /\ SubSeq(s, p + 1, e)[i] = s[p + i]
<1>1. /\ p + 1 \in Int /\ e \in Int
      /\ \A i \in (p + 1)..e : s[i] \in AllBytes
  <2>1. Len(s) \in Nat /\ \A i \in 1..Len(s) : s[i] \in AllBytes
    BY TextFacts
  <2>2. \A i \in (p + 1)..e : i \in 1..Len(s)
    BY <2>1
  <2> QED
    BY <2>1, <2>2
<1>2. /\ SubSeq(s, p + 1, e) \in Seq(AllBytes)
      /\ Len(SubSeq(s, p + 1, e)) = IF p + 1 <= e THEN e - (p + 1) + 1 ELSE 0
      /\ \A i \in 1..(e - (p + 1) + 1) : SubSeq(s, p + 1, e)[i] = s[(p + 1) + i - 1]
  BY <1>1, SubSeqProperties
<1>3. Len(SubSeq(s, p + 1, e)) = e - p /\ e - (p + 1) + 1 = e - p
  BY <1>2
<1>4. \A i \in 1..(e - p) : (p + 1) + i - 1 = p + i /\ p + i \in 1..Len(s)
  BY TextFacts
<1> QED
  BY <1>2, <1>3, <1>4

LEMMA LineFacts ==
  ASSUME NEW bytes \in Seq(AllBytes), NEW e \in Ends(bytes)
  PROVE  LET p == Previous(bytes, e)
         IN  /\ p \in Nat /\ p < e
             /\ p = 0 \/ p \in Ends(bytes)
             /\ \A d \in Ends(bytes) : d < e => d <= p
             /\ Line(bytes, e) = SubSeq(bytes, p + 1, e - 1)
             /\ Line(bytes, e) \in Seq(AllBytes) /\ Len(Line(bytes, e)) = e - 1 - p
             /\ \A i \in 1..(e - 1 - p) : p + i \in 1..Len(bytes) /\ Line(bytes, e)[i] = bytes[p + i]
<1> DEFINE I == {d \in Ends(bytes) : d < e}
           p == Previous(bytes, e)
<1>1. /\ Len(bytes) \in Nat /\ e \in 1..Len(bytes) /\ e - 1 \in Nat /\ e - 1 <= Len(bytes)
      /\ \A d \in Ends(bytes) : d \in 1..Len(bytes)
  <2>1. Len(bytes) \in Nat /\ \A d \in Ends(bytes) : d \in 1..Len(bytes)
    BY TextFacts
  <2> QED
    BY <2>1
<1>2. I \in SUBSET (1..(e - 1))
  <2>1. \A d \in 1..Len(bytes) : d < e => d \in 1..(e - 1)
    BY <1>1
  <2> QED
    BY <1>1, <2>1
<1>3. /\ Max({0} \cup I) \in 0..(e - 1)
      /\ Max({0} \cup I) = 0 \/ Max({0} \cup I) \in I
      /\ \A d \in I : d <= Max({0} \cup I)
  BY <1>1, <1>2, MaxOrZero
<1>4. p = Max({0} \cup I)
  BY DEF Previous
<1>5. Line(bytes, e) = SubSeq(bytes, p + 1, e - 1)
  BY DEF Line, Previous
<1>6. /\ p \in Nat /\ p < e /\ p <= e - 1
      /\ p = 0 \/ p \in Ends(bytes)
      /\ \A d \in Ends(bytes) : d < e => d <= p
  BY <1>1, <1>3, <1>4
<1> HIDE DEF p, I
<1>7. /\ SubSeq(bytes, p + 1, e - 1) \in Seq(AllBytes)
      /\ Len(SubSeq(bytes, p + 1, e - 1)) = e - 1 - p
      /\ \A i \in 1..(e - 1 - p) : p + i \in 1..Len(bytes)
                                   /\ SubSeq(bytes, p + 1, e - 1)[i] = bytes[p + i]
  BY <1>1, <1>6, PartFacts
<1> QED
  BY <1>5, <1>6, <1>7 DEF p

LEMMA LastPieceFacts ==
  ASSUME NEW bytes \in Seq(AllBytes)
  PROVE  LET p == LastEnd(bytes)
         IN  /\ p \in Nat /\ p <= Len(bytes)
             /\ p = 0 \/ p \in Ends(bytes)
             /\ \A d \in Ends(bytes) : d <= p
             /\ LastPiece(bytes) = SubSeq(bytes, p + 1, Len(bytes))
             /\ LastPiece(bytes) \in Seq(AllBytes) /\ Len(LastPiece(bytes)) = Len(bytes) - p
             /\ \A i \in 1..(Len(bytes) - p) : p + i \in 1..Len(bytes)
                                               /\ LastPiece(bytes)[i] = bytes[p + i]
             /\ Ends(LastPiece(bytes)) = {}
<1> DEFINE p == LastEnd(bytes)
<1>1. Len(bytes) \in Nat /\ Ends(bytes) \in SUBSET (1..Len(bytes)) /\ DOMAIN bytes = 1..Len(bytes)
  BY TextFacts
<1>2. /\ p \in 0..Len(bytes)
      /\ p = 0 \/ p \in Ends(bytes)
      /\ \A d \in Ends(bytes) : d <= p
  BY <1>1, MaxOrZero DEF LastEnd
<1>3. LastPiece(bytes) = SubSeq(bytes, p + 1, Len(bytes))
  BY DEF LastPiece, LastEnd
<1> HIDE DEF p
<1>4. p \in Nat /\ p <= Len(bytes)
  BY <1>1, <1>2
<1>5. /\ LastPiece(bytes) \in Seq(AllBytes) /\ Len(LastPiece(bytes)) = Len(bytes) - p
      /\ \A i \in 1..(Len(bytes) - p) : p + i \in 1..Len(bytes)
                                        /\ LastPiece(bytes)[i] = bytes[p + i]
  BY <1>1, <1>3, <1>4, PartFacts
<1>6. ASSUME NEW j \in Ends(LastPiece(bytes)) PROVE FALSE
  <2>1. j \in 1..(Len(bytes) - p) /\ CR(LastPiece(bytes)[j]) /\ j \in Nat /\ j >= 1
    BY <1>5, TextFacts
  <2>2. p + j \in Ends(bytes)
    BY <1>1, <1>5, <2>1 DEF Ends
  <2>3. p + j <= p
    BY <1>2, <2>2
  <2> QED
    BY <1>4, <2>1, <2>3
<1> QED
  BY <1>2, <1>3, <1>4, <1>5, <1>6 DEF p

LEMMA LinesFacts ==
  ASSUME NEW c, NEW bytes \in Seq(AllBytes)
  PROVE  /\ Kept(c, bytes) \in SUBSET Nat /\ IsFiniteSet(Kept(c, bytes))
         /\ Kept(c, bytes) \subseteq Ends(bytes)
         /\ Cardinality(Kept(c, bytes)) \in Nat
         /\ Lines(c, bytes) = [k \in 1..Cardinality(Kept(c, bytes)) |->
                                 Line(bytes, InOrder(Kept(c, bytes))[k])]
         /\ Lines(c, bytes) \in Seq(Seq(AllBytes))
         /\ Len(Lines(c, bytes)) = Cardinality(Kept(c, bytes))
<1> DEFINE K == Kept(c, bytes)
<1>1. K \in SUBSET Ends(bytes) /\ Ends(bytes) \subseteq Nat /\ IsFiniteSet(Ends(bytes))
  BY TextFacts DEF Kept
<1>2. Lines(c, bytes) = [k \in 1..Cardinality(K) |-> Line(bytes, InOrder(K)[k])]
  BY DEF Lines, Kept
<1> HIDE DEF K
<1>3. K \in SUBSET Nat /\ IsFiniteSet(K)
  BY <1>1, FS_Subset
<1>4. Cardinality(K) \in Nat /\ InOrder(K) \in [1..Cardinality(K) -> K]
  BY <1>3, InOrderLists
<1>5. \A e \in K : Line(bytes, e) \in Seq(AllBytes)
  BY <1>1, LineFacts
<1>6. \A k \in 1..Cardinality(K) : Line(bytes, InOrder(K)[k]) \in Seq(AllBytes)
  BY <1>4, <1>5
<1>7. Lines(c, bytes) \in Seq(Seq(AllBytes)) /\ DOMAIN Lines(c, bytes) = 1..Cardinality(K)
  BY <1>2, <1>4, <1>6, IsASeq
<1> QED
  BY <1>1, <1>2, <1>3, <1>4, <1>7, LenProperties DEF K

(* A line depends on nothing before the carriage return it follows, and on *)
(* nothing after it.                                                       *)
LEMMA LineShift ==
  ASSUME NEW t \in Seq(AllBytes), NEW w \in Seq(AllBytes), NEW n \in Nat,
         n = 0 \/ n \in Ends(t),
         Len(t) = n + Len(w), \A i \in 1..Len(w) : t[n + i] = w[i]
  PROVE  /\ \A e \in Ends(w) : n + e \in Ends(t) /\ Line(t, n + e) = Line(w, e)
         /\ \A e \in Ends(t) : e > n => e - n \in Ends(w)
<1>1. /\ Len(t) \in Nat /\ DOMAIN t = 1..Len(t) /\ Len(w) \in Nat /\ DOMAIN w = 1..Len(w)
      /\ \A j \in Ends(t) : j \in 1..Len(t) /\ CR(t[j])
      /\ \A j \in Ends(w) : j \in 1..Len(w) /\ CR(w[j])
  BY TextFacts
<1>2. ASSUME NEW e \in Ends(w) PROVE n + e \in Ends(t) /\ e \in Nat /\ e >= 1
  <2>1. e \in 1..Len(w) /\ CR(w[e]) /\ t[n + e] = w[e]
    BY <1>1
  <2>2. n + e \in 1..Len(t)
    BY <1>1, <2>1
  <2> QED
    BY <1>1, <2>1, <2>2 DEF Ends
<1>3. ASSUME NEW e \in Ends(t), e > n PROVE e - n \in Ends(w)
  <2>1. e \in 1..Len(t) /\ CR(t[e])
    BY <1>1
  <2>2. e - n \in 1..Len(w) /\ n + (e - n) = e
    BY <1>1, <1>3, <2>1
  <2>3. t[e] = w[e - n]
    BY <2>2
  <2> QED
    BY <1>1, <2>1, <2>2, <2>3 DEF Ends
<1>4. ASSUME NEW e \in Ends(w) PROVE Line(t, n + e) = Line(w, e)
  <2>0. e \in Nat /\ e >= 1
    BY <1>2
  <2>x. PICK x \in Ends(t) : x = n + e
    BY <1>2
  <2> DEFINE p == Previous(w, e)
             q == Previous(t, x)
  <2>1. /\ p \in Nat /\ p < e
        /\ p = 0 \/ p \in Ends(w)
        /\ \A d \in Ends(w) : d < e => d <= p
        /\ Line(w, e) \in Seq(AllBytes) /\ Len(Line(w, e)) = e - 1 - p
        /\ \A i \in 1..(e - 1 - p) : p + i \in 1..Len(w) /\ Line(w, e)[i] = w[p + i]
    BY LineFacts
  <2>2. /\ q \in Nat /\ q < x
        /\ q = 0 \/ q \in Ends(t)
        /\ \A d \in Ends(t) : d < x => d <= q
        /\ Line(t, x) \in Seq(AllBytes) /\ Len(Line(t, x)) = x - 1 - q
        /\ \A i \in 1..(x - 1 - q) : q + i \in 1..Len(t) /\ Line(t, x)[i] = t[q + i]
    BY LineFacts
  <2> HIDE DEF p, q
  <2>2a. n + p \in Nat
    BY <2>1
  <2>3. n + p <= q
    <3>1. CASE p = 0
      <4>1. CASE n = 0
        BY <2>1, <2>2, <3>1, <4>1
      <4>2. CASE n \in Ends(t)
        <5>1. n < x
          BY <2>0, <2>x
        <5> QED
          BY <2>2, <3>1, <4>2, <5>1
      <4> QED
        BY <4>1, <4>2
    <3>2. CASE p \in Ends(w)
      <4>1. n + p \in Ends(t) /\ n + p < x
        BY <1>2, <2>0, <2>x, <2>1, <3>2
      <4> QED
        BY <2>2, <4>1
    <3> QED
      BY <2>1, <3>1, <3>2
  <2>4. q <= n + p
    <3>1. CASE q <= n
      BY <2>1, <2>2, <3>1
    <3>2. CASE q > n
      <4>1. q \in Ends(t)
        BY <2>2, <3>2
      <4>2. q - n \in Ends(w) /\ q - n < e
        BY <1>3, <2>0, <2>x, <2>2, <3>2, <4>1
      <4>3. q - n <= p
        BY <2>1, <4>2
      <4> QED
        BY <2>1, <2>2, <4>3
    <3> QED
      BY <2>2, <3>1, <3>2
  <2>5. q = n + p
    BY <2>2, <2>2a, <2>3, <2>4
  <2>6. x - 1 - q = e - 1 - p
    BY <2>0, <2>x, <2>1, <2>5
  <2>7. ASSUME NEW i \in 1..(e - 1 - p) PROVE Line(t, x)[i] = Line(w, e)[i]
    <3>1. Line(t, x)[i] = t[q + i] /\ Line(w, e)[i] = w[p + i] /\ p + i \in 1..Len(w)
      BY <2>1, <2>2, <2>6
    <3>2. q + i = n + (p + i)
      BY <2>1, <2>5
    <3> QED
      BY <3>1, <3>2
  <2>8. Line(t, x) = Line(w, e)
    BY <2>1, <2>2, <2>6, <2>7, SeqEqual
  <2> QED
    BY <2>x, <2>8
<1> QED
  BY <1>2, <1>3, <1>4

LEMMA LinePrefix ==
  ASSUME NEW t \in Seq(AllBytes), NEW d \in Seq(AllBytes),
         Len(d) <= Len(t), \A i \in 1..Len(d) : t[i] = d[i]
  PROVE  /\ \A e \in Ends(d) : e \in Ends(t) /\ Line(t, e) = Line(d, e)
         /\ \A e \in Ends(t) : e <= Len(d) => e \in Ends(d)
<1>1. /\ Len(t) \in Nat /\ DOMAIN t = 1..Len(t) /\ Len(d) \in Nat /\ DOMAIN d = 1..Len(d)
      /\ \A j \in Ends(t) : j \in 1..Len(t) /\ CR(t[j])
      /\ \A j \in Ends(d) : j \in 1..Len(d) /\ CR(d[j])
  BY TextFacts
<1>2. ASSUME NEW e \in Ends(d) PROVE e \in Ends(t)
  <2>1. e \in 1..Len(t) /\ e \in 1..Len(d) /\ CR(d[e])
    BY <1>1
  <2> QED
    BY <1>1, <2>1 DEF Ends
<1>3. ASSUME NEW e \in Ends(t), e <= Len(d) PROVE e \in Ends(d)
  <2>1. e \in 1..Len(d) /\ CR(t[e])
    BY <1>1, <1>3
  <2> QED
    BY <1>1, <2>1 DEF Ends
<1>4. ASSUME NEW e \in Ends(d) PROVE Line(t, e) = Line(d, e)
  <2>0. e \in Ends(t) /\ e <= Len(d) /\ e \in Nat
    BY <1>1, <1>2
  <2>1. {x \in Ends(t) : x < e} = {x \in Ends(d) : x < e}
    <3>1. ASSUME NEW x \in Ends(t), x < e PROVE x \in Ends(d)
      <4>1. x <= Len(d)
        BY <1>1, <2>0, <3>1
      <4> QED
        BY <1>3, <4>1
    <3> QED
      BY <1>2, <3>1
  <2>2. Previous(t, e) = Previous(d, e)
    BY <2>1 DEF Previous
  <2> DEFINE p == Previous(d, e)
  <2>3. /\ p \in Nat
        /\ Line(d, e) \in Seq(AllBytes) /\ Len(Line(d, e)) = e - 1 - p
        /\ \A i \in 1..(e - 1 - p) : p + i \in 1..Len(d) /\ Line(d, e)[i] = d[p + i]
    BY LineFacts
  <2>4. /\ Line(t, e) \in Seq(AllBytes) /\ Len(Line(t, e)) = e - 1 - p
        /\ \A i \in 1..(e - 1 - p) : Line(t, e)[i] = t[p + i]
    BY <2>0, <2>2, LineFacts
  <2> HIDE DEF p
  <2>5. \A i \in 1..(e - 1 - p) : Line(t, e)[i] = Line(d, e)[i]
    BY <2>3, <2>4
  <2> QED
    BY <2>3, <2>4, <2>5, SeqEqual
<1> QED
  BY <1>2, <1>3, <1>4

(* A chunk x behind what came, d: what follows the last carriage return of *)
(* d goes on in the chunk.                                                 *)
LEMMA Joined ==
  ASSUME NEW d \in Seq(AllBytes), NEW x \in Seq(AllBytes)
  PROVE  LET t == d \o x
             w == LastPiece(d) \o x
             n == LastEnd(d)
         IN  /\ t \in Seq(AllBytes) /\ w \in Seq(AllBytes) /\ n \in Nat
             /\ Len(t) = Len(d) + Len(x) /\ Len(t) = n + Len(w) /\ n <= Len(d)
             /\ \A i \in 1..Len(d) : t[i] = d[i]
             /\ \A i \in 1..Len(x) : t[Len(d) + i] = x[i]
             /\ \A i \in 1..Len(w) : t[n + i] = w[i]
             /\ n = 0 \/ (n \in Ends(d) /\ n \in Ends(t))
             /\ \A e \in Ends(d) : e <= n
<1> DEFINE t == d \o x
           b == LastPiece(d)
           w == b \o x
           n == LastEnd(d)
<1>1. Len(d) \in Nat /\ Len(x) \in Nat
  BY TextFacts
<1>2. /\ t \in Seq(AllBytes) /\ Len(t) = Len(d) + Len(x)
      /\ \A i \in 1..(Len(d) + Len(x)) : t[i] = IF i <= Len(d) THEN d[i] ELSE x[i - Len(d)]
  BY ConcatProperties
<1>3. /\ n \in Nat /\ n <= Len(d) /\ (n = 0 \/ n \in Ends(d))
      /\ \A e \in Ends(d) : e <= n
      /\ b \in Seq(AllBytes) /\ Len(b) = Len(d) - n
      /\ \A i \in 1..(Len(d) - n) : n + i \in 1..Len(d) /\ b[i] = d[n + i]
  BY LastPieceFacts
<1> HIDE DEF b
<1>4. /\ w \in Seq(AllBytes) /\ Len(w) = Len(b) + Len(x)
      /\ \A i \in 1..(Len(b) + Len(x)) : w[i] = IF i <= Len(b) THEN b[i] ELSE x[i - Len(b)]
  BY <1>3, ConcatProperties
<1> HIDE DEF t, w, n
<1>5. Len(t) = n + Len(w)
  BY <1>1, <1>2, <1>3, <1>4
<1>6. \A i \in 1..Len(d) : t[i] = d[i]
  BY <1>1, <1>2
<1>7. \A i \in 1..Len(x) : t[Len(d) + i] = x[i]
  <2>1. \A i \in 1..Len(x) : /\ Len(d) + i \in 1..(Len(d) + Len(x)) /\ ~(Len(d) + i <= Len(d))
                             /\ (Len(d) + i) - Len(d) = i
    BY <1>1
  <2> QED
    BY <1>2, <2>1
<1>8. ASSUME NEW i \in 1..Len(w) PROVE t[n + i] = w[i]
  <2>1. i \in 1..(Len(b) + Len(x)) /\ i \in Nat /\ i >= 1 /\ Len(b) = Len(d) - n
    BY <1>1, <1>3, <1>4
  <2>2. CASE i <= Len(b)
    <3>1. i \in 1..(Len(d) - n)
      BY <1>1, <1>3, <2>1, <2>2
    <3>2. w[i] = b[i] /\ b[i] = d[n + i] /\ n + i \in 1..Len(d)
      BY <1>3, <1>4, <2>1, <2>2, <3>1
    <3> QED
      BY <1>6, <3>2
  <2>3. CASE ~(i <= Len(b))
    <3>1. i - Len(b) \in 1..Len(x) /\ Len(d) + (i - Len(b)) = n + i
      BY <1>1, <1>3, <2>1, <2>3
    <3>2. w[i] = x[i - Len(b)] /\ t[Len(d) + (i - Len(b))] = x[i - Len(b)]
      BY <1>4, <1>7, <2>1, <2>3, <3>1
    <3> QED
      BY <3>1, <3>2
  <2> QED
    BY <2>2, <2>3
<1>9. Len(d) <= Len(t)
  BY <1>1, <1>2
<1>10. \A e \in Ends(d) : e \in Ends(t)
  BY <1>2, <1>6, <1>9, LinePrefix
<1> QED
  BY <1>2, <1>3, <1>4, <1>5, <1>6, <1>7, <1>8, <1>10 DEF t, w, n, b

LEMMA ChunkWithoutEnd ==
  ASSUME NEW c, NEW d \in Seq(AllBytes), NEW x \in Seq(AllBytes), Ends(x) = {}
  PROVE  Lines(c, d \o x) = Lines(c, d) /\ LastPiece(d \o x) = LastPiece(d) \o x
<1> DEFINE t == d \o x
           w == LastPiece(d) \o x
           n == LastEnd(d)
<1>1. /\ t \in Seq(AllBytes) /\ w \in Seq(AllBytes) /\ n \in Nat
      /\ Len(t) = Len(d) + Len(x) /\ Len(t) = n + Len(w)
      /\ \A i \in 1..Len(d) : t[i] = d[i]
      /\ \A i \in 1..Len(x) : t[Len(d) + i] = x[i]
      /\ \A i \in 1..Len(w) : t[n + i] = w[i]
  BY Joined
<1> HIDE DEF t, w, n
<1>2. /\ Len(d) \in Nat /\ Len(x) \in Nat /\ Len(d) <= Len(t) /\ DOMAIN x = 1..Len(x)
      /\ \A e \in Ends(t) : e \in 1..Len(t) /\ CR(t[e])
  <2>1. Len(d) \in Nat /\ Len(x) \in Nat /\ DOMAIN x = 1..Len(x)
    BY TextFacts
  <2>2. \A e \in Ends(t) : e \in 1..Len(t) /\ CR(t[e])
    BY <1>1, TextFacts
  <2> QED
    BY <1>1, <2>1, <2>2
<1>3. /\ \A e \in Ends(d) : e \in Ends(t) /\ Line(t, e) = Line(d, e)
      /\ \A e \in Ends(t) : e <= Len(d) => e \in Ends(d)
  BY <1>1, <1>2, LinePrefix
<1>4. ASSUME NEW e \in Ends(t) PROVE e <= Len(d)
  <2>1. SUFFICES ASSUME ~(e <= Len(d)) PROVE FALSE
    OBVIOUS
  <2>2. e - Len(d) \in 1..Len(x) /\ Len(d) + (e - Len(d)) = e
    BY <1>1, <1>2, <2>1
  <2>3. x[e - Len(d)] = t[e] /\ CR(t[e])
    BY <1>1, <1>2, <2>2
  <2>4. e - Len(d) \in Ends(x)
    BY <1>2, <2>2, <2>3 DEF Ends
  <2> QED
    BY <2>4
<1>5. Ends(t) = Ends(d)
  BY <1>3, <1>4
<1>6. Kept(c, t) = Kept(c, d)
  BY <1>3, <1>5 DEF Kept
<1>7. Lines(c, t) = Lines(c, d)
  <2> DEFINE K == Kept(c, d)
  <2>1. /\ K \in SUBSET Nat /\ IsFiniteSet(K) /\ K \subseteq Ends(d)
        /\ Lines(c, d) = [k \in 1..Cardinality(K) |-> Line(d, InOrder(K)[k])]
    BY LinesFacts
  <2>2. Lines(c, t) = [k \in 1..Cardinality(K) |-> Line(t, InOrder(K)[k])]
    BY <1>1, <1>6, LinesFacts
  <2> HIDE DEF K
  <2>3. \A k \in 1..Cardinality(K) : InOrder(K)[k] \in Ends(d)
    BY <2>1, InOrderLists
  <2>4. \A k \in 1..Cardinality(K) : Line(t, InOrder(K)[k]) = Line(d, InOrder(K)[k])
    BY <1>3, <2>3
  <2> QED
    BY <2>1, <2>2, <2>4
<1>8. LastPiece(t) = w
  <2>1. LastEnd(t) = n
    BY <1>5 DEF LastEnd, n
  <2>2. /\ LastPiece(t) \in Seq(AllBytes) /\ Len(LastPiece(t)) = Len(t) - n
        /\ \A i \in 1..(Len(t) - n) : LastPiece(t)[i] = t[n + i]
    <3>1. t \in Seq(AllBytes)
      BY <1>1
    <3>2. LET p == LastEnd(t)
          IN  /\ LastPiece(t) \in Seq(AllBytes) /\ Len(LastPiece(t)) = Len(t) - p
              /\ \A i \in 1..(Len(t) - p) : LastPiece(t)[i] = t[p + i]
      BY <3>1, LastPieceFacts
    <3> QED
      BY <2>1, <3>2
  <2>3. Len(w) \in Nat
    BY <1>1, TextFacts
  <2>4. Len(t) - n = Len(w)
    <3>1. Len(t) = n + Len(w) /\ n \in Nat
      BY <1>1
    <3> QED
      BY <2>3, <3>1
  <2>5. \A i \in 1..Len(w) : LastPiece(t)[i] = w[i]
    BY <1>1, <2>2, <2>4
  <2> QED
    BY <1>1, <2>2, <2>4, <2>5, SeqEqual
<1> QED
  BY <1>7, <1>8 DEF t, w

LEMMA ChunkWithEnd ==
  ASSUME NEW c, NEW d \in Seq(AllBytes), NEW x \in Seq(AllBytes), Ends(x) # {}
  PROVE  /\ Lines(c, d \o x) = Lines(c, d) \o Lines(c, LastPiece(d) \o x)
         /\ LastPiece(d \o x) = LastPiece(LastPiece(d) \o x)
<1> DEFINE t == d \o x
           w == LastPiece(d) \o x
           n == LastEnd(d)
<1>1. /\ t \in Seq(AllBytes) /\ w \in Seq(AllBytes) /\ n \in Nat
      /\ Len(t) = Len(d) + Len(x) /\ Len(t) = n + Len(w) /\ n <= Len(d)
      /\ \A i \in 1..Len(d) : t[i] = d[i]
      /\ \A i \in 1..Len(x) : t[Len(d) + i] = x[i]
      /\ \A i \in 1..Len(w) : t[n + i] = w[i]
      /\ n = 0 \/ n \in Ends(t)
      /\ \A e \in Ends(d) : e <= n
  BY Joined
<1> HIDE DEF t, w, n
<1>2. /\ Len(d) \in Nat /\ Len(x) \in Nat /\ Len(w) \in Nat /\ Len(d) <= Len(t)
      /\ DOMAIN t = 1..Len(t)
      /\ \A e \in Ends(t) : e \in Nat
      /\ \A e \in Ends(w) : e \in Nat /\ e >= 1
      /\ \A e \in Ends(x) : e \in 1..Len(x) /\ CR(x[e])
  BY <1>1, TextFacts
<1>3. /\ \A e \in Ends(d) : e \in Ends(t) /\ Line(t, e) = Line(d, e)
      /\ \A e \in Ends(t) : e <= Len(d) => e \in Ends(d)
  BY <1>1, <1>2, LinePrefix
<1>4. /\ \A e \in Ends(w) : n + e \in Ends(t) /\ Line(t, n + e) = Line(w, e)
      /\ \A e \in Ends(t) : e > n => e - n \in Ends(w)
  BY <1>1, LineShift
<1>5. Lines(c, t) = Lines(c, d) \o Lines(c, w)
  <2> DEFINE A == Kept(c, d)
             B == Kept(c, w)
             T == Kept(c, t)
             a == Cardinality(A)
             b == Cardinality(B)
             s == [k \in 1..(a + b) |-> IF k <= a THEN InOrder(A)[k] ELSE n + InOrder(B)[k - a]]
  <2>1. /\ A \in SUBSET Nat /\ IsFiniteSet(A) /\ A \subseteq Ends(d) /\ a \in Nat
        /\ Lines(c, d) = [k \in 1..a |-> Line(d, InOrder(A)[k])]
        /\ Lines(c, d) \in Seq(Seq(AllBytes)) /\ Len(Lines(c, d)) = a
    BY LinesFacts
  <2>2. /\ B \in SUBSET Nat /\ IsFiniteSet(B) /\ B \subseteq Ends(w) /\ b \in Nat
        /\ Lines(c, w) = [k \in 1..b |-> Line(w, InOrder(B)[k])]
        /\ Lines(c, w) \in Seq(Seq(AllBytes)) /\ Len(Lines(c, w)) = b
    BY <1>1, LinesFacts
  <2>3. /\ T \in SUBSET Nat /\ T \subseteq Ends(t)
        /\ Lines(c, t) = [k \in 1..Cardinality(T) |-> Line(t, InOrder(T)[k])]
        /\ Lines(c, t) \in Seq(Seq(AllBytes)) /\ Len(Lines(c, t)) = Cardinality(T)
    BY <1>1, LinesFacts
  <2>4. \A e \in A : e \in T /\ e <= n
    BY <1>1, <1>3 DEF Kept
  <2>5. \A e \in B : n + e \in T /\ e \in Nat /\ e >= 1
    BY <1>2, <1>4 DEF Kept
  <2>6. ASSUME NEW e \in T PROVE e \in A \/ (e > n /\ e - n \in B)
    <3>1. e \in Ends(t) /\ Accepts(c, Line(t, e)) /\ e \in Nat
      BY <1>2 DEF Kept
    <3>2. CASE e <= Len(d)
      BY <1>3, <3>1, <3>2 DEF Kept
    <3>3. CASE ~(e <= Len(d))
      <4>1. e > n
        BY <1>1, <1>2, <3>1, <3>3
      <4>2. e - n \in Ends(w) /\ n + (e - n) = e
        BY <1>1, <1>4, <3>1, <4>1
      <4>3. Line(t, e) = Line(w, e - n)
        BY <1>4, <4>2
      <4> QED
        BY <3>1, <4>1, <4>2, <4>3 DEF Kept
    <3> QED
      BY <3>2, <3>3
  <2>7. /\ InOrder(A) \in [1..a -> A]
        /\ \A k, l \in 1..a : k < l => InOrder(A)[k] < InOrder(A)[l]
        /\ \A i \in A : \E k \in 1..a : InOrder(A)[k] = i
    BY <2>1, InOrderLists
  <2>8. /\ InOrder(B) \in [1..b -> B]
        /\ \A k, l \in 1..b : k < l => InOrder(B)[k] < InOrder(B)[l]
        /\ \A i \in B : \E k \in 1..b : InOrder(B)[k] = i
    BY <2>2, InOrderLists
  <2> HIDE DEF A, B, T, a, b
  <2>9. ASSUME NEW k \in 1..(a + b)
        PROVE  \/ /\ k <= a /\ k \in 1..a
                  /\ s[k] = InOrder(A)[k] /\ s[k] \in A
               \/ /\ k > a /\ k - a \in 1..b
                  /\ s[k] = n + InOrder(B)[k - a] /\ InOrder(B)[k - a] \in B
    <3>1. CASE k <= a
      <4>1. k \in 1..a
        BY <2>1, <2>2, <3>1
      <4> QED
        BY <2>7, <3>1, <4>1
    <3>2. CASE ~(k <= a)
      <4>1. k - a \in 1..b /\ k > a
        BY <2>1, <2>2, <3>2
      <4> QED
        BY <2>8, <3>2, <4>1
    <3> QED
      BY <3>1, <3>2
  <2>10. DOMAIN s = 1..(a + b)
    OBVIOUS
  <2>10a. \A k \in 1..a : k \in 1..(a + b) /\ s[k] = InOrder(A)[k]
    BY <2>1, <2>2
  <2>10b. \A k \in 1..b : a + k \in 1..(a + b) /\ s[a + k] = n + InOrder(B)[k]
    <3>1. \A k \in 1..b : a + k \in 1..(a + b) /\ ~(a + k <= a) /\ (a + k) - a = k
      BY <2>1, <2>2
    <3> QED
      BY <3>1
  <2>11. s \in [1..(a + b) -> T]
    <3>1. \A k \in 1..(a + b) : s[k] \in T
      BY <2>4, <2>5, <2>9
    <3> QED
      BY <3>1
  <2> HIDE DEF s
  <2>12. ASSUME NEW k \in 1..(a + b), NEW l \in 1..(a + b), k < l PROVE s[k] < s[l]
    <3>0. k \in Nat /\ l \in Nat
      BY <2>1, <2>2
    <3>1. CASE l <= a
      <4>1. k <= a
        BY <2>1, <2>12, <3>0, <3>1
      <4>2. /\ k \in 1..a /\ l \in 1..a
            /\ s[k] = InOrder(A)[k] /\ s[l] = InOrder(A)[l]
        BY <2>1, <2>9, <3>0, <3>1, <4>1
      <4> QED
        BY <2>7, <2>12, <4>2
    <3>2. CASE k <= a /\ l > a
      <4>1. s[k] \in A /\ s[l] = n + InOrder(B)[l - a] /\ InOrder(B)[l - a] \in B
        BY <2>1, <2>9, <3>0, <3>2
      <4>2. s[k] \in Nat /\ s[k] <= n /\ InOrder(B)[l - a] \in Nat /\ InOrder(B)[l - a] >= 1
        BY <2>1, <2>4, <2>5, <4>1
      <4> QED
        BY <1>1, <4>1, <4>2
    <3>3. CASE k > a /\ l > a
      <4>1. /\ k - a \in 1..b /\ l - a \in 1..b
            /\ s[k] = n + InOrder(B)[k - a] /\ InOrder(B)[k - a] \in B
            /\ s[l] = n + InOrder(B)[l - a] /\ InOrder(B)[l - a] \in B
        BY <2>1, <2>9, <3>0, <3>3
      <4>2. k - a < l - a
        BY <2>1, <2>12, <3>0
      <4>3. /\ InOrder(B)[k - a] < InOrder(B)[l - a]
            /\ InOrder(B)[k - a] \in Nat /\ InOrder(B)[l - a] \in Nat
        BY <2>5, <2>8, <4>1, <4>2
      <4> QED
        BY <1>1, <4>1, <4>3
    <3> QED
      BY <2>1, <2>12, <3>0, <3>1, <3>2, <3>3
  <2>13. ASSUME NEW e \in T PROVE \E k \in 1..(a + b) : s[k] = e
    <3>1. CASE e \in A
      BY <2>7, <2>10a, <3>1
    <3>2. CASE e > n /\ e - n \in B
      <4>1. PICK k \in 1..b : InOrder(B)[k] = e - n
        BY <2>8, <3>2
      <4>2. n + (e - n) = e
        BY <1>1, <2>3
      <4> QED
        BY <2>10b, <4>1, <4>2
    <3> QED
      BY <2>6, <3>1, <3>2
  <2>14. a + b \in Nat
    BY <2>1, <2>2
  <2>15. Cardinality(T) = a + b /\ InOrder(T) = s
    BY <2>3, <2>11, <2>12, <2>13, <2>14, InOrderIsOne
  <2> DEFINE r == Lines(c, d) \o Lines(c, w)
  <2>16. /\ r \in Seq(Seq(AllBytes)) /\ Len(r) = a + b
         /\ \A k \in 1..(a + b) : r[k] = IF k <= a THEN Lines(c, d)[k] ELSE Lines(c, w)[k - a]
    BY <2>1, <2>2, ConcatProperties
  <2> HIDE DEF r
  <2>17. ASSUME NEW k \in 1..(a + b) PROVE Lines(c, t)[k] = r[k]
    <3>0. Lines(c, t)[k] = Line(t, s[k])
      BY <2>3, <2>15
    <3>1. CASE k <= a
      <4>1. k \in 1..a /\ s[k] = InOrder(A)[k] /\ s[k] \in A
        BY <2>1, <2>9, <3>1
      <4>2. r[k] = Line(d, s[k])
        BY <2>1, <2>16, <3>1, <4>1
      <4>3. Line(t, s[k]) = Line(d, s[k])
        BY <1>3, <2>1, <4>1
      <4> QED
        BY <3>0, <4>2, <4>3
    <3>2. CASE ~(k <= a)
      <4>1. k - a \in 1..b /\ s[k] = n + InOrder(B)[k - a] /\ InOrder(B)[k - a] \in B
        BY <2>1, <2>9, <3>2
      <4>2. r[k] = Line(w, InOrder(B)[k - a])
        BY <2>2, <2>16, <3>2, <4>1
      <4>3. Line(t, n + InOrder(B)[k - a]) = Line(w, InOrder(B)[k - a])
        BY <1>4, <2>2, <4>1
      <4> QED
        BY <3>0, <4>1, <4>2, <4>3
    <3> QED
      BY <3>1, <3>2
  <2>18. Lines(c, t) = r
    BY <2>3, <2>15, <2>16, <2>17, SeqEqual
  <2> QED
    BY <2>18 DEF r
<1>6. LastPiece(t) = LastPiece(w)
  <2> DEFINE p == LastEnd(t)
             q == LastEnd(w)
  <2>1. /\ p \in Nat /\ p <= Len(t) /\ (p = 0 \/ p \in Ends(t))
        /\ \A e \in Ends(t) : e <= p
        /\ LastPiece(t) \in Seq(AllBytes) /\ Len(LastPiece(t)) = Len(t) - p
        /\ \A i \in 1..(Len(t) - p) : LastPiece(t)[i] = t[p + i]
    BY <1>1, LastPieceFacts
  <2>2. /\ q \in Nat /\ q <= Len(w) /\ (q = 0 \/ q \in Ends(w))
        /\ \A e \in Ends(w) : e <= q
        /\ LastPiece(w) \in Seq(AllBytes) /\ Len(LastPiece(w)) = Len(w) - q
        /\ \A i \in 1..(Len(w) - q) : q + i \in 1..Len(w) /\ LastPiece(w)[i] = w[q + i]
    BY <1>1, LastPieceFacts
  <2> HIDE DEF p, q
  <2>3. PICK e \in Ends(x) : e \in 1..Len(x) /\ CR(x[e])
    BY <1>2
  <2>4. Len(d) + e \in Ends(t)
    <3>1. t[Len(d) + e] = x[e] /\ Len(d) + e \in 1..Len(t)
      BY <1>1, <1>2, <2>3
    <3> QED
      BY <1>2, <2>3, <3>1 DEF Ends
  <2>5. p > n
    <3>1. Len(d) + e <= p
      BY <2>1, <2>4
    <3> QED
      BY <1>1, <1>2, <2>1, <2>3, <3>1
  <2>6. p \in Ends(t) /\ p - n \in Ends(w)
    BY <1>1, <1>4, <2>1, <2>5
  <2>7. p - n <= q
    BY <2>2, <2>6
  <2>8. q \in Ends(w)
    BY <1>1, <2>1, <2>2, <2>5, <2>7
  <2>9. n + q <= p
    BY <1>4, <2>1, <2>8
  <2>10. p = n + q
    BY <1>1, <2>1, <2>2, <2>7, <2>9
  <2>11. Len(t) - p = Len(w) - q
    <3>1. Len(t) = n + Len(w) /\ n \in Nat /\ Len(w) \in Nat /\ q \in Nat
      BY <1>1, <1>2, <2>2
    <3> QED
      BY <2>10, <3>1
  <2>12. ASSUME NEW i \in 1..(Len(w) - q) PROVE LastPiece(t)[i] = LastPiece(w)[i]
    <3>1. LastPiece(t)[i] = t[p + i] /\ LastPiece(w)[i] = w[q + i] /\ q + i \in 1..Len(w)
      BY <2>1, <2>2, <2>11
    <3>2. p + i = n + (q + i)
      BY <1>1, <2>2, <2>10
    <3> QED
      BY <1>1, <3>1, <3>2
  <2> QED
    BY <2>1, <2>2, <2>11, <2>12, SeqEqual
<1> QED
  BY <1>5, <1>6 DEF t, w

-----------------------------------------------------------------------------
(* The reference: an accepted line is EXPECTED_SIZE bytes with a carriage  *)
(* return behind, before it one or nothing, and none between.              *)
Begins(j) ==
  /\ j \in 1..(Len(delivered) - EXPECTED_SIZE)
  /\ IsLine(j, j + EXPECTED_SIZE - 1)
  /\ Accepts(codec, SubSeq(delivered, j, j + EXPECTED_SIZE - 1))

LEMMA KeptBegins ==
  ASSUME delivered \in Seq(AllBytes), NEW e \in Kept(codec, delivered)
  PROVE  LET j == e - EXPECTED_SIZE
         IN  /\ j \in Nat /\ Begins(j) /\ j + EXPECTED_SIZE = e
             /\ Line(delivered, e) = SubSeq(delivered, j, j + EXPECTED_SIZE - 1)
             /\ Line(delivered, e) \in Seq(AllBytes) /\ Len(Line(delivered, e)) = EXPECTED_SIZE
             /\ \A i \in 1..EXPECTED_SIZE : Line(delivered, e)[i] = delivered[j + i - 1]
<1> DEFINE L == EXPECTED_SIZE
           p == Previous(delivered, e)
<1>0. L \in Nat /\ L > 0
  BY ByteFacts
<1>1. e \in Ends(delivered) /\ Accepts(codec, Line(delivered, e)) /\ Len(Line(delivered, e)) = L
  BY DEF Kept, Accepts
<1>2. /\ Len(delivered) \in Nat /\ DOMAIN delivered = 1..Len(delivered)
      /\ e \in 1..Len(delivered) /\ CR(delivered[e])
      /\ \A d \in Ends(delivered) : CR(delivered[d])
  BY <1>1, TextFacts
<1>3. /\ p \in Nat /\ p < e
      /\ p = 0 \/ p \in Ends(delivered)
      /\ \A d \in Ends(delivered) : d < e => d <= p
      /\ Line(delivered, e) = SubSeq(delivered, p + 1, e - 1)
      /\ Line(delivered, e) \in Seq(AllBytes) /\ Len(Line(delivered, e)) = e - 1 - p
      /\ \A i \in 1..(e - 1 - p) : p + i \in 1..Len(delivered)
                                   /\ Line(delivered, e)[i] = delivered[p + i]
  BY <1>1, LineFacts
<1> HIDE DEF p, L
<1> DEFINE j == e - L
<1>4. /\ j \in Nat /\ j = p + 1 /\ j + L = e /\ j + L - 1 = e - 1 /\ (j + L - 1) + 1 = e
      /\ j - 1 = p /\ e - 1 - p = L /\ j \in 1..(Len(delivered) - L)
  BY <1>0, <1>1, <1>2, <1>3
<1> HIDE DEF j
<1>5. \A i \in j..(j + L - 1) : ~CR(delivered[i])
  <2>1. ASSUME NEW i \in j..(j + L - 1), CR(delivered[i]) PROVE FALSE
    <3>1. i \in 1..Len(delivered) /\ i < e /\ ~(i <= p) /\ i \in Nat
      BY <1>0, <1>2, <1>3, <1>4
    <3>2. i \in Ends(delivered)
      BY <1>2, <2>1, <3>1 DEF Ends
    <3> QED
      BY <1>3, <3>1, <3>2
  <2> QED
    BY <2>1
<1>6. j = 1 \/ CR(delivered[j - 1])
  <2>1. CASE p = 0
    BY <1>4, <2>1
  <2>2. CASE p \in Ends(delivered)
    BY <1>2, <1>4, <2>2
  <2> QED
    BY <1>3, <2>1, <2>2
<1>7. IsLine(j, j + L - 1)
  BY <1>2, <1>4, <1>5, <1>6 DEF IsLine
<1>8. Line(delivered, e) = SubSeq(delivered, j, j + L - 1)
  BY <1>3, <1>4
<1>9. \A i \in 1..L : Line(delivered, e)[i] = delivered[j + i - 1]
  <2>1. \A i \in 1..L : p + i = j + i - 1
    BY <1>0, <1>3, <1>4
  <2> QED
    BY <1>3, <1>4, <2>1
<1>10. Begins(j)
  BY <1>1, <1>4, <1>7, <1>8 DEF Begins, L
<1> QED
  BY <1>1, <1>3, <1>4, <1>8, <1>9, <1>10 DEF j, L

LEMMA BeginsKept ==
  ASSUME delivered \in Seq(AllBytes), NEW j, Begins(j)
  PROVE  j \in Nat /\ j + EXPECTED_SIZE \in Kept(codec, delivered)
<1> DEFINE L == EXPECTED_SIZE
<1>0. L \in Nat /\ L > 0
  BY ByteFacts
<1>1. /\ Len(delivered) \in Nat /\ DOMAIN delivered = 1..Len(delivered)
      /\ \A d \in Ends(delivered) : d \in 1..Len(delivered) /\ CR(delivered[d])
  BY TextFacts
<1>2. /\ j \in 1..(Len(delivered) - L)
      /\ j = 1 \/ CR(delivered[j - 1])
      /\ \A i \in j..(j + L - 1) : ~CR(delivered[i])
      /\ CR(delivered[(j + L - 1) + 1])
      /\ Accepts(codec, SubSeq(delivered, j, j + L - 1))
  BY DEF Begins, IsLine
<1> HIDE DEF L
<1>3. j \in Nat /\ j >= 1
  BY <1>0, <1>1, <1>2
<1>4. PICK e : e = j + L
  OBVIOUS
<1>5. e \in 1..Len(delivered) /\ (j + L - 1) + 1 = e /\ j + L - 1 = e - 1 /\ e \in Nat
  BY <1>0, <1>1, <1>2, <1>3, <1>4
<1>6. e \in Ends(delivered)
  BY <1>1, <1>2, <1>5 DEF Ends
<1> DEFINE p == Previous(delivered, e)
<1>7. /\ p \in Nat /\ p < e
      /\ p = 0 \/ p \in Ends(delivered)
      /\ \A d \in Ends(delivered) : d < e => d <= p
      /\ Line(delivered, e) = SubSeq(delivered, p + 1, e - 1)
  BY <1>6, LineFacts
<1> HIDE DEF p
<1>8. p < j
  <2>1. SUFFICES ASSUME ~(p < j) PROVE FALSE
    OBVIOUS
  <2>2. p \in j..(j + L - 1) /\ p # 0
    BY <1>0, <1>3, <1>4, <1>7, <2>1
  <2> QED
    BY <1>1, <1>2, <1>7, <2>2
<1>9. p >= j - 1
  <2>1. CASE j = 1
    BY <1>7, <2>1
  <2>2. CASE j # 1
    <3>1. j - 1 \in 1..Len(delivered) /\ j - 1 < e
      BY <1>0, <1>1, <1>2, <1>3, <1>4, <2>2
    <3>2. j - 1 \in Ends(delivered)
      BY <1>1, <1>2, <2>2, <3>1 DEF Ends
    <3>3. j - 1 <= p
      BY <1>7, <3>1, <3>2
    <3> QED
      BY <1>3, <1>7, <3>3
  <2> QED
    BY <2>1, <2>2
<1>10. p + 1 = j
  BY <1>3, <1>7, <1>8, <1>9
<1>11. Accepts(codec, Line(delivered, e))
  BY <1>2, <1>5, <1>7, <1>10
<1>12. e \in Kept(codec, delivered)
  BY <1>6, <1>11 DEF Kept
<1> QED
  BY <1>3, <1>4, <1>12 DEF L

(* What the codec has to have read.                                        *)
ReadInv == accepted = Lines(codec, delivered) /\ mDataBuffer = LastPiece(delivered)

LEMMA ReadAsReference ==
  ASSUME delivered \in Seq(AllBytes), ReadInv
  PROVE  CutsDoNotMatter
<1> DEFINE L == EXPECTED_SIZE
           K == Kept(codec, delivered)
           n == Cardinality(K)
           first == {j \in 1..(Len(delivered) - EXPECTED_SIZE) :
                       /\ IsLine(j, j + EXPECTED_SIZE - 1)
                       /\ Accepts(codec, SubSeq(delivered, j, j + EXPECTED_SIZE - 1))}
           s == [k \in 1..n |-> InOrder(K)[k] - L]
<1>0. L \in Nat /\ Len(delivered) \in Nat
  BY ByteFacts, TextFacts
<1>1. \A j : j \in first <=> Begins(j)
  BY DEF Begins
<1>2. first \in SUBSET Nat
  BY <1>0
<1>3. /\ K \in SUBSET Nat /\ IsFiniteSet(K) /\ n \in Nat
      /\ Lines(codec, delivered) = [k \in 1..n |-> Line(delivered, InOrder(K)[k])]
  BY LinesFacts
<1>4. /\ InOrder(K) \in [1..n -> K]
      /\ \A k, l \in 1..n : k < l => InOrder(K)[k] < InOrder(K)[l]
      /\ \A e \in K : \E k \in 1..n : InOrder(K)[k] = e
  BY <1>3, InOrderLists
<1>5. \A e \in K : /\ e - L \in first /\ e \in Nat /\ e - L \in Nat
                   /\ Line(delivered, e) = SubSeq(delivered, e - L, e - L + L - 1)
  BY <1>1, <1>3, KeptBegins
<1>6. \A j \in first : j \in Nat /\ j + L \in K /\ (j + L) - L = j
  <2>1. \A j \in first : j \in Nat /\ j + L \in K
    BY <1>1, BeginsKept
  <2> HIDE DEF L
  <2> QED
    BY <1>0, <2>1
<1>d. CutsDoNotMatter <=>
        /\ accepted = [k \in DOMAIN InOrder(first) |->
                         SubSeq(delivered, InOrder(first)[k], InOrder(first)[k] + L - 1)]
        /\ mDataBuffer = LastPiece(delivered)
  BY DEF CutsDoNotMatter
<1> HIDE DEF K, n, first, L
<1>7. \A k \in 1..n : InOrder(K)[k] \in K /\ s[k] = InOrder(K)[k] - L /\ s[k] \in first
  BY <1>4, <1>5
<1>8. s \in [1..n -> first]
  BY <1>7
<1> HIDE DEF s
<1>9. ASSUME NEW k \in 1..n, NEW l \in 1..n, k < l PROVE s[k] < s[l]
  <2>1. /\ InOrder(K)[k] < InOrder(K)[l]
        /\ InOrder(K)[k] \in Nat /\ InOrder(K)[l] \in Nat
    BY <1>4, <1>5, <1>7, <1>9
  <2> QED
    BY <1>0, <1>7, <2>1
<1>10. ASSUME NEW j \in first PROVE \E k \in 1..n : s[k] = j
  <2>1. PICK k \in 1..n : InOrder(K)[k] = j + L
    BY <1>4, <1>6
  <2> QED
    BY <1>6, <1>7, <2>1
<1>11. Cardinality(first) = n /\ InOrder(first) = s
  BY <1>2, <1>3, <1>8, <1>9, <1>10, InOrderIsOne
<1>12. DOMAIN InOrder(first) = 1..n
  BY <1>8, <1>11
<1>13. \A k \in 1..n : Line(delivered, InOrder(K)[k]) = SubSeq(delivered, s[k], s[k] + L - 1)
  BY <1>5, <1>7
<1>14. accepted = [k \in DOMAIN InOrder(first) |->
                     SubSeq(delivered, InOrder(first)[k], InOrder(first)[k] + L - 1)]
  BY <1>3, <1>11, <1>12, <1>13 DEF ReadInv
<1> QED
  BY <1>d, <1>14 DEF ReadInv

-----------------------------------------------------------------------------
(* The invariant.                                                          *)
OrderInv ==
  /\ Increasing(delivered \o rx)
  /\ transport = "serial" => \A b \in ToSet(delivered \o rx) : Position(b) <= sent
  /\ transport = "file" => mpSerialPort = "closed" /\ ~mpTimer /\ sent = 0
  /\ transport = "file" /\ ~started => delivered = <<>>

IInv == TypeOK /\ OrderInv /\ ReadInv

(* An accepted line has the one size, and no carriage return in it.        *)
LEMMA LinesWhole ==
  ASSUME NEW c, NEW bytes \in Seq(AllBytes)
  PROVE  \A k \in DOMAIN Lines(c, bytes) :
           Len(Lines(c, bytes)[k]) = EXPECTED_SIZE /\ Ends(Lines(c, bytes)[k]) = {}
<1> DEFINE K == Kept(c, bytes)
<1>1. /\ K \in SUBSET Nat /\ IsFiniteSet(K) /\ K \subseteq Ends(bytes)
      /\ Lines(c, bytes) = [k \in 1..Cardinality(K) |-> Line(bytes, InOrder(K)[k])]
  BY LinesFacts
<1>2. \A k \in 1..Cardinality(K) : InOrder(K)[k] \in K
  BY <1>1, InOrderLists
<1>3. ASSUME NEW e \in K PROVE Len(Line(bytes, e)) = EXPECTED_SIZE /\ Ends(Line(bytes, e)) = {}
  <2> DEFINE p == Previous(bytes, e)
  <2>1. /\ p \in Nat /\ p < e /\ \A d \in Ends(bytes) : d < e => d <= p
        /\ Line(bytes, e) \in Seq(AllBytes) /\ Len(Line(bytes, e)) = e - 1 - p
        /\ \A i \in 1..(e - 1 - p) : p + i \in 1..Len(bytes) /\ Line(bytes, e)[i] = bytes[p + i]
    BY <1>1, LineFacts
  <2>2. e \in Nat /\ DOMAIN bytes = 1..Len(bytes)
    BY <1>1, TextFacts
  <2> HIDE DEF p
  <2>3. ASSUME NEW i \in Ends(Line(bytes, e)) PROVE FALSE
    <3>1. i \in 1..(e - 1 - p) /\ CR(Line(bytes, e)[i])
      BY <2>1, TextFacts
    <3>2. p + i \in Ends(bytes)
      BY <2>1, <2>2, <3>1 DEF Ends
    <3>3. p + i < e /\ ~(p + i <= p)
      BY <2>1, <2>2, <3>1
    <3> QED
      BY <2>1, <3>2, <3>3
  <2>4. Len(Line(bytes, e)) = EXPECTED_SIZE
    BY DEF Kept, Accepts
  <2> QED
    BY <2>3, <2>4
<1> HIDE DEF K
<1> QED
  BY <1>1, <1>2, <1>3

LEMMA NothingRead ==
  ASSUME NEW c
  PROVE  Lines(c, <<>>) = <<>> /\ LastPiece(<<>>) = <<>> /\ Ends(<<>>) = {}
<1>1. <<>> \in Seq(AllBytes) /\ Len(<<>>) = 0
  OBVIOUS
<1>2. Ends(<<>>) = {}
  BY DEF Ends
<1>3. Kept(c, <<>>) = {}
  BY <1>2 DEF Kept
<1>4. Len(Lines(c, <<>>)) = 0 /\ Lines(c, <<>>) \in Seq(Seq(AllBytes))
  BY <1>1, <1>3, LinesFacts, FS_EmptySet
<1>5. LastPiece(<<>>) \in Seq(AllBytes) /\ Len(LastPiece(<<>>)) = 0
  <2>1. LET p == LastEnd(<<>>)
        IN  /\ p \in Nat /\ p <= Len(<<>>)
            /\ LastPiece(<<>>) \in Seq(AllBytes) /\ Len(LastPiece(<<>>)) = Len(<<>>) - p
    BY <1>1, LastPieceFacts
  <2> QED
    BY <1>1, <2>1
<1> QED
  BY <1>2, <1>4, <1>5, EmptySeq

(* decodeData keeps what has been read the lines of what came.             *)
LEMMA Decodes ==
  ASSUME delivered \in Seq(AllBytes), ReadInv, NEW data \in Seq(AllBytes),
         decodeData(data), codec' = codec
  PROVE  delivered' = delivered \o data /\ delivered' \in Seq(AllBytes) /\ ReadInv'
<1>1. delivered' = delivered \o data /\ delivered' \in Seq(AllBytes)
  BY ConcatProperties DEF decodeData
<1>2. CASE Ends(data) = {}
  <2>1. Cut(mDataBuffer, data) = <<<<>>, mDataBuffer \o data>>
    BY <1>2 DEF Cut
  <2>2. mDataBuffer' = mDataBuffer \o data /\ accepted' = accepted \o Lines(codec, <<>>)
    BY <2>1 DEF decodeData
  <2>3. Lines(codec, <<>>) = <<>> /\ Lines(codec, delivered) \in Seq(Seq(AllBytes))
    BY NothingRead, LinesFacts
  <2>4. accepted' = Lines(codec, delivered)
    BY <2>2, <2>3, ConcatEmptySeq DEF ReadInv
  <2>5. Lines(codec, delivered \o data) = Lines(codec, delivered)
        /\ LastPiece(delivered \o data) = LastPiece(delivered) \o data
    BY <1>2, ChunkWithoutEnd
  <2>6. accepted' = Lines(codec', delivered') /\ mDataBuffer' = LastPiece(delivered')
    BY <1>1, <2>2, <2>4, <2>5 DEF ReadInv
  <2> QED
    BY <1>1, <2>6 DEF ReadInv
<1>3. CASE Ends(data) # {}
  <2>1. Cut(mDataBuffer, data) = <<mDataBuffer \o data, LastPiece(mDataBuffer \o data)>>
    BY <1>3 DEF Cut
  <2>2. /\ mDataBuffer' = LastPiece(mDataBuffer \o data)
        /\ accepted' = accepted \o Lines(codec, mDataBuffer \o data)
    BY <2>1 DEF decodeData
  <2>3. /\ Lines(codec, delivered \o data)
             = Lines(codec, delivered) \o Lines(codec, LastPiece(delivered) \o data)
        /\ LastPiece(delivered \o data) = LastPiece(LastPiece(delivered) \o data)
    <3>1. delivered \in Seq(AllBytes) /\ data \in Seq(AllBytes) /\ Ends(data) # {}
      BY <1>3
    <3> QED
      BY ONLY <3>1, ChunkWithEnd
  <2>4. accepted' = Lines(codec', delivered') /\ mDataBuffer' = LastPiece(delivered')
    BY <1>1, <2>2, <2>3 DEF ReadInv
  <2> QED
    BY <1>1, <2>4 DEF ReadInv
<1> QED
  BY <1>1, <1>2, <1>3

(* A byte more, sent after all that came, and nothing more than came       *)
(* already, keep the order.                                                *)
LEMMA OneMore ==
  ASSUME NEW d \in Seq(AllBytes), NEW r \in Seq(AllBytes), Increasing(d \o r),
         NEW b \in AllBytes, \A c \in ToSet(d \o r) : SentBefore(c, b)
  PROVE  /\ Append(r, b) \in Seq(AllBytes) /\ Increasing(d \o Append(r, b))
         /\ \A c \in ToSet(d \o Append(r, b)) : c \in ToSet(d \o r) \/ c = b
<1> DEFINE s == d \o r
           n == Len(s) + 1
           t == d \o Append(r, b)
<1>1. /\ Len(d) \in Nat /\ Len(r) \in Nat /\ Append(r, b) \in Seq(AllBytes)
      /\ Len(Append(r, b)) = Len(r) + 1
      /\ \A i \in 1..Len(r) : Append(r, b)[i] = r[i]
      /\ Append(r, b)[Len(r) + 1] = b
  BY AppendProperties, TextFacts
<1>2. /\ s \in Seq(AllBytes) /\ Len(s) = Len(d) + Len(r)
      /\ \A i \in 1..(Len(d) + Len(r)) : s[i] = IF i <= Len(d) THEN d[i] ELSE r[i - Len(d)]
  BY ConcatProperties
<1>3. /\ t \in Seq(AllBytes) /\ Len(t) = Len(d) + (Len(r) + 1)
      /\ \A i \in 1..(Len(d) + (Len(r) + 1)) :
           t[i] = IF i <= Len(d) THEN d[i] ELSE Append(r, b)[i - Len(d)]
  <2>1. PICK q \in Seq(AllBytes) : q = Append(r, b)
    BY <1>1
  <2>2. /\ d \o q \in Seq(AllBytes) /\ Len(d \o q) = Len(d) + Len(q)
        /\ \A i \in 1..(Len(d) + Len(q)) :
             (d \o q)[i] = IF i <= Len(d) THEN d[i] ELSE q[i - Len(d)]
    BY ConcatProperties
  <2>3. Len(q) = Len(r) + 1
    BY <1>1, <2>1
  <2> QED
    BY <2>1, <2>2, <2>3
<1>4. DOMAIN s = 1..Len(s) /\ Len(s) \in Nat /\ DOMAIN t = 1..n
  BY <1>1, <1>2, <1>3, TextFacts
<1>5. ASSUME NEW i \in 1..Len(s) PROVE t[i] = s[i]
  <2>1. CASE i <= Len(d)
    BY <1>1, <1>2, <1>3, <2>1
  <2>2. CASE ~(i <= Len(d))
    <3>1. i - Len(d) \in 1..Len(r)
      BY <1>1, <1>2, <2>2
    <3>2. t[i] = Append(r, b)[i - Len(d)] /\ s[i] = r[i - Len(d)]
      BY <1>1, <1>2, <1>3, <2>2
    <3> QED
      BY <1>1, <3>1, <3>2
  <2> QED
    BY <2>1, <2>2
<1>6. t[n] = b
  <2>1. n \in 1..(Len(d) + (Len(r) + 1)) /\ ~(n <= Len(d)) /\ n - Len(d) = Len(r) + 1
    BY <1>1, <1>2
  <2> QED
    BY <1>1, <1>3, <2>1
<1> HIDE DEF s, t
<1>7. \A i \in 1..Len(s) : s[i] \in ToSet(s)
  BY <1>4 DEF ToSet
<1>8. \A i \in 1..n : i = n \/ i \in 1..Len(s)
  BY <1>4
<1>9. ASSUME NEW j \in 1..n, NEW k \in 1..n, j < k PROVE SentBefore(t[j], t[k])
  <2>1. j \in 1..Len(s)
    BY <1>4, <1>9
  <2>2. CASE k = n
    BY <1>5, <1>6, <1>7, <2>1, <2>2 DEF s
  <2>3. CASE k # n
    BY <1>4, <1>5, <1>8, <1>9, <2>1, <2>3 DEF Increasing, s
  <2> QED
    BY <2>2, <2>3
<1>10. Increasing(t)
  BY <1>4, <1>9 DEF Increasing
<1>11. \A c \in ToSet(t) : c \in ToSet(s) \/ c = b
  <2>1. ASSUME NEW c \in ToSet(t) PROVE c \in ToSet(s) \/ c = b
    <3>1. PICK i \in 1..n : c = t[i]
      BY <1>4 DEF ToSet
    <3> QED
      BY <1>5, <1>6, <1>7, <1>8, <3>1
  <2> QED
    BY <2>1
<1> QED
  BY <1>1, <1>10, <1>11 DEF s, t

LEMMA NoMore ==
  ASSUME NEW d \in Seq(AllBytes), NEW r \in Seq(AllBytes), Increasing(d \o r)
  PROVE  d \o <<>> = d /\ Increasing(d) /\ ToSet(d) \subseteq ToSet(d \o r)
<1>1. /\ Len(d) \in Nat /\ Len(r) \in Nat /\ DOMAIN d = 1..Len(d)
      /\ d \o r \in Seq(AllBytes) /\ Len(d \o r) = Len(d) + Len(r)
      /\ \A i \in 1..(Len(d) + Len(r)) : (d \o r)[i] = IF i <= Len(d) THEN d[i] ELSE r[i - Len(d)]
  BY TextFacts, ConcatProperties
<1>2. DOMAIN (d \o r) = 1..Len(d \o r)
  BY <1>1, TextFacts
<1>3. \A i \in 1..Len(d) : i \in DOMAIN (d \o r) /\ (d \o r)[i] = d[i]
  BY <1>1, <1>2
<1>4. Increasing(d)
  BY <1>1, <1>3 DEF Increasing
<1>5. ToSet(d) \subseteq ToSet(d \o r)
  BY <1>1, <1>3 DEF ToSet
<1>6. d \o <<>> = d
  BY ConcatEmptySeq
<1> QED
  BY <1>4, <1>5, <1>6

LEMMA InitInvariant == Init => IInv
<1> SUFFICES ASSUME Init PROVE IInv
  OBVIOUS
<1>1. /\ codec \in {"Farmtek", "RaceAmericaTlink"}
      /\ transport \in {"serial", "file"} /\ mFileMode \in FileModes
      /\ started = FALSE /\ present \in BOOLEAN /\ mpTimer = FALSE /\ mpSerialPort = "closed"
      /\ sent = 0 /\ rx = <<>> /\ delivered = <<>> /\ mDataBuffer = <<>> /\ accepted = <<>>
      /\ noise = 0 /\ faults = 0 /\ openFailures = 0
  BY DEF Init, FileModes
<1>2. /\ Lines(codec, <<>>) = <<>> /\ LastPiece(<<>>) = <<>> /\ Ends(<<>>) = {}
      /\ Len(Stream) \in Nat
      /\ MaxNoise \in Nat /\ MaxFaults \in Nat /\ MaxOpenFailures \in Nat
  BY NothingRead, StreamInOrder, TimingAssumption
<1>3. <<>> \in Seq(AllBytes) /\ DOMAIN <<>> = {} /\ <<>> \o <<>> = <<>> /\ Increasing(<<>>)
  BY DEF Increasing
<1>4. \A b \in ToSet(<<>>) : FALSE
  BY DEF ToSet
<1>5. TypeOK
  <2>1. {rx, delivered, mDataBuffer} \subseteq Seq(AllBytes)
    BY <1>1, <1>3
  <2>2. Ends(mDataBuffer) = {} /\ DOMAIN accepted = {}
    BY <1>1, <1>2, <1>3
  <2>3. /\ sent \in 0..Len(Stream)
        /\ noise \in 0..MaxNoise /\ faults \in 0..MaxFaults /\ openFailures \in 0..MaxOpenFailures
    BY <1>1, <1>2
  <2>4. {started, present, mpTimer} \subseteq BOOLEAN
    BY <1>1
  <2>5. mpSerialPort \in {"closed", "open", "broken"} /\ (mpSerialPort = "closed" => rx = <<>>)
    BY <1>1
  <2>6. \A k \in DOMAIN accepted : Len(accepted[k]) = EXPECTED_SIZE /\ Ends(accepted[k]) = {}
    BY <2>2
  <2> QED
    BY <1>1, <2>1, <2>2, <2>3, <2>4, <2>5, <2>6 DEF TypeOK
<1>6. OrderInv
  BY <1>1, <1>3, <1>4 DEF OrderInv
<1>7. ReadInv
  BY <1>1, <1>2 DEF ReadInv
<1> QED
  BY <1>5, <1>6, <1>7 DEF IInv

(* TypeOK but for what the codec reads and keeps.                          *)
ControlOK ==
  /\ codec \in {"Farmtek", "RaceAmericaTlink"}
  /\ transport \in {"serial", "file"} /\ mFileMode \in FileModes
  /\ started \in BOOLEAN /\ present \in BOOLEAN /\ mpTimer \in BOOLEAN
  /\ mpSerialPort \in {"closed", "open", "broken"}
  /\ sent \in 0..Len(Stream)
  /\ mpSerialPort = "closed" => rx = <<>>
  /\ noise \in 0..MaxNoise /\ faults \in 0..MaxFaults /\ openFailures \in 0..MaxOpenFailures

LEMMA ReadTypes ==
  ASSUME NEW c, NEW bytes \in Seq(AllBytes), NEW a, NEW b,
         a = Lines(c, bytes), b = LastPiece(bytes)
  PROVE  /\ b \in Seq(AllBytes) /\ Ends(b) = {}
         /\ \A k \in DOMAIN a : Len(a[k]) = EXPECTED_SIZE /\ Ends(a[k]) = {}
<1>1. LastPiece(bytes) \in Seq(AllBytes) /\ Ends(LastPiece(bytes)) = {}
  BY LastPieceFacts
<1>2. \A k \in DOMAIN Lines(c, bytes) :
        Len(Lines(c, bytes)[k]) = EXPECTED_SIZE /\ Ends(Lines(c, bytes)[k]) = {}
  BY LinesWhole
<1> QED
  BY <1>1, <1>2

LEMMA StepInvariant == IInv /\ [Next]_vars => IInv'
<1> SUFFICES ASSUME IInv, [Next]_vars PROVE IInv'
  OBVIOUS
<1> USE DEF config, line, counters
<1>0. /\ ControlOK /\ rx \in Seq(AllBytes) /\ delivered \in Seq(AllBytes)
      /\ OrderInv /\ ReadInv /\ MaxNoise \in Nat /\ MaxFaults \in Nat /\ MaxOpenFailures \in Nat
      /\ Len(Stream) \in Nat /\ <<>> \in Seq(AllBytes)
  BY StreamInOrder, TimingAssumption DEF IInv, TypeOK, ControlOK
<1>1. ASSUME ControlOK', OrderInv', ReadInv', rx' \in Seq(AllBytes), delivered' \in Seq(AllBytes)
      PROVE  IInv'
  <2>1. /\ mDataBuffer' \in Seq(AllBytes) /\ Ends(mDataBuffer') = {}
        /\ \A k \in DOMAIN accepted' : Len(accepted'[k]) = EXPECTED_SIZE /\ Ends(accepted'[k]) = {}
    BY <1>1, ReadTypes DEF ReadInv
  <2>2. /\ {rx', delivered', mDataBuffer'} \subseteq Seq(AllBytes)
        /\ {started', present', mpTimer'} \subseteq BOOLEAN
    BY <1>1, <2>1 DEF ControlOK
  <2>3. Ends(mDataBuffer)' = {}
    BY <2>1 DEF Ends, CR
  <2>4. (\A k \in DOMAIN accepted : Len(accepted[k]) = EXPECTED_SIZE /\ Ends(accepted[k]) = {})'
    BY <2>1 DEF Ends, CR
  <2>5. TypeOK'
    BY <1>1, <2>2, <2>3, <2>4 DEF TypeOK, ControlOK
  <2> QED
    BY <1>1, <2>5 DEF IInv
<1>2. ASSUME UNCHANGED <<codec, line>> PROVE ReadInv'
  BY <1>0, <1>2 DEF ReadInv
<1>3. ASSUME open, transport = "serial", started' \in BOOLEAN PROVE IInv'
  <2>1. ControlOK'
    <3>1. /\ UNCHANGED <<codec, transport, mFileMode, present, sent, rx, noise, faults>>
          /\ started' \in BOOLEAN
      BY <1>3 DEF open
    <3>2. CASE OpenSucceeds
      <4>1. mpTimer' \in BOOLEAN /\ openFailures' = openFailures
        BY <3>2 DEF OpenSucceeds
      <4>2. \/ mpSerialPort' = "open"
            \/ mpSerialPort # "closed" /\ mpSerialPort' = mpSerialPort
        BY <3>2 DEF OpenSucceeds
      <4> QED
        BY <1>0, <3>1, <4>1, <4>2 DEF ControlOK
    <3>3. CASE OpenFails
      <4>1. /\ mpTimer' = mpTimer /\ mpSerialPort' = mpSerialPort
            /\ openFailures' = openFailures
               \/ (openFailures < MaxOpenFailures /\ openFailures' = openFailures + 1)
        BY <3>3 DEF OpenFails
      <4>2. openFailures' \in 0..MaxOpenFailures
        BY <1>0, <4>1 DEF ControlOK
      <4> QED
        BY <1>0, <3>1, <4>1, <4>2 DEF ControlOK
    <3> QED
      BY <1>3, <3>2, <3>3 DEF open
  <2>2. OrderInv'
    BY <1>0, <1>3 DEF OrderInv, open
  <2> QED
    BY <1>0, <1>1, <1>2, <1>3, <2>1, <2>2 DEF open
<1>4. CASE StartSerial
  BY <1>3, <1>4 DEF StartSerial
<1>5. CASE handleTimeout
  <2>1. transport = "serial" /\ started' \in BOOLEAN
    BY <1>0, <1>5 DEF handleTimeout, OrderInv, ControlOK
  <2> QED
    BY <1>3, <1>5, <2>1 DEF handleTimeout
<1>6. CASE handleReadyRead
  <2>1. delivered' = delivered \o rx /\ delivered' \in Seq(AllBytes) /\ ReadInv'
    BY <1>0, <1>6, Decodes DEF handleReadyRead
  <2>2. rx' = <<>> /\ delivered' \o rx' = delivered \o rx
    BY <1>6, <2>1, ConcatEmptySeq DEF handleReadyRead
  <2>3. OrderInv'
    BY <1>0, <1>6, <2>2 DEF OrderInv, handleReadyRead
  <2>4. ControlOK'
    BY <1>0, <1>6 DEF ControlOK, handleReadyRead
  <2> QED
    BY <1>0, <1>1, <2>1, <2>2, <2>3, <2>4
<1>7. CASE handleError
  <2>1. /\ rx' = <<>> /\ delivered' = delivered
        /\ delivered' \o rx' = delivered /\ Increasing(delivered)
        /\ ToSet(delivered) \subseteq ToSet(delivered \o rx)
    BY <1>0, <1>7, NoMore DEF handleError, resetError, OrderInv
  <2>2. OrderInv'
    BY <1>0, <1>7, <2>1 DEF OrderInv, handleError
  <2>3. ControlOK'
    BY <1>0, <1>7 DEF ControlOK, handleError, resetError
  <2> QED
    BY <1>0, <1>1, <1>2, <1>7, <2>1, <2>2, <2>3 DEF handleError
<1>8. CASE StartFile
  <2>1. /\ transport = "file" /\ delivered = <<>> /\ rx = <<>> /\ sent = 0
        /\ mpSerialPort = "closed" /\ ~mpTimer
    BY <1>0, <1>8 DEF StartFile, OrderInv, ControlOK
  <2>2. /\ transport' = "file" /\ rx' = <<>> /\ mpSerialPort' = "closed" /\ ~mpTimer'
        /\ sent' = 0 /\ started' = TRUE
    BY <1>8, <2>1 DEF StartFile
  <2>3. delivered' \in Seq(AllBytes) /\ Increasing(delivered') /\ ReadInv'
    <3>1. CASE "new_only" \in mFileMode
      <4>1. UNCHANGED <<codec, line>>
        BY <1>8, <3>1 DEF StartFile
      <4>2. Increasing(<<>>)
        BY DEF Increasing
      <4> QED
        BY <1>0, <1>2, <2>1, <4>1, <4>2
    <3>2. CASE ~("new_only" \in mFileMode)
      <4>1. decodeData(FileContents) /\ codec' = codec
        BY <1>8, <3>2 DEF StartFile
      <4>2. FileContents \in Seq(AllBytes) /\ Increasing(FileContents)
        BY FileInOrder
      <4>3. delivered' = delivered \o FileContents /\ delivered' \in Seq(AllBytes) /\ ReadInv'
        BY <1>0, <4>1, <4>2, Decodes
      <4>4. delivered' = FileContents
        BY <2>1, <4>2, <4>3, ConcatEmptySeq
      <4> QED
        BY <4>2, <4>3, <4>4
    <3> QED
      BY <3>1, <3>2
  <2>4. delivered' \o rx' = delivered'
    BY <2>2, <2>3, ConcatEmptySeq
  <2>5. OrderInv'
    BY <2>2, <2>3, <2>4 DEF OrderInv
  <2>6. ControlOK'
    BY <1>0, <1>8 DEF ControlOK, StartFile
  <2> QED
    BY <1>0, <1>1, <2>2, <2>3, <2>5, <2>6
<1>9. CASE Send
  <2>1. /\ transport = "serial" /\ transport' = transport /\ delivered' = delivered
        /\ sent \in 0..Len(Stream) /\ sent < Len(Stream) /\ sent' = sent + 1
    BY <1>0, <1>9 DEF Send, ControlOK
  <2>2. PICK b \in AllBytes : b = Stream[sent + 1] /\ Position(b) = sent + 1
    <3>1. sent + 1 \in DOMAIN Stream
      BY <1>0, <2>1, StreamInOrder
    <3> QED
      BY <3>1, StreamInOrder
  <2>3. ControlOK'
    BY <1>0, <1>9 DEF ControlOK, Send
  <2>4. ReadInv'
    BY <1>2, <1>9 DEF Send
  <2>5. \A c \in ToSet(delivered \o rx) : c \in AllBytes /\ Position(c) \in Nat /\ Position(c) <= sent
    <3>1. \A c \in ToSet(delivered \o rx) : c \in AllBytes
      <4>1. PICK t \in Seq(AllBytes) : t = delivered \o rx
        BY <1>0, ConcatProperties
      <4>2. \A i \in DOMAIN t : t[i] \in AllBytes
        BY <4>1, TextFacts
      <4> QED
        BY <4>1, <4>2 DEF ToSet
    <3> QED
      BY <1>0, <2>1, <3>1, StreamInOrder DEF OrderInv
  <2>6. CASE rx' = Append(rx, b)
    <3>1. \A c \in ToSet(delivered \o rx) : SentBefore(c, b)
      <4>1. \A c \in ToSet(delivered \o rx) : Position(c) < Position(b)
        BY <2>1, <2>2, <2>5
      <4> QED
        BY <2>5, <4>1, StreamInOrder
    <3>2. /\ rx' \in Seq(AllBytes) /\ Increasing(delivered' \o rx')
          /\ \A c \in ToSet(delivered' \o rx') : c \in ToSet(delivered \o rx) \/ c = b
      BY <1>0, <2>1, <2>6, <3>1, OneMore DEF OrderInv
    <3>3. \A c \in ToSet(delivered' \o rx') : Position(c) <= sent'
      BY <2>1, <2>2, <2>5, <3>2
    <3>4. OrderInv'
      BY <2>1, <3>2, <3>3 DEF OrderInv
    <3> QED
      BY <1>0, <1>1, <2>1, <2>3, <2>4, <3>2, <3>4
  <2>7. CASE rx' = rx
    <3>1. \A c \in ToSet(delivered' \o rx') : Position(c) <= sent'
      BY <2>1, <2>5, <2>7
    <3>2. OrderInv'
      BY <1>0, <2>1, <2>7, <3>1 DEF OrderInv
    <3> QED
      BY <1>0, <1>1, <2>1, <2>3, <2>4, <2>7, <3>2
  <2> QED
    BY <1>9, <2>2, <2>6, <2>7 DEF Send
<1>10. CASE Break
  <2>1. ControlOK'
    BY <1>0, <1>10 DEF ControlOK, Break
  <2>2. OrderInv'
    BY <1>0, <1>10 DEF OrderInv, Break
  <2> QED
    BY <1>0, <1>1, <1>2, <1>10, <2>1, <2>2 DEF Break
<1>11. CASE PlugIn
  <2>1. ControlOK'
    BY <1>0, <1>11 DEF ControlOK, PlugIn
  <2>2. OrderInv'
    BY <1>0, <1>11 DEF OrderInv, PlugIn
  <2> QED
    BY <1>0, <1>1, <1>2, <1>11, <2>1, <2>2 DEF PlugIn
<1>12. CASE UNCHANGED vars
  <2>1. ControlOK' /\ OrderInv'
    BY <1>0, <1>12 DEF ControlOK, OrderInv, vars
  <2> QED
    BY <1>0, <1>1, <1>2, <1>12, <2>1 DEF vars
<1> QED
  BY <1>4, <1>5, <1>6, <1>7, <1>8, <1>9, <1>10, <1>11, <1>12 DEF Next

-----------------------------------------------------------------------------
(* What came in order: where a byte is says when it was sent.              *)
LEMMA Places ==
  ASSUME NEW s \in Seq(AllBytes), Increasing(s)
  PROVE  \A p, q \in 1..Len(s) : /\ s[p] = s[q] => p = q
                                 /\ SentBefore(s[p], s[q]) <=> p < q
<1>1. Len(s) \in Nat /\ DOMAIN s = 1..Len(s) /\ \A i \in 1..Len(s) : s[i] \in AllBytes
  BY TextFacts
<1>2. \A p, q \in 1..Len(s) : p < q => SentBefore(s[p], s[q])
  BY <1>1 DEF Increasing
<1>3. ASSUME NEW p \in 1..Len(s), NEW q \in 1..Len(s)
      PROVE  /\ s[p] = s[q] => p = q
             /\ SentBefore(s[p], s[q]) <=> p < q
  <2>1. s[p] \in AllBytes /\ s[q] \in AllBytes /\ (p < q \/ p = q \/ q < p)
    BY <1>1
  <2>2. CASE p < q
    BY <1>2, <2>1, <2>2, ByteOrder
  <2>3. CASE p = q
    BY <2>1, <2>3, ByteOrder
  <2>4. CASE q < p
    <3>1. SentBefore(s[q], s[p])
      BY <1>2, <2>4
    <3>2. ~SentBefore(s[p], s[q]) /\ s[p] # s[q]
      BY <2>1, <3>1, ByteOrder
    <3> QED
      BY <1>1, <2>4, <3>2
  <2> QED
    BY <2>1, <2>2, <2>3, <2>4
<1> QED
  BY <1>3

(* Two bytes that came, and none was sent between them, stand side by side.*)
LEMMA SideBySide ==
  ASSUME NEW s \in Seq(AllBytes), Increasing(s),
         NEW p \in 1..Len(s), NEW q \in 1..Len(s), SentBefore(s[p], s[q]),
         \A b \in AllBytes : ~(SentBefore(s[p], b) /\ SentBefore(b, s[q]))
  PROVE  q = p + 1
<1>1. Len(s) \in Nat /\ \A i \in 1..Len(s) : s[i] \in AllBytes
  BY TextFacts
<1>2. p < q
  BY Places
<1>3. SUFFICES ASSUME q # p + 1 PROVE FALSE
  OBVIOUS
<1>4. PICK i \in 1..Len(s) : i = p + 1
  BY <1>1, <1>2
<1>5. p < i /\ i < q
  BY <1>1, <1>2, <1>3, <1>4
<1>6. SentBefore(s[p], s[i]) /\ SentBefore(s[i], s[q]) /\ s[i] \in AllBytes
  BY <1>1, <1>5, Places
<1> QED
  BY <1>6

(* A message all of whose bytes came stands in one piece in what came.     *)
LEMMA WholeMessage ==
  ASSUME NEW s \in Seq(AllBytes), Increasing(s), NEW m \in DOMAIN Messages,
         \A i \in 1..(Messages[m].size + 1) : \E j \in DOMAIN s : s[j] = <<m, i>>
  PROVE  \E l \in 1..Len(s) : \A i \in 1..(Messages[m].size + 1) :
           l + i - 1 \in 1..Len(s) /\ s[l + i - 1] = <<m, i>>
<1> DEFINE z == Messages[m].size + 1
<1>1. /\ z \in Nat /\ z >= 2 /\ Messages[m].size \in Nat
      /\ Len(s) \in Nat /\ DOMAIN s = 1..Len(s)
      /\ \A i \in 1..z : <<m, i>> \in AllBytes
  BY ByteFacts, TextFacts
<1>2. PICK l \in 1..Len(s) : s[l] = <<m, 1>>
  <2>1. 1 \in 1..z
    BY <1>1
  <2> QED
    BY <1>1, <2>1
<1> DEFINE Good(i) == l + i - 1 \in 1..Len(s) /\ s[l + i - 1] = <<m, i>>
           Bad == {i \in 1..z : ~Good(i)}
<1>3. Bad = {}
  <2>1. SUFFICES ASSUME Bad # {} PROVE FALSE
    OBVIOUS
  <2>2. Bad \in SUBSET Nat
    BY <1>1
  <2>3. PICK i \in Bad : \A y \in Bad : i <= y
    BY <2>1, <2>2, LeastNumber
  <2>4. i \in 1..z /\ ~Good(i) /\ i \in Nat
    BY <1>1
  <2>5. Good(1)
    <3>1. l + 1 - 1 = l
      BY <1>1
    <3> QED
      BY <1>2, <3>1
  <2>6. i # 1
    BY <2>4, <2>5
  <2>7. PICK h \in 1..Messages[m].size : i = h + 1
    BY <1>1, <2>4, <2>6
  <2>8. h \in 1..z /\ h < i /\ h \in Nat
    BY <1>1, <2>7
  <2>9. Good(h)
    <3>1. h \notin Bad
      BY <2>3, <2>4, <2>8
    <3> QED
      BY <2>8, <3>1
  <2>10. PICK p \in 1..Len(s) : p = l + h - 1 /\ s[p] = <<m, h>>
    BY <2>9
  <2>11. PICK q \in 1..Len(s) : s[q] = <<m, h + 1>>
    BY <1>1, <2>4, <2>7
  <2>12. SentBefore(<<m, h>>, <<m, h + 1>>)
    BY <2>8 DEF SentBefore
  <2>13. \A b \in AllBytes : ~(SentBefore(<<m, h>>, b) /\ SentBefore(b, <<m, h + 1>>))
    BY NextByte
  <2>14. q = p + 1
    <3>1. /\ SentBefore(s[p], s[q])
          /\ \A b \in AllBytes : ~(SentBefore(s[p], b) /\ SentBefore(b, s[q]))
      BY <2>10, <2>11, <2>12, <2>13
    <3> QED
      BY <3>1, SideBySide
  <2>15. q = l + i - 1
    BY <1>1, <2>7, <2>8, <2>10, <2>14
  <2> QED
    BY <2>4, <2>7, <2>11, <2>15
<1>4. \A i \in 1..z : Good(i)
  BY <1>3
<1> QED
  BY <1>4

(* The message of one size that stands in one piece is what SubSeq cuts.   *)
LEMMA MessageCut ==
  ASSUME delivered \in Seq(AllBytes), NEW m \in DOMAIN Messages,
         NEW l \in 1..Len(delivered), Messages[m].size = EXPECTED_SIZE,
         \A i \in 1..(EXPECTED_SIZE + 1) :
           l + i - 1 \in 1..Len(delivered) /\ delivered[l + i - 1] = <<m, i>>
  PROVE  /\ l \in 1..(Len(delivered) - EXPECTED_SIZE)
         /\ SubSeq(delivered, l, l + EXPECTED_SIZE - 1) = Bytes(m)
         /\ Len(Bytes(m)) = EXPECTED_SIZE /\ Bytes(m)[1] = <<m, 1>>
         /\ \A j \in l..(l + EXPECTED_SIZE - 1) : ~CR(delivered[j])
         /\ CR(delivered[l + EXPECTED_SIZE])
<1> DEFINE L == EXPECTED_SIZE
<1>1. L \in Nat /\ L > 0 /\ Len(delivered) \in Nat
  BY ByteFacts, TextFacts
<1>2. \A i \in 1..L : <<m, i>> \in AllBytes
  <2>1. \A i \in 1..L : i \in 1..(Messages[m].size + 1)
    BY <1>1
  <2> QED
    BY <2>1, ByteFacts
<1>3. \A i \in 1..(L + 1) : l + i - 1 \in 1..Len(delivered) /\ delivered[l + i - 1] = <<m, i>>
  OBVIOUS
<1>4. Bytes(m) = [i \in 1..L |-> <<m, i>>]
  BY DEF Bytes
<1>5. Bytes(m) \in Seq(AllBytes) /\ Len(Bytes(m)) = L /\ \A i \in 1..L : Bytes(m)[i] = <<m, i>>
  <2>1. Bytes(m) \in [1..L -> AllBytes]
    BY <1>2, <1>4
  <2>2. Bytes(m) \in Seq(AllBytes) /\ DOMAIN Bytes(m) = 1..L
    BY <1>1, <2>1, IsASeq
  <2> QED
    BY <1>1, <1>4, <2>2, LenProperties
<1> HIDE DEF L
<1>6. l \in 1..(Len(delivered) - L) /\ l + L - 1 <= Len(delivered)
  <2>1. L + 1 \in 1..(L + 1) /\ l + (L + 1) - 1 = l + L
    BY <1>1
  <2>2. l + L \in 1..Len(delivered)
    BY <1>3, <2>1
  <2> QED
    BY <1>1, <2>2
<1>7. SubSeq(delivered, l, l + L - 1) = Bytes(m)
  <2>1. PICK p \in Nat : l = p + 1
    BY <1>1
  <2>2. PICK e \in Nat : e = l + L - 1
    BY <1>1
  <2>3. p <= e /\ e <= Len(delivered) /\ e - p = L
    BY <1>1, <1>6, <2>1, <2>2
  <2>4. /\ SubSeq(delivered, p + 1, e) \in Seq(AllBytes) /\ Len(SubSeq(delivered, p + 1, e)) = L
        /\ \A i \in 1..L : SubSeq(delivered, p + 1, e)[i] = delivered[p + i]
    BY <2>3, PartFacts
  <2>5. \A i \in 1..L : delivered[p + i] = <<m, i>>
    <3>1. \A i \in 1..L : p + i = l + i - 1 /\ i \in 1..(L + 1)
      BY <1>1, <2>1
    <3> QED
      BY <1>3, <3>1
  <2>6. SubSeq(delivered, p + 1, e) = Bytes(m)
    BY <1>5, <2>4, <2>5, SeqEqual
  <2> QED
    BY <2>1, <2>2, <2>6
<1>8. ASSUME NEW j \in l..(l + L - 1) PROVE ~CR(delivered[j])
  <2>1. PICK i \in 1..L : j = l + i - 1
    <3>1. j - l + 1 \in 1..L /\ j = l + (j - l + 1) - 1
      BY <1>1
    <3> QED
      BY <3>1
  <2>2. delivered[j] = <<m, i>> /\ i # L + 1
    <3>1. i \in 1..(L + 1) /\ i # L + 1
      BY <1>1, <2>1
    <3> QED
      BY <1>3, <2>1, <3>1
  <2> QED
    BY <2>2 DEF CR, L
<1>9. CR(delivered[l + L])
  <2>1. delivered[l + L] = <<m, L + 1>>
    <3>1. L + 1 \in 1..(L + 1) /\ l + (L + 1) - 1 = l + L
      BY <1>1
    <3> QED
      BY <1>3, <3>1
  <2> QED
    BY <2>1 DEF CR, L
<1>10. Bytes(m)[1] = <<m, 1>>
  BY <1>1, <1>5
<1> QED
  BY <1>5, <1>6, <1>7, <1>8, <1>9, <1>10 DEF L

(* What of the invariant the losses need.                                  *)
Came == delivered \in Seq(AllBytes) /\ Increasing(delivered)

(* An accepted line is one that is kept, and each kept one is accepted at  *)
(* one place.                                                              *)
LEMMA AcceptedKept ==
  ASSUME Came, ReadInv
  PROVE  /\ \A k \in DOMAIN accepted : \E e \in Kept(codec, delivered) :
              accepted[k] = Line(delivered, e)
         /\ \A e \in Kept(codec, delivered) :
              \E k \in DOMAIN accepted :
                /\ accepted[k] = Line(delivered, e)
                /\ \A l \in DOMAIN accepted : l # k =>
                     \E f \in Kept(codec, delivered) : f # e /\ accepted[l] = Line(delivered, f)
<1> DEFINE K == Kept(codec, delivered)
           n == Cardinality(K)
<1>1. /\ K \in SUBSET Nat /\ IsFiniteSet(K) /\ n \in Nat
      /\ accepted = [k \in 1..n |-> Line(delivered, InOrder(K)[k])]
  BY LinesFacts DEF Came, ReadInv
<1>2. /\ InOrder(K) \in [1..n -> K]
      /\ \A k, l \in 1..n : k < l => InOrder(K)[k] < InOrder(K)[l]
      /\ \A e \in K : \E k \in 1..n : InOrder(K)[k] = e
  BY <1>1, InOrderLists
<1> HIDE DEF K, n
<1>3. /\ DOMAIN accepted = 1..n
      /\ \A k \in 1..n : InOrder(K)[k] \in K /\ accepted[k] = Line(delivered, InOrder(K)[k])
  BY <1>1, <1>2
<1>4. ASSUME NEW k \in 1..n, NEW l \in 1..n, l # k PROVE InOrder(K)[l] # InOrder(K)[k]
  <2>1. InOrder(K)[k] \in Nat /\ InOrder(K)[l] \in Nat /\ (k < l \/ l < k)
    <3>1. InOrder(K)[k] \in K /\ InOrder(K)[l] \in K
      BY <1>3
    <3>2. k < l \/ l < k
      BY <1>1, <1>4
    <3> QED
      BY <1>1, <3>1, <3>2
  <2>2. InOrder(K)[k] < InOrder(K)[l] \/ InOrder(K)[l] < InOrder(K)[k]
    BY <1>2, <2>1
  <2> QED
    BY <2>1, <2>2
<1>5. ASSUME NEW e \in K
      PROVE  \E k \in DOMAIN accepted :
               /\ accepted[k] = Line(delivered, e)
               /\ \A l \in DOMAIN accepted : l # k =>
                    \E f \in K : f # e /\ accepted[l] = Line(delivered, f)
  <2>1. PICK k \in 1..n : InOrder(K)[k] = e
    BY <1>2
  <2>2. \A l \in 1..n : l # k => InOrder(K)[l] # e
    BY <1>4, <2>1
  <2> QED
    BY <1>3, <2>1, <2>2
<1>6. \A k \in DOMAIN accepted : \E e \in K : accepted[k] = Line(delivered, e)
  BY <1>3
<1> QED
  BY <1>5, <1>6 DEF K

LEMMA IntactAreRead ==
  ASSUME Came, ReadInv
  PROVE  IntactMessagesAreRead
<1> DEFINE L == EXPECTED_SIZE
<1>1. /\ L \in Nat /\ L > 0 /\ Len(delivered) \in Nat /\ DOMAIN delivered = 1..Len(delivered)
      /\ \A i \in 1..Len(delivered) : delivered[i] \in AllBytes
  BY ByteFacts, TextFacts DEF Came
<1> HIDE DEF L
<1>2. SUFFICES ASSUME NEW m \in DOMAIN Messages, Wanted(m),
                      \A i \in 1..(Messages[m].size + 1) : Arrived(<<m, i>>),
                      m > 1 => Arrived(<<m - 1, Messages[m - 1].size + 1>>)
               PROVE  Cardinality({k \in DOMAIN accepted : accepted[k] = Bytes(m)}) = 1
  BY DEF IntactMessagesAreRead
<1>3. /\ Messages[m].size = L
      /\ codec = "Farmtek" \/ Messages[m].type # "Z"
      /\ m \in Nat /\ m >= 1 /\ \A i \in 1..(L + 1) : <<m, i>> \in AllBytes
  <2>1. DOMAIN Messages = 1..Len(Messages) /\ Len(Messages) \in Nat
    BY TimingAssumption
  <2> QED
    BY <1>2, <2>1, ByteFacts DEF Wanted, L
<1>4. PICK l \in 1..Len(delivered) : \A i \in 1..(L + 1) :
        l + i - 1 \in 1..Len(delivered) /\ delivered[l + i - 1] = <<m, i>>
  <2>1. \A i \in 1..(Messages[m].size + 1) : \E j \in DOMAIN delivered : delivered[j] = <<m, i>>
    BY <1>2 DEF Arrived
  <2> QED
    BY <1>3, <2>1, WholeMessage DEF Came
<1>5. /\ l \in 1..(Len(delivered) - L)
      /\ SubSeq(delivered, l, l + L - 1) = Bytes(m)
      /\ Len(Bytes(m)) = L /\ Bytes(m)[1] = <<m, 1>>
      /\ \A j \in l..(l + L - 1) : ~CR(delivered[j])
      /\ CR(delivered[l + L])
  BY <1>3, <1>4, MessageCut DEF Came, L
<1>6. delivered[l] = <<m, 1>> /\ <<m, 1>> \in AllBytes
  <2>1. 1 \in 1..(L + 1) /\ l + 1 - 1 = l
    BY <1>1
  <2> QED
    BY <1>3, <1>4, <2>1
<1>7. l = 1 \/ CR(delivered[l - 1])
  <2>1. CASE m = 1
    <3>1. SUFFICES ASSUME l # 1 PROVE FALSE
      OBVIOUS
    <3>2. PICK p \in 1..Len(delivered) : p < l
      BY <1>1, <3>1
    <3>3. SentBefore(delivered[p], delivered[l]) /\ delivered[p] \in AllBytes
      BY <1>1, <3>2, Places DEF Came
    <3> QED
      BY <1>6, <2>1, <3>3, NextByte
  <2>2. CASE m > 1
    <3>1. PICK p \in 1..Len(delivered) : delivered[p] = <<m - 1, Messages[m - 1].size + 1>>
      BY <1>1, <1>2, <2>2 DEF Arrived
    <3>2. SentBefore(delivered[p], delivered[l])
      BY <1>3, <1>6, <3>1 DEF SentBefore
    <3>3. \A b \in AllBytes : ~(SentBefore(delivered[p], b) /\ SentBefore(b, delivered[l]))
      BY <1>6, <2>2, <3>1, NextByte
    <3>4. l = p + 1
      BY <3>2, <3>3, SideBySide DEF Came
    <3>5. l - 1 = p
      BY <1>1, <3>4
    <3> QED
      BY <3>1, <3>5 DEF CR
  <2> QED
    BY <1>3, <2>1, <2>2
<1>8. Begins(l)
  <2>1. (l + L - 1) + 1 = l + L
    BY <1>1
  <2>2. IsLine(l, l + L - 1)
    BY <1>5, <1>7, <2>1 DEF IsLine
  <2>3. Accepts(codec, SubSeq(delivered, l, l + L - 1))
    <3>1. <<m, 1>>[1] = m
      OBVIOUS
    <3> QED
      BY <1>3, <1>5, <3>1 DEF Accepts, L
  <2> QED
    BY <1>5, <2>2, <2>3 DEF Begins, L
<1>9. PICK e \in Kept(codec, delivered) : e = l + L
  BY <1>8, BeginsKept DEF Came, L
<1>10. \A f \in Kept(codec, delivered) :
         /\ f \in Nat /\ f - L \in 1..Len(delivered)
         /\ Line(delivered, f) = SubSeq(delivered, f - L, f - L + L - 1)
         /\ Line(delivered, f)[1] = delivered[f - L]
  <2>1. ASSUME NEW f \in Kept(codec, delivered)
        PROVE  /\ f \in Nat /\ f - L \in 1..Len(delivered)
               /\ Line(delivered, f) = SubSeq(delivered, f - L, f - L + L - 1)
               /\ Line(delivered, f)[1] = delivered[f - L]
    <3>1. PICK j : j = f - EXPECTED_SIZE
      OBVIOUS
    <3>2. /\ j \in Nat /\ Begins(j) /\ j + EXPECTED_SIZE = f
          /\ Line(delivered, f) = SubSeq(delivered, j, j + EXPECTED_SIZE - 1)
          /\ \A i \in 1..EXPECTED_SIZE : Line(delivered, f)[i] = delivered[j + i - 1]
      BY <3>1, KeptBegins DEF Came
    <3>3. Line(delivered, f)[1] = delivered[j]
      <4>1. 1 \in 1..EXPECTED_SIZE /\ j + 1 - 1 = j
        BY <1>1, <3>2 DEF L
      <4> QED
        BY <3>2, <4>1
    <3>4. j \in 1..Len(delivered)
      <4>1. j \in 1..(Len(delivered) - L)
        BY <3>2 DEF Begins, L
      <4> QED
        BY <1>1, <4>1
    <3>5. f \in Nat
      BY <1>1, <3>2 DEF L
    <3> QED
      BY <3>1, <3>2, <3>3, <3>4, <3>5 DEF L
  <2> QED
    BY <2>1
<1>11. Line(delivered, e) = Bytes(m)
  <2>1. e - L = l
    BY <1>1, <1>9
  <2> QED
    BY <1>5, <1>10, <2>1
<1>12. ASSUME NEW f \in Kept(codec, delivered), f # e PROVE Line(delivered, f) # Bytes(m)
  <2>1. f - L # l
    BY <1>1, <1>9, <1>10, <1>12
  <2>2. delivered[f - L] # delivered[l]
    BY <1>10, <2>1, Places DEF Came
  <2> QED
    BY <1>5, <1>6, <1>10, <2>2
<1>13. PICK k \in DOMAIN accepted :
         /\ accepted[k] = Line(delivered, e)
         /\ \A h \in DOMAIN accepted : h # k =>
              \E f \in Kept(codec, delivered) : f # e /\ accepted[h] = Line(delivered, f)
  BY AcceptedKept
<1>14. {h \in DOMAIN accepted : accepted[h] = Bytes(m)} = {k}
  BY <1>11, <1>12, <1>13
<1> QED
  BY <1>14, FS_Singleton

LEMMA WrongSpansLoss ==
  ASSUME Came, ReadInv, codec \in {"Farmtek", "RaceAmericaTlink"}
  PROVE  WrongLinesSpanALoss
<1> DEFINE L == EXPECTED_SIZE
<1>1. /\ L \in Nat /\ L > 0 /\ Len(delivered) \in Nat /\ DOMAIN delivered = 1..Len(delivered)
      /\ \A i \in 1..Len(delivered) : delivered[i] \in AllBytes
  BY ByteFacts, TextFacts DEF Came
<1>2. SUFFICES ASSUME NEW k \in DOMAIN accepted,
                      \A j \in DOMAIN delivered, b \in AllBytes :
                        /\ delivered[j] = accepted[k][1]
                        /\ j > 1 => SentBefore(delivered[j - 1], b)
                        /\ SentBefore(b, delivered[j + EXPECTED_SIZE])
                        => Arrived(b)
               PROVE  \E m \in DOMAIN Messages : Wanted(m) /\ accepted[k] = Bytes(m)
  BY DEF WrongLinesSpanALoss
<1>3. PICK e \in Kept(codec, delivered) : accepted[k] = Line(delivered, e)
  BY AcceptedKept
<1>4. PICK j : j = e - EXPECTED_SIZE
  OBVIOUS
<1>5. /\ j \in Nat /\ Begins(j) /\ j + EXPECTED_SIZE = e
      /\ accepted[k] = SubSeq(delivered, j, j + EXPECTED_SIZE - 1)
      /\ \A i \in 1..EXPECTED_SIZE : accepted[k][i] = delivered[j + i - 1]
  BY <1>3, <1>4, KeptBegins DEF Came
<1> HIDE DEF L
<1>6. /\ j \in 1..(Len(delivered) - L)
      /\ j = 1 \/ CR(delivered[j - 1])
      /\ \A i \in j..(j + L - 1) : ~CR(delivered[i])
      /\ CR(delivered[(j + L - 1) + 1])
      /\ Accepts(codec, accepted[k])
  BY <1>5 DEF Begins, IsLine, L
<1>7. /\ j \in 1..Len(delivered) /\ e \in 1..Len(delivered) /\ e = j + L /\ j < e
      /\ CR(delivered[e]) /\ accepted[k][1] = delivered[j]
  <2>1. /\ j \in 1..Len(delivered) /\ e \in 1..Len(delivered) /\ e = j + L /\ j < e
        /\ (j + L - 1) + 1 = e
    BY <1>1, <1>5, <1>6 DEF L
  <2>2. 1 \in 1..L /\ j + 1 - 1 = j
    BY <1>1, <1>5
  <2> QED
    BY <1>5, <1>6, <2>1, <2>2 DEF L
<1>8. \A b \in AllBytes :
        (j > 1 => SentBefore(delivered[j - 1], b)) /\ SentBefore(b, delivered[e]) => Arrived(b)
  BY <1>1, <1>2, <1>7 DEF L
<1>9. PICK m \in DOMAIN Messages : delivered[e] = <<m, Messages[m].size + 1>>
  <2>1. delivered[e] \in AllBytes
    BY <1>1, <1>7
  <2>2. /\ delivered[e][1] \in DOMAIN Messages
        /\ delivered[e] = <<delivered[e][1], delivered[e][2]>>
    BY <2>1, ByteFacts
  <2> QED
    BY <1>7, <2>2 DEF CR
<1>10. /\ m \in Nat /\ Messages[m].size \in Nat /\ Messages[m].size > 0
       /\ \A i \in 1..(Messages[m].size + 1) : <<m, i>> \in AllBytes
  BY ByteFacts
(* All bytes of that message were sent behind what came before the line.   *)
<1>11. ASSUME j > 1, NEW i \in 1..(Messages[m].size + 1)
       PROVE  SentBefore(delivered[j - 1], <<m, i>>)
  <2>1. PICK p \in 1..Len(delivered) : p = j - 1 /\ p < e
    BY <1>1, <1>7, <1>11
  <2>2. CR(delivered[p]) /\ SentBefore(delivered[p], delivered[e]) /\ delivered[p] \in AllBytes
    BY <1>1, <1>6, <1>7, <1>11, <2>1, Places DEF Came
  <2>3. delivered[p][1] \in Nat /\ delivered[p][2] \in Nat
    BY <2>2, ByteFacts
  <2>4. \/ delivered[p][1] < m
        \/ delivered[p][1] = m /\ delivered[p][2] < Messages[m].size + 1
    BY <1>9, <2>2 DEF SentBefore
  <2>5. delivered[p][2] = Messages[delivered[p][1]].size + 1
    BY <2>2 DEF CR
  <2>6. delivered[p][1] < m
    BY <1>10, <2>3, <2>4, <2>5
  <2> QED
    BY <2>1, <2>6 DEF SentBefore
<1>12. ASSUME NEW i \in 1..(Messages[m].size + 1)
       PROVE  \E q \in DOMAIN delivered : delivered[q] = <<m, i>>
  <2>1. CASE i = Messages[m].size + 1
    BY <1>1, <1>7, <1>9, <2>1
  <2>2. CASE i # Messages[m].size + 1
    <3>1. i < Messages[m].size + 1
      BY <1>10, <2>2
    <3>2. SentBefore(<<m, i>>, delivered[e])
      BY <1>9, <3>1 DEF SentBefore
    <3>3. Arrived(<<m, i>>)
      BY <1>8, <1>10, <1>11, <3>2
    <3> QED
      BY <3>3 DEF Arrived
  <2> QED
    BY <2>1, <2>2
<1>13. PICK l \in 1..Len(delivered) : \A i \in 1..(Messages[m].size + 1) :
         l + i - 1 \in 1..Len(delivered) /\ delivered[l + i - 1] = <<m, i>>
  BY <1>12, WholeMessage DEF Came
<1>14. delivered[l] = <<m, 1>> /\ l + Messages[m].size = e
  <2>1. 1 \in 1..(Messages[m].size + 1) /\ l + 1 - 1 = l
    BY <1>1, <1>10
  <2>2. /\ Messages[m].size + 1 \in 1..(Messages[m].size + 1)
        /\ l + (Messages[m].size + 1) - 1 = l + Messages[m].size
    BY <1>1, <1>10
  <2>3. /\ delivered[l] = <<m, 1>> /\ l + Messages[m].size \in 1..Len(delivered)
        /\ delivered[l + Messages[m].size] = delivered[e]
    BY <1>9, <1>13, <2>1, <2>2
  <2> QED
    BY <1>7, <2>3, Places DEF Came
<1>15. l >= j
  <2>1. SUFFICES ASSUME ~(l >= j) PROVE FALSE
    OBVIOUS
  <2>2. PICK p \in 1..Len(delivered) : p = j - 1 /\ j > 1 /\ l <= p
    BY <1>1, <1>7, <2>1
  <2>3. 1 \in 1..(Messages[m].size + 1)
    BY <1>10
  <2>4. SentBefore(delivered[p], delivered[l])
    BY <1>11, <1>14, <2>2, <2>3
  <2>5. p < l
    BY <2>4, Places DEF Came
  <2> QED
    BY <1>1, <2>2, <2>5
(* Was the line longer than the message, the carriage return between the   *)
(* two would have arrived.                                                 *)
<1>16. l = j
  <2>1. SUFFICES ASSUME l # j PROVE FALSE
    OBVIOUS
  <2>2. PICK p \in 1..Len(delivered) : p = l - 1 /\ j <= p /\ p < l /\ p \in j..(j + L - 1)
    BY <1>1, <1>7, <1>10, <1>14, <1>15, <2>1
  <2>3. ~CR(delivered[p]) /\ SentBefore(delivered[p], delivered[l]) /\ delivered[p] \in AllBytes
    BY <1>1, <1>6, <2>2, Places DEF Came
  <2>3a. PICK h \in DOMAIN Messages :
           \E i \in 1..(Messages[h].size + 1) : delivered[p] = <<h, i>>
    <3>1. /\ delivered[p][1] \in DOMAIN Messages
          /\ delivered[p][2] \in 1..(Messages[delivered[p][1]].size + 1)
          /\ delivered[p] = <<delivered[p][1], delivered[p][2]>>
      BY <2>3, ByteFacts
    <3> QED
      BY <3>1
  <2>4. PICK i \in 1..(Messages[h].size + 1) : delivered[p] = <<h, i>>
    BY <2>3a
  <2>5. h \in Nat /\ Messages[h].size \in Nat /\ i \in Nat /\ i >= 1 /\ i < Messages[h].size + 1
    <3>1. h \in Nat /\ Messages[h].size \in Nat
      BY ByteFacts
    <3>2. i # Messages[h].size + 1
      BY <2>3, <2>4 DEF CR
    <3> QED
      BY <3>1, <3>2
  <2>6. h < m
    <3>1. h < m \/ (h = m /\ i < 1)
      BY <1>14, <2>3, <2>4 DEF SentBefore
    <3> QED
      BY <2>5, <3>1
  <2>7. PICK b \in AllBytes : b = <<h, Messages[h].size + 1>>
    <3>1. Messages[h].size + 1 \in 1..(Messages[h].size + 1)
      BY <2>5
    <3> QED
      BY <3>1, ByteFacts
  <2>8. /\ SentBefore(delivered[p], b) /\ SentBefore(b, delivered[l])
        /\ SentBefore(b, delivered[e])
    BY <1>9, <1>14, <2>4, <2>5, <2>6, <2>7 DEF SentBefore
  <2>9. ASSUME j > 1 PROVE SentBefore(delivered[j - 1], b)
    <3>1. PICK q \in 1..Len(delivered) : q = j - 1 /\ q < p
      BY <1>1, <1>7, <2>2, <2>9
    <3>2. SentBefore(delivered[q], delivered[p]) /\ delivered[q] \in AllBytes
      BY <1>1, <3>1, Places DEF Came
    <3>3. SentBefore(delivered[q], b)
      BY <2>3, <2>8, <3>2, ByteOrder
    <3> QED
      BY <3>1, <3>3
  <2>10. PICK q \in 1..Len(delivered) : delivered[q] = b
    BY <1>1, <1>8, <2>8, <2>9 DEF Arrived
  <2>11. p < q /\ q < l
    BY <2>8, <2>10, Places DEF Came
  <2> QED
    BY <1>1, <2>2, <2>11
<1>17. Messages[m].size = L
  BY <1>1, <1>5, <1>7, <1>10, <1>14, <1>16
<1>18. /\ accepted[k] = Bytes(m) /\ accepted[k][1] = <<m, 1>>
  <2>1. SubSeq(delivered, l, l + L - 1) = Bytes(m) /\ Bytes(m)[1] = <<m, 1>>
    BY <1>13, <1>17, MessageCut DEF Came, L
  <2> QED
    BY <1>5, <1>16, <2>1 DEF L
<1>19. Wanted(m)
  <2>1. codec = "RaceAmericaTlink" =>
          ~(Messages[accepted[k][1][1]].type = "Z" /\ accepted[k][1][2] = 1)
    BY <1>6 DEF Accepts
  <2>2. accepted[k][1][1] = m /\ accepted[k][1][2] = 1
    BY <1>18
  <2> QED
    BY <1>17, <2>1, <2>2 DEF Wanted, L
<1> QED
  BY <1>18, <1>19

-----------------------------------------------------------------------------
(* The types, the order in which bytes come, and that the codec has        *)
(* accepted the lines of all that came, in every state.                    *)
THEOREM TimingInvariant == Spec => []IInv
<1>1. Init => IInv
  BY InitInvariant
<1>2. IInv /\ [Next]_vars => IInv'
  BY StepInvariant
<1> QED
  BY <1>1, <1>2, PTL DEF Spec

(* The types; what the codec holds back has no carriage return in it, and  *)
(* what it accepted is of the one size.                                    *)
THEOREM TypeCorrect == Spec => []TypeOK
<1>1. IInv => TypeOK
  BY DEF IInv
<1> QED
  BY <1>1, TimingInvariant, PTL

(* However the bytes are cut into chunks, and whatever got lost, the codec *)
(* accepts the lines of the bytes that came, each once and in order.       *)
THEOREM CutsDoNotMatterAlways == Spec => []CutsDoNotMatter
<1>1. IInv => CutsDoNotMatter
  BY ReadAsReference DEF IInv, TypeOK
<1> QED
  BY <1>1, TimingInvariant, PTL

(* A message is lost only with one of its own bytes or the carriage return *)
(* before it, and a line that is no message spans a loss.                  *)
THEOREM LossesStayLocalAlways == Spec => []LossesStayLocal
<1>1. ASSUME IInv PROVE LossesStayLocal
  <2>1. Came
    BY <1>1, NoMore DEF IInv, TypeOK, OrderInv, Came
  <2>2. ReadInv /\ codec \in {"Farmtek", "RaceAmericaTlink"}
    BY <1>1 DEF IInv, TypeOK
  <2> QED
    BY <2>1, <2>2, IntactAreRead, WrongSpansLoss DEF LossesStayLocal
<1> QED
  BY <1>1, TimingInvariant, PTL
=============================================================================
