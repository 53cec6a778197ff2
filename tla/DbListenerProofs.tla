-------------------------- MODULE DbListenerProofs --------------------------
(***************************************************************************)
(* Proofs about DbListener, for any finite set of models, any tables and   *)
(* any bounds.  ListenerInv is inductive: ControlInv is about the threads, *)
(* OrderInv says that what has been told, what is posted and what is on    *)
(* the wire follow each other in commit order, OwedInv that nothing owed   *)
(* is in none of the three.  OrderInv is what the refinement needs: the    *)
(* stream's Tell takes the oldest change on its way, its Join only changes *)
(* newer than those told, and its Lose the newest.                         *)
(***************************************************************************)
EXTENDS DbListener, FiniteSetTheorems, SequenceTheorems, TLAPS

-----------------------------------------------------------------------------
(* Facts about numbers, sets and sequences.                                *)

(* The sequences in SetToSeqs(S) list the elements of S, each once.        *)
LEMMA SetToSeqsElements ==
  ASSUME NEW S, IsFiniteSet(S), NEW list \in SetToSeqs(S)
  PROVE  /\ list \in Seq(S) /\ ToSet(list) = S
         /\ \A i, j \in DOMAIN list : list[i] = list[j] => i = j
<1> DEFINE n == Cardinality(S)
<1>1. n \in Nat
  BY FS_CardinalityType
<1>2. list \in Injection(1..n, S)
  BY DEF SetToSeqs, Injection, IsInjective
<1>3. Cardinality(1..n) = n
  BY <1>1, FS_Interval
<1>4. list \in Surjection(1..n, S)
  BY <1>2, <1>3, FS_Injection
<1>5. list \in [1..n -> S] /\ DOMAIN list = 1..n
  BY DEF SetToSeqs
<1>6. list \in Seq(S) /\ ToSet(list) = S
  BY <1>1, <1>4, <1>5, SeqDef DEF Surjection, ToSet
<1>7. \A i, j \in DOMAIN list : list[i] = list[j] => i = j
  BY <1>2, <1>5 DEF Injection, IsInjective
<1> QED
  BY <1>6, <1>7

(* What a queue holds after something is appended, or its head taken.      *)
LEMMA AppendElements ==
  ASSUME NEW S, NEW q \in Seq(S), NEW x \in S
  PROVE  ToSet(Append(q, x)) = ToSet(q) \cup {x}
<1>1. /\ DOMAIN Append(q, x) = 1..(Len(q) + 1) /\ DOMAIN q = 1..Len(q) /\ Len(q) \in Nat
      /\ \A i \in 1..Len(q) : Append(q, x)[i] = q[i]
      /\ Append(q, x)[Len(q) + 1] = x
  BY AppendProperties
<1>2. \A i \in 1..(Len(q) + 1) : i \in 1..Len(q) \/ i = Len(q) + 1
  BY <1>1
<1>3. \A i \in 1..Len(q) : i \in 1..(Len(q) + 1)
  BY <1>1
<1>4. Len(q) + 1 \in 1..(Len(q) + 1)
  BY <1>1
<1> QED
  BY <1>1, <1>2, <1>3, <1>4 DEF ToSet

LEMMA TailElements ==
  ASSUME NEW S, NEW q \in Seq(S), q # <<>>
  PROVE  /\ Head(q) \in ToSet(q) /\ ToSet(q) = {Head(q)} \cup ToSet(Tail(q))
         /\ ToSet(q) \subseteq S
<1>1. /\ Len(q) \in Nat \ {0} /\ DOMAIN q = 1..Len(q) /\ Head(q) = q[1]
      /\ DOMAIN Tail(q) = 1..(Len(q) - 1)
      /\ \A i \in 1..(Len(q) - 1) : Tail(q)[i] = q[i + 1]
  BY HeadTailProperties, EmptySeq
<1>2. \A i \in 1..Len(q) : i = 1 \/ (i - 1 \in 1..(Len(q) - 1) /\ i = (i - 1) + 1)
  BY <1>1
<1>3. \A i \in 1..(Len(q) - 1) : i + 1 \in 1..Len(q)
  BY <1>1
<1>4. 1 \in 1..Len(q)
  BY <1>1
<1>5. ToSet(Tail(q)) \subseteq ToSet(q) /\ Head(q) \in ToSet(q)
  BY <1>1, <1>3, <1>4 DEF ToSet
<1>6. ASSUME NEW x \in ToSet(q) PROVE x = Head(q) \/ x \in ToSet(Tail(q))
  <2>1. PICK i \in 1..Len(q) : x = q[i]
    BY <1>1 DEF ToSet
  <2>2. CASE i = 1
    BY <1>1, <2>1, <2>2
  <2>3. CASE i # 1
    <3>1. i - 1 \in 1..(Len(q) - 1) /\ Tail(q)[i - 1] = q[i]
      BY <1>1, <1>2, <2>1, <2>3
    <3> QED
      BY <1>1, <2>1, <3>1 DEF ToSet
  <2> QED
    BY <2>2, <2>3
<1>7. ToSet(q) \subseteq S
  BY <1>1 DEF ToSet
<1> QED
  BY <1>5, <1>6, <1>7

(* The elements of a concatenation, by position and as a set.              *)
LEMMA ConcatPositions ==
  ASSUME NEW S, NEW p \in Seq(S), NEW q \in Seq(S)
  PROVE  /\ p \o q \in Seq(S) /\ ToSet(p \o q) = ToSet(p) \cup ToSet(q)
         /\ Len(p) \in Nat /\ DOMAIN p = 1..Len(p) /\ Len(q) \in Nat /\ DOMAIN q = 1..Len(q)
         /\ Len(p \o q) = Len(p) + Len(q) /\ DOMAIN (p \o q) = 1..(Len(p) + Len(q))
         /\ \A i \in DOMAIN p : (p \o q)[i] = p[i]
         /\ \A i \in DOMAIN q : (p \o q)[Len(p) + i] = q[i]
         /\ \A i \in DOMAIN (p \o q) : i \in DOMAIN p \/ (i - Len(p) \in DOMAIN q /\ i > Len(p))
<1> DEFINE r == p \o q
<1>1. /\ Len(p) \in Nat /\ Len(q) \in Nat /\ DOMAIN p = 1..Len(p) /\ DOMAIN q = 1..Len(q)
      /\ r \in Seq(S) /\ Len(r) = Len(p) + Len(q) /\ DOMAIN r = 1..(Len(p) + Len(q))
      /\ \A i \in 1..(Len(p) + Len(q)) : r[i] = IF i <= Len(p) THEN p[i] ELSE q[i - Len(p)]
  BY ConcatProperties
<1> HIDE DEF r
<1>2. \A i \in DOMAIN p : i \in DOMAIN r /\ r[i] = p[i]
  BY <1>1
<1>3. \A i \in DOMAIN q : Len(p) + i \in DOMAIN r /\ r[Len(p) + i] = q[i]
  BY <1>1
<1>4. \A i \in DOMAIN r : i \in DOMAIN p \/ (i - Len(p) \in DOMAIN q /\ i > Len(p))
  BY <1>1
<1>5. \A i \in DOMAIN r : r[i] \in ToSet(p) \/ r[i] \in ToSet(q)
  BY <1>1, <1>4 DEF ToSet
<1>6. ToSet(r) = ToSet(p) \cup ToSet(q)
  <2>1. \A x \in ToSet(p) : x \in ToSet(r)
    BY <1>2 DEF ToSet
  <2>2. \A x \in ToSet(q) : x \in ToSet(r)
    BY <1>3 DEF ToSet
  <2>3. \A x \in ToSet(r) : x \in ToSet(p) \cup ToSet(q)
    BY <1>5 DEF ToSet
  <2> QED
    BY <2>1, <2>2, <2>3
<1> QED
  BY <1>1, <1>2, <1>3, <1>4, <1>6 DEF r

(* Passing the head of one sequence to the end of another changes nothing  *)
(* in what follows what.                                                   *)
LEMMA PassHead ==
  ASSUME NEW S, NEW p \in Seq(S), NEW q \in Seq(S), q # <<>>
  PROVE  /\ Append(p, Head(q)) \o Tail(q) = p \o q
         /\ Append(p, Head(q)) \in Seq(S) /\ Tail(q) \in Seq(S)
<1>1. /\ Head(q) \in S /\ Tail(q) \in Seq(S) /\ Len(Tail(q)) = Len(q) - 1
      /\ Len(p) \in Nat /\ Len(q) \in Nat /\ Len(q) # 0 /\ Head(q) = q[1]
      /\ \A i \in 1..(Len(q) - 1) : Tail(q)[i] = q[i + 1]
  BY HeadTailProperties, EmptySeq
<1>2. /\ Append(p, Head(q)) \in Seq(S) /\ Len(Append(p, Head(q))) = Len(p) + 1
      /\ \A i \in 1..Len(p) : Append(p, Head(q))[i] = p[i]
      /\ Append(p, Head(q))[Len(p) + 1] = q[1]
  BY <1>1, AppendProperties
<1> DEFINE a == Append(p, Head(q))
           t == Tail(q)
           r == p \o q
           s == a \o t
<1>3. /\ s \in Seq(S) /\ Len(s) = Len(a) + Len(t)
      /\ \A i \in 1..(Len(a) + Len(t)) : s[i] = IF i <= Len(a) THEN a[i] ELSE t[i - Len(a)]
  BY <1>1, <1>2, ConcatProperties
<1>4. /\ r \in Seq(S) /\ Len(r) = Len(p) + Len(q)
      /\ \A i \in 1..(Len(p) + Len(q)) : r[i] = IF i <= Len(p) THEN p[i] ELSE q[i - Len(p)]
  BY ConcatProperties
<1>5. /\ a \in Seq(S) /\ t \in Seq(S) /\ Len(a) = Len(p) + 1 /\ Len(t) = Len(q) - 1
      /\ \A i \in 1..Len(p) : a[i] = p[i]
      /\ a[Len(p) + 1] = q[1]
      /\ \A i \in 1..(Len(q) - 1) : t[i] = q[i + 1]
  BY <1>1, <1>2
<1> HIDE DEF a, t, r, s
<1>6. Len(s) = Len(r) /\ Len(r) = Len(p) + Len(q)
  BY <1>1, <1>3, <1>4, <1>5
<1>7. ASSUME NEW i \in 1..(Len(p) + Len(q)) PROVE s[i] = r[i]
  <2>1. s[i] = IF i <= Len(p) + 1 THEN a[i] ELSE t[i - (Len(p) + 1)]
    <3>1. Len(a) + Len(t) = Len(p) + Len(q) /\ Len(a) = Len(p) + 1
      BY <1>1, <1>5
    <3> QED
      BY <1>3, <3>1
  <2>2. r[i] = IF i <= Len(p) THEN p[i] ELSE q[i - Len(p)]
    BY <1>4
  <2>3. CASE i <= Len(p)
    <3>1. i <= Len(p) + 1 /\ i \in 1..Len(p)
      BY <1>1, <2>3
    <3> QED
      BY <1>5, <2>1, <2>2, <2>3, <3>1
  <2>4. CASE i = Len(p) + 1
    <3>1. i <= Len(p) + 1 /\ ~ (i <= Len(p)) /\ i - Len(p) = 1
      BY <1>1, <2>4
    <3> QED
      BY <1>5, <2>1, <2>2, <2>4, <3>1
  <2>5. CASE i > Len(p) + 1
    <3>1. /\ ~ (i <= Len(p) + 1) /\ ~ (i <= Len(p)) /\ i - (Len(p) + 1) \in 1..(Len(q) - 1)
          /\ (i - (Len(p) + 1)) + 1 = i - Len(p)
      BY <1>1, <2>5
    <3> QED
      BY <1>5, <2>1, <2>2, <3>1
  <2> QED
    BY <1>1, <2>3, <2>4, <2>5
<1>8. s = r
  BY <1>3, <1>4, <1>6, <1>7, SeqEqual
<1> QED
  BY <1>5, <1>8 DEF s, r, a, t

(* The first k elements of a sequence.                                     *)
LEMMA FirstElements ==
  ASSUME NEW S, NEW q \in Seq(S), NEW k \in 0..Len(q)
  PROVE  /\ SubSeq(q, 1, k) \in Seq(S) /\ DOMAIN SubSeq(q, 1, k) = 1..k
         /\ \A i \in 1..k : i \in DOMAIN q /\ SubSeq(q, 1, k)[i] = q[i]
<1>1. Len(q) \in Nat /\ DOMAIN q = 1..Len(q) /\ k \in Int /\ \A i \in 1..k : q[i] \in S
  OBVIOUS
<1>2. /\ SubSeq(q, 1, k) \in Seq(S)
      /\ Len(SubSeq(q, 1, k)) = IF 1 <= k THEN k - 1 + 1 ELSE 0
      /\ \A i \in 1..(k - 1 + 1) : SubSeq(q, 1, k)[i] = q[1 + i - 1]
  BY <1>1, SubSeqProperties
<1>3. Len(SubSeq(q, 1, k)) = k
  BY <1>1, <1>2
<1> QED
  BY <1>1, <1>2, <1>3

-----------------------------------------------------------------------------
ControlInv ==
  /\ uiPc = "start" => lpc = "absent"
  /\ lpc \in {"absent", "connect", "hook", "release"} => permit = 0
  /\ quit => uiPc \in {"wait", "returned"}
  /\ asked \subseteq connected
  /\ subscribing \in connected \cup {NoModel}

(* What the models have been told, then what they will be told next.       *)
Told == received \o posted

(* What has been told and will be told (q), then what is on the wire (w):  *)
(* the changes c in the order they were committed, each to models in J of  *)
(* its own table.                                                          *)
InOrder(c, w, q, J) ==
  /\ \A n \in ToSet(w) : n \in DOMAIN c
  /\ \A i, j \in DOMAIN w : i < j => w[i] < w[j]
  /\ \A i, j \in DOMAIN q : i < j => q[i][2] <= q[j][2] /\ q[i] # q[j]
  /\ \A p \in ToSet(q) : /\ p[1] \in J /\ p[2] \in DOMAIN c
                         /\ c[p[2]] = TableOf[p[1]]
                         /\ \A n \in ToSet(w) : p[2] < n

OrderInv == InOrder(commits, wire, Told, connected)

OwedInv ==
  \A o \in owed :
    /\ o[1] \in asked /\ o[2] \in DOMAIN commits /\ commits[o[2]] = TableOf[o[1]]
    /\ ~quit => o \in ToSet(Told) \/ o[2] \in ToSet(wire)

ListenerInv == TypeOK /\ ControlInv /\ OrderInv /\ OwedInv

(* What the models rely on: each hears of changes of its own table only,   *)
(* of each once, and all of them in the order of the commits.              *)
ToldOnceInOrder ==
  /\ \A i, j \in DOMAIN received :
       i < j => received[i][2] <= received[j][2] /\ received[i] # received[j]
  /\ \A p \in ToSet(received) : commits[p[2]] = TableOf[p[1]]

-----------------------------------------------------------------------------
(* Types and control.                                                      *)

(* What a change on the wire is posted to is a finite set of models.       *)
LEMMA PostedTo ==
  ASSUME TypeOK, NEW n \in Changes, NEW told, told = {m \in connected : TableOf[m] = commits[n]},
         NEW list \in SetToSeqs({<<m, n>> : m \in told})
  PROVE  /\ list \in Seq(Models \X Changes) /\ ToSet(list) = {<<m, n>> : m \in told}
         /\ \A i, j \in DOMAIN list : list[i] = list[j] => i = j
         /\ \A i \in DOMAIN list : list[i][2] = n
<1> DEFINE S == {<<m, n>> : m \in told}
<1>1. told \in SUBSET Models /\ IsFiniteSet(told)
  BY ListenerAssumption, FS_Subset DEF TypeOK
<1>2. S \in SUBSET (Models \X Changes) /\ IsFiniteSet(S)
  <2>1. IsFiniteSet({n})
    BY FS_Singleton
  <2>2. IsFiniteSet(told \X {n})
    BY <1>1, <2>1, FS_Product
  <2>3. S = told \X {n}
    OBVIOUS
  <2> QED
    BY <1>1, <2>2, <2>3
<1>3. list \in SetToSeqs(S) /\ \A x \in S : x[2] = n
  OBVIOUS
<1> HIDE DEF S
<1>4. /\ list \in Seq(S) /\ ToSet(list) = S
      /\ \A i, j \in DOMAIN list : list[i] = list[j] => i = j
  BY <1>2, <1>3, SetToSeqsElements
<1>5. list \in Seq(Models \X Changes)
  BY <1>2, <1>4, SeqMonotonic
<1>6. \A i \in DOMAIN list : list[i] \in S
  BY <1>4
<1> QED
  BY <1>3, <1>4, <1>5, <1>6 DEF S

LEMMA InitTypeControl == Init => TypeOK /\ ControlInv
<1> SUFFICES ASSUME Init PROVE TypeOK /\ ControlInv
  OBVIOUS
<1> USE ListenerAssumption DEF Init
<1>0. /\ commits \in Seq(Tables) /\ Len(commits) = 0 /\ signals \in Seq(Tables)
      /\ wire \in Seq(Changes)
      /\ posted \in Seq(Models \X Changes) /\ received \in Seq(Models \X Changes)
  BY EmptySeq
<1>1. TypeOK
  <2>1. Len(commits) <= MaxCommits /\ drops \in 0..MaxDrops /\ permit \in 0..1
    BY <1>0
  <2>2. /\ serverUp \in BOOLEAN /\ hooked \in BOOLEAN /\ quit \in BOOLEAN
        /\ subscribing \in Models \cup {NoModel}
    OBVIOUS
  <2>3. /\ uiPc \in {"start", "acquire", "running", "wait", "returned"}
        /\ lpc \in {"absent", "connect", "hook", "release", "loop", "ended"}
        /\ session \in {"closed", "open", "broken"}
    OBVIOUS
  <2>4. /\ connected \subseteq Models /\ asked \subseteq Models /\ emitters \subseteq Tables
        /\ listens \subseteq Tables /\ owed \subseteq Models \X Changes
    OBVIOUS
  <2> QED
    BY <1>0, <2>1, <2>2, <2>3, <2>4 DEF TypeOK
<1>2. ControlInv
  BY DEF ControlInv
<1> QED
  BY <1>1, <1>2

(* The steps of the server.                                                *)
LEMMA ServerType ==
  ASSUME TypeOK, (\E t \in Tables : Commit(t)) \/ ServerDown \/ ServerUp
  PROVE  TypeOK'
<1>1. ASSUME NEW t \in Tables, Commit(t) PROVE TypeOK'
  <2>1. commits \in Seq(Tables) /\ Len(commits) \in Nat /\ Len(commits) < MaxCommits
    BY <1>1 DEF TypeOK, Commit
  <2>2. commits' \in Seq(Tables) /\ Len(commits') = Len(commits) + 1
    BY <1>1, <2>1, AppendProperties DEF Commit
  <2>3. Len(commits') <= MaxCommits /\ Len(commits') \in Changes
    BY <2>1, <2>2, ListenerAssumption DEF Changes
  <2>4. wire' \in Seq(Changes) /\ owed' \subseteq Models \X Changes
    <3>1. wire \in Seq(Changes) /\ owed \subseteq Models \X Changes /\ asked \subseteq Models
      BY DEF TypeOK
    <3>2. Append(wire, Len(commits')) \in Seq(Changes)
      BY <2>3, <3>1, AppendProperties
    <3>3. wire' \in Seq(Changes)
      BY <1>1, <3>1, <3>2 DEF Commit
    <3>4. \A m \in asked : <<m, Len(commits')>> \in Models \X Changes
      BY <2>3, <3>1
    <3>5. owed' \subseteq Models \X Changes
      BY <1>1, <3>1, <3>4 DEF Commit
    <3> QED
      BY <3>3, <3>5
  <2> QED
    BY <1>1, <2>2, <2>3, <2>4 DEF TypeOK, Commit, uiVars, threadVars
<1>2. CASE ServerDown
  <2>1. wire' \in Seq(Changes) /\ owed' \subseteq Models \X Changes
    <3>1. wire \in Seq(Changes) /\ owed \subseteq Models \X Changes
      BY DEF TypeOK
    <3>2. PICK k \in 0..Len(wire) :
            /\ wire' = SubSeq(wire, 1, k)
            /\ owed' = {o \in owed : o[2] \in ToSet(wire) => o[2] \in ToSet(wire')}
      BY <1>2 DEF ServerDown
    <3>3. SubSeq(wire, 1, k) \in Seq(Changes)
      BY <3>1, FirstElements
    <3> QED
      BY <3>1, <3>2, <3>3
  <2>2. drops' \in 0..MaxDrops
    BY <1>2, ListenerAssumption DEF TypeOK, ServerDown
  <2> QED
    BY <1>2, <2>1, <2>2 DEF TypeOK, ServerDown, uiVars, threadVars
<1>3. CASE ServerUp
  BY <1>3 DEF TypeOK, ServerUp, uiVars, threadVars
<1> QED
  BY <1>1, <1>2, <1>3

(* The steps of the UI thread.                                             *)
LEMMA UiType ==
  ASSUME TypeOK, UiStep \/ UiQuit \/ \E m \in Models : connectEmitter(m)
  PROVE  TypeOK'
<1> USE DEF TypeOK, serverVars, threadVars, uiVars
<1>1. CASE UiStart
  BY <1>1 DEF UiStart
<1>2. CASE UiAcquire
  <2>1. permit' \in 0..1
    BY <1>2 DEF UiAcquire
  <2> QED
    BY <1>2, <2>1 DEF UiAcquire
<1>3. CASE subscribe
  <2>1. subscribing \in Models /\ TableOf[subscribing] \in Tables
    BY <1>3, ListenerAssumption DEF subscribe
  <2>2. Append(signals, TableOf[subscribing]) \in Seq(Tables)
    BY <2>1
  <2> QED
    BY <1>3, <2>1, <2>2 DEF subscribe
<1>4. CASE emitNotification
  <2>1. received' \in Seq(Models \X Changes) /\ posted' \in Seq(Models \X Changes)
    BY <1>4, PassHead DEF emitNotification
  <2> QED
    BY <1>4, <2>1 DEF emitNotification
<1>5. CASE UiReturn
  BY <1>5 DEF UiReturn
<1>6. CASE UiQuit
  BY <1>6 DEF UiQuit
<1>7. ASSUME NEW m \in Models, connectEmitter(m) PROVE TypeOK'
  BY <1>7, ListenerAssumption DEF connectEmitter
<1> QED
  BY <1>1, <1>2, <1>3, <1>4, <1>5, <1>6, <1>7 DEF UiStep

(* The steps of the listener thread.                                       *)
LEMMA RunType ==
  ASSUME TypeOK, ControlInv, RunStep
  PROVE  TypeOK'
<1> USE DEF TypeOK, serverVars, threadVars, uiVars
<1>0. <<>> \in Seq(Changes)
  OBVIOUS
<1>1. CASE RunConnect
  BY <1>1 DEF RunConnect
<1>2. CASE RunHook
  BY <1>2 DEF RunHook
<1>3. CASE RunRelease
  BY <1>3 DEF RunRelease, ControlInv
<1>4. CASE subscribeSlot
  <2>1. Head(signals) \in Tables /\ Tail(signals) \in Seq(Tables)
    BY <1>4, HeadTailProperties DEF subscribeSlot
  <2>2. session' \in {"closed", "open", "broken"} /\ listens' \subseteq Tables
    BY <1>4, <2>1 DEF subscribeSlot
  <2>3. wire' \in Seq(Changes) /\ owed' \subseteq Models \X Changes
    BY <1>0, <1>4 DEF subscribeSlot
  <2> QED
    BY <1>4, <2>1, <2>2, <2>3 DEF subscribeSlot
<1>5. CASE recvNotification
  <2> DEFINE n == Head(wire)
             told == {m \in connected : TableOf[m] = commits[n]}
  <2>1. n \in Changes /\ Tail(wire) \in Seq(Changes)
    BY <1>5, HeadTailProperties DEF recvNotification
  <2>2. PICK list \in SetToSeqs({<<m, n>> : m \in told}) : posted' = posted \o list
    BY <1>5 DEF recvNotification
  <2>3. list \in Seq(Models \X Changes)
    BY <2>1, PostedTo
  <2> HIDE DEF n, told
  <2>4. posted' \in Seq(Models \X Changes)
    BY <2>2, <2>3, ConcatProperties
  <2> QED
    BY <1>5, <2>1, <2>4 DEF recvNotification
<1>6. CASE NoticeBroken
  BY <1>6 DEF NoticeBroken
<1>7. CASE tryConnect
  BY <1>7 DEF tryConnect
<1>8. CASE RunQuit
  BY <1>0, <1>8 DEF RunQuit
<1> QED
  BY <1>1, <1>2, <1>3, <1>4, <1>5, <1>6, <1>7, <1>8 DEF RunStep

LEMMA NextType ==
  ASSUME TypeOK, ControlInv, [Next]_vars PROVE TypeOK'
<1>1. CASE UNCHANGED vars
  BY <1>1 DEF TypeOK, vars
<1> QED
  BY <1>1, ServerType, UiType, RunType DEF Next

(* Constructor, event loops and shutdown follow each other; the emitter is *)
(* connected before the subscription is sent.                              *)
LEMMA NextControl ==
  ASSUME TypeOK, ControlInv, [Next]_vars PROVE ControlInv'
<1> USE DEF ControlInv, serverVars, threadVars, uiVars
<1>1. ASSUME NEW t \in Tables, Commit(t) PROVE ControlInv'
  BY <1>1 DEF Commit
<1>2. CASE ServerDown
  BY <1>2 DEF ServerDown
<1>3. CASE ServerUp
  BY <1>3 DEF ServerUp
<1>4. CASE UiStart
  BY <1>4 DEF UiStart
<1>5. CASE UiAcquire
  <2>1. lpc \notin {"absent", "connect", "hook", "release"}
    BY <1>5 DEF UiAcquire
  <2> QED
    BY <1>5, <2>1 DEF UiAcquire
<1>6. ASSUME NEW m \in Models, connectEmitter(m) PROVE ControlInv'
  BY <1>6 DEF connectEmitter
<1>7. CASE subscribe
  BY <1>7 DEF subscribe
<1>8. CASE emitNotification
  BY <1>8 DEF emitNotification
<1>9. CASE UiQuit
  BY <1>9 DEF UiQuit, UiIdle
<1>10. CASE UiReturn
  BY <1>10 DEF UiReturn
<1>11. CASE RunConnect
  BY <1>11 DEF RunConnect
<1>12. CASE RunHook
  BY <1>12 DEF RunHook
<1>13. CASE RunRelease
  BY <1>13 DEF RunRelease
<1>14. CASE subscribeSlot
  BY <1>14 DEF subscribeSlot
<1>15. CASE recvNotification
  BY <1>15 DEF recvNotification
<1>16. CASE NoticeBroken
  BY <1>16 DEF NoticeBroken
<1>17. CASE tryConnect
  BY <1>17 DEF tryConnect
<1>18. CASE RunQuit
  BY <1>18 DEF RunQuit
<1>19. CASE UNCHANGED vars
  BY <1>19 DEF vars
<1> QED
  BY <1>1, <1>2, <1>3, <1>4, <1>5, <1>6, <1>7, <1>8, <1>9, <1>10, <1>11, <1>12, <1>13, <1>14,
     <1>15, <1>16, <1>17, <1>18, <1>19 DEF Next, UiStep, RunStep

-----------------------------------------------------------------------------
(* The order of what is told and what is on the wire.                      *)

(* Losing the newest on the wire, and connecting models, keep the order.   *)
LEMMA OrderOfFewer ==
  ASSUME NEW c \in Seq(Tables), NEW w, NEW q, NEW J, InOrder(c, w, q, J),
         NEW v, DOMAIN v \subseteq DOMAIN w, \A i \in DOMAIN v : v[i] = w[i],
         NEW K, J \subseteq K
  PROVE  InOrder(c, v, q, K)
<1>1. \A n \in ToSet(v) : n \in ToSet(w)
  BY DEF ToSet
<1>2. \A i, j \in DOMAIN v : i < j => v[i] < v[j]
  BY DEF InOrder
<1> QED
  BY <1>1, <1>2 DEF InOrder

(* A commit is newer than all before it.                                   *)
LEMMA OrderOfCommit ==
  ASSUME NEW c \in Seq(Tables), NEW w \in Seq(Changes), NEW q \in Seq(Models \X Changes), NEW J,
         InOrder(c, w, q, J), NEW t \in Tables, Len(c) + 1 \in Changes,
         NEW v, v = w \/ v = Append(w, Len(c) + 1)
  PROVE  InOrder(Append(c, t), v, q, J)
<1> DEFINE d == Append(c, t)
           l == Len(c) + 1
<1>1. /\ Len(c) \in Nat /\ DOMAIN c = 1..Len(c) /\ DOMAIN d = 1..l
      /\ \A i \in 1..Len(c) : d[i] = c[i]
  BY AppendProperties
<1>2. l \in DOMAIN d /\ \A n \in DOMAIN c : n \in DOMAIN d /\ d[n] = c[n] /\ n < l
  BY <1>1
<1>3. \A n \in ToSet(v) : n \in ToSet(w) \/ n = l
  <2>1. ToSet(Append(w, l)) = ToSet(w) \cup {l}
    <3>1. l \in Changes
      OBVIOUS
    <3> HIDE DEF l
    <3> QED
      BY <3>1, AppendElements
  <2> QED
    BY <2>1
<1> HIDE DEF d, l
<1>4. \A n \in ToSet(v) : n \in DOMAIN d
  BY <1>2, <1>3 DEF InOrder
<1>5. \A p \in ToSet(q) : p[1] \in J /\ p[2] \in DOMAIN d /\ d[p[2]] = TableOf[p[1]]
  BY <1>2 DEF InOrder
<1>6. \A p \in ToSet(q) : \A n \in ToSet(v) : p[2] < n
  BY <1>2, <1>3 DEF InOrder
<1>7. ASSUME NEW i \in DOMAIN v, NEW j \in DOMAIN v, i < j PROVE v[i] < v[j]
  <2>1. CASE v = w
    BY <1>7, <2>1 DEF InOrder
  <2>2. CASE v = Append(w, l)
    <3>1. /\ Len(w) \in Nat /\ DOMAIN w = 1..Len(w) /\ DOMAIN v = 1..(Len(w) + 1)
          /\ \A k \in 1..Len(w) : v[k] = w[k]
          /\ v[Len(w) + 1] = l
      <4>1. l \in Changes
        BY DEF l
      <4> QED
        BY <2>2, <4>1, AppendProperties
    <3>2. i \in 1..Len(w) /\ (j \in 1..Len(w) \/ j = Len(w) + 1)
      BY <1>7, <3>1
    <3>3. w[i] < l
      BY <1>2, <3>1, <3>2 DEF InOrder, ToSet
    <3> QED
      BY <1>7, <3>1, <3>2, <3>3 DEF InOrder
  <2> QED
    BY <2>1, <2>2 DEF l
<1>8. InOrder(d, v, q, J)
  BY <1>4, <1>5, <1>6, <1>7 DEF InOrder
<1> QED
  BY <1>8 DEF d

(* The change that is passed on is newer than all that went before it, and *)
(* older than what stays on the wire.                                      *)
LEMMA OrderOfPosting ==
  ASSUME NEW c \in Seq(Tables), NEW w \in Seq(Changes), NEW q \in Seq(Models \X Changes), NEW J,
         InOrder(c, w, q, J), w # <<>>,
         NEW list \in Seq(Models \X Changes),
         \A i, j \in DOMAIN list : list[i] = list[j] => i = j,
         \A i \in DOMAIN list : /\ list[i][2] = Head(w) /\ list[i][1] \in J
                                /\ TableOf[list[i][1]] = c[Head(w)]
  PROVE  InOrder(c, Tail(w), q \o list, J)
<1> DEFINE n == Head(w)
           v == Tail(w)
           r == q \o list
<1>1. /\ n \in ToSet(w) /\ ToSet(w) = {n} \cup ToSet(v)
  BY TailElements
<1>2. /\ Len(w) \in Nat /\ Len(w) # 0 /\ DOMAIN w = 1..Len(w) /\ n = w[1]
      /\ v \in Seq(Changes) /\ DOMAIN v = 1..(Len(w) - 1)
      /\ \A i \in 1..(Len(w) - 1) : v[i] = w[i + 1]
  BY HeadTailProperties, EmptySeq
<1>3. /\ ToSet(r) = ToSet(q) \cup ToSet(list)
      /\ Len(q) \in Nat /\ DOMAIN q = 1..Len(q) /\ DOMAIN list = 1..Len(list) /\ Len(list) \in Nat
      /\ \A i \in DOMAIN q : r[i] = q[i]
      /\ \A i \in DOMAIN list : r[Len(q) + i] = list[i]
      /\ DOMAIN r = 1..(Len(q) + Len(list))
      /\ \A i \in DOMAIN r : i \in DOMAIN q \/ (i - Len(q) \in DOMAIN list /\ i > Len(q))
  BY ConcatPositions
<1>4. \A i \in DOMAIN list : list[i][2] = n /\ list[i][1] \in J /\ TableOf[list[i][1]] = c[n]
  OBVIOUS
<1> HIDE DEF n, v, r
<1>5. n \in DOMAIN c /\ n \in Nat /\ \A m \in ToSet(v) : m \in DOMAIN c
  BY <1>1 DEF InOrder
<1>6. \A i, j \in DOMAIN v : i < j => v[i] < v[j]
  <2>1. \A i \in DOMAIN v : i + 1 \in DOMAIN w /\ v[i] = w[i + 1] /\ i \in Nat
    BY <1>2
  <2>2. \A i, j \in DOMAIN v : i < j => i + 1 < j + 1
    BY <1>2
  <2> QED
    BY <2>1, <2>2 DEF InOrder
<1>7. \A m \in ToSet(v) : n < m
  <2>1. ASSUME NEW i \in DOMAIN v PROVE n < v[i]
    <3>1. i + 1 \in DOMAIN w /\ 1 \in DOMAIN w /\ 1 < i + 1 /\ v[i] = w[i + 1]
      BY <1>2
    <3> QED
      BY <1>2, <3>1 DEF InOrder
  <2> QED
    BY <2>1 DEF ToSet
<1>8. \A p \in ToSet(list) : p[2] = n /\ p[1] \in J /\ TableOf[p[1]] = c[n]
  BY <1>4 DEF ToSet
<1>9. ASSUME NEW p \in ToSet(r)
      PROVE  p[1] \in J /\ p[2] \in DOMAIN c /\ c[p[2]] = TableOf[p[1]] /\ \A m \in ToSet(v) : p[2] < m
  <2>1. CASE p \in ToSet(q)
    BY <1>1, <2>1 DEF InOrder
  <2>2. CASE p \in ToSet(list)
    BY <1>5, <1>7, <1>8, <2>2
  <2> QED
    BY <1>3, <1>9, <2>1, <2>2
<1>10. ASSUME NEW i \in DOMAIN r, NEW j \in DOMAIN r, i < j
       PROVE  r[i][2] <= r[j][2] /\ r[i] # r[j]
  <2>1. \A k \in DOMAIN q : q[k] \in ToSet(q) /\ q[k][2] < n /\ q[k][2] \in Nat
    <3>1. \A k \in DOMAIN q : q[k] \in ToSet(q) /\ q[k][2] \in DOMAIN c
      BY DEF ToSet, InOrder
    <3> QED
      BY <1>1, <3>1 DEF InOrder
  <2>2. CASE i \in DOMAIN q /\ j \in DOMAIN q
    BY <1>3, <1>10, <2>2 DEF InOrder
  <2>3. CASE i \in DOMAIN q /\ j - Len(q) \in DOMAIN list
    <3>1. r[i] = q[i] /\ r[j] = list[j - Len(q)]
      <4>1. Len(q) + (j - Len(q)) = j
        BY <1>3
      <4> QED
        BY <1>3, <2>3, <4>1
    <3>2. r[i][2] < n /\ r[i][2] \in Nat /\ r[j][2] = n
      BY <1>4, <2>1, <2>3, <3>1
    <3> QED
      BY <1>5, <3>2
  <2>4. CASE i - Len(q) \in DOMAIN list /\ j - Len(q) \in DOMAIN list
    <3>1. r[i] = list[i - Len(q)] /\ r[j] = list[j - Len(q)]
      <4>1. Len(q) + (j - Len(q)) = j /\ Len(q) + (i - Len(q)) = i
        BY <1>3
      <4> QED
        BY <1>3, <2>4, <4>1
    <3>2. i - Len(q) # j - Len(q)
      BY <1>3, <1>10
    <3> QED
      BY <1>4, <1>5, <2>4, <3>1, <3>2
  <2>5. ~ (j \in DOMAIN q /\ i \notin DOMAIN q)
    BY <1>3, <1>10
  <2> QED
    BY <1>3, <1>10, <2>2, <2>3, <2>4, <2>5
<1>11. InOrder(c, v, r, J)
  BY <1>5, <1>6, <1>9, <1>10 DEF InOrder
<1> QED
  BY <1>11 DEF v, r

LEMMA InitOrderOwed == Init => OrderInv /\ OwedInv
<1> SUFFICES ASSUME Init PROVE OrderInv /\ OwedInv
  OBVIOUS
<1>1. ToSet(<<>>) = {} /\ DOMAIN <<>> = {} /\ <<>> \o <<>> = <<>>
  BY DEF ToSet
<1>2. wire = <<>> /\ Told = <<>> /\ owed = {}
  BY <1>1 DEF Init, Told
<1>3. OrderInv
  BY <1>1, <1>2 DEF OrderInv, InOrder
<1> QED
  BY <1>2, <1>3 DEF OwedInv

LEMMA NextOrder ==
  ASSUME TypeOK, ControlInv, OrderInv, [Next]_vars PROVE OrderInv'
<1>0. /\ commits \in Seq(Tables) /\ wire \in Seq(Changes)
      /\ received \in Seq(Models \X Changes) /\ posted \in Seq(Models \X Changes)
      /\ Told \in Seq(Models \X Changes) /\ InOrder(commits, wire, Told, connected)
  <2>1. /\ commits \in Seq(Tables) /\ wire \in Seq(Changes)
        /\ received \in Seq(Models \X Changes) /\ posted \in Seq(Models \X Changes)
    BY DEF TypeOK
  <2> QED
    BY <2>1, ConcatProperties DEF Told, OrderInv
<1>a. DOMAIN <<>> = {}
  OBVIOUS
<1>b. ASSUME UNCHANGED <<commits, posted, received>>, connected \subseteq connected',
             DOMAIN wire' \subseteq DOMAIN wire, \A i \in DOMAIN wire' : wire'[i] = wire[i]
      PROVE  OrderInv'
  <2>1. InOrder(commits, wire', Told, connected')
    BY <1>0, <1>b, OrderOfFewer
  <2> QED
    BY <1>b, <2>1 DEF OrderInv, Told
<1>c. ASSUME UNCHANGED <<commits, wire, posted, received>>, connected \subseteq connected'
      PROVE  OrderInv'
  BY <1>b, <1>c
<1>1. ASSUME NEW t \in Tables, Commit(t) PROVE OrderInv'
  <2>1. /\ commits' = Append(commits, t) /\ UNCHANGED <<posted, received, connected>>
        /\ Len(commits) < MaxCommits /\ Len(commits) \in Nat
    BY <1>0, <1>1 DEF Commit, uiVars
  <2>2. Len(commits') = Len(commits) + 1 /\ Len(commits) + 1 \in Changes
    BY <1>0, <2>1, AppendProperties, ListenerAssumption DEF Changes
  <2>3. wire' = wire \/ wire' = Append(wire, Len(commits) + 1)
    BY <1>1, <2>2 DEF Commit
  <2>4. InOrder(commits', wire', Told, connected)
    BY <1>0, <2>1, <2>2, <2>3, OrderOfCommit
  <2> QED
    BY <2>1, <2>4 DEF OrderInv, Told
<1>2. CASE ServerDown
  <2>1. PICK k \in 0..Len(wire) : wire' = SubSeq(wire, 1, k)
    BY <1>2 DEF ServerDown
  <2>2. DOMAIN wire' \subseteq DOMAIN wire /\ \A i \in DOMAIN wire' : wire'[i] = wire[i]
    BY <1>0, <2>1, FirstElements
  <2> QED
    BY <1>2, <1>b, <2>2 DEF ServerDown, uiVars
<1>3. CASE ServerUp
  BY <1>3, <1>c DEF ServerUp, uiVars
<1>4. CASE UiStart \/ UiAcquire \/ subscribe \/ UiReturn \/ UiQuit
  BY <1>4, <1>c DEF UiStart, UiAcquire, subscribe, UiReturn, UiQuit, serverVars
<1>5. CASE emitNotification
  <2>1. Told' = Told
    <3>1. posted # <<>> /\ received' = Append(received, Head(posted)) /\ posted' = Tail(posted)
      BY <1>5 DEF emitNotification
    <3>2. Append(received, Head(posted)) \o Tail(posted) = received \o posted
      <4>1. received \in Seq(Models \X Changes) /\ posted \in Seq(Models \X Changes)
        BY <1>0
      <4> QED
        BY ONLY <3>1, <4>1, PassHead
    <3> QED
      BY <3>1, <3>2 DEF Told
  <2>2. UNCHANGED <<commits, wire, connected>>
    BY <1>5 DEF emitNotification, serverVars, uiVars
  <2> QED
    BY <2>1, <2>2 DEF OrderInv
<1>6. ASSUME NEW m \in Models, connectEmitter(m) PROVE OrderInv'
  BY <1>6, <1>c DEF connectEmitter, serverVars
<1>7. CASE RunConnect \/ RunHook \/ RunRelease \/ NoticeBroken \/ tryConnect
  BY <1>7, <1>c DEF RunConnect, RunHook, RunRelease, NoticeBroken, tryConnect, serverVars, uiVars
<1>8. CASE subscribeSlot
  BY <1>8, <1>a, <1>b DEF subscribeSlot, serverVars, uiVars
<1>9. CASE RunQuit
  BY <1>9, <1>a, <1>b DEF RunQuit, serverVars, uiVars
<1>10. CASE recvNotification
  <2> DEFINE n == Head(wire)
             told == {m \in connected : TableOf[m] = commits[n]}
  <2>1. wire # <<>> /\ wire' = Tail(wire) /\ UNCHANGED <<commits, received, connected>>
    BY <1>10 DEF recvNotification, serverVars, uiVars
  <2>2. n \in Changes
    BY <1>0, <2>1, HeadTailProperties
  <2>3. PICK list \in SetToSeqs({<<m, n>> : m \in told}) : posted' = posted \o list
    BY <1>10 DEF recvNotification
  <2>4. /\ list \in Seq(Models \X Changes) /\ ToSet(list) = {<<m, n>> : m \in told}
        /\ \A i, j \in DOMAIN list : list[i] = list[j] => i = j
        /\ \A i \in DOMAIN list : list[i][2] = n
    BY <2>2, PostedTo
  <2>5. \A i \in DOMAIN list : /\ list[i][2] = Head(wire) /\ list[i][1] \in connected
                               /\ TableOf[list[i][1]] = commits[Head(wire)]
    <3>1. \A i \in DOMAIN list : list[i] \in {<<m, n>> : m \in told}
      BY <2>4 DEF ToSet
    <3> QED
      BY <3>1
  <2> HIDE DEF n, told
  <2>6. InOrder(commits, Tail(wire), Told \o list, connected)
    BY <1>0, <2>1, <2>4, <2>5, OrderOfPosting
  <2>7. Told' = Told \o list
    <3>1. (received \o posted) \o list = received \o (posted \o list)
      <4>1. /\ received \in Seq(Models \X Changes) /\ posted \in Seq(Models \X Changes)
            /\ list \in Seq(Models \X Changes)
        BY <1>0, <2>4
      <4> QED
        BY ONLY <4>1, ConcatAssociative
    <3> QED
      BY ONLY <2>1, <2>3, <3>1 DEF Told
  <2> QED
    BY <2>1, <2>6, <2>7 DEF OrderInv
<1>11. CASE UNCHANGED vars
  BY <1>11, <1>c DEF vars
<1> QED
  BY <1>1, <1>2, <1>3, <1>4, <1>5, <1>6, <1>7, <1>8, <1>9, <1>10, <1>11 DEF Next, UiStep, RunStep

-----------------------------------------------------------------------------
(* What is owed.                                                           *)

LEMMA NextOwed ==
  ASSUME TypeOK, ControlInv, OwedInv, [Next]_vars PROVE OwedInv'
<1>0. /\ commits \in Seq(Tables) /\ wire \in Seq(Changes)
      /\ received \in Seq(Models \X Changes) /\ posted \in Seq(Models \X Changes)
      /\ Told \in Seq(Models \X Changes)
  <2>1. /\ commits \in Seq(Tables) /\ wire \in Seq(Changes)
        /\ received \in Seq(Models \X Changes) /\ posted \in Seq(Models \X Changes)
    BY DEF TypeOK
  <2> QED
    BY <2>1, ConcatProperties DEF Told
<1>b. ASSUME UNCHANGED <<commits, posted, received>>, asked \subseteq asked', quit => quit',
             owed' \subseteq owed,
             ~ quit' => \A o \in owed' : o[2] \in ToSet(wire) => o[2] \in ToSet(wire')
      PROVE  OwedInv'
  BY <1>b DEF OwedInv, Told
<1>c. ASSUME UNCHANGED <<commits, posted, received, wire, owed>>, asked \subseteq asked', quit => quit'
      PROVE  OwedInv'
  BY <1>b, <1>c
<1>1. ASSUME NEW t \in Tables, Commit(t) PROVE OwedInv'
  <2>1. /\ commits' = Append(commits, t) /\ UNCHANGED <<posted, received, asked, quit>>
        /\ Len(commits) < MaxCommits
    BY <1>1 DEF Commit, uiVars, threadVars
  <2>2. /\ Len(commits) \in Nat /\ DOMAIN commits = 1..Len(commits)
        /\ Len(commits') = Len(commits) + 1 /\ DOMAIN commits' = 1..(Len(commits) + 1)
        /\ \A i \in 1..Len(commits) : commits'[i] = commits[i]
        /\ commits'[Len(commits) + 1] = t
    BY <1>0, <2>1, AppendProperties
  <2>3. Len(commits') \in Changes /\ Len(commits') \in DOMAIN commits' /\ commits'[Len(commits')] = t
    BY <2>1, <2>2, ListenerAssumption DEF Changes
  <2>4. \A n \in DOMAIN commits : n \in DOMAIN commits' /\ commits'[n] = commits[n]
    BY <2>2
  <2>5. CASE UNCHANGED <<wire, owed>>
    BY <2>1, <2>4, <2>5 DEF OwedInv, Told
  <2>6. CASE /\ wire' = Append(wire, Len(commits'))
             /\ owed' = owed \cup {<<m, Len(commits')>> : m \in {k \in asked : TableOf[k] = t}}
    <3>1. ToSet(wire') = ToSet(wire) \cup {Len(commits')}
      <4> DEFINE l == Len(commits')
      <4>1. l \in Changes /\ wire' = Append(wire, l)
        BY <2>3, <2>6
      <4> HIDE DEF l
      <4>2. ToSet(wire') = ToSet(wire) \cup {l}
        BY <1>0, <4>1, AppendElements
      <4> QED
        BY <4>2 DEF l
    <3>2. ASSUME NEW o \in owed' PROVE o \in owed \/ (o[1] \in asked /\ o[2] = Len(commits') /\ TableOf[o[1]] = t)
      BY <2>6, <3>2
    <3>3. Told' = Told
      BY <2>1 DEF Told
    <3>4. ASSUME NEW o \in owed, ~quit PROVE o \in ToSet(Told) \/ o[2] \in ToSet(wire')
      BY <3>1, <3>4 DEF OwedInv
    <3>5. ASSUME NEW o \in owed
          PROVE  o[1] \in asked /\ o[2] \in DOMAIN commits' /\ commits'[o[2]] = TableOf[o[1]]
      BY <2>4, <3>5 DEF OwedInv
    <3>6. ASSUME NEW o \in owed'
          PROVE  /\ o[1] \in asked /\ o[2] \in DOMAIN commits' /\ commits'[o[2]] = TableOf[o[1]]
                 /\ ~quit => o \in ToSet(Told) \/ o[2] \in ToSet(wire')
      BY <2>3, <3>1, <3>2, <3>4, <3>5
    <3> QED
      BY <2>1, <3>3, <3>6 DEF OwedInv
  <2> QED
    BY <1>1, <2>5, <2>6 DEF Commit
<1>2. CASE ServerDown
  <2>1. owed' \subseteq owed /\ \A o \in owed' : o[2] \in ToSet(wire) => o[2] \in ToSet(wire')
    BY <1>2 DEF ServerDown
  <2> QED
    BY <1>2, <1>b, <2>1 DEF ServerDown, uiVars, threadVars
<1>3. CASE ServerUp
  BY <1>3, <1>c DEF ServerUp, uiVars, threadVars
<1>4. CASE UiStart \/ UiAcquire \/ subscribe \/ UiReturn \/ UiQuit
  BY <1>4, <1>c DEF UiStart, UiAcquire, subscribe, UiReturn, UiQuit, serverVars, threadVars
<1>5. CASE emitNotification
  <2>1. Told' = Told
    <3>1. posted # <<>> /\ received' = Append(received, Head(posted)) /\ posted' = Tail(posted)
      BY <1>5 DEF emitNotification
    <3>2. Append(received, Head(posted)) \o Tail(posted) = received \o posted
      <4>1. received \in Seq(Models \X Changes) /\ posted \in Seq(Models \X Changes)
        BY <1>0
      <4> QED
        BY ONLY <3>1, <4>1, PassHead
    <3> QED
      BY <3>1, <3>2 DEF Told
  <2>2. UNCHANGED <<commits, wire, asked, quit, owed>>
    BY <1>5 DEF emitNotification, serverVars, uiVars, threadVars
  <2> QED
    BY <2>1, <2>2 DEF OwedInv
<1>6. ASSUME NEW m \in Models, connectEmitter(m) PROVE OwedInv'
  BY <1>6, <1>c DEF connectEmitter, serverVars, threadVars
<1>7. CASE RunConnect \/ RunHook \/ RunRelease \/ NoticeBroken \/ tryConnect
  BY <1>7, <1>c DEF RunConnect, RunHook, RunRelease, NoticeBroken, tryConnect, serverVars, uiVars,
                    threadVars
<1>8. CASE subscribeSlot
  <2>1. owed' \subseteq owed /\ \A o \in owed' : o[2] \in ToSet(wire) => o[2] \in ToSet(wire')
    BY <1>8 DEF subscribeSlot
  <2> QED
    BY <1>8, <1>b, <2>1 DEF subscribeSlot, serverVars, uiVars, threadVars
<1>9. CASE RunQuit
  BY <1>9, <1>b DEF RunQuit, serverVars, uiVars
<1>10. CASE recvNotification
  <2> DEFINE n == Head(wire)
             told == {m \in connected : TableOf[m] = commits[n]}
  <2>1. /\ wire # <<>> /\ wire' = Tail(wire)
        /\ UNCHANGED <<commits, received, connected, asked, owed, quit>>
    BY <1>10 DEF recvNotification, serverVars, uiVars, threadVars
  <2>2. n \in Changes /\ ToSet(wire) = {n} \cup ToSet(wire')
    BY <1>0, <2>1, HeadTailProperties, TailElements
  <2>3. PICK list \in SetToSeqs({<<m, n>> : m \in told}) : posted' = posted \o list
    BY <1>10 DEF recvNotification
  <2>4. list \in Seq(Models \X Changes) /\ ToSet(list) = {<<m, n>> : m \in told}
    BY <2>2, PostedTo
  <2>5. ASSUME NEW o \in owed, o[2] = n PROVE o \in ToSet(list)
    <3>1. o \in Models \X Changes /\ o[1] \in told
      BY <2>5 DEF OwedInv, ControlInv, TypeOK
    <3>2. o = <<o[1], n>>
      BY <2>5, <3>1
    <3> QED
      BY <2>4, <3>1, <3>2
  <2> HIDE DEF n, told
  <2>6. Told' = Told \o list
    <3>1. (received \o posted) \o list = received \o (posted \o list)
      <4>1. /\ received \in Seq(Models \X Changes) /\ posted \in Seq(Models \X Changes)
            /\ list \in Seq(Models \X Changes)
        BY <1>0, <2>4
      <4> QED
        BY ONLY <4>1, ConcatAssociative
    <3> QED
      BY ONLY <2>1, <2>3, <3>1 DEF Told
  <2>7. ToSet(Told') = ToSet(Told) \cup ToSet(list)
    BY <1>0, <2>4, <2>6, ConcatPositions
  <2>8. ASSUME NEW o \in owed, ~quit PROVE o \in ToSet(Told') \/ o[2] \in ToSet(wire')
    BY <2>2, <2>5, <2>7, <2>8 DEF OwedInv
  <2> QED
    BY <2>1, <2>8 DEF OwedInv
<1>11. CASE UNCHANGED vars
  BY <1>11, <1>c DEF vars
<1> QED
  BY <1>1, <1>2, <1>3, <1>4, <1>5, <1>6, <1>7, <1>8, <1>9, <1>10, <1>11 DEF Next, UiStep, RunStep

-----------------------------------------------------------------------------
(* The invariants.                                                         *)

(* In every state that can be reached, ListenerInv holds.                  *)
THEOREM ListenerInvariant == Spec => []ListenerInv
<1>1. Init => ListenerInv
  BY InitTypeControl, InitOrderOwed DEF ListenerInv
<1>2. ListenerInv /\ [Next]_vars => ListenerInv'
  BY NextType, NextControl, NextOrder, NextOwed DEF ListenerInv
<1> QED
  BY <1>1, <1>2, PTL DEF Spec

(* Every variable keeps its type; in particular no thread releases the     *)
(* start semaphore more than once.                                         *)
THEOREM TypeCorrect == Spec => []TypeOK
<1>1. ListenerInv => TypeOK
  BY DEF ListenerInv
<1> QED
  BY <1>1, ListenerInvariant, PTL

(* subscribeToNotifications connects the model to the emitter before it    *)
(* tells the listener: whatever the session is notified of from then on    *)
(* has reached the model once nothing is on its way, unless a break of the *)
(* connection lost it.                                                     *)
THEOREM NoNotificationMissed == Spec => []NoGapWhileListening
<1>1. ListenerInv => NoGapWhileListening
  <2> SUFFICES ASSUME ListenerInv, uiPc = "running", wire = <<>>, posted = <<>>,
                      NEW o \in owed
               PROVE  o \in ToSet(received)
    BY DEF NoGapWhileListening
  <2>1. ToSet(wire) = {}
    BY DEF ToSet
  <2>2. ~ quit
    BY DEF ListenerInv, ControlInv
  <2>3. Told = received
    BY ConcatEmptySeq DEF ListenerInv, TypeOK, Told
  <2> QED
    BY <2>1, <2>2, <2>3 DEF ListenerInv, OwedInv
<1> QED
  BY <1>1, ListenerInvariant, PTL

(* Emitter, queue and event loop tell each model of changes of its own     *)
(* table only, of each once, and of all in the order of the commits.       *)
THEOREM EachModelToldOnceInOrder == Spec => []ToldOnceInOrder
<1>1. ListenerInv => ToldOnceInOrder
  <2> SUFFICES ASSUME ListenerInv PROVE ToldOnceInOrder
    OBVIOUS
  <2>1. received \in Seq(Models \X Changes) /\ posted \in Seq(Models \X Changes)
    BY DEF ListenerInv, TypeOK
  <2>2. /\ ToSet(Told) = ToSet(received) \cup ToSet(posted)
        /\ \A i \in DOMAIN received : i \in DOMAIN Told /\ Told[i] = received[i]
    <3>1. \A i \in DOMAIN received : i \in DOMAIN (received \o posted)
      BY <2>1, ConcatPositions
    <3> QED
      BY <2>1, <3>1, ConcatPositions DEF Told
  <2> QED
    BY <2>2 DEF ListenerInv, OrderInv, InOrder, ToldOnceInOrder
<1> QED
  BY <1>1, ListenerInvariant, PTL

-----------------------------------------------------------------------------
(* Refinement: every step of the listener is a step of NotificationStream  *)
(* or a stutter of its variables.                                          *)

(* What the refinement maps to coming: the pairs in the queue q, and those *)
(* that a notification in w will become.                                   *)
OnItsWay(q, w, c, J) ==
  ToSet(q) \cup UNION {{<<m, n>> : m \in {k \in J : TableOf[k] = c[n]}} : n \in ToSet(w)}

LEMMA OnItsWayPairs ==
  ASSUME NEW q, NEW w, NEW c, NEW J, NEW p
  PROVE  p \in OnItsWay(q, w, c, J) <=>
           p \in ToSet(q) \/ \E n \in ToSet(w), m \in J : p = <<m, n>> /\ TableOf[m] = c[n]
BY DEF OnItsWay

(* OrderInv, seen from the queue of the UI thread.                         *)
LEMMA QueueOrder ==
  ASSUME TypeOK, OrderInv
  PROVE  /\ \A n \in ToSet(wire) : n \in DOMAIN commits
         /\ \A i, j \in DOMAIN wire : i < j => wire[i] < wire[j]
         /\ \A p \in ToSet(posted) : /\ p[1] \in connected /\ p[2] \in DOMAIN commits
                                     /\ commits[p[2]] = TableOf[p[1]]
                                     /\ \A n \in ToSet(wire) : p[2] < n
         /\ \A i, j \in DOMAIN posted : i < j => posted[i][2] <= posted[j][2]
                                                 /\ posted[i] # posted[j]
         /\ \A i \in DOMAIN received : \A n \in ToSet(wire) : received[i][2] < n
<1>1. received \in Seq(Models \X Changes) /\ posted \in Seq(Models \X Changes)
  BY DEF TypeOK
<1>2. /\ Len(received) \in Nat /\ Len(posted) \in Nat
      /\ DOMAIN received = 1..Len(received) /\ DOMAIN posted = 1..Len(posted)
      /\ ToSet(Told) = ToSet(received) \cup ToSet(posted)
      /\ DOMAIN Told = 1..(Len(received) + Len(posted))
      /\ \A i \in DOMAIN posted : Told[Len(received) + i] = posted[i]
  BY <1>1, ConcatPositions DEF Told
<1>3. InOrder(commits, wire, Told, connected)
  BY DEF OrderInv
<1>4. ASSUME NEW i \in DOMAIN posted, NEW j \in DOMAIN posted, i < j
      PROVE  posted[i][2] <= posted[j][2] /\ posted[i] # posted[j]
  <2>1. /\ Len(received) + i \in DOMAIN Told /\ Len(received) + j \in DOMAIN Told
        /\ Len(received) + i < Len(received) + j
    BY <1>2, <1>4
  <2> QED
    BY <1>2, <1>3, <2>1 DEF InOrder
<1>5. \A i \in DOMAIN received : received[i] \in ToSet(Told)
  BY <1>2 DEF ToSet
<1> QED
  BY <1>2, <1>3, <1>4, <1>5 DEF InOrder

(* When only the first k on the wire are kept, the newest are lost.        *)
LEMMA NewestLost ==
  ASSUME TypeOK, OrderInv, NEW k \in 0..Len(wire), NEW v, DOMAIN v = 1..k,
         \A i \in 1..k : v[i] = wire[i]
  PROVE  \E l \in 0..Len(commits) :
           OnItsWay(posted, v, commits, connected)
             = {p \in OnItsWay(posted, wire, commits, connected) : p[2] <= l}
<1>1. /\ wire \in Seq(Changes) /\ Len(wire) \in Nat /\ DOMAIN wire = 1..Len(wire)
      /\ Len(commits) \in Nat /\ DOMAIN commits = 1..Len(commits) /\ k \in Nat /\ k <= Len(wire)
  BY DEF TypeOK
<1> DEFINE l == IF k = Len(wire) THEN Len(commits) ELSE wire[k + 1] - 1
<1>2. \A i \in DOMAIN wire : wire[i] \in ToSet(wire) /\ wire[i] \in 1..Len(commits)
  BY <1>1, QueueOrder DEF ToSet
<1>3. k # Len(wire) => k + 1 \in DOMAIN wire /\ l = wire[k + 1] - 1
  <2>1. k # Len(wire) => l = wire[k + 1] - 1
    OBVIOUS
  <2> HIDE DEF l
  <2>2. \A x, y \in Nat : x <= y /\ x # y => x + 1 \in 1..y
    OBVIOUS
  <2>3. k # Len(wire) => k + 1 \in DOMAIN wire
    BY <1>1, <2>2
  <2> QED
    BY <2>1, <2>3
<1>4. k = Len(wire) => l = Len(commits)
  OBVIOUS
<1> HIDE DEF l
<1>5. l \in 0..Len(commits)
  <2>1. CASE k = Len(wire)
    BY <1>1, <1>4, <2>1
  <2>2. CASE k # Len(wire)
    <3>1. wire[k + 1] \in 1..Len(commits) /\ l = wire[k + 1] - 1
      BY <1>2, <1>3, <2>2
    <3> QED
      BY <1>1, <3>1
  <2> QED
    BY <2>1, <2>2
<1>6. ASSUME NEW i \in DOMAIN wire PROVE i <= k <=> wire[i] <= l
  <2>1. CASE k = Len(wire)
    BY <1>1, <1>2, <1>4, <2>1
  <2>2. CASE k # Len(wire)
    <3>1. i <= k => wire[i] < wire[k + 1]
      <4>1. k + 1 \in DOMAIN wire
        BY <1>3, <2>2
      <4>2. i <= k => i < k + 1
        BY <1>1
      <4> QED
        BY <4>1, <4>2, QueueOrder
    <3>2. ~ (i <= k) => wire[i] >= wire[k + 1]
      <4>1. CASE i = k + 1
        BY <1>2, <1>3, <2>2, <4>1
      <4>2. CASE i > k + 1
        <5>1. wire[k + 1] < wire[i]
          BY <1>3, <2>2, <4>2, QueueOrder
        <5> QED
          BY <1>2, <1>3, <2>2, <5>1
      <4> QED
        BY <1>1, <4>1, <4>2
    <3>3. wire[i] \in Int /\ wire[k + 1] \in Int /\ l = wire[k + 1] - 1
      BY <1>2, <1>3, <2>2
    <3> QED
      BY <3>1, <3>2, <3>3
  <2> QED
    BY <2>1, <2>2
<1>7. \A n : n \in ToSet(v) <=> n \in ToSet(wire) /\ n <= l
  <2>1. ASSUME NEW n \in ToSet(v) PROVE n \in ToSet(wire) /\ n <= l
    <3>1. PICK i \in 1..k : n = v[i]
      BY <2>1 DEF ToSet
    <3>2. i \in DOMAIN wire /\ i <= k /\ n = wire[i]
      BY <1>1, <3>1
    <3> QED
      BY <1>2, <1>6, <3>2
  <2>2. ASSUME NEW n \in ToSet(wire), n <= l PROVE n \in ToSet(v)
    <3>1. PICK i \in DOMAIN wire : n = wire[i]
      BY <2>2 DEF ToSet
    <3>2. i \in 1..k
      BY <1>1, <1>6, <2>2, <3>1
    <3> QED
      BY <3>1, <3>2 DEF ToSet
  <2> QED
    BY <2>1, <2>2
<1>8. ASSUME NEW p \in ToSet(posted) PROVE p[2] <= l
  <2>1. p[2] \in 1..Len(commits) /\ \A n \in ToSet(wire) : p[2] < n
    BY <1>1, <1>8, QueueOrder
  <2>2. CASE k = Len(wire)
    BY <1>1, <1>4, <2>1, <2>2
  <2>3. CASE k # Len(wire)
    <3>1. p[2] < wire[k + 1] /\ wire[k + 1] \in Int /\ l = wire[k + 1] - 1
      BY <1>2, <1>3, <2>1, <2>3
    <3> QED
      BY <2>1, <3>1
  <2> QED
    BY <2>2, <2>3
<1>9. ASSUME NEW p
      PROVE  p \in OnItsWay(posted, v, commits, connected) <=>
               p \in OnItsWay(posted, wire, commits, connected) /\ p[2] <= l
  BY <1>7, <1>8, OnItsWayPairs
<1>10. OnItsWay(posted, v, commits, connected)
         = {p \in OnItsWay(posted, wire, commits, connected) : p[2] <= l}
  BY <1>9
<1> QED
  BY <1>5, <1>10

Coming == OnItsWay(posted, wire, commits, connected)

LEMMA CommitRefines ==
  ASSUME TypeOK, OrderInv, NEW t \in Tables, Commit(t) PROVE Stream!Commit(t)
<1> DEFINE l == Len(commits')
           New == {<<m, l>> : m \in {k \in connected : TableOf[k] = t}}
<1>1. /\ commits' = Append(commits, t) /\ UNCHANGED <<connected, received, posted>>
      /\ commits \in Seq(Tables) /\ wire \in Seq(Changes) /\ Len(commits) < MaxCommits
  BY DEF TypeOK, Commit, uiVars
<1>2. /\ Len(commits) \in Nat /\ DOMAIN commits = 1..Len(commits) /\ l = Len(commits) + 1
      /\ \A n \in 1..Len(commits) : commits'[n] = commits[n]
      /\ commits'[l] = t
  BY <1>1, AppendProperties
<1>3. l \in Changes
  BY <1>1, <1>2, ListenerAssumption DEF Changes
<1>4. wire' = wire \/ wire' = Append(wire, l)
  BY DEF Commit
<1>5. \A n \in ToSet(wire) : commits'[n] = commits[n]
  BY <1>2, QueueOrder
<1>6. \A p : p \in New <=> \E m \in connected : p = <<m, l>> /\ TableOf[m] = t
  OBVIOUS
<1> HIDE DEF l, New
<1>7. CASE wire' = wire
  <2>1. \A p : p \in Coming' <=> p \in Coming
    <3>1. \A p : p \in OnItsWay(posted, wire, commits', connected)
                   <=> p \in OnItsWay(posted, wire, commits, connected)
      BY <1>5, OnItsWayPairs
    <3> QED
      BY <1>1, <1>7, <3>1 DEF Coming
  <2>2. Coming' = Coming
    BY <2>1 DEF Coming, OnItsWay
  <2> QED
    BY <1>1, <2>2 DEF Stream!Commit, Coming, OnItsWay
<1>8. CASE wire' = Append(wire, l)
  <2>1. ToSet(wire') = ToSet(wire) \cup {l}
    BY <1>1, <1>3, <1>8, AppendElements
  <2>2. \A p : p \in Coming' <=> p \in Coming \/ p \in New
    <3>1. \A v : ToSet(v) = ToSet(wire) \cup {l} =>
             \A p : p \in OnItsWay(posted, v, commits', connected)
                   <=> p \in OnItsWay(posted, wire, commits, connected) \/ p \in New
      BY <1>2, <1>5, <1>6, OnItsWayPairs
    <3> QED
      BY <1>1, <2>1, <3>1 DEF Coming
  <2>3. Coming' = Coming \cup New
    BY <2>2 DEF Coming, OnItsWay
  <2> QED
    BY <1>1, <2>3 DEF Stream!Commit, Coming, OnItsWay, New, l
<1> QED
  BY <1>4, <1>7, <1>8

LEMMA JoinRefines ==
  ASSUME TypeOK, OrderInv, NEW m \in Models, connectEmitter(m) PROVE Stream!Join(m)
<1> DEFINE N == {n \in ToSet(wire) : commits[n] = TableOf[m]}
           X == {m} \X N
<1>1. /\ UNCHANGED <<commits, wire, posted, received>>
      /\ m \notin connected /\ connected' = connected \cup {m}
  BY DEF connectEmitter, serverVars
<1>2. N \in SUBSET {n \in DOMAIN commits : /\ commits[n] = TableOf[m]
                                           /\ \A i \in DOMAIN received : received[i][2] < n}
  BY QueueOrder
<1>3. \A p : p \in X <=> \E n \in ToSet(wire) : p = <<m, n>> /\ TableOf[m] = commits[n]
  OBVIOUS
<1> HIDE DEF N, X
<1>4. \A p : p \in Coming' <=> p \in Coming \/ p \in X
  <2>1. \A p : p \in OnItsWay(posted, wire, commits, connected \cup {m})
                 <=> p \in OnItsWay(posted, wire, commits, connected) \/ p \in X
    BY <1>3, OnItsWayPairs
  <2> QED
    BY <1>1, <2>1 DEF Coming
<1>5. Coming' = Coming \cup ({m} \X N)
  BY <1>4 DEF Coming, OnItsWay, X
<1> QED
  BY <1>1, <1>2, <1>5 DEF Stream!Join, Coming, OnItsWay

(* The head of the queue is the oldest change on its way, and is in the    *)
(* queue once.                                                             *)
LEMMA TellRefines ==
  ASSUME TypeOK, OrderInv, emitNotification PROVE \E m \in Models : Stream!Tell(m)
<1> DEFINE h == Head(posted)
<1>1. /\ UNCHANGED <<commits, wire, connected>> /\ posted # <<>>
      /\ posted' = Tail(posted) /\ received' = Append(received, h)
      /\ posted \in Seq(Models \X Changes)
  BY DEF emitNotification, uiVars, serverVars, TypeOK
<1>2. /\ h \in ToSet(posted) /\ ToSet(posted) = {h} \cup ToSet(posted')
      /\ h \in Models \X Changes
  BY <1>1, TailElements
<1>3. /\ Len(posted) \in Nat /\ DOMAIN posted = 1..Len(posted) /\ h = posted[1] /\ Len(posted) # 0
      /\ DOMAIN posted' = 1..(Len(posted) - 1)
      /\ \A i \in 1..(Len(posted) - 1) : posted'[i] = posted[i + 1]
  BY <1>1, HeadTailProperties, EmptySeq
<1>4. h = <<h[1], h[2]>> /\ h[1] \in Models /\ h[2] \in DOMAIN commits
  BY <1>2, QueueOrder
<1> HIDE DEF h
<1>5. ASSUME NEW p \in ToSet(posted) PROVE h[2] <= p[2]
  <2>1. PICK i \in DOMAIN posted : p = posted[i]
    BY <1>5 DEF ToSet
  <2>2. CASE i = 1
    <3>1. h[2] \in Nat
      BY <1>4 DEF TypeOK
    <3> QED
      BY <1>3, <2>1, <2>2, <3>1
  <2>3. CASE i # 1
    <3>1. 1 \in DOMAIN posted /\ 1 < i
      BY <1>3, <2>3
    <3> QED
      BY <1>3, <2>1, <3>1, QueueOrder
  <2> QED
    BY <2>2, <2>3
<1>6. \A n \in ToSet(wire) : h[2] # n /\ h[2] <= n
  <2>1. \A n \in ToSet(wire) : h[2] < n /\ h[2] \in Nat /\ n \in Nat
    BY <1>2, QueueOrder DEF TypeOK
  <2> QED
    BY <2>1
<1>7. h \notin ToSet(posted')
  <2>1. ASSUME NEW i \in DOMAIN posted' PROVE posted'[i] # h
    <3>1. 1 \in DOMAIN posted /\ i + 1 \in DOMAIN posted /\ 1 < i + 1
      BY <1>3
    <3> QED
      BY <1>3, <3>1, QueueOrder
  <2> QED
    BY <2>1 DEF ToSet
<1>8. \A p \in Coming : h[2] <= p[2]
  BY <1>5, <1>6, OnItsWayPairs DEF Coming
<1>9. h \in Coming
  BY <1>2, OnItsWayPairs DEF Coming
<1>10. \A p : p \in Coming' <=> p \in Coming /\ p # h
  <2>1. \A q : ToSet(posted) = {h} \cup ToSet(q) /\ h \notin ToSet(q) =>
          \A p : p \in OnItsWay(q, wire, commits, connected)
                   <=> p \in OnItsWay(posted, wire, commits, connected) /\ p # h
    BY <1>4, <1>6, OnItsWayPairs
  <2> QED
    BY <1>1, <1>2, <1>7, <2>1 DEF Coming
<1>11. Coming' = Coming \ {h}
  BY <1>10 DEF Coming, OnItsWay
<1>12. PICK m \in Models, n \in DOMAIN commits : h = <<m, n>>
  BY <1>4
<1>13. Stream!Tell(m)
  <2>1. /\ <<m, n>> \in Coming
        /\ \A p \in Coming : n <= p[2]
        /\ received' = Append(received, <<m, n>>)
        /\ Coming' = Coming \ {<<m, n>>}
        /\ UNCHANGED <<commits, connected>>
    BY <1>1, <1>8, <1>9, <1>11, <1>12
  <2> QED
    BY <2>1 DEF Stream!Tell, Coming, OnItsWay
<1> QED
  BY <1>13

(* A break, and the end of the session, lose the newest on the wire.       *)
LEMMA LoseRefines ==
  ASSUME TypeOK, OrderInv, NEW k \in 0..Len(wire), wire' = SubSeq(wire, 1, k) \/ (k = 0 /\ wire' = <<>>),
         UNCHANGED <<commits, connected, posted, received>>
  PROVE  Stream!Lose
<1>1. DOMAIN wire' = 1..k /\ \A i \in 1..k : wire'[i] = wire[i]
  <2>1. wire \in Seq(Changes)
    BY DEF TypeOK
  <2>2. CASE wire' = SubSeq(wire, 1, k)
    BY <2>1, <2>2, FirstElements
  <2>3. CASE k = 0 /\ wire' = <<>>
    <3>1. DOMAIN <<>> = 1..0 /\ 1..0 = {}
      OBVIOUS
    <3> QED
      BY <2>3, <3>1
  <2> QED
    BY <2>2, <2>3
<1>2. PICK l \in 0..Len(commits) :
        OnItsWay(posted, wire', commits, connected)
          = {p \in OnItsWay(posted, wire, commits, connected) : p[2] <= l}
  BY <1>1, NewestLost
<1>3. Coming' = {p \in Coming : p[2] <= l}
  BY <1>2 DEF Coming
<1> QED
  BY <1>3 DEF Stream!Lose, Coming, OnItsWay

(* A notification that is posted stays on its way to the same models.      *)
LEMMA PostingStutters ==
  ASSUME TypeOK, OrderInv, recvNotification PROVE UNCHANGED Stream!vars
<1> DEFINE n == Head(wire)
           told == {m \in connected : TableOf[m] = commits[n]}
<1>1. /\ wire # <<>> /\ wire' = Tail(wire) /\ UNCHANGED <<commits, received, connected>>
      /\ wire \in Seq(Changes) /\ posted \in Seq(Models \X Changes)
  BY DEF recvNotification, serverVars, uiVars, TypeOK
<1>2. n \in Changes /\ ToSet(wire) = {n} \cup ToSet(wire')
  BY <1>1, HeadTailProperties, TailElements
<1>3. PICK list \in SetToSeqs({<<m, n>> : m \in told}) : posted' = posted \o list
  BY DEF recvNotification
<1>4. list \in Seq(Models \X Changes) /\ ToSet(list) = {<<m, n>> : m \in told}
  BY <1>2, PostedTo
<1>5. \A p : p \in ToSet(list) <=> \E m \in connected : p = <<m, n>> /\ TableOf[m] = commits[n]
  BY <1>4
<1> HIDE DEF n, told
<1>6. ToSet(posted') = ToSet(posted) \cup ToSet(list)
  BY <1>1, <1>3, <1>4, ConcatPositions
<1>7. \A p : p \in Coming' <=> p \in Coming
  <2>1. \A q, v : ToSet(q) = ToSet(posted) \cup ToSet(list) /\ ToSet(wire) = {n} \cup ToSet(v) =>
          \A p : p \in OnItsWay(q, v, commits, connected)
                   <=> p \in OnItsWay(posted, wire, commits, connected)
    BY <1>5, OnItsWayPairs
  <2> QED
    BY <1>1, <1>2, <1>6, <2>1 DEF Coming
<1>8. Coming' = Coming
  BY <1>7 DEF Coming, OnItsWay
<1> QED
  BY <1>1, <1>8 DEF Stream!vars, Coming, OnItsWay

LEMMA StreamStep ==
  ASSUME TypeOK, OrderInv, [Next]_vars PROVE [Stream!Next]_(Stream!vars)
<1>0. Len(wire) \in Nat /\ 0 \in 0..Len(wire)
  BY DEF TypeOK
<1>a. ASSUME UNCHANGED <<commits, connected, wire, posted, received>>
      PROVE  UNCHANGED Stream!vars
  BY <1>a DEF Stream!vars
<1>1. ASSUME NEW t \in Tables, Commit(t) PROVE Stream!Next
  BY <1>1, CommitRefines DEF Stream!Next
<1>2. CASE ServerDown
  <2>1. PICK k \in 0..Len(wire) : wire' = SubSeq(wire, 1, k)
    BY <1>2 DEF ServerDown
  <2>2. UNCHANGED <<commits, connected, posted, received>>
    BY <1>2 DEF ServerDown, uiVars
  <2>3. Stream!Lose
    BY <2>1, <2>2, LoseRefines
  <2> QED
    BY <2>3 DEF Stream!Next
<1>3. ASSUME NEW m \in Models, connectEmitter(m) PROVE Stream!Next
  BY <1>3, JoinRefines DEF Stream!Next
<1>4. CASE emitNotification
  BY <1>4, TellRefines DEF Stream!Next
<1>5. CASE recvNotification
  BY <1>5, PostingStutters
<1>6. CASE subscribeSlot /\ session = "broken"
  <2>1. wire' = <<>> /\ UNCHANGED <<commits, connected, posted, received>>
    BY <1>6 DEF subscribeSlot, uiVars, serverVars
  <2>2. Stream!Lose
    BY <1>0, <2>1, LoseRefines
  <2> QED
    BY <2>2 DEF Stream!Next
<1>7. CASE RunQuit
  <2>1. wire' = <<>> /\ UNCHANGED <<commits, connected, posted, received>>
    BY <1>7 DEF RunQuit, uiVars, serverVars
  <2>2. Stream!Lose
    BY <1>0, <2>1, LoseRefines
  <2> QED
    BY <2>2 DEF Stream!Next
<1>8. CASE subscribeSlot /\ session # "broken"
  BY <1>8, <1>a DEF subscribeSlot, uiVars, serverVars
<1>9. CASE ServerUp \/ UiStart \/ UiAcquire \/ subscribe \/ UiReturn \/ UiQuit
  BY <1>9, <1>a DEF ServerUp, UiStart, UiAcquire, subscribe, UiReturn, UiQuit, uiVars, serverVars
<1>10. CASE RunConnect \/ RunHook \/ RunRelease \/ NoticeBroken \/ tryConnect
  BY <1>10, <1>a DEF RunConnect, RunHook, RunRelease, NoticeBroken, tryConnect, uiVars, serverVars
<1>11. CASE UNCHANGED vars
  BY <1>11, <1>a DEF vars
<1> QED
  BY <1>1, <1>2, <1>3, <1>4, <1>5, <1>6, <1>7, <1>8, <1>9, <1>10, <1>11
     DEF Next, UiStep, RunStep

(* DbListener implements what RunTable and RegistrationTable assume of     *)
(* their notifications: one stream of all tables' changes in the order of  *)
(* the commits, of which a break of the connection loses the newest.       *)
THEOREM ListenerImplementsStream == Spec => ImplementsNotificationStream
<1>1. Init => Stream!Init
  <2> SUFFICES ASSUME Init PROVE Stream!Init
    OBVIOUS
  <2>1. ToSet(posted) = {} /\ ToSet(wire) = {}
    BY DEF Init, ToSet
  <2> QED
    BY <2>1 DEF Init, Stream!Init
<1>2. ListenerInv /\ [Next]_vars => [Stream!Next]_(Stream!vars)
  BY StreamStep DEF ListenerInv
<1> QED
  BY <1>1, <1>2, ListenerInvariant, PTL DEF Spec, ImplementsNotificationStream, Stream!Spec
=============================================================================
