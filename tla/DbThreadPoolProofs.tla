------------------------- MODULE DbThreadPoolProofs -------------------------
(***************************************************************************)
(* Proofs about DbThreadPool for any finite, non-empty set of threads and  *)
(* any set of requests.  IInv is inductive: LoopsInv counts threads and    *)
(* permits, so that the end of the acquire loop means that every thread    *)
(* exists and has released; MutexInv is mutual exclusion; ThreadInv says   *)
(* that no thread gets past its init job before wakeAll.                   *)
(***************************************************************************)
EXTENDS DbThreadPool, FiniteSetTheorems, SequenceTheorems, TLAPS

(* The sets the counters of the constructor count are finite.              *)
LEMMA CountedSets ==
  /\ NumThreads \in Nat
  /\ IsFiniteSet(Created) /\ Cardinality(Created) \in Nat
  /\ IsFiniteSet(Released) /\ Cardinality(Released) \in 0..NumThreads
  /\ Cardinality(Created) = NumThreads => Created = Threads
  /\ Cardinality(Released) = NumThreads => Released = Threads
<1>1. NumThreads \in Nat
  BY PoolAssumption, FS_CardinalityType DEF NumThreads
<1>2. Created \in SUBSET Threads /\ Released \in SUBSET Threads
  BY DEF Created, Released
<1>3. IsFiniteSet(Threads)
  BY PoolAssumption
<1>4. /\ IsFiniteSet(Created)
      /\ Cardinality(Threads) = Cardinality(Created) => Threads = Created
  BY <1>2, <1>3, FS_Subset
<1>5. /\ IsFiniteSet(Released) /\ Cardinality(Released) <= Cardinality(Threads)
      /\ Cardinality(Threads) = Cardinality(Released) => Threads = Released
  BY <1>2, <1>3, FS_Subset
<1>6. Cardinality(Created) \in Nat /\ Cardinality(Released) \in Nat
  BY <1>4, <1>5, FS_CardinalityType
<1> QED
  BY <1>1, <1>4, <1>5, <1>6 DEF NumThreads

(* The constructor's counters count nothing before it has begun.           *)
LEMMA InitIInv == Init => IInv
<1> SUFFICES ASSUME Init PROVE IInv
  OBVIOUS
<1>1. NumThreads \in Nat
  BY CountedSets
<1>2. TypeOK
  BY <1>1, PoolAssumption
     DEF Init, TypeOK, MainPc, InitPc, AsyncPc
<1>3. Created = {} /\ Released = {}
  BY DEF Init, Created, Released
<1>4. Cardinality({}) = 0
  BY FS_EmptySet
<1>5. NumThreads # 0
  BY PoolAssumption, FS_EmptySet DEF NumThreads
<1>6. LoopsInv
  BY <1>1, <1>3, <1>4, <1>5 DEF Init, LoopsInv
<1>7. MutexInv
  BY PoolAssumption DEF Init, MutexInv
<1>8. ASSUME NEW t \in Threads PROVE ThreadInv(t)
  BY DEF Init, ThreadInv
<1>9. QueueInv
  BY DEF Init, QueueInv
<1> QED
  BY <1>2, <1>6, <1>7, <1>8, <1>9 DEF IInv

(* DbConnection's constructor leaves thread t with a registered name and   *)
(* touches no other thread's.                                              *)
LEMMA ConnectEffect ==
  ASSUME TypeOK, NEW t \in Threads \cup {Main}, Connect(t)
  PROVE  /\ conn' \in [Threads \cup {Main} -> {"absent", "closed", "open"}]
         /\ conn'[t] # "absent"
         /\ \A u \in (Threads \cup {Main}) \ {t} : conn'[u] = conn[u]
  BY DEF TypeOK, Connect

-----------------------------------------------------------------------------
(* One lemma per kind of step.  Steps that create no thread and release no *)
(* permit keep the counted sets.                                           *)

LEMMA MainConnectInv == ASSUME IInv, MainConnect PROVE IInv'
<1> USE DEF MainConnect, mainVars, syncVars, poolVars, reqVars
<1>0. TypeOK /\ LoopsInv /\ MutexInv /\ QueueInv /\ \A t \in Threads : ThreadInv(t)
  BY DEF IInv
<1>1. /\ conn' \in [Threads \cup {Main} -> {"absent", "closed", "open"}]
      /\ \A u \in Threads : conn'[u] = conn[u]
  BY <1>0, ConnectEffect, PoolAssumption
<1>2. TypeOK'
  BY <1>0, <1>1 DEF TypeOK, MainPc
<1>3. Created' = Created /\ Released' = Released
  BY DEF Created, Released
<1>4. NumThreads \in Nat \ {0}
  BY CountedSets, PoolAssumption, FS_EmptySet DEF NumThreads
<1>5. LoopsInv'
  BY <1>0, <1>3, <1>4 DEF LoopsInv
<1>6. MutexInv'
  BY <1>0 DEF MutexInv
<1>7. \A t \in Threads : ThreadInv(t)'
  BY <1>0, <1>1 DEF ThreadInv, MainPastWake
<1>8. QueueInv'
  BY <1>0 DEF QueueInv
<1> QED
  BY <1>2, <1>5, <1>6, <1>7, <1>8 DEF IInv

LEMMA MainStartInv == ASSUME IInv, MainStart PROVE IInv'
<1> USE DEF MainStart, mainVars, syncVars, poolVars, reqVars
<1>0. TypeOK /\ LoopsInv /\ MutexInv /\ QueueInv /\ \A t \in Threads : ThreadInv(t)
  BY DEF IInv
<1>1. Cardinality(Created) < NumThreads
  BY <1>0 DEF LoopsInv
<1>2. InState("waiting") = {}
  BY <1>0 DEF InState, ThreadInv, MainPastWake
<1>3. InState("absent") # {}
  <2>1. Created # Threads
    BY <1>1, CountedSets DEF NumThreads
  <2> QED
    BY <2>1 DEF Created, InState
<1>4. StartOnNewThread(InitJob)
  BY <1>2, <1>3 DEF StartRunnable, StartLater, StartOnWaitingThread
<1>5. PICK t \in Threads :
        /\ pool[t] = "absent"
        /\ pool' = [pool EXCEPT ![t] = "busy"]
        /\ job' = [job EXCEPT ![t] = InitJob]
        /\ pc' = [pc EXCEPT ![t] = "release"]
        /\ UNCHANGED queue
  BY <1>4 DEF StartOnNewThread, InState, EntryPc
<1>6. TypeOK'
  BY <1>0, <1>5, CountedSets DEF TypeOK, MainPc, InitPc
<1>7. Created' = Created \cup {t} /\ t \notin Created
  BY <1>0, <1>5 DEF Created, TypeOK
<1>8. Released' = Released
  BY <1>0, <1>5 DEF Released, Created, TypeOK
<1>9. Cardinality(Created') = Cardinality(Created) + 1
  BY <1>7, CountedSets, FS_AddElement
<1>10. LoopsInv'
  BY <1>0, <1>8, <1>9, CountedSets DEF LoopsInv, TypeOK
<1>11. MutexInv'
  BY <1>0, <1>5 DEF MutexInv, ThreadInv, TypeOK
<1>12. \A u \in Threads : ThreadInv(u)'
  BY <1>0, <1>5 DEF ThreadInv, MainPastWake, TypeOK, InitPc
<1>13. QueueInv'
  BY <1>0, <1>5 DEF QueueInv
<1> QED
  BY <1>6, <1>10, <1>11, <1>12, <1>13 DEF IInv

(* The other steps of the constructor move no thread in the pool.          *)
LEMMA MainSyncInv ==
  ASSUME IInv, MainAcquire \/ MainLock \/ MainWakeAll \/ MainUnlock
  PROVE  IInv'
<1> USE DEF MainAcquire, MainLock, MainWakeAll, MainUnlock, poolVars, reqVars
<1>0. TypeOK /\ LoopsInv /\ MutexInv /\ QueueInv /\ \A t \in Threads : ThreadInv(t)
  BY DEF IInv
<1>1. \A t \in waiters : pc[t] = "asleep"
  BY <1>0 DEF MutexInv
<1>2. TypeOK'
  BY <1>0, <1>1, CountedSets, PoolAssumption DEF TypeOK, MainPc, InitPc, LoopsInv
<1>3. Created' = Created /\ Released' = Released
  BY <1>0, <1>1 DEF Created, Released, TypeOK
<1>4. LoopsInv'
  BY <1>0, <1>3, CountedSets DEF LoopsInv, TypeOK
<1>5. MutexInv'
  BY <1>0, <1>1, PoolAssumption DEF MutexInv, TypeOK
<1>6. \A t \in Threads : ThreadInv(t)'
  BY <1>0, <1>1 DEF ThreadInv, MainPastWake, TypeOK, InitPc, AsyncPc
<1>7. QueueInv'
  BY <1>0 DEF QueueInv
<1> QED
  BY <1>2, <1>4, <1>5, <1>6, <1>7 DEF IInv

(* The init job.  Only InitRelease changes what is counted.                *)
LEMMA InitReleaseInv == ASSUME IInv, NEW t \in Threads, InitRelease(t) PROVE IInv'
<1> USE DEF InitRelease, mainVars, poolVars, reqVars
<1>0. TypeOK /\ LoopsInv /\ MutexInv /\ QueueInv /\ \A u \in Threads : ThreadInv(u)
  BY DEF IInv
<1>1. pool[t] = "busy" /\ job[t] = InitJob
  BY <1>0 DEF ThreadInv, TypeOK, AsyncPc
<1>2. Created' = Created
  BY DEF Created
<1>3. Released' = Released \cup {t} /\ t \notin Released
  BY <1>0, <1>1 DEF Released, Created, TypeOK
<1>4. Cardinality(Released') = Cardinality(Released) + 1
  BY <1>3, CountedSets, FS_AddElement
<1>5. Cardinality(Released') <= NumThreads
  <2>1. Released' \in SUBSET Threads
    BY DEF Released, Created
  <2> QED
    BY <2>1, FS_Subset, PoolAssumption DEF NumThreads
<1>6. LoopsInv'
  BY <1>0, <1>2, <1>4, CountedSets DEF LoopsInv, TypeOK
<1>7. TypeOK'
  BY <1>0, <1>4, <1>5, CountedSets DEF TypeOK, InitPc, LoopsInv
<1>8. MutexInv'
  BY <1>0 DEF MutexInv, TypeOK
<1>9. \A u \in Threads : ThreadInv(u)'
  BY <1>0, <1>1 DEF ThreadInv, MainPastWake, TypeOK, InitPc
<1>10. QueueInv'
  BY <1>0 DEF QueueInv
<1> QED
  BY <1>6, <1>7, <1>8, <1>9, <1>10 DEF IInv

LEMMA InitOpenInv == ASSUME IInv, NEW t \in Threads, InitOpen(t) PROVE IInv'
<1> USE DEF InitOpen, mainVars, syncVars, poolVars, reqVars
<1>0. TypeOK /\ LoopsInv /\ MutexInv /\ QueueInv /\ \A u \in Threads : ThreadInv(u)
  BY DEF IInv
<1>1. /\ conn' \in [Threads \cup {Main} -> {"absent", "closed", "open"}]
      /\ conn'[t] # "absent"
      /\ \A u \in Threads \ {t} : conn'[u] = conn[u]
  BY <1>0, ConnectEffect
<1>2. pool[t] = "busy" /\ job[t] = InitJob
  BY <1>0 DEF ThreadInv, TypeOK, AsyncPc
<1>3. TypeOK'
  BY <1>0, <1>1 DEF TypeOK, InitPc
<1>4. Created' = Created /\ Released' = Released
  BY <1>0 DEF Created, Released, TypeOK
<1>5. LoopsInv'
  BY <1>0, <1>4 DEF LoopsInv
<1>6. MutexInv'
  BY <1>0 DEF MutexInv, TypeOK
<1>7. \A u \in Threads : ThreadInv(u)'
  BY <1>0, <1>1, <1>2 DEF ThreadInv, MainPastWake, TypeOK, InitPc
<1>8. QueueInv'
  BY <1>0 DEF QueueInv
<1> QED
  BY <1>3, <1>5, <1>6, <1>7, <1>8 DEF IInv

LEMMA InitSyncInv ==
  ASSUME IInv, NEW t \in Threads,
         InitLock(t) \/ InitWait(t) \/ InitRelock(t) \/ InitUnlock(t)
  PROVE  IInv'
<1> USE DEF InitLock, InitWait, InitRelock, InitUnlock, mainVars, poolVars, reqVars
<1>0. TypeOK /\ LoopsInv /\ MutexInv /\ QueueInv /\ \A u \in Threads : ThreadInv(u)
  BY DEF IInv
<1>1. pool[t] = "busy" /\ job[t] = InitJob
  BY <1>0 DEF ThreadInv, TypeOK, AsyncPc
<1>2. TypeOK'
  BY <1>0 DEF TypeOK, InitPc
<1>3. Created' = Created /\ Released' = Released
  BY <1>0 DEF Created, Released, TypeOK
<1>4. LoopsInv'
  BY <1>0, <1>3 DEF LoopsInv
<1>5. MutexInv'
  BY <1>0, PoolAssumption DEF MutexInv, TypeOK
<1>6. \A u \in Threads : ThreadInv(u)'
  BY <1>0, <1>1 DEF ThreadInv, MainPastWake, TypeOK, InitPc
<1>7. QueueInv'
  BY <1>0 DEF QueueInv
<1> QED
  BY <1>2, <1>4, <1>5, <1>6, <1>7 DEF IInv

(* Requests.                                                               *)
LEMMA PostInv == ASSUME IInv, NEW r \in Requests, Post(r) PROVE IInv'
<1> USE DEF Post, mainVars, syncVars
<1>0. TypeOK /\ LoopsInv /\ MutexInv /\ QueueInv /\ \A t \in Threads : ThreadInv(t)
  BY DEF IInv
<1>1. InState("absent") = {}
  <2>1. Created = Threads
    BY <1>0, CountedSets DEF LoopsInv
  <2> QED
    BY <2>1 DEF Created, InState
<1>2. /\ queue' = Append(queue, r)
      /\ UNCHANGED <<job, pc>>
      /\ \/ pool' = pool
         \/ \E t \in Threads : /\ pool[t] = "waiting"
                               /\ pool' = [pool EXCEPT ![t] = "woken"]
  BY <1>1 DEF StartRunnable, StartOnNewThread, StartOnWaitingThread, StartLater, InState
<1>3. queue' \in Seq(Requests) /\ queue' \in Seq(Requests \cup {InitJob})
  BY <1>0, <1>2 DEF QueueInv, TypeOK
<1>4. TypeOK'
  BY <1>0, <1>2, <1>3 DEF TypeOK
<1>5. Created' = Created /\ Released' = Released
  BY <1>0, <1>2 DEF Created, Released, TypeOK
<1>6. LoopsInv'
  BY <1>0, <1>5 DEF LoopsInv
<1>7. MutexInv'
  BY <1>0, <1>2 DEF MutexInv
<1>8. \A t \in Threads : ThreadInv(t)'
  BY <1>0, <1>2 DEF ThreadInv, MainPastWake, TypeOK
<1>9. QueueInv'
  BY <1>3 DEF QueueInv
<1> QED
  BY <1>4, <1>6, <1>7, <1>8, <1>9 DEF IInv

LEMMA AsyncInv ==
  ASSUME IInv, NEW t \in Threads, AsyncModel(t) \/ AsyncQuery(t)
  PROVE  IInv'
<1> USE DEF AsyncModel, AsyncQuery, mainVars, syncVars, poolVars, reqVars
<1>0. TypeOK /\ LoopsInv /\ MutexInv /\ QueueInv /\ \A u \in Threads : ThreadInv(u)
  BY DEF IInv
<1>1. pool[t] = "busy" /\ job[t] \in Requests /\ conn[t] # "absent"
  BY <1>0 DEF ThreadInv, TypeOK, InitPc
<1>2. /\ conn' \in [Threads \cup {Main} -> {"absent", "closed", "open"}]
      /\ conn'[t] # "absent"
      /\ \A u \in Threads \ {t} : conn'[u] = conn[u]
  BY <1>0, <1>1, ConnectEffect DEF TypeOK
<1>3. TypeOK'
  BY <1>0, <1>1, <1>2 DEF TypeOK, AsyncPc
<1>4. Created' = Created /\ Released' = Released
  BY <1>0 DEF Created, Released, TypeOK
<1>5. LoopsInv'
  BY <1>0, <1>4 DEF LoopsInv
<1>6. MutexInv'
  BY <1>0 DEF MutexInv, TypeOK
<1>7. \A u \in Threads : ThreadInv(u)'
  BY <1>0, <1>1, <1>2, PoolAssumption DEF ThreadInv, MainPastWake, TypeOK, AsyncPc
<1>8. QueueInv'
  BY <1>0 DEF QueueInv
<1> QED
  BY <1>3, <1>5, <1>6, <1>7, <1>8 DEF IInv

LEMMA TakeNextInv ==
  ASSUME IInv, NEW t \in Threads, WakeForWork(t) \/ FinishJob(t)
  PROVE  IInv'
<1> USE DEF WakeForWork, FinishJob, mainVars, syncVars, reqVars
<1>0. TypeOK /\ LoopsInv /\ MutexInv /\ QueueInv /\ \A u \in Threads : ThreadInv(u)
  BY DEF IInv
<1>1. /\ TakeNext(t)
      /\ pool[t] \in {"woken", "busy"} /\ pc[t] \in {"none", "finish"}
      /\ MainPastWake /\ conn[t] # "absent"
  BY <1>0 DEF ThreadInv, TypeOK
<1>2. \/ /\ queue # <<>> /\ Head(queue) \in Requests
         /\ job' = [job EXCEPT ![t] = Head(queue)]
         /\ pc' = [pc EXCEPT ![t] = "model"]
         /\ queue' = Tail(queue)
         /\ pool' = [pool EXCEPT ![t] = "busy"]
      \/ /\ job' = [job EXCEPT ![t] = NoJob]
         /\ pc' = [pc EXCEPT ![t] = "none"]
         /\ pool' = [pool EXCEPT ![t] = "waiting"]
         /\ UNCHANGED queue
  <2>1. queue # <<>> => Head(queue) \in Requests
    BY <1>0 DEF QueueInv
  <2>2. queue # <<>> => EntryPc(Head(queue)) = "model"
    BY <2>1, PoolAssumption DEF EntryPc
  <2> QED
    BY <1>1, <2>1, <2>2 DEF TakeNext
<1>3. /\ queue # <<>> => Tail(queue) \in Seq(Requests)
      /\ queue # <<>> => Tail(queue) \in Seq(Requests \cup {InitJob})
      /\ queue = <<>> => queue' = <<>>
  BY <1>0, <1>1 DEF QueueInv, TypeOK, TakeNext
<1>4. TypeOK'
  BY <1>0, <1>2, <1>3 DEF TypeOK, AsyncPc
<1>5. Created' = Created /\ Released' = Released
  BY <1>0, <1>1, <1>2 DEF Created, Released, TypeOK
<1>6. LoopsInv'
  BY <1>0, <1>5 DEF LoopsInv
<1>7. MutexInv'
  BY <1>0, <1>1, <1>2 DEF MutexInv, TypeOK
<1>8. \A u \in Threads : ThreadInv(u)'
  BY <1>0, <1>1, <1>2 DEF ThreadInv, MainPastWake, TypeOK, AsyncPc
<1>9. QueueInv'
  BY <1>0, <1>2, <1>3 DEF QueueInv
<1> QED
  BY <1>4, <1>6, <1>7, <1>8, <1>9 DEF IInv

-----------------------------------------------------------------------------
(* IInv holds in every state of every behaviour of the pool.               *)
THEOREM InductiveInvariant == Spec => []IInv
<1>1. IInv /\ [Next]_vars => IInv'
  <2> SUFFICES ASSUME IInv, [Next]_vars PROVE IInv'
    OBVIOUS
  <2>1. CASE MainStep
    BY <2>1, MainConnectInv, MainStartInv, MainSyncInv DEF MainStep
  <2>2. ASSUME NEW t \in Threads, ThreadStep(t) PROVE IInv'
    BY <2>2, InitReleaseInv, InitOpenInv, InitSyncInv, AsyncInv, TakeNextInv
       DEF ThreadStep
  <2>3. ASSUME NEW r \in Requests, Post(r) PROVE IInv'
    BY <2>3, PostInv
  <2>4. CASE UNCHANGED vars
    BY <2>4 DEF vars, IInv, TypeOK, LoopsInv, MutexInv, ThreadInv, QueueInv,
                Created, Released, MainPastWake
  <2> QED
    BY <2>1, <2>2, <2>3, <2>4 DEF Next
<1> QED
  BY InitIInv, <1>1, PTL DEF Spec

(* Every variable of the pool keeps its type: in particular the semaphore  *)
(* never holds more permits than there are threads.                        *)
THEOREM TypeCorrect == Spec => []TypeOK
<1>1. IInv => TypeOK
  BY DEF IInv
<1> QED
  BY InductiveInvariant, <1>1, PTL

(* Database connections are registered one at a time, whatever the number  *)
(* of threads.                                                             *)
THEOREM RegistrationIsExclusive == Spec => []AddDatabaseExclusive
<1>1. IInv => AddDatabaseExclusive
  <2> SUFFICES ASSUME IInv,
                      NEW t \in Threads \cup {Main}, NEW u \in Threads \cup {Main},
                      Registering(t), Registering(u)
               PROVE  t = u
    BY DEF AddDatabaseExclusive
  <2>1. ASSUME NEW v \in Threads, Registering(v) PROVE mutex = v /\ mainPc # "main_con"
    <3>1. v # Main
      BY PoolAssumption
    <3>2. pc[v] \in {"open", "model"} /\ conn[v] = "absent"
      BY <2>1, <3>1 DEF Registering
    <3>3. pool[v] = "busy" /\ pc[v] = "open"
      BY <3>2 DEF IInv, ThreadInv, TypeOK, InitPc
    <3>4. mutex = v
      BY <3>3 DEF IInv, MutexInv
    <3>5. v \in Created
      BY <3>3 DEF Created
    <3>6. Cardinality(Created) # 0
      BY <3>5, CountedSets, FS_EmptySet
    <3> QED
      BY <3>4, <3>6 DEF IInv, LoopsInv
  <2>2. Registering(Main) => mainPc = "main_con"
    BY PoolAssumption DEF Registering
  <2> QED
    BY <2>1, <2>2
<1> QED
  BY InductiveInvariant, <1>1, PTL

(* No request runs on a thread that has not been through its init job.     *)
THEOREM RequestsFindAConnection == Spec => []RequestsRunOnInitialisedThreads
<1>1. IInv => RequestsRunOnInitialisedThreads
  BY PoolAssumption
     DEF IInv, ThreadInv, TypeOK, RequestsRunOnInitialisedThreads
<1> QED
  BY InductiveInvariant, <1>1, PTL

(* The acquire loop ends only when every thread has started, and no init   *)
(* job gets past its wait before wakeAll.                                  *)
THEOREM BarrierHolds == Spec => []Barrier
<1>1. IInv => Barrier
  <2> SUFFICES ASSUME IInv PROVE Barrier
    OBVIOUS
  <2>1. mainPc \in {"lock", "wake", "unlock", "returned"} => Released = Threads
    <3> SUFFICES ASSUME mainPc \in {"lock", "wake", "unlock", "returned"}
                 PROVE  Released = Threads
      OBVIOUS
    <3>1. permits + NumThreads = Cardinality(Released) /\ permits \in Nat
      BY DEF IInv, LoopsInv, TypeOK
    <3> QED
      BY <3>1, CountedSets
  <2> QED
    BY <2>1 DEF Barrier, Released, Created, IInv, ThreadInv
<1> QED
  BY InductiveInvariant, <1>1, PTL

-----------------------------------------------------------------------------
(* Where the requests are, which the refinement rests on.                  *)

(* A posted request that has no result is in one slot of the queue or on   *)
(* one working thread; an answered one is in none.                         *)
PlaceInv ==
  /\ \A r \in Requests \ posted : result[r] = "none"
  /\ \A r \in posted : result[r] = "none" =>
       \/ \E i \in 1..Len(queue) : queue[i] = r
       \/ \E t \in Threads : Working(t) /\ job[t] = r
  /\ \A i \in 1..Len(queue) : queue[i] \in posted /\ result[queue[i]] = "none"
  /\ \A t \in Threads : Working(t) => job[t] \in posted /\ result[job[t]] = "none"
  /\ \A i, j \in 1..Len(queue) : queue[i] = queue[j] => i = j
  /\ \A t, u \in Threads : Working(t) /\ Working(u) /\ job[t] = job[u] => t = u
  /\ \A t \in Threads, i \in 1..Len(queue) : Working(t) => job[t] # queue[i]

(* The start-up steps move no request.                                     *)
LEMMA StartUpMovesNoRequest ==
  ASSUME IInv,
         MainStep \/ \E t \in Threads :
           \/ InitRelease(t) \/ InitLock(t) \/ InitOpen(t)
           \/ InitWait(t) \/ InitRelock(t) \/ InitUnlock(t)
  PROVE  /\ UNCHANGED <<queue, posted, result>>
         /\ \A t \in Threads : Working(t)' = Working(t)
         /\ \A t \in Threads : Working(t) => job'[t] = job[t]
<1>0. TypeOK /\ LoopsInv /\ MutexInv /\ QueueInv /\ \A u \in Threads : ThreadInv(u)
  BY DEF IInv
<1>1. CASE MainConnect \/ MainAcquire \/ MainLock \/ MainUnlock
  BY <1>1 DEF MainConnect, MainAcquire, MainLock, MainUnlock, poolVars, reqVars, Working
<1>2. CASE MainStart
  <2>1. Cardinality(Created) < NumThreads
    BY <1>0, <1>2 DEF LoopsInv, MainStart
  <2>2. Created # Threads
    BY <2>1, CountedSets DEF NumThreads
  <2>3. InState("absent") # {}
    BY <2>2 DEF Created, InState
  <2>4. InState("waiting") = {}
    BY <1>0, <1>2 DEF InState, ThreadInv, MainPastWake, MainStart
  <2>5. StartOnNewThread(InitJob) /\ UNCHANGED reqVars
    BY <1>2, <2>3, <2>4 DEF MainStart, StartRunnable, StartLater, StartOnWaitingThread
  <2>6. PICK t \in Threads :
          /\ pool[t] = "absent"
          /\ job' = [job EXCEPT ![t] = InitJob]
          /\ pc' = [pc EXCEPT ![t] = "release"]
          /\ UNCHANGED queue
    BY <2>5 DEF StartOnNewThread, InState, EntryPc
  <2>7. job[t] = NoJob
    BY <1>0, <2>6 DEF ThreadInv
  <2> QED
    BY <1>0, <2>5, <2>6, <2>7, PoolAssumption DEF Working, TypeOK, reqVars
<1>3. CASE MainWakeAll
  <2>1. \A t \in waiters : pc[t] = "asleep"
    BY <1>0 DEF MutexInv
  <2> QED
    BY <1>0, <1>3, <2>1 DEF MainWakeAll, Working, TypeOK, poolVars, reqVars
<1>4. ASSUME NEW t \in Threads,
             \/ InitRelease(t) \/ InitLock(t) \/ InitOpen(t)
             \/ InitWait(t) \/ InitRelock(t) \/ InitUnlock(t)
      PROVE  /\ UNCHANGED <<queue, posted, result, job>>
             /\ \A u \in Threads : Working(u)' = Working(u)
  <2>1. UNCHANGED <<queue, posted, result, job>>
    BY <1>4 DEF InitRelease, InitLock, InitOpen, InitWait, InitRelock, InitUnlock,
                poolVars, reqVars
  <2>2. job[t] = InitJob
    BY <1>0, <1>4 DEF InitRelease, InitLock, InitOpen, InitWait, InitRelock,
                      InitUnlock, ThreadInv, TypeOK, AsyncPc
  <2>3. \A u \in Threads \ {t} : pc'[u] = pc[u]
    BY <1>0, <1>4 DEF InitRelease, InitLock, InitOpen, InitWait, InitRelock,
                      InitUnlock, TypeOK
  <2> QED
    BY <2>1, <2>2, <2>3, PoolAssumption DEF Working
<1> QED
  BY <1>1, <1>2, <1>3, <1>4 DEF MainStep

(* What TakeNext does to a thread that may take a request.                 *)
LEMMA TakeNextEffect ==
  ASSUME IInv, NEW t \in Threads, WakeForWork(t) \/ FinishJob(t)
  PROVE  /\ UNCHANGED <<posted, result, mainPc>>
         /\ MainPastWake /\ ~Working(t) /\ Abstract(t) = "ready"
         /\ \/ /\ queue # <<>> /\ Head(queue) \in Requests
               /\ job' = [job EXCEPT ![t] = Head(queue)]
               /\ pc' = [pc EXCEPT ![t] = "model"]
               /\ pool' = [pool EXCEPT ![t] = "busy"]
               /\ queue' = Tail(queue)
            \/ /\ job' = [job EXCEPT ![t] = NoJob]
               /\ pc' = [pc EXCEPT ![t] = "none"]
               /\ pool' = [pool EXCEPT ![t] = "waiting"]
               /\ UNCHANGED queue
<1>0. TypeOK /\ QueueInv /\ \A u \in Threads : ThreadInv(u)
  BY DEF IInv
<1>1. TakeNext(t) /\ UNCHANGED <<posted, result, mainPc>>
  BY DEF WakeForWork, FinishJob, mainVars, reqVars
<1>2. \/ pool[t] = "woken" /\ pc[t] = "none" /\ job[t] = NoJob
      \/ pool[t] = "busy" /\ pc[t] = "finish"
  BY <1>0 DEF WakeForWork, FinishJob, ThreadInv, TypeOK
<1>3. MainPastWake /\ ~Working(t) /\ Abstract(t) = "ready"
  BY <1>0, <1>2, PoolAssumption DEF ThreadInv, Working, Abstract, Initialised
<1>4. queue # <<>> => Head(queue) \in Requests
  BY <1>0 DEF QueueInv
<1>5. queue # <<>> => EntryPc(Head(queue)) = "model"
  BY <1>4, PoolAssumption DEF EntryPc
<1> QED
  BY <1>1, <1>3, <1>4, <1>5 DEF TakeNext

(* What a post does to the queue: by then every thread exists.             *)
LEMMA PostEffect ==
  ASSUME IInv, NEW r \in Requests, Post(r)
  PROVE  /\ mainPc = "returned" /\ r \notin posted /\ posted' = posted \cup {r}
         /\ queue' = Append(queue, r)
         /\ UNCHANGED <<job, pc, result, mainPc>>
         /\ \A t \in Threads : pool'[t] # "absent" <=> pool[t] # "absent"
<1>1. Created = Threads
  BY CountedSets DEF Post, IInv, LoopsInv
<1>2. InState("absent") = {}
  BY <1>1 DEF Created, InState
<1>3. /\ queue' = Append(queue, r) /\ UNCHANGED <<job, pc>>
      /\ \/ pool' = pool
         \/ \E t \in Threads : pool[t] = "waiting" /\ pool' = [pool EXCEPT ![t] = "woken"]
  BY <1>2 DEF Post, StartRunnable, StartOnNewThread, StartOnWaitingThread,
              StartLater, InState
<1> QED
  BY <1>3 DEF Post, mainVars, IInv, TypeOK

LEMMA PlaceStep ==
  ASSUME IInv, PlaceInv, [Next]_vars PROVE PlaceInv'
<1>0. TypeOK /\ QueueInv /\ \A u \in Threads : ThreadInv(u)
  BY DEF IInv
<1>1. ASSUME UNCHANGED <<queue, posted, result>>,
             \A t \in Threads : Working(t)' = Working(t),
             \A t \in Threads : Working(t) => job'[t] = job[t]
      PROVE  PlaceInv'
  BY <1>1 DEF PlaceInv
<1>2. CASE MainStep \/ \E t \in Threads :
           \/ InitRelease(t) \/ InitLock(t) \/ InitOpen(t)
           \/ InitWait(t) \/ InitRelock(t) \/ InitUnlock(t)
  BY <1>1, <1>2, StartUpMovesNoRequest
<1>3. ASSUME NEW t \in Threads, AsyncModel(t) PROVE PlaceInv'
  <2>1. \A u \in Threads : Working(u)' = Working(u)
    BY <1>0, <1>3 DEF AsyncModel, Working, TypeOK, poolVars
  <2> QED
    BY <1>1, <1>3, <2>1 DEF AsyncModel, poolVars, reqVars
<1>4. ASSUME NEW t \in Threads, AsyncQuery(t) PROVE PlaceInv'
  <2>1. Working(t) /\ job[t] \in Requests
    BY <1>0, <1>4 DEF AsyncQuery, Working, ThreadInv, TypeOK, InitPc
  <2>2. /\ result'[job[t]] # "none"
        /\ \A r \in Requests \ {job[t]} : result'[r] = result[r]
    BY <1>0, <1>4, <2>1 DEF AsyncQuery, TypeOK
  <2>3. ~Working(t)' /\ \A u \in Threads \ {t} : Working(u)' = Working(u)
    BY <1>0, <1>4 DEF AsyncQuery, Working, TypeOK, poolVars
  <2>4. UNCHANGED <<queue, posted, job>>
    BY <1>4 DEF AsyncQuery, poolVars
  <2>5. \A i \in 1..Len(queue) : queue[i] \in Requests
    BY <1>0 DEF QueueInv
  <2>6. posted \subseteq Requests
    BY <1>0 DEF TypeOK
  <2> QED
    BY <2>1, <2>2, <2>3, <2>4, <2>5, <2>6 DEF PlaceInv, Working
<1>5. ASSUME NEW t \in Threads, WakeForWork(t) \/ FinishJob(t)
      PROVE  PlaceInv'
  <2>1. CASE /\ job' = [job EXCEPT ![t] = NoJob]
             /\ pc' = [pc EXCEPT ![t] = "none"]
             /\ UNCHANGED queue
    <3>1. \A u \in Threads : Working(u)' = Working(u)
      BY <1>0, <1>5, <2>1, TakeNextEffect, PoolAssumption DEF Working, TypeOK
    <3>2. \A u \in Threads : Working(u) => job'[u] = job[u]
      BY <1>0, <1>5, <2>1, TakeNextEffect DEF Working, TypeOK
    <3> QED
      BY <1>1, <1>5, <2>1, <3>1, <3>2, TakeNextEffect
  <2>2. CASE /\ queue # <<>> /\ Head(queue) \in Requests
             /\ job' = [job EXCEPT ![t] = Head(queue)]
             /\ pc' = [pc EXCEPT ![t] = "model"]
             /\ queue' = Tail(queue)
    <3>1. UNCHANGED <<posted, result>> /\ ~Working(t)
      BY <1>5, TakeNextEffect
    <3>2. /\ Working(t)' /\ job'[t] = queue[1]
          /\ \A u \in Threads \ {t} : Working(u)' = Working(u) /\ job'[u] = job[u]
      BY <1>0, <2>2 DEF Working, TypeOK, QueueInv
    <3>3. /\ Len(queue) \in Nat \ {0} /\ Len(queue') = Len(queue) - 1
          /\ \A i \in 1..Len(queue') : queue'[i] = queue[i + 1]
      BY <1>0, <2>2 DEF QueueInv
    <3>4. \A r \in posted : result[r] = "none" =>
            \/ \E i \in 1..Len(queue') : queue'[i] = r
            \/ \E u \in Threads : Working(u)' /\ job'[u] = r
      <4> SUFFICES ASSUME NEW r \in posted, result[r] = "none",
                          ~\E u \in Threads : Working(u)' /\ job'[u] = r
                   PROVE  \E i \in 1..Len(queue') : queue'[i] = r
        OBVIOUS
      <4>1. ~\E u \in Threads : Working(u) /\ job[u] = r
        BY <3>1, <3>2
      <4>2. PICK i \in 1..Len(queue) : queue[i] = r
        BY <4>1 DEF PlaceInv
      <4>3. i # 1
        BY <3>2, <4>2
      <4>4. i - 1 \in 1..Len(queue') /\ queue'[i - 1] = queue[i]
        BY <3>3, <4>3
      <4> QED
        BY <4>2, <4>4
    <3>5. \A i \in 1..Len(queue') :
            i + 1 \in 1..Len(queue) /\ i + 1 # 1 /\ queue'[i] = queue[i + 1]
      BY <3>3
    <3>6. 1 \in 1..Len(queue)
      BY <3>3
    <3>7. \A i, j \in 1..Len(queue') : queue'[i] = queue'[j] => i = j
      BY <3>3, <3>5 DEF PlaceInv
    <3>8. \A i \in 1..Len(queue') : queue'[i] # queue[1]
      BY <3>5, <3>6 DEF PlaceInv
    <3>9. \A u \in Threads, i \in 1..Len(queue') : Working(u)' => job'[u] # queue'[i]
      BY <3>2, <3>5, <3>8 DEF PlaceInv
    <3>10. \A u, v \in Threads :
             Working(u)' /\ Working(v)' /\ job'[u] = job'[v] => u = v
      BY <3>2, <3>6 DEF PlaceInv
    <3>11. \A u \in Threads : Working(u)' => job'[u] \in posted /\ result[job'[u]] = "none"
      BY <3>2, <3>6 DEF PlaceInv
    <3>12. \A i \in 1..Len(queue') : queue'[i] \in posted /\ result[queue'[i]] = "none"
      BY <3>5 DEF PlaceInv
    <3> QED
      BY <3>1, <3>4, <3>7, <3>9, <3>10, <3>11, <3>12 DEF PlaceInv
  <2> QED
    BY <1>5, <2>1, <2>2, TakeNextEffect
<1>6. ASSUME NEW r \in Requests, Post(r) PROVE PlaceInv'
  <2>1. /\ r \notin posted /\ posted' = posted \cup {r}
        /\ queue' = Append(queue, r)
        /\ UNCHANGED <<job, pc, result>>
    BY <1>6, PostEffect
  <2>2. /\ Len(queue) \in Nat /\ Len(queue') = Len(queue) + 1
        /\ queue'[Len(queue')] = r
        /\ \A i \in 1..Len(queue) : queue'[i] = queue[i]
    BY <1>0, <2>1 DEF QueueInv
  <2>3. \A t \in Threads : Working(t)' = Working(t)
    BY <2>1 DEF Working
  <2>4. \A i \in 1..Len(queue') : i \in 1..Len(queue) \/ i = Len(queue')
    BY <2>2
  <2>5. 1..Len(queue) \subseteq 1..Len(queue') /\ Len(queue') \in 1..Len(queue')
    BY <2>2
  <2>6. result[r] = "none"
    BY <2>1 DEF PlaceInv
  <2>7. \A q \in posted' : result[q] = "none" =>
            \/ \E i \in 1..Len(queue') : queue'[i] = q
            \/ \E u \in Threads : Working(u) /\ job[u] = q
    BY <2>1, <2>2, <2>5 DEF PlaceInv
  <2>8. \A i \in 1..Len(queue') : queue'[i] \in posted' /\ result[queue'[i]] = "none"
    BY <2>1, <2>2, <2>4, <2>6 DEF PlaceInv
  <2>9. \A i, j \in 1..Len(queue') : queue'[i] = queue'[j] => i = j
    BY <2>1, <2>2, <2>4 DEF PlaceInv
  <2>10. \A t \in Threads, i \in 1..Len(queue') : Working(t) => job[t] # queue'[i]
    BY <2>1, <2>2, <2>4 DEF PlaceInv
  <2> QED
    BY <2>1, <2>3, <2>7, <2>8, <2>9, <2>10 DEF PlaceInv
<1>7. CASE UNCHANGED vars
  BY <1>7 DEF vars, PlaceInv, Working
<1> QED
  BY <1>2, <1>3, <1>4, <1>5, <1>6, <1>7 DEF Next, ThreadStep

(* What the refinement needs of queue and threads.                         *)
LEMMA RequestsInPlace == Spec => []PlaceInv
<1>1. Init => PlaceInv
  BY PoolAssumption DEF Init, PlaceInv, Working
<1>2. IInv /\ PlaceInv /\ [Next]_vars => PlaceInv'
  BY PlaceStep
<1> QED
  BY <1>1, <1>2, InductiveInvariant, PTL DEF Spec

-----------------------------------------------------------------------------
(* Refinement: every step of the pool is a step of WorkerPool or a stutter *)
(* of its variables.                                                       *)

LEMMA AbstractStep ==
  ASSUME IInv, PlaceInv, [Next]_vars PROVE [Pool!Next]_(Pool!vars)
<1>0. TypeOK /\ MutexInv /\ QueueInv /\ \A u \in Threads : ThreadInv(u)
  BY DEF IInv
<1>1. ASSUME UNCHANGED <<queue, posted, result, MainPastWake>>,
             \A t \in Threads : Abstract(t)' = Abstract(t)
      PROVE  UNCHANGED Pool!vars
  <2>1. [t \in Threads |-> Abstract(t)]' = [t \in Threads |-> Abstract(t)]
    BY <1>1
  <2> QED
    BY <1>1, <2>1 DEF Pool!vars
<1>2. ASSUME NEW t \in Threads, UNCHANGED pool, job[t] = InitJob, UNCHANGED job,
             \A u \in Threads \ {t} : pc'[u] = pc[u],
             pc[t] # "finish", pc'[t] # "finish"
      PROVE  \A u \in Threads : Abstract(u)' = Abstract(u)
  BY <1>2, PoolAssumption DEF Abstract, Working, Initialised
<1>3. CASE MainConnect \/ MainAcquire \/ MainLock \/ MainUnlock
  <2>1. UNCHANGED <<queue, posted, result, MainPastWake>>
    BY <1>3 DEF MainConnect, MainAcquire, MainLock, MainUnlock, poolVars, reqVars,
                MainPastWake
  <2>2. \A t \in Threads : Abstract(t)' = Abstract(t)
    BY <1>3 DEF MainConnect, MainAcquire, MainLock, MainUnlock, poolVars, Abstract,
                Working, Initialised
  <2> QED
    BY <1>1, <2>1, <2>2
<1>4. CASE MainStart
  <2>1. /\ UNCHANGED <<queue, posted, result>>
        /\ \A t \in Threads : Working(t)' = Working(t)
        /\ \A t \in Threads : Working(t) => job'[t] = job[t]
    BY <1>4, StartUpMovesNoRequest DEF MainStep
  <2>2. MainPastWake' = MainPastWake
    BY <1>4, CountedSets DEF MainStart, MainPastWake
  <2>3. \A t \in Threads : Initialised(t) = FALSE /\ Working(t) = FALSE
    BY <1>0, <1>4, PoolAssumption
       DEF MainStart, Initialised, Working, ThreadInv, MainPastWake, TypeOK
  <2>4. \A t \in Threads : Initialised(t)' = FALSE
    <3>1. StartOnNewThread(InitJob) \/ UNCHANGED <<job, pc>>
      BY <1>4 DEF MainStart, StartRunnable, StartOnWaitingThread, StartLater
    <3>2. InState("waiting") = {}
      BY <1>0, <1>4 DEF InState, ThreadInv, MainPastWake, MainStart
    <3>3. CASE StartOnNewThread(InitJob)
      BY <1>0, <2>3, <3>3 DEF StartOnNewThread, InState, Initialised, EntryPc, TypeOK
    <3>4. CASE StartLater(InitJob)
      BY <2>3, <3>4 DEF StartLater, Initialised
    <3> QED
      BY <1>4, <3>2, <3>3, <3>4 DEF MainStart, StartRunnable, StartOnWaitingThread
  <2>5. \A t \in Threads : Abstract(t)' = Abstract(t)
    BY <2>1, <2>3, <2>4 DEF Abstract
  <2> QED
    BY <1>1, <2>1, <2>2, <2>5
<1>5. CASE MainWakeAll
  <2>1. ~MainPastWake /\ MainPastWake'
    BY <1>5 DEF MainWakeAll, MainPastWake
  <2>2. UNCHANGED <<queue, posted, result>>
    BY <1>5 DEF MainWakeAll, poolVars, reqVars
  <2>3. \A t \in waiters : t \in Threads /\ pc[t] = "asleep" /\ pc'[t] = "woken"
    BY <1>0, <1>5 DEF MutexInv, TypeOK, MainWakeAll
  <2>4. \A t \in Threads \ waiters : pc'[t] = pc[t]
    BY <1>5 DEF MainWakeAll
  <2>5. \A t \in Threads : (pc'[t] = "finish") = (pc[t] = "finish")
    BY <2>3, <2>4
  <2>6. \A t \in Threads : Abstract(t)' = Abstract(t)
    BY <1>5, <2>5 DEF MainWakeAll, poolVars, Abstract, Working, Initialised
  <2>7. [t \in Threads |-> Abstract(t)]' = [t \in Threads |-> Abstract(t)]
    BY <2>6
  <2>8. Pool!OpenGate
    BY <2>1, <2>2, <2>7 DEF Pool!OpenGate
  <2> QED
    BY <2>8 DEF Pool!Next
<1>6. ASSUME NEW t \in Threads,
             \/ InitRelease(t) \/ InitLock(t) \/ InitOpen(t)
             \/ InitWait(t) \/ InitRelock(t)
      PROVE  UNCHANGED Pool!vars
  <2> USE DEF InitRelease, InitLock, InitOpen, InitWait, InitRelock
  <2>1. job[t] = InitJob /\ pc[t] # "finish"
    BY <1>0, <1>6 DEF ThreadInv, TypeOK, AsyncPc
  <2>2. pc'[t] # "finish" /\ \A u \in Threads \ {t} : pc'[u] = pc[u]
    BY <1>0, <1>6 DEF TypeOK
  <2>3. UNCHANGED <<pool, job, queue, posted, result, mainPc>>
    BY <1>6 DEF poolVars, reqVars, mainVars
  <2>4. UNCHANGED MainPastWake
    BY <2>3 DEF MainPastWake
  <2> QED
    BY <1>1, <1>2, <2>1, <2>2, <2>3, <2>4
<1>7. ASSUME NEW t \in Threads, InitUnlock(t) PROVE Pool!BecomeReady(t)
  <2>1. /\ job[t] = InitJob /\ pool[t] = "busy" /\ pc[t] = "unlock" /\ MainPastWake
    BY <1>0, <1>7 DEF InitUnlock, ThreadInv, TypeOK, AsyncPc
  <2>2. /\ UNCHANGED <<pool, job, queue, posted, result, mainPc>>
        /\ pc'[t] = "finish" /\ \A u \in Threads \ {t} : pc'[u] = pc[u]
    BY <1>0, <1>7 DEF InitUnlock, poolVars, reqVars, mainVars, TypeOK
  <2>3. Abstract(t) = "warming" /\ Abstract(t)' = "ready"
    BY <2>1, <2>2, PoolAssumption DEF Abstract, Working, Initialised
  <2>4. \A u \in Threads \ {t} : Abstract(u)' = Abstract(u)
    BY <2>2 DEF Abstract, Working, Initialised
  <2>5. [u \in Threads |-> Abstract(u)]'
          = [[u \in Threads |-> Abstract(u)] EXCEPT ![t] = "ready"]
    BY <2>3, <2>4
  <2>6. MainPastWake' = MainPastWake
    BY <2>2 DEF MainPastWake
  <2> QED
    BY <2>1, <2>2, <2>3, <2>5, <2>6 DEF Pool!BecomeReady
<1>8. ASSUME NEW t \in Threads, AsyncModel(t) PROVE UNCHANGED Pool!vars
  <2>1. UNCHANGED <<pool, job, queue, posted, result, mainPc>>
    BY <1>8 DEF AsyncModel, poolVars, reqVars, mainVars
  <2>2. pc[t] # "finish" /\ pc'[t] # "finish"
        /\ \A u \in Threads \ {t} : pc'[u] = pc[u]
    BY <1>0, <1>8 DEF AsyncModel, TypeOK
  <2>3. \A u \in Threads : Abstract(u)' = Abstract(u)
    BY <2>1, <2>2 DEF Abstract, Working, Initialised
  <2>4. UNCHANGED MainPastWake
    BY <2>1 DEF MainPastWake
  <2> QED
    BY <1>1, <2>1, <2>3, <2>4
<1>9. ASSUME NEW t \in Threads, AsyncQuery(t) PROVE Pool!Answer(t)
  <2>1. Working(t) /\ job[t] \in Requests /\ pool[t] = "busy"
    BY <1>0, <1>9 DEF AsyncQuery, Working, ThreadInv, TypeOK, InitPc
  <2>2. result[job[t]] = "none"
    BY <2>1 DEF PlaceInv
  <2>3. /\ result'[job[t]] # "none"
        /\ \A r \in Requests \ {job[t]} : result'[r] = result[r]
    BY <1>0, <1>9, <2>1 DEF AsyncQuery, TypeOK
  <2>4. /\ UNCHANGED <<pool, job, queue, posted, mainPc>>
        /\ pc'[t] = "finish" /\ \A u \in Threads \ {t} : pc'[u] = pc[u]
    BY <1>0, <1>9 DEF AsyncQuery, poolVars, mainVars, TypeOK
  <2>5. Abstract(t) = job[t] /\ Abstract(t)' = "ready"
    BY <2>1, <2>4, PoolAssumption DEF Abstract, Working, Initialised
  <2>6. \A u \in Threads \ {t} : Abstract(u)' = Abstract(u)
    BY <2>4 DEF Abstract, Working, Initialised
  <2>7. [u \in Threads |-> Abstract(u)]'
          = [[u \in Threads |-> Abstract(u)] EXCEPT ![t] = "ready"]
    BY <2>5, <2>6
  <2>8. {r \in Requests : result[r] # "none"}'
          = {r \in Requests : result[r] # "none"} \cup {job[t]}
    BY <2>1, <2>3
  <2>9. MainPastWake' = MainPastWake
    BY <2>4 DEF MainPastWake
  <2> QED
    BY <2>1, <2>2, <2>4, <2>5, <2>7, <2>8, <2>9 DEF Pool!Answer
<1>10. ASSUME NEW t \in Threads, WakeForWork(t) \/ FinishJob(t)
       PROVE  Pool!Take(t) \/ UNCHANGED Pool!vars
  <2>1. /\ UNCHANGED <<posted, result, mainPc>>
        /\ MainPastWake /\ ~Working(t) /\ Abstract(t) = "ready"
    BY <1>10, TakeNextEffect
  <2>2. MainPastWake' = MainPastWake
    BY <2>1 DEF MainPastWake
  <2>3. CASE /\ queue # <<>> /\ Head(queue) \in Requests
             /\ job' = [job EXCEPT ![t] = Head(queue)]
             /\ pc' = [pc EXCEPT ![t] = "model"]
             /\ pool' = [pool EXCEPT ![t] = "busy"]
             /\ queue' = Tail(queue)
    <3>1. Abstract(t)' = Head(queue)
      BY <1>0, <2>3 DEF Abstract, Working, TypeOK
    <3>2. \A u \in Threads \ {t} : Abstract(u)' = Abstract(u)
      BY <1>0, <2>3 DEF Abstract, Working, Initialised, TypeOK
    <3>3. [u \in Threads |-> Abstract(u)]'
            = [[u \in Threads |-> Abstract(u)] EXCEPT ![t] = Head(queue)]
      BY <3>1, <3>2
    <3> QED
      BY <2>1, <2>2, <2>3, <3>3 DEF Pool!Take
  <2>4. CASE /\ job' = [job EXCEPT ![t] = NoJob]
             /\ pc' = [pc EXCEPT ![t] = "none"]
             /\ pool' = [pool EXCEPT ![t] = "waiting"]
             /\ UNCHANGED queue
    <3>1. Abstract(t)' = "ready"
      BY <1>0, <2>4, PoolAssumption DEF Abstract, Working, Initialised, TypeOK
    <3>2. \A u \in Threads \ {t} : Abstract(u)' = Abstract(u)
      BY <1>0, <2>4 DEF Abstract, Working, Initialised, TypeOK
    <3> QED
      BY <1>1, <2>1, <2>2, <2>4, <3>1, <3>2
  <2> QED
    BY <1>10, <2>3, <2>4, TakeNextEffect
<1>11. ASSUME NEW r \in Requests, Post(r) PROVE Pool!Submit(r)
  <2>1. /\ mainPc = "returned" /\ r \notin posted /\ posted' = posted \cup {r}
        /\ queue' = Append(queue, r)
        /\ UNCHANGED <<job, pc, result, mainPc>>
        /\ \A t \in Threads : pool'[t] # "absent" <=> pool[t] # "absent"
    BY <1>11, PostEffect
  <2>2. \A t \in Threads : Abstract(t)' = Abstract(t)
    BY <2>1 DEF Abstract, Working, Initialised
  <2>3. [t \in Threads |-> Abstract(t)]' = [t \in Threads |-> Abstract(t)]
    BY <2>2
  <2>4. MainPastWake /\ MainPastWake' = MainPastWake
    BY <2>1 DEF MainPastWake
  <2> QED
    BY <2>1, <2>3, <2>4 DEF Pool!Submit
<1>12. CASE UNCHANGED vars
  <2>1. UNCHANGED <<queue, posted, result, MainPastWake>>
    BY <1>12 DEF vars, MainPastWake
  <2>2. \A t \in Threads : Abstract(t)' = Abstract(t)
    BY <1>12 DEF vars, Abstract, Working, Initialised
  <2> QED
    BY <1>1, <2>1, <2>2
<1> QED
  BY <1>3, <1>4, <1>5, <1>6, <1>7, <1>8, <1>9, <1>10, <1>11, <1>12
     DEF Next, MainStep, ThreadStep, Pool!Next

(* The pool implements WorkerPool: requests are served in the order of     *)
(* their posts, only past the gate, and each is answered once.             *)
THEOREM PoolImplementsWorkerPool == Spec => ImplementsWorkerPool
<1>1. Init => Pool!Init
  BY PoolAssumption
     DEF Init, Pool!Init, MainPastWake, Abstract, Working, Initialised
<1>2. IInv /\ PlaceInv /\ [Next]_vars => [Pool!Next]_(Pool!vars)
  BY AbstractStep
<1> QED
  BY <1>1, <1>2, InductiveInvariant, RequestsInPlace, PTL
     DEF Spec, ImplementsWorkerPool, Pool!Spec
=============================================================================
