---------------------------- MODULE DbThreadPool ----------------------------
(***************************************************************************)
(* db/DbThreadPool.cpp: the pool on which every asynchronous database      *)
(* request runs (QtConcurrent::run in db/BaseModelT.h).  Its constructor   *)
(* starts one "init" job per thread, and a semaphore, a mutex and a wait   *)
(* condition keep each init job on its thread until all threads exist, so  *)
(* that every thread opens its own connection, one at a time, before it    *)
(* serves a request.                                                       *)
(*                                                                         *)
(* A pool thread is identified with its per-thread connection name         *)
(* (DbConnection.cpp:16).  QThreadPool, QSemaphore, QMutex and             *)
(* QWaitCondition are Qt: they are modelled by what the calls here rely on *)
(* (a QWaitCondition has no spurious wake-up, a QMutex is not fair).       *)
(***************************************************************************)
EXTENDS Naturals, Sequences, FiniteSets

CONSTANTS
  Threads,    \* the mNumThreads worker threads of the pool
  Main,       \* the thread that runs the constructor (the UI thread)
  NoOne,      \* the owner of a free mutex
  Requests,   \* requests posted by the models: listAsync, findAsync, ...
  InitJob,    \* the runnable of the constructor's loop
  NoJob       \* the job of a thread that runs none

ASSUME PoolAssumption ==
  /\ IsFiniteSet(Threads) /\ Threads # {}
  /\ Main \notin Threads /\ NoOne \notin Threads /\ Main # NoOne
  /\ InitJob \notin Requests /\ NoJob \notin Requests /\ InitJob # NoJob
  /\ {"warming", "ready"} \cap Requests = {}

NumThreads == Cardinality(Threads)

VARIABLES
  mainPc,     \* where the constructor is
  kicked,     \* iterations done of the loop that starts the init jobs
  acquired,   \* iterations done of the loop that acquires the semaphore
  permits,    \* value of p_semaphore
  mutex,      \* owner of p_mutex
  waiters,    \* threads inside p_wait_condition->wait
  pool,       \* pool[t]: the state QThreadPool keeps of t
  queue,      \* runnables that wait for a thread
  job,        \* job[t]: the runnable t executes
  pc,         \* pc[t]: where t is in that runnable
  conn,       \* conn[t]: QSqlDatabase registered under t's name
  posted,     \* requests handed to QtConcurrent::run
  result      \* result[r]: what the job of r has emitted

mainVars == <<mainPc, kicked, acquired>>
syncVars == <<permits, mutex, waiters>>
poolVars == <<pool, queue, job>>
reqVars  == <<posted, result>>
vars == <<mainPc, kicked, acquired, permits, mutex, waiters, pool, queue, job,
          pc, conn, posted, result>>

MainPc == {"main_con", "start", "acquire", "lock", "wake", "unlock", "returned"}
InitPc == {"release", "lock", "open", "wait", "asleep", "woken", "unlock"}
AsyncPc == {"model", "query"}

TypeOK ==
  /\ mainPc \in MainPc
  /\ kicked \in 0..NumThreads
  /\ acquired \in 0..NumThreads
  /\ permits \in 0..NumThreads
  /\ mutex \in Threads \cup {Main, NoOne}
  /\ waiters \subseteq Threads
  /\ pool \in [Threads -> {"absent", "waiting", "woken", "busy"}]
  /\ queue \in Seq(Requests \cup {InitJob})
  /\ job \in [Threads -> Requests \cup {InitJob, NoJob}]
  /\ pc \in [Threads -> InitPc \cup AsyncPc \cup {"none", "finish"}]
  /\ conn \in [Threads \cup {Main} -> {"absent", "closed", "open"}]
  /\ posted \subseteq Requests
  /\ result \in [Requests -> {"none", "rows", "empty"}]

Init ==
  /\ mainPc = "main_con"
  /\ kicked = 0
  /\ acquired = 0
  /\ permits = 0
  /\ mutex = NoOne
  /\ waiters = {}
  /\ pool = [t \in Threads |-> "absent"]
  /\ queue = <<>>
  /\ job = [t \in Threads |-> NoJob]
  /\ pc = [t \in Threads |-> "none"]
  /\ conn = [t \in Threads \cup {Main} |-> "absent"]
  /\ posted = {}
  /\ result = [r \in Requests |-> "none"]

-----------------------------------------------------------------------------
(* QThreadPool as these calls use it.                                      *)

EntryPc(r) == IF r = InitJob THEN "release" ELSE "model"

InState(s) == {t \in Threads : pool[t] = s}

(* start(r) with no idle thread and fewer threads than the maximum: a new  *)
(* thread is created with r.                                               *)
StartOnNewThread(r) ==
  /\ InState("waiting") = {}
  /\ \E t \in InState("absent") :
       /\ pool' = [pool EXCEPT ![t] = "busy"]
       /\ job' = [job EXCEPT ![t] = r]
       /\ pc' = [pc EXCEPT ![t] = EntryPc(r)]
  /\ UNCHANGED queue

(* start(r) with an idle thread: r is queued and one idle thread is woken. *)
StartOnWaitingThread(r) ==
  /\ \E t \in InState("waiting") : pool' = [pool EXCEPT ![t] = "woken"]
  /\ queue' = Append(queue, r)
  /\ UNCHANGED <<job, pc>>

(* start(r) with every thread active: r is queued.                         *)
StartLater(r) ==
  /\ InState("waiting") = {}
  /\ InState("absent") = {}
  /\ queue' = Append(queue, r)
  /\ UNCHANGED <<pool, job, pc>>

StartRunnable(r) ==
  \/ StartOnNewThread(r)
  \/ StartOnWaitingThread(r)
  \/ StartLater(r)

(* The thread's loop takes the oldest queued runnable.  With an empty      *)
(* queue it waits, for ever: setExpiryTimeout(-1).                         *)
TakeNext(t) ==
  \/ /\ queue # <<>>
     /\ job' = [job EXCEPT ![t] = Head(queue)]
     /\ pc' = [pc EXCEPT ![t] = EntryPc(Head(queue))]
     /\ queue' = Tail(queue)
     /\ pool' = [pool EXCEPT ![t] = "busy"]
  \/ /\ queue = <<>>
     /\ job' = [job EXCEPT ![t] = NoJob]
     /\ pc' = [pc EXCEPT ![t] = "none"]
     /\ pool' = [pool EXCEPT ![t] = "waiting"]
     /\ UNCHANGED queue

WakeForWork(t) ==
  /\ pool[t] = "woken"
  /\ TakeNext(t)
  /\ UNCHANGED <<mainVars, syncVars, conn, reqVars>>

FinishJob(t) ==
  /\ pc[t] = "finish"
  /\ TakeNext(t)
  /\ UNCHANGED <<mainVars, syncVars, conn, reqVars>>

-----------------------------------------------------------------------------
(* DbConnection's constructor on thread t: the connection name is          *)
(* registered if it is new, and opened if it is not open.  The server may  *)
(* be unreachable.                                                         *)
Connect(t) ==
  \E s \in (IF conn[t] = "open" THEN {"open"} ELSE {"closed", "open"}) :
    conn' = [conn EXCEPT ![t] = s]

-----------------------------------------------------------------------------
(* The constructor.                                                        *)

MainConnect ==
  /\ mainPc = "main_con"
  /\ Connect(Main)
  /\ mainPc' = "start"
  /\ UNCHANGED <<kicked, acquired, syncVars, poolVars, pc, reqVars>>

MainStart ==
  /\ mainPc = "start"
  /\ kicked < NumThreads
  /\ StartRunnable(InitJob)
  /\ kicked' = kicked + 1
  /\ mainPc' = IF kicked' = NumThreads THEN "acquire" ELSE "start"
  /\ UNCHANGED <<acquired, syncVars, conn, reqVars>>

MainAcquire ==
  /\ mainPc = "acquire"
  /\ permits > 0
  /\ permits' = permits - 1
  /\ acquired' = acquired + 1
  /\ mainPc' = IF acquired' = NumThreads THEN "lock" ELSE "acquire"
  /\ UNCHANGED <<kicked, mutex, waiters, poolVars, pc, conn, reqVars>>

MainLock ==
  /\ mainPc = "lock"
  /\ mutex = NoOne
  /\ mutex' = Main
  /\ mainPc' = "wake"
  /\ UNCHANGED <<kicked, acquired, permits, waiters, poolVars, pc, conn, reqVars>>

MainWakeAll ==
  /\ mainPc = "wake"
  /\ waiters' = {}
  /\ pc' = [t \in Threads |-> IF t \in waiters THEN "woken" ELSE pc[t]]
  /\ mainPc' = "unlock"
  /\ UNCHANGED <<kicked, acquired, permits, mutex, poolVars, conn, reqVars>>

MainUnlock ==
  /\ mainPc = "unlock"
  /\ mutex' = NoOne
  /\ mainPc' = "returned"
  /\ UNCHANGED <<kicked, acquired, permits, waiters, poolVars, pc, conn, reqVars>>

-----------------------------------------------------------------------------
(* The init job, on the thread that got it.                                *)

(* Fault: two permits per thread.                                          *)
FaultReleaseTwice(t) ==
  /\ pc[t] = "release"
  /\ permits' = permits + 2
  /\ pc' = [pc EXCEPT ![t] = "lock"]
  /\ UNCHANGED <<mainVars, mutex, waiters, poolVars, conn, reqVars>>

InitRelease(t) ==
  /\ pc[t] = "release"
  /\ permits' = permits + 1
  /\ pc' = [pc EXCEPT ![t] = "lock"]
  /\ UNCHANGED <<mainVars, mutex, waiters, poolVars, conn, reqVars>>

(* Fault: the init job does not take the mutex.                            *)
FaultNoMutex(t) ==
  /\ pc[t] = "lock"
  /\ mutex' = t
  /\ pc' = [pc EXCEPT ![t] = "open"]
  /\ UNCHANGED <<mainVars, permits, waiters, poolVars, conn, reqVars>>

InitLock(t) ==
  /\ pc[t] = "lock"
  /\ mutex = NoOne
  /\ mutex' = t
  /\ pc' = [pc EXCEPT ![t] = "open"]
  /\ UNCHANGED <<mainVars, permits, waiters, poolVars, conn, reqVars>>

InitOpen(t) ==
  /\ pc[t] = "open"
  /\ Connect(t)
  /\ pc' = [pc EXCEPT ![t] = "wait"]
  /\ UNCHANGED <<mainVars, syncVars, poolVars, reqVars>>

(* Fault: the init job does not wait for the other threads.                *)
FaultNoWait(t) ==
  /\ pc[t] = "wait"
  /\ pc' = [pc EXCEPT ![t] = "unlock"]
  /\ UNCHANGED <<mainVars, syncVars, poolVars, conn, reqVars>>

(* Fault: the thread sleeps with the mutex locked.                         *)
FaultSleepLocked(t) ==
  /\ pc[t] = "wait"
  /\ waiters' = waiters \cup {t}
  /\ pc' = [pc EXCEPT ![t] = "asleep"]
  /\ UNCHANGED <<mainVars, permits, mutex, poolVars, conn, reqVars>>

(* wait() releases the mutex and goes to sleep in one atomic step.         *)
InitWait(t) ==
  /\ pc[t] = "wait"
  /\ waiters' = waiters \cup {t}
  /\ mutex' = NoOne
  /\ pc' = [pc EXCEPT ![t] = "asleep"]
  /\ UNCHANGED <<mainVars, permits, poolVars, conn, reqVars>>

InitRelock(t) ==
  /\ pc[t] = "woken"
  /\ mutex = NoOne
  /\ mutex' = t
  /\ pc' = [pc EXCEPT ![t] = "unlock"]
  /\ UNCHANGED <<mainVars, permits, waiters, poolVars, conn, reqVars>>

InitUnlock(t) ==
  /\ pc[t] = "unlock"
  /\ mutex' = NoOne
  /\ pc' = [pc EXCEPT ![t] = "finish"]
  /\ UNCHANGED <<mainVars, permits, waiters, poolVars, conn, reqVars>>

-----------------------------------------------------------------------------
(* A request: QtConcurrent::run(DbThreadPool::instance(), ...) from the UI *)
(* thread, after the constructor has returned.                             *)

Post(r) ==
  /\ mainPc = "returned"
  /\ r \notin posted
  /\ posted' = posted \cup {r}
  /\ StartRunnable(r)
  /\ UNCHANGED <<mainVars, syncVars, conn, result>>

(* `M model;` builds a DbConnection of this thread.                        *)
AsyncModel(t) ==
  /\ pc[t] = "model"
  /\ Connect(t)
  /\ pc' = [pc EXCEPT ![t] = "query"]
  /\ UNCHANGED <<mainVars, syncVars, poolVars, reqVars>>

(* Fault: without a connection nothing is emitted.                         *)
FaultNoEmit(t) ==
  /\ pc[t] = "query"
  /\ IF conn[t] = "open"
     THEN \E rows \in {"rows", "empty"} : result' = [result EXCEPT ![job[t]] = rows]
     ELSE UNCHANGED result
  /\ pc' = [pc EXCEPT ![t] = "finish"]
  /\ UNCHANGED <<mainVars, syncVars, poolVars, conn, posted>>

(* The query runs and emitSignal queues its result to the UI thread; a     *)
(* query that fails is logged and its result is empty.                     *)
AsyncQuery(t) ==
  /\ pc[t] = "query"
  /\ \E rows \in (IF conn[t] = "open" THEN {"rows", "empty"} ELSE {"empty"}) :
       result' = [result EXCEPT ![job[t]] = rows]
  /\ pc' = [pc EXCEPT ![t] = "finish"]
  /\ UNCHANGED <<mainVars, syncVars, poolVars, conn, posted>>

-----------------------------------------------------------------------------
MainStep ==
  \/ MainConnect \/ MainStart \/ MainAcquire
  \/ MainLock \/ MainWakeAll \/ MainUnlock

ThreadStep(t) ==
  \/ InitRelease(t) \/ InitLock(t) \/ InitOpen(t)
  \/ InitWait(t) \/ InitRelock(t) \/ InitUnlock(t)
  \/ AsyncModel(t) \/ AsyncQuery(t)
  \/ WakeForWork(t) \/ FinishJob(t)

Next ==
  \/ MainStep
  \/ \E t \in Threads : ThreadStep(t)
  \/ \E r \in Requests : Post(r)

Spec == Init /\ [][Next]_vars

(* The operating system keeps running every thread that can run; nobody    *)
(* has to post a request.  Each lock is taken a bounded number of times,   *)
(* so weak fairness is enough for the unfair QMutex.                       *)
Fairness == WF_vars(MainStep) /\ \A t \in Threads : WF_vars(ThreadStep(t))

FairSpec == Spec /\ Fairness

-----------------------------------------------------------------------------
(* Safety.                                                                 *)

MainPastWake == mainPc \in {"unlock", "returned"}

Registering(t) ==
  \/ t \in Threads /\ pc[t] \in {"open", "model"} /\ conn[t] = "absent"
  \/ t = Main /\ mainPc = "main_con"

(* Two threads never register a QSqlDatabase at the same time: neither     *)
(* while the pool starts ("this should setup the database without a race   *)
(* condition", DbThreadPool.cpp:25) nor later, on a thread a request would *)
(* find without a connection.                                              *)
AddDatabaseExclusive ==
  \A t, u \in Threads \cup {Main} : Registering(t) /\ Registering(u) => t = u

(* A request only runs on a thread that has been through its init job.     *)
(* The three synchronisation objects of the constructor exist for this: an *)
(* init job that ended early would be given a second one, and a request    *)
(* would later create the missing thread, with no connection.              *)
RequestsRunOnInitialisedThreads ==
  \A t \in Threads : job[t] \in Requests => conn[t] # "absent" /\ MainPastWake

(* When the constructor goes for the mutex, every thread exists and has    *)
(* released the semaphore; until it calls wakeAll no init job gets past    *)
(* its wait.                                                               *)
Barrier ==
  /\ mainPc \in {"lock", "wake", "unlock", "returned"} =>
       \A t \in Threads : pool[t] # "absent" /\ pc[t] # "release"
  /\ (\E t \in Threads : pc[t] \in {"woken", "unlock", "finish"}) => MainPastWake

-----------------------------------------------------------------------------
(* The inductive invariant behind them (DbThreadPoolProofs).               *)

Created  == {t \in Threads : pool[t] # "absent"}
Released == {t \in Created : pc[t] # "release"}

(* What the constructor's two loops have done.                             *)
LoopsInv ==
  /\ Cardinality(Created) = kicked
  /\ permits + acquired = Cardinality(Released)
  /\ mainPc = "main_con" => kicked = 0
  /\ mainPc = "start" => kicked < NumThreads
  /\ mainPc \notin {"main_con", "start"} => kicked = NumThreads
  /\ mainPc \in {"main_con", "start"} => acquired = 0
  /\ mainPc = "acquire" => acquired < NumThreads
  /\ mainPc \in {"lock", "wake", "unlock", "returned"} => acquired = NumThreads

(* Who owns the mutex, and who sleeps.                                     *)
MutexInv ==
  /\ mutex = Main <=> mainPc \in {"wake", "unlock"}
  /\ \A t \in Threads : mutex = t <=> pc[t] \in {"open", "wait", "unlock"}
  /\ \A t \in waiters : pc[t] = "asleep"

(* What a thread does in each state of the pool.                           *)
ThreadInv(t) ==
  /\ pool[t] = "absent" => job[t] = NoJob /\ pc[t] = "none"
  /\ pool[t] \in {"waiting", "woken"} =>
       job[t] = NoJob /\ pc[t] = "none" /\ MainPastWake /\ conn[t] # "absent"
  /\ pool[t] = "busy" =>
       \/ job[t] = InitJob /\ pc[t] \in InitPc \cup {"finish"}
       \/ /\ job[t] \in Requests /\ pc[t] \in AsyncPc \cup {"finish"}
          /\ MainPastWake /\ conn[t] # "absent"
  /\ pc[t] \in {"wait", "asleep", "woken", "unlock", "finish"} => conn[t] # "absent"
  /\ pc[t] \in {"woken", "unlock", "finish"} => MainPastWake

(* A runnable only ever waits in the queue after the constructor.          *)
QueueInv ==
  /\ queue \in Seq(Requests)
  /\ queue # <<>> => mainPc = "returned"

IInv ==
  /\ TypeOK
  /\ LoopsInv
  /\ MutexInv
  /\ \A t \in Threads : ThreadInv(t)
  /\ QueueInv

-----------------------------------------------------------------------------
(* Refinement: the pool is a WorkerPool whose gate is the wakeAll call.    *)

Working(t) == job[t] \in Requests /\ pc[t] # "finish"

Initialised(t) == pool[t] # "absent" /\ ~(job[t] = InitJob /\ pc[t] # "finish")

Abstract(t) ==
  IF Working(t) THEN job[t]
  ELSE IF Initialised(t) THEN "ready" ELSE "warming"

Pool == INSTANCE WorkerPool WITH
  Workers   <- Threads,
  gate      <- MainPastWake,
  serving   <- [t \in Threads |-> Abstract(t)],
  pending   <- queue,
  submitted <- posted,
  answered  <- {r \in Requests : result[r] # "none"}

(* Whatever the interleaving of the constructor, the init jobs and the     *)
(* posts, requests are taken in the order they were posted, by threads     *)
(* past the gate, and each is answered once.                               *)
ImplementsWorkerPool == Pool!Spec

-----------------------------------------------------------------------------
(* Liveness, under FairSpec.                                               *)

(* The constructor returns: it never waits for a thread that waits for it. *)
ConstructorReturns == <>(mainPc = "returned")

Serving(t) ==
  \/ pool[t] \in {"waiting", "woken"}
  \/ job[t] \in Requests
  \/ pc[t] \in {"woken", "unlock", "finish"}

(* One thread that got through its init job is enough for every request to *)
(* be answered.                                                            *)
ServedByAnySurvivor ==
  \A r \in Requests :
    (r \in posted /\ \E t \in Threads : Serving(t)) ~> result[r] # "none"

(* "the threads we start and run below are the ones for the rest of the    *)
(* thread pool" (DbThreadPool.cpp:20): every init job ends and leaves its  *)
(* thread to the pool.  The code loses a thread that reaches its wait      *)
(* after wakeAll.                                                          *)
EveryInitJobReturns ==
  \A t \in Threads : job[t] = InitJob ~> job[t] # InitJob
=============================================================================
