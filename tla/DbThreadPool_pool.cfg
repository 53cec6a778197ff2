SPECIFICATION FairSpec
CONSTANTS
  Main = Main
  NoOne = NoOne
  InitJob = InitJob
  NoJob = NoJob
  Threads = {t1, t2, t3}
  Requests = {r1, r2}
INVARIANTS
  TypeOK
  AddDatabaseExclusive
  RequestsRunOnInitialisedThreads
PROPERTIES
  ImplementsWorkerPool
  ConstructorReturns
  ServedByAnySurvivor
CHECK_DEADLOCK FALSE
