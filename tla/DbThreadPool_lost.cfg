SPECIFICATION FairSpec
CONSTANTS
  Main = Main
  NoOne = NoOne
  InitJob = InitJob
  NoJob = NoJob
  Threads = {t1, t2}
  Requests = {r1}
PROPERTIES
  EveryInitJobReturns
CHECK_DEADLOCK FALSE
