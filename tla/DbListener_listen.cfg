SPECIFICATION FairSpec
CONSTANTS
  m1 = m1  m2 = m2  m3 = m3
  t1 = t1  t2 = t2
  NoModel = NoModel
  Models = {m1, m2, m3}
  Tables = {t1, t2}
  TableOf <- MCTableOf
  MaxCommits = 2
  MaxDrops = 2
INVARIANTS
  TypeOK
  NoGapWhileListening
PROPERTIES
  ImplementsNotificationStream
  SubscriptionsEstablished
  ShutdownCompletes
CHECK_DEADLOCK FALSE
