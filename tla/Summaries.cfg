SPECIFICATION FairSpec
CONSTANTS
  t1 = t1
  t2 = t2
  NoThread = NoThread
  Threads = {t1, t2}
  BatchSize = 2
  BigAt = 3
  MaxEvents = 3
  MaxRequests = 1
  MaxTroubles = 2
INVARIANT TypeOK
PROPERTY SummariesSettle
