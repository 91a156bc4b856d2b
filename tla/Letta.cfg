SPECIFICATION FairSpec
CONSTANTS
  PageLimit = 3
  MaxEvents = 3
  MaxFailures = 2
  MaxCrashes = 1
INVARIANT TypeOK
INVARIANT AckedWasPrompted
INVARIANT AnsweredOnce
INVARIANT InterruptedForNewer
PROPERTY EveryMessagePrompts
