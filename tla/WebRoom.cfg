SPECIFICATION FairSpec
CONSTANTS
  Limit = 2
  Window = 1
  MaxEvents = 3
  MaxFailures = 1
INVARIANT TypeOK
INVARIANT PassedIsShown
PROPERTY EventuallyShown
