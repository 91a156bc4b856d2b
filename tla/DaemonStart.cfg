SPECIFICATION FairSpec
CONSTANTS
  cli = cli
  mcp = mcp
  Nobody = Nobody
  Clients = {cli, mcp}
  MaxDaemons = 3
  MaxTroubles = 2
CHECK_DEADLOCK FALSE
INVARIANT OneStarter
INVARIANT ReturnedHasServed
PROPERTY EveryCallReturns
