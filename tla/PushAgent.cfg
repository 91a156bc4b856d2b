SPECIFICATION FairSpec
CONSTANTS
  agent = agent
  Peers = {agent}
  MaxEvents = 2
  MaxSessions = 3
  MaxTroubles = 3
INVARIANT DeliveredWasHeard
INVARIANT CursorWasDelivered
PROPERTY LifeSpec
PROPERTY ClaudeStaysReachable
