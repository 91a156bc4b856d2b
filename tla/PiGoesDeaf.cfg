SPECIFICATION FairSpec
CONSTANTS
  agent = agent
  Peers = {agent}
  MaxEvents = 1
  MaxSessions = 1
  MaxTroubles = 1
PROPERTY PiStaysReachable
