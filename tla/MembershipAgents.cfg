SPECIFICATION Spec
CONSTANTS
  p1 = p1
  p2 = p2
  web = web
  tab = tab
  g1 = g1
  g2 = g2
  you = you
  b = b
  None = None
  Peers = {p1, p2}
  Groups = {g1, g2}
  Ephemeral = {g2}
  Aliases = {you, b}
  WebPeers = {}
  LocalWeb = web
  You = you
  MaxTime = 1
  MaxReaps = 1
INVARIANTS
  AliasHeldOnce
  ReservedSeatIsResumable
PROPERTIES
  LifeSpec
  RevivalRestoresSeats
  EarlierLeaveStaysLeft
  ReservationEndsWithOwner
SYMMETRY AgentSymmetry
