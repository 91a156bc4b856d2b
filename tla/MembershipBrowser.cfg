SPECIFICATION CrashSpec
CONSTANTS
  p1 = p1
  p2 = p2
  web = web
  tab = tab
  g1 = g1
  g2 = g2
  you = you
  b = b
  None = None
  Peers = {p1, web, tab}
  Groups = {g1}
  Ephemeral = {}
  Aliases = {you, b}
  WebPeers = {web, tab}
  LocalWeb = web
  You = you
  MaxTime = 0
  MaxReaps = 1
PROPERTY
  LedgerSpec
