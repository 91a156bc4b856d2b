SPECIFICATION Spec
CONSTANTS
  a1 = a1
  web = web
  None = None
  Peers = {a1, web}
  WebPeers = {web}
  Movers = {a1}
  Sharers = {web}
  MaxEvents = 3
  MaxCrashes = 1
  GroupKinds = {"ephemeral"}
CHECK_DEADLOCK FALSE
INVARIANT PushedWasAddressed
INVARIANT ThreadsAreFlat
INVARIANT AckedIsNotAwaited
PROPERTY MailSpec
PROPERTY HandledStaysHandled
