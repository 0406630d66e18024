SPECIFICATION Spec
CONSTANTS
  MaxId = 2
  Methods = {known, unknown}
  Registered = {known}
  Payloads = {p, big}
  Errors = {e404}
  NotFound = e404
  Oversized = {big}
  MaxRequests = 3
  QueueCap = 1
  SocketCap = 1
  PeerFrames <- AnyPeer
INVARIANTS QueueExact GracefulDrain LostOnlyOnFailure RepliesAreAnswers ServerInv
PROPERTIES SettledOnce
CHECK_DEADLOCK FALSE
