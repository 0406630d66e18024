SPECIFICATION LiveSpec
CONSTANTS
  MaxId = 1
  Methods = {known}
  Registered = {known}
  Payloads = {p, big}
  Errors = {e404}
  NotFound = e404
  Oversized = {big}
  MaxRequests = 1
  QueueCap = 1
  SocketCap = 1
  PeerFrames <- AskingPeer
PROPERTIES SendFailureCloses
CHECK_DEADLOCK FALSE
