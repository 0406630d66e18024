SPECIFICATION FairSpec
CONSTANTS
  Calls = {c1, c2}
  None = None
  MaxId = 2
  Methods = {m}
  Payloads = {p}
  Errors = {}
  Oversized = {}
  ChannelCap = 1
  SocketCap = 1
  PeerFrames <- SparsePeer
PROPERTIES NoHalfOpenTask
CHECK_DEADLOCK FALSE
