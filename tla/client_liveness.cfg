SPECIFICATION LiveSpec
CONSTANTS
  Calls = {c1, c2}
  None = None
  MaxId = 2
  Methods = {m}
  Payloads = {p, big}
  Errors = {}
  Oversized = {big}
  ChannelCap = 1
  SocketCap = 1
  PeerFrames <- SparsePeer
PROPERTIES TeardownCompletes RegisteredCallsWake
CHECK_DEADLOCK FALSE
