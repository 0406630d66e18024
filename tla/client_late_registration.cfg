SPECIFICATION LiveSpec
CONSTANTS
  Calls = {c1}
  None = None
  MaxId = 2
  Methods = {m}
  Payloads = {p}
  Errors = {}
  Oversized = {}
  ChannelCap = 1
  SocketCap = 1
  PeerFrames <- SparsePeer
PROPERTIES EveryParkedCallerWakes
CHECK_DEADLOCK FALSE
