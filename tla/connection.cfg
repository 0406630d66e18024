SPECIFICATION LoadLive
CONSTANTS
  Calls = {c1, c2}
  None = None
  MaxId = 2
  Methods = {m}
  Payloads = {p}
  Errors = {e404, big}
  Oversized = {big}
  ChannelCap = 1
  SocketCap = 1
  PeerFrames <- LinkFrames
  Registered = {m}
  NotFound = e404
  QueueCap = 1
  Link = link
  Others = {o}
  MaxLoad = 2
INVARIANTS RunsAtMostOnce AnsweredByOwnRun LinkInv
PROPERTIES ServerIsAPeer ClientIsAPeer CallsEnd
CHECK_DEADLOCK FALSE
