SPECIFICATION Spec
CONSTANTS
  Calls = {c1, c2}
  None = None
  MaxId = 2
  Methods = {m}
  Payloads = {p, big}
  Errors = {e}
  Oversized = {big}
  ChannelCap = 1
  SocketCap = 1
  PeerFrames <- AnyPeer
INVARIANTS PendingOwned SenderHeld RepliesRouted ClosedIsFinal ClientInv
PROPERTIES ResolvedOnce KeepsPromise
SYMMETRY Symmetry
CHECK_DEADLOCK FALSE
