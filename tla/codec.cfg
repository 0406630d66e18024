SPECIFICATION FairSpec
CONSTANTS
  Base = 4
  HeaderLen = 2
  Caps = {4, 5}
  Encoding <- SmallEnvelopes
  Raw <- SmallStreams
  MaxSent = 3
  ReadCap = 8
INVARIANTS FramesExact InOrder BufferBounded NoFalseRejection CleanEndIsComplete CodecInv
PROPERTIES Delivered
CHECK_DEADLOCK FALSE
