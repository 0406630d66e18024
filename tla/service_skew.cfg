SPECIFICATION Spec
CONSTANTS
  Calls = {c1}
  Names <- MCNames
  Values <- MCValues
  Wire <- MCWire
  Sources <- OwnSource
  Deployed <- SkewedTraits
  AppCodes = {409}
  RawReplies <- MCReplies
  MaxRegistrations = 1
INVARIANT TypeAndAritySafe
CHECK_DEADLOCK FALSE
