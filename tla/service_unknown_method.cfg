SPECIFICATION Spec
CONSTANTS
  Calls = {c1}
  Names <- MCNames
  Values <- MCValues
  Wire <- MCWire
  Sources <- OwnSource
  Deployed <- OwnSource
  AppCodes = {409}
  RawReplies <- MCReplies
  MaxRegistrations = 1
INVARIANT UnknownIs404
CHECK_DEADLOCK FALSE
