SPECIFICATION Spec
CONSTANTS
  Calls = {c1}
  Names <- MCNames
  Values <- MCValues
  Wire <- MCWire
  Sources <- AllSources
  Deployed <- AllTraits
  AppCodes = {400, 409}
  RawReplies <- MCReplies
  MaxRegistrations = 3
INVARIANTS MacroIsTruthful RunsAsCalled ServedByNewest OwnServiceServes ResultIsTheReturn NotFoundIsAMiss ServiceInv
CHECK_DEADLOCK FALSE
