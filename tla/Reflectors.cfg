SPECIFICATION Spec
CONSTANTS
  Protocols = {"DEXTRA", "DPLUS", "DCS"}
  Modules = {a, b, c}
  Unserved = {c}
  NoCall = nocall
  Ports = {1, 2}
  NearSlots = 2
  FarSlots = 2
  PollTimeout = 3
  NetBound = 2
  Troubles <- TroubleBudget
  a = a
  b = b
  c = c
  nocall = nocall
INVARIANTS TypeOK PoolMatches IncomingUnique DExtraAgrees
PROPERTIES FarForgets DcsReclaimed
CHECK_DEADLOCK FALSE
