SPECIFICATION Spec
CONSTANTS
  Protocols = {"DPLUS"}
  Modules = {a, b, c}
  Unserved = {c}
  NoCall = nocall
  Ports = {1, 2}
  NearSlots = 2
  FarSlots = 2
  PollTimeout = 3
  NetBound = 2
  Troubles <- TroubleBudget
  a = a
  b = b
  c = c
  nocall = nocall
PROPERTIES DPlusReclaimed
CHECK_DEADLOCK FALSE
