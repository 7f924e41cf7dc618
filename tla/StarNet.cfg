SPECIFICATION Spec
CONSTANTS
  Users = {"alice", "bob"}
  Permanent = {"bob"}
  Repeaters = {"r1", "r2"}
  Nowhere = "nowhere"
  StreamIds = {1, 2}
  Local = {1}
  MessageDelay = 2
  UserTimeout = 5
  GroupTimeout = 6
INVARIANTS RelayKnown
PROPERTIES ClockKeepsUsers ComesToRest
