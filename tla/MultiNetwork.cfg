\* Questions, broadcasts and a lost question over two ircDDB networks.
SPECIFICATION Spec
CONSTANTS
  N = 2
  Users = {"u1"}
  Repeaters = {"r1"}
  MaxStamp = 2
  MaxFinds = 2
  MaxNews = 1
  MaxLost = 1
INVARIANT TypeOK
INVARIANT Completable
PROPERTY Answered
CHECK_DEADLOCK FALSE
