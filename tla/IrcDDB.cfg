SPECIFICATION Spec
CONSTANTS
  s1 = s1
  s2 = s2
  Servers <- TheServers
  NoServer = NoServer
  Me = Me
  MaxEvents = 2
INVARIANT TypeOK
INVARIANT QueueLive
INVARIANT FreshList
INVARIANT Directory
PROPERTY Recovers
PROPERTY Stops
