SPECIFICATION Spec
CONSTANTS
  gb7 = gb7  gb7B = gb7B  xrf = xrf  xrfB = xrfB  ref = ref  refB = refB  dcs = dcs  dcsB = dcsB
  self = self  alice = alice  bob = bob  peer = peer  nocall = nocall
  Remote = {gb7, xrf}
  Reflectors = {xrf}
  Known = {xrf}
  Disabled = {}
  Proto <- MCProto
  Base <- MCBase
  Self = self
  CcsPeer = peer
  NoCall = nocall
  IrcEnabled = TRUE
  StreamIds = {1}
  YourCalls <- MCCcsCalls
  DtmfCommands = {}
  Restrictions = {FALSE}
  Users = {}
  HomeUsers = {}
  RemoteLinks <- MCRemoteLinks
  Startups <- MCCcsStart
  QueryTimeout = 2
  ReconnectTimeout = 3
  WatchdogTimeout = 2
INVARIANTS CcsAlone
PROPERTIES CallRestores Remembered
