SPECIFICATION Spec
CONSTANTS
  gb7 = gb7  gb7B = gb7B  xrf = xrf  xrfB = xrfB  ref = ref  refB = refB  dcs = dcs  dcsB = dcsB
  self = self  alice = alice  bob = bob  peer = peer  nocall = nocall
  Remote = {ref, refB, dcs, dcsB}
  Reflectors = {ref, refB, dcs, dcsB}
  Known = {ref, refB, dcs, dcsB}
  Disabled = {}
  Proto <- MCProto
  Base <- MCBase
  Self = self
  CcsPeer = peer
  NoCall = nocall
  IrcEnabled = TRUE
  StreamIds = {1}
  YourCalls <- MCLinkCalls
  DtmfCommands = {}
  Restrictions = {FALSE}
  Users = {}
  HomeUsers = {}
  RemoteLinks <- MCRemoteLinks
  Startups <- MCModulesStart
  QueryTimeout = 2
  ReconnectTimeout = 3
  WatchdogTimeout = 2
INVARIANTS FixedStays OneDcs
