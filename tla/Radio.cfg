SPECIFICATION Spec
CONSTANTS
  gb7 = gb7  gb7B = gb7B  xrf = xrf  xrfB = xrfB  ref = ref  refB = refB  dcs = dcs  dcsB = dcsB
  self = self  alice = alice  bob = bob  peer = peer  nocall = nocall
  Remote = {gb7}
  Reflectors = {}
  Known = {}
  Disabled = {}
  Proto <- MCProto
  Base <- MCBase
  Self = self
  CcsPeer = peer
  NoCall = nocall
  IrcEnabled = TRUE
  QueryTimeout = 2
  ReconnectTimeout = 3
  StreamIds = {1, 2}
  YourCalls <- MCRadioCalls
  DtmfCommands <- MCRadioDtmf
  Restrictions = {TRUE, FALSE}
  Users = {alice, bob}
  HomeUsers = {bob}
  RemoteLinks = {}
  Startups <- MCNever
  WatchdogTimeout = 3
INVARIANTS TypeOK Exclusive Guarded RouteResources NothingLeft
PROPERTIES KeepsPromise Released
