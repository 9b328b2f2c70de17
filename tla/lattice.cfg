SPECIFICATION LatticeFairSpec
CONSTANTS
  Nothing = Nothing
  Peer = {"p1", "p2"}
  PeerStates <- MCPeerStates
  Scene <- MCScene
  Call = {"c1", "c2"}
  Cap = {"agent"}
  Task = {k1, k2}
  RunId = {r1, r2}
  Ttl = 2
INVARIANTS
  CachedFresh
  OneAnswer
PROPERTIES
  SyncSurvives
CHECK_DEADLOCK FALSE
