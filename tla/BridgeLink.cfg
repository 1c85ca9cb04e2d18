SPECIFICATION FairSpec
CONSTANTS
  MaxGen = 2
  MaxCfg = 2
  StartCfg = 1
  MaxLines = 1
  MayHang = TRUE
INVARIANTS SocketOwnership HandshakeBelongsToLink LineIntegrity HeartbeatGuardsLink ConfigConverges ShutdownReleasesSockets
PROPERTIES DeadPeerDropped ParkedIsFreed ShutdownTerminates
