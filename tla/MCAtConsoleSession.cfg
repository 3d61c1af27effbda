SPECIFICATION FairSpec
CONSTANTS
  Plain = {"a", "b"}
  CmdMax = 4
  FifoCap = 1
  HostWaits = TRUE
INVARIANT PendingIntact
PROPERTY ImplementsSession
