SPECIFICATION Spec
CONSTANTS
  Plain = {"a"}
  CmdMax = 4
  FifoCap = 2
  HostWaits = FALSE
INVARIANT PendingIntact
