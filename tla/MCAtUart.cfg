SPECIFICATION FairSpec
CONSTANTS
  TxCap = 2
  EnPin = TRUE
INVARIANTS TypeOK NoLostWakeup PowerManaged
PROPERTIES SpeaksAndSleeps
