SPECIFICATION MCSpec
CONSTANTS
  Readings <- MCReadings
  Servers = {s1, s2}
  MaxReplies = 2
  OutdoorValues <- MCOutdoorValues
  BatValues <- MCBatValues
  None = None
INVARIANTS TypeOK ShownIsCurrent GlassWhole OneServer DrawnInside
PROPERTIES KeepsUp
