SPECIFICATION Spec
CONSTANTS
  Air <- MCAir
  MaxFlips = 2
  MaxFlight = 2
  Nothing = Nothing
INVARIANTS TypeOK QuietAtRest OnlyMeasured ServerNear
