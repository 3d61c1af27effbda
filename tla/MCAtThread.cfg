SPECIFICATION FairSpec
CONSTANTS
  Periods = {"short", "tiny"}
  Refused = {"tiny"}
  Absent = Absent
INVARIANTS TypeOK AtRest SettingsKept StaysOnline
PROPERTIES VerdictTells CommandEnds
