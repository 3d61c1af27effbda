SPECIFICATION FairSpec
CONSTANTS
  Servers = {a, b}
  Checks = 2
  AddrLen = 2
  RingCap = 4
  MaxReplies = 2
PROPERTY GivesUpJoining
