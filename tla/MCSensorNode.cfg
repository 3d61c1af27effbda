SPECIFICATION FairSpec
CONSTANTS
  Servers = {a, b}
  Checks = 2
  AddrLen = 2
  RingCap = 4
  MaxReplies = 3
INVARIANTS TypeOK OneSupervisor ClientAsFound
PROPERTIES ImplementsSupervisor KeepsGoing
