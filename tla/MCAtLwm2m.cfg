SPECIFICATION MCSpec
CONSTANTS
  Unit = 2
  Addrs = {a1, a2}
  Keys = {k1, k2}
  WordValues = {0, 1, 127, 128, 255}
  NoServer = NoServer
SYMMETRY Symmetry
INVARIANTS TypeOK ServerAsTold RightCommand ValuesReadBack
