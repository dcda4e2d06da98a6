SPECIFICATION Spec
CONSTANTS
  Keys = {k0, k1}
  Values = {v0, v1}
  ZeroKey = k0
  ZeroValue = v0
  MAGIC_NUMBER = 1265
  MAX_RECORDS = 2
  U64 = 1048576
  None = None
  Garbled = Garbled
  Paths = {p1}
  Misread <- MCNoRecord
  ShortKey = ShortKey
  LongValue = LongValue
  OddHex = OddHex
  NotHex = NotHex
  MphfLens = {100, 4096}
  Timestamps = {7}
  MaxRecords = 2
  MaxBuilds = 1
  CutLens = {0, 4095, 4096, 4100, 4196, 8192, 8511, 8512, 8831}
SYMMETRY Symmetry
CHECK_DEADLOCK FALSE
INVARIANTS FoundIsGiven
