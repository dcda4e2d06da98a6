SPECIFICATION PowerSpec
CONSTANTS
  Keys = {k0, k1, k2}
  Values = {v0, v1}
  ZeroKey = k0
  ZeroValue = v0
  MAGIC_NUMBER = 1265
  MAX_RECORDS = 2
  U64 = 1048576
  None = None
  Garbled = Garbled
  Paths = {p1}
  Misread <- MCMisread
  ShortKey = ShortKey
  LongValue = LongValue
  OddHex = OddHex
  NotHex = NotHex
  MphfLens = {100}
  Timestamps = {7}
  MaxRecords = 2
  MaxBuilds = 1
INVARIANTS CheckedNeverForeign BuiltIsDurable PassedAndCheckedIsExact VerifiedIsExact
SYMMETRY Symmetry
CHECK_DEADLOCK FALSE
