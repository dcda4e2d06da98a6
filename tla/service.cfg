SPECIFICATION SystemSpec
CONSTANTS
  Keys = {k0, k1, k2}
  Values = {v0, v1}
  ZeroKey = k0
  ZeroValue = v0
  MAGIC_NUMBER = 1265
  MAX_RECORDS = 2
  U64 = 1048576
  None = None
  Garbled = Garbled
  Paths = {p1}
  Misread <- MCMisread
  MphfLens = {4096}
  Timestamps = {7}
  MaxRecords = 2
  MaxBuilds = 1
  Readers = {r1}
  InPlace = FALSE
  OpenUnfinished = TRUE
INVARIANTS SystemInv ReadersSurvive
PROPERTIES AnswersNeverForeign ImplementsService
CHECK_DEADLOCK FALSE
SYMMETRY Symmetry
