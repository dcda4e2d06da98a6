SPECIFICATION IngestSpec
CONSTANTS
  Keys <- MCKeys
  Values <- MCValues
  ZeroKey <- MCZeroKey
  ZeroValue <- MCZeroValue
  Bytes <- MCBytes
  KeyWidth = 2
  ValueWidth = 1
  KeyTexts <- MCKeyTexts
  ValueTexts <- MCValueTexts
  Ragged = Ragged
  MAGIC_NUMBER = 1265
  MAX_RECORDS = 2
  U64 = 1048576
  None = None
  Garbled = Garbled
  Paths = {p1}
  Misread <- MCMisread
  MphfLens = {100}
  Timestamps = {0}
  MaxRecords = 2
  MaxBuilds = 1
CHECK_DEADLOCK FALSE
INVARIANTS IngestIsExact RowsInv
PROPERTIES BadInputLeavesFiles
