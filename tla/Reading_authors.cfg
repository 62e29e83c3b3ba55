SPECIFICATION MCSpec
CONSTANTS
  None = None
  c1 = c1
  NoFile = NoFile
  Client = {c1}
  Files <- MCFiles
  FileSize <- MCSize
  Piece = 2
  Buffer = 3
  MaxBreaks = 1
CHECK_DEADLOCK FALSE
INVARIANTS LookupNotFatal
