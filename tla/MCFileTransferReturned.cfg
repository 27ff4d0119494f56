\* A reliable network, one run, one open file: text without a NUL byte.
SPECIFICATION TransferSpec
CONSTANTS
  Files <- TextFiles
  CHUNK_SIZE = 2
  Beyond <- SignatureBeyond
  Reorders = FALSE
  DiskMayFail = FALSE
  MaxLosses = 0
  MaxDup = 0
  MaxRuns = 1
  MaxFiles = 1
INVARIANTS
  FileReturned
CHECK_DEADLOCK FALSE
