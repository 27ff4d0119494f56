\* Files of up to three chunks, two runs of the client, a server that has one
\* FILE to open, a network that loses, duplicates and reorders.
SPECIFICATION FairTransferSpec
CONSTANTS
  Files <- AllFiles
  CHUNK_SIZE = 2
  Beyond <- SignatureBeyond
  Reorders = TRUE
  DiskMayFail = TRUE
  MaxLosses = 1
  MaxDup = 1
  MaxRuns = 2
  MaxFiles = 1
INVARIANTS
  TransferTypeOK
  ChunksTile
  SavedInPieces
PROPERTIES
  ClientStops
CHECK_DEADLOCK FALSE
