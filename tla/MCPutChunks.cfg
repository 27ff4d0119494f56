\* Blocks of two bytes, packets of three, a table of three, two losses.  A
\* program that has written past its table may stop.
SPECIFICATION FairSpec
CONSTANTS
  Block = 2
  MaxChunks = 3
  Sizes <- MCSizes
  Overheads <- MCOverheads
  ChunkSize = 3
  Word = 256
  MaxLoss = 2
INVARIANTS
  TypeOK
  ServesTheFile
  FetchedIsFile
PROPERTIES
  FetchEnds
CHECK_DEADLOCK FALSE
