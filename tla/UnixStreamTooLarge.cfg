\* A packet one byte longer than the buffer.
SPECIFICATION Spec
CONSTANTS
  BufSize = 3
  MaxSend = 4
  MaxSize = 4
  WireCap = 6
  MaxBytes = 8
  CopyForward = TRUE
  QueueMayFill = FALSE
PROPERTIES
  TooLargeBlocks
