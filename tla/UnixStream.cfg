\* Packets up to the size of the buffer; a damaged header may announce more.
\* The message queue may be full, and memcpy may spoil an overlapping copy.
SPECIFICATION FairSpec
CONSTANTS
  BufSize = 3
  MaxSend = 3
  MaxSize = 4
  WireCap = 5
  MaxBytes = 7
  CopyForward = FALSE
  QueueMayFill = TRUE
INVARIANTS
  BufferBounds
  ExactDelivery
  NothingLeftBehind
  RoomToReceive
  Framing
PROPERTIES
  ChannelSpec
  EveryPacketArrives
