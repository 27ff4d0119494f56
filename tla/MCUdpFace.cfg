\* Two faces of a forwarder and two messages of the application on a queue of
\* three slots.
SPECIFICATION FairSpec
CONSTANTS
  f1 = f1
  f2 = f2
  app = app
  Face <- MCFace
  Sender <- MCSender
  App = app
  QueueCap = 3
  TableCap = 2
  SockBuf = 2
  MaxApp = 2
INVARIANTS
  TypeOK
  EventsOwned
PROPERTIES
  KeepsContract
  CancelsOwnMessage
  DatagramsRead
  OthersServed
