\* One client face, one server face, two connections; descriptors, the face
\* table and the queue are all small enough to be exhausted.
SPECIFICATION FairSpec
CONSTANTS
  c1 = c1
  srv = srv
  s1 = s1
  s2 = s2
  app = app
  Client <- MCClient
  Server <- MCServer
  Slave <- MCSlave
  Sender <- MCSender
  App = app
  QueueCap = 3
  MaxFd = 3
  TableCap = 3
  MaxApp = 1
  MaxFiles = 1
INVARIANTS
  TypeOK
  DescriptorsOwned
  EventsOwned
  TableMatches
PROPERTIES
  KeepsContract
  
