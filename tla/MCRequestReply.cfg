\* Each cast of programs, under every wiring of their ports and names.
SPECIFICATION FairSpec
CONSTANTS
  c1 = c1
  c2 = c2
  p1 = p1
  r1 = r1
  g1 = g1
  gp1 = gp1
  n1 = n1
  n2 = n2
  np1 = np1
  d1 = d1
  Consumer <- MCConsumer
  Producer <- MCProducer
  Relay <- MCRelay
  Group <- MCGroup
  GroupProducer <- MCGroupProducer
  NfdConsumer <- MCNfdConsumer
  NfdProducer <- MCNfdProducer
  Daemon <- MCDaemon
  Casts <- MCCasts
  Name = {"a", "b"}
  Asked <- MCAsked
  PortMin = 2
  PortMax = 6
  Word = 16
  MaxInFlight = 2
INVARIANTS
  TypeOK
  AnswerFromItsPeer
  OneCallback
PROPERTIES
  ConsumerEnds
CHECK_DEADLOCK FALSE
