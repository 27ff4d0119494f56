\* The sensor, the application and the light, one loss, one clock setting.
SPECIFICATION FairSpec
CONSTANTS
  Publisher <- MCPublisher
  Period = 2
  Payloads <- MCPayloads
  Readings <- MCReadings
  MaxLoss = 1
  MaxStops = 1
  MaxSteps = 1
  QueueMayFill = TRUE
INVARIANTS
  TypeOK
  LightHasCause
  SwitchAnnounced
PROPERTIES
  PublishesAgain
  HotThenLight
