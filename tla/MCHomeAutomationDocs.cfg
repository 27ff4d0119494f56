\* The commands the documentation tells the user to send.
SPECIFICATION Spec
CONSTANTS
  Publisher <- MCPublisher
  Period = 1
  Payloads <- DocPayloads
  Readings <- MCReadings
  MaxLoss = 0
  MaxStops = 0
  MaxSteps = 0
  QueueMayFill = FALSE
INVARIANTS
  CommandObeyed
