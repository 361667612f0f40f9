SPECIFICATION OutboxSpec
CONSTANTS
  w1 = w1
  w2 = w2
  Event = {1, 2}
  Worker <- TwoWorkers
  MaxAttempts = 2
  BatchSize = 1
  MaxFailures = 3
  MaxStops = 1
INVARIANTS
  OutboxTypeOK
  ProcessedWasDelivered
  GivenUpOnlyExhausted
PROPERTIES
  ClaimsOnlyUnsettled
  EventuallySettled
CHECK_DEADLOCK FALSE
