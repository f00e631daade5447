\* Two loops, batches of two, two faults of any kind.
SPECIFICATION FairSpec
CONSTANTS
  w1 = w1
  w2 = w2
  Workers = {w1, w2}
  Events <- TwoEvents
  BatchSize = 2
  MaxRetries = 2
  MaxFaults = 2
INVARIANTS
  TypeOK
  AcknowledgedIsQueued
  AttemptsAreFailures
PROPERTIES
  EventuallyQueued
  EventuallyAcknowledged
CHECK_DEADLOCK FALSE
