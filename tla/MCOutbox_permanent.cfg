\* One loop; a job that the queue refuses MaxRetries times.
SPECIFICATION Spec
CONSTANTS
  w1 = w1
  w2 = w2
  Workers = {w1}
  Events <- TwoEvents
  BatchSize = 1
  MaxRetries = 2
  MaxFaults = 3
PROPERTIES
  PermanentlyFailedIsLeftAlone
CHECK_DEADLOCK FALSE
