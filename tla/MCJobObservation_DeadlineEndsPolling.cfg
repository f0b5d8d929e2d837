SPECIFICATION ObservationFairSpec
CHECK_DEADLOCK FALSE
CONSTANT MaxPolls = 3
PROPERTY
  DeadlineEndsPolling
