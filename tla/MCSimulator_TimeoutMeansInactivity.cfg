SPECIFICATION Spec
CONSTANTS
  NumObjects = 2
  run_iters = 3
  run_time = 1
  test_timeout = 1
  run_infinitely = FALSE
  UintMax = 3
  Signals <- MCSignals
CHECK_DEADLOCK FALSE
PROPERTIES
  TimeoutMeansInactivity
