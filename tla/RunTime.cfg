SPECIFICATION Spec
CONSTANTS
  COUNTER_SIZE = 3
  INTERVAL_TIMER_MAX_TIMER_INDEX = 2
  privateTimerTicksPerHeartbeat = 1
  InterruptBound = 3
INVARIANTS TypeOK StatisticsAreConsistent DetectedAtMostOnce SetUpPrecedesIsr
PROPERTIES ReadIsCoherent ImplementsStopwatch
CHECK_DEADLOCK FALSE
