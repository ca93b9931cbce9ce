SPECIFICATION FairSpec
CONSTANTS
  LOCKOUT_TIME = 5
  LED_TIME = 5
  Channel = {c1, c2}
INVARIANTS
  TypeOK
  HitsAreSpaced
  HitsAreFresh
PROPERTIES
  LockoutImplementsTimer
  LedImplementsTimer
  LedGoesOff
  HitIsReported
CHECK_DEADLOCK FALSE
