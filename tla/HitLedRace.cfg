SPECIFICATION Spec
CONSTANTS
  LOCKOUT_TIME = 5
  LED_TIME = 5
  Channel = {c1, c2}
INVARIANTS
  EveryHitLightsLed
CHECK_DEADLOCK FALSE
