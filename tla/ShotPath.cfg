SPECIFICATION FairSpec
CONSTANTS
  PULSE_LENGTH = 8
  freq <- MCfreq
  BeyondFreq = {0, 1}
  DEBOUNCE_TIME = 2
  Switches = {0, 1, 2}
  Clients <- MCclients
INVARIANTS
  TypeOK
  SquareWave
PROPERTIES
  PulseComesFromPull
  FrequencyFixed
  ShotFindsTransmitterIdle
  PulseImplementsTimer
  PressShoots
  PinGoesLow
CHECK_DEADLOCK FALSE
