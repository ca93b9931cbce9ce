SPECIFICATION Spec
CONSTANTS
  ADC_BUFFER_SIZE = 4
  FILTER_FIR_DECIMATION_FACTOR = 2
  SampleBound = 6
INVARIANT CountIsNumberOfValues
CHECK_DEADLOCK FALSE
