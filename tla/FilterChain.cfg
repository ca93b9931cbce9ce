SPECIFICATION Spec
CONSTANTS
  FILTER_IIR_FILTER_COUNT = 4
  FUDGE_FACTOR = 2
  POWER_OUTPUT_QUEUE_SIZE = 3
  FILTER_FIR_DECIMATION_FACTOR = 2
  firBcoeff <- FirCoeff
  iirAcoeff <- ACoeff
  iirBcoeff <- BCoeff
  FilterTest = {"filter_runTest", "filter_runTestDJs"}
  ForcedPower = {0, 1, 3}
  TestPower <- SecondDataSet
  Input = {0, 1}
  Garbage = {0, 5}
  MaxSamples = 8
INVARIANTS
  TypeOK
  SortIsRight
PROPERTIES
  HitIsOverMedian
  ImplementsDifferenceEquation
  GameStartsWithoutHit
CHECK_DEADLOCK FALSE
