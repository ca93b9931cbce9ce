SPECIFICATION FairSpec
CONSTANTS
  ADC_BUFFER_SIZE = 4
  FILTER_FIR_DECIMATION_FACTOR = 2
  SampleBound = 6
INVARIANTS
  TypeOK
  NoPhantomSample
  PhantomIsLast
  NothingLeftWaiting
  CounterCoversValues
PROPERTIES
  SamplesInOrder
  RemovalIsAtomic
  ImplementsFifo
  DrainTerminates
  ValuesAreTakenUp
CHECK_DEADLOCK FALSE
