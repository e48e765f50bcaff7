SPECIFICATION Spec
CONSTANTS
  Ni = 2
  Nq = 2
  Nai = 1
  NI = 2
  NQ = 2
  NAI = 1
  NAQ = 1
  LONG_BYTES = 1
  Full = 255
  One = 512
  Doubles <- MCDoubles
  Even <- MCEven
  Bytes <- MCBytes
  Streams <- MCStreams
  Files <- MCFiles
  Reals <- MCReals
  Literals = {}
  Ranges <- BothWays
  Undefined = {0}
  None = None
  MaxCalls = 2
INVARIANTS WholeRecords LineShowsOutputs ForceExplained ForceShown
PROPERTY CopyKeepsOrder
CHECK_DEADLOCK FALSE
