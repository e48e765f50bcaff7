SPECIFICATION HSpec
CONSTANTS
  NI = 2  NQ = 2  NM = 1  NT = 0  NS = 0
  BYTESIZE = 4
  Modulus = 3
  RO = {}  DOWN = {}  ONDELAY = {}
  P <- NoTable  S <- NoTable  BlinkS <- NoTable
  Images <- IoImages
  Values = {0}
  StoreImages <- IoStores
  ProgQ = {0}
  ForceIn = {}  ForceOut = {0}
  MaxOps = 2
INVARIANTS TypeOK SnapshotCurrent FlagsFresh
PROPERTIES ForceHolds ImplementsLifecycle RisesAreCounted CountsAreRisesOrResets
